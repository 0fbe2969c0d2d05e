------------------------------- MODULE Pipelines ---------------------------
(***************************************************************************)
(* Commands on text one after the other: a pipeline's tools and its sed    *)
(* scripts, on the text that runs through it and a file beside it.         *)
(***************************************************************************)
EXTENDS TextTools, SedMachine

CONSTANTS
  Sources,  \* the texts a pipeline and the file start with
  Tool,     \* the tools and their options
  Script,   \* the sed scripts, with quiet and whether they edit the file
  MaxText   \* bound on the text and the file

VARIABLES
  text,  \* what runs through the pipeline
  file,  \* the content of the file beside it
  sed    \* the sed that runs, or Idle

vars == <<text, file, sed>>

Idle == [job |-> "none"]
Working == sed # Idle

Apply(t, w, v) ==
  CASE t.tool = "grep"     -> grep(t, w)
    [] t.tool = "sort"     -> sort(t, w)
    [] t.tool = "uniq"     -> uniq(t, w)
    [] t.tool = "head"     -> head(t, w)
    [] t.tool = "tail"     -> tail(t, w)
    [] t.tool = "cut"      -> cut(t, w)
    [] t.tool = "wc"       -> wc(t, w)
    [] t.tool = "tr"       -> tr(t, w)
    [] t.tool = "rev"      -> rev(w)
    [] t.tool = "tac"      -> tac(w)
    [] t.tool = "nl"       -> nl(w)
    [] t.tool = "fold"     -> fold(t, w)
    [] t.tool = "fmt"      -> fmt(t, w)
    [] t.tool = "column"   -> column_table(w)
    [] t.tool = "expand"   -> expand(t, w)
    [] t.tool = "unexpand" -> unexpand(t, w)
    [] t.tool = "paste"    -> paste(w, v)
    [] t.tool = "comm"     -> comm(t, w, v)
    [] t.tool = "join"     -> join(t, w, v)

Init == text \in Sources /\ file \in Sources /\ sed = Idle

\* The next tool of the pipeline.
Filter ==
  /\ ~Working
  /\ \E t \in Tool : \E out \in {Apply(t, text, file).out} :
       Len(out) <= MaxText /\ text' = out
  /\ UNCHANGED <<file, sed>>

\* What has run through the pipeline becomes the file.
Store == ~Working /\ file' = text /\ UNCHANGED <<text, sed>>

StartSed ==
  /\ ~Working
  /\ \E s \in Script :
       sed' = [job |-> s, m |-> Machine(s.list, s.quiet,
                                        Lines(IF s.in_place THEN file ELSE text))]
  /\ UNCHANGED <<text, file>>

StepSed ==
  /\ Working /\ ~Over(sed.m)
  /\ sed' = [sed EXCEPT !.m = execute_sed(@)]
  /\ UNCHANGED <<text, file>>

\* In place, the file is written even when a limit has cut the output.  A limit
\* ends the script and its output is lost; the shell's next script starts with a
\* text of its own.
EndSed ==
  /\ Working /\ Over(sed.m)
  /\ file' = IF sed.job.in_place THEN sed.m.output ELSE file
  /\ IF sed.m.limit # "none" THEN text' \in Sources
     ELSE text' = IF sed.job.in_place THEN text ELSE sed.m.output
  /\ sed' = Idle

Next == Filter \/ Store \/ StartSed \/ StepSed \/ EndSed
Spec == Init /\ [][Next]_vars /\ WF_vars(StepSed) /\ WF_vars(EndSed)

(***************************************************************************)
(* What the text commands promise of each other.                           *)
(***************************************************************************)
CONSTANT OneLiner   \* scripts known to do what a tool does, with that tool

(***************************************************************************)
(* Tools.                                                                  *)
(***************************************************************************)
Count(ls, l) == Cardinality({i \in DOMAIN ls : ls[i] = l})
Content(w) == UNION {{l[i] : i \in DOMAIN l} : l \in {Lines(w)[j] : j \in DOMAIN Lines(w)}}
Grep(c, show, invert) ==
  [c |-> c, invert |-> invert, max |-> -1, show |-> show, before |-> 1, after |-> 0]
Chars == {97, 98, SPACE}

\* grep and grep -v divide the lines between them; around matches, context
\* prints the lines next to them with one mark for each gap.
GrepDivides(w) ==
  \A c \in Chars :
    LET all == Lines(w)
        yes == Lines(grep(Grep(c, "lines", FALSE), w).out)
        no == Lines(grep(Grep(c, "lines", TRUE), w).out)
        ctx == Lines(grep(Grep(c, "context", FALSE), w).out)
        gap == Count(ctx, Dash) - Count(all, Dash)
    IN  /\ \A i \in DOMAIN all : Count(all, all[i]) = Count(yes, all[i]) + Count(no, all[i])
        /\ Len(all) = Len(yes) + Len(no)
        /\ Len(yes) = 0 => ctx = <<>>
        /\ Dash \notin {all[i] : i \in DOMAIN all} => gap < Len(yes) \/ gap = 0

\* head and tail of a text are all of it; uniq counts every line once; rev and
\* tac undo themselves.
PartsAreWhole(w) ==
  \A n \in 0..Len(Lines(w)) :
    /\ Lines(head([n |-> n, bytes |-> FALSE], w).out)
         \o Lines(tail([n |-> Len(Lines(w)) - n], w).out) = Lines(w)
    /\ Lines(rev(rev(w).out).out) = Lines(w)
    /\ Lines(tac(tac(w).out).out) = Lines(w)

RECURSIVE Concat(_)
Concat(ls) == IF ls = <<>> THEN <<>> ELSE Head(ls) \o Concat(Tail(ls))

\* Layout changes nothing else: expand undoes unexpand, fold cuts lines and
\* drops nothing, fmt keeps the words and their order.
LayoutOnly(w) ==
  /\ TAB \notin Content(w) => \A all \in BOOLEAN, n \in 2..3 :
       Lines(expand([n |-> n], unexpand([n |-> n, all |-> all], w).out).out) = Lines(w)
  /\ \A spaces \in BOOLEAN :
       LET f == Lines(fold([width |-> 2, spaces |-> spaces], w).out)
       IN  Concat(f) = Concat(Lines(w)) /\ \A i \in DOMAIN f : Len(f[i]) <= 2
  /\ Words(fmt([width |-> 3, split |-> FALSE], w).out) = Words(w)

\* The text commands lose, repeat and reorder nothing they should not,
\* whatever ran before them.
ToolsConserve == ~Working => GrepDivides(text) /\ PartsAreWhole(text) /\ LayoutOnly(text)

Sorted(w) == sort([reverse |-> FALSE, numeric |-> FALSE, unique |-> FALSE, key |-> 0], w).out

\* comm puts each line of each file in the column of the files that have it,
\* as often as they have it, once both are sorted.
CommDivides(w, v) ==
  LET rows == Comm(Lines(Sorted(w)), Lines(Sorted(v)))
      In(cols, l) == Cardinality({k \in DOMAIN rows : rows[k].col \in cols /\ rows[k].line = l})
      Least(a, b) == LeastOf(a, b)
  IN  \A l \in {Lines(w)[i] : i \in DOMAIN Lines(w)} \cup {Lines(v)[i] : i \in DOMAIN Lines(v)} :
        /\ In({1, 3}, l) = Count(Lines(w), l)
        /\ In({2, 3}, l) = Count(Lines(v), l)
        /\ In({3}, l) = Least(Count(Lines(w), l), Count(Lines(v), l))

Pairs(keys1, keys2) ==
  {<<i, j>> \in (DOMAIN keys1) \X (DOMAIN keys2) : keys1[i] = keys2[j]}
Ordered(keys) == \A i, j \in DOMAIN keys : i < j => ~Below(keys[j], keys[i])

\* On files sorted by key, join makes every pair of lines with the same key
\* once, and with -a every line of a file that has no partner once.
JoinIsRelational(keys1, keys2) ==
  Ordered(keys1) /\ Ordered(keys2) =>
    LET rows == JoinAll([unpaired |-> {1, 2}], keys1, keys2)
        lone1 == {i \in DOMAIN keys1 : \A j \in DOMAIN keys2 : keys1[i] # keys2[j]}
        lone2 == {j \in DOMAIN keys2 : \A i \in DOMAIN keys1 : keys1[i] # keys2[j]}
        want == Pairs(keys1, keys2) \cup {<<i, 0>> : i \in lone1} \cup {<<0, j>> : j \in lone2}
    IN  {rows[k] : k \in DOMAIN rows} = want /\ Len(rows) = Cardinality(want)

\* Sorting brings every line once, in order of the keys; merging two sorted
\* files (comm, join) is what the relations say.
MergesAreRelational ==
  ~Working =>
    /\ \A l \in {Lines(text)[i] : i \in DOMAIN Lines(text)} :
         Count(Lines(Sorted(text)), l) = Count(Lines(text), l)
    /\ Ordered(Lines(Sorted(text)))
    /\ CommDivides(text, file)
    /\ JoinIsRelational(Keys(Lines(Sorted(text))), Keys(Lines(Sorted(file))))

(***************************************************************************)
(* sed.                                                                    *)
(***************************************************************************)
\* The scripts everybody writes do what the commands they stand for do: two
\* implementations of head, tail, tac, grep, tr, nl and wc agree.
OneLinersAgree ==
  Working /\ Over(sed.m) /\ sed.m.limit = "none" /\ ~sed.job.in_place =>
    \A p \in OneLiner :
      p.script = sed.job => Lines(sed.m.output) = Lines(Apply(p.tool, text, file).out)

\* Every sed ends, a script that branches for ever by the limit on cycles.
SedEnds == Working ~> ~Working
=============================================================================
