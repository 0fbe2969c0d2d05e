----------------------------- MODULE MCPipelines ---------------------------
(***************************************************************************)
(* Small instances of Pipelines for TLC.                                   *)
(***************************************************************************)
EXTENDS Pipelines

a == 97
b == 98

MCSources ==
  {<<>>, <<a>>, <<b, a, LF, a, LF>>, <<a, SPACE, b, LF, a, LF, a, SPACE, b, LF>>,
   <<b, LF, LF, SPACE, SPACE, SPACE, a, LF>>}

(***************************************************************************)
(* Tools.                                                                  *)
(***************************************************************************)
GrepA(show, invert) ==
  [tool |-> "grep", c |-> a, invert |-> invert, max |-> -1, show |-> show,
   before |-> 1, after |-> 0]
Sort(key, numeric, reverse, unique) ==
  [tool |-> "sort", key |-> key, numeric |-> numeric, reverse |-> reverse, unique |-> unique]
Uniq(count, duplicates, unique) ==
  [tool |-> "uniq", count |-> count, duplicates |-> duplicates, unique |-> unique]
Tr(set1, set2, delete, squeeze) ==
  [tool |-> "tr", set1 |-> set1, set2 |-> set2, delete |-> delete, squeeze |-> squeeze]
Cut(spec, fields) == [tool |-> "cut", spec |-> spec, fields |-> fields, delim |-> SPACE]
Head1 == [tool |-> "head", n |-> 1, bytes |-> FALSE]
Head2 == [tool |-> "head", n |-> 2, bytes |-> FALSE]
Tail1 == [tool |-> "tail", n |-> 1]
Wc(show) == [tool |-> "wc", show |-> show]

MCTool ==
  {GrepA("lines", FALSE), GrepA("lines", TRUE), GrepA("context", FALSE),
   GrepA("only", FALSE), GrepA("count", FALSE), GrepA("quiet", FALSE),
   [GrepA("lines", FALSE) EXCEPT !.max = 1],
   Sort(0, FALSE, FALSE, FALSE), Sort(1, TRUE, TRUE, TRUE),
   Uniq(FALSE, FALSE, FALSE), Uniq(TRUE, TRUE, FALSE), Uniq(FALSE, FALSE, TRUE),
   Head1, Head2, [Head2 EXCEPT !.bytes = TRUE], Tail1,
   Cut(<<<<1>>, <<2, Missing>>>>, TRUE), Cut(<<<<Missing, 2>>>>, FALSE),
   Wc("lines"), Wc("words"), Wc("bytes"),
   Tr(<<a>>, <<b>>, FALSE, FALSE), Tr(<<LF>>, <<>>, TRUE, FALSE),
   Tr(<<SPACE, a>>, <<LF>>, FALSE, TRUE), Tr(<<SPACE>>, <<>>, FALSE, TRUE),
   [tool |-> "rev"], [tool |-> "tac"], [tool |-> "nl"], [tool |-> "column"],
   [tool |-> "fold", width |-> 2, spaces |-> TRUE],
   [tool |-> "fmt", width |-> 3, split |-> FALSE],
   [tool |-> "fmt", width |-> 2, split |-> TRUE],
   [tool |-> "expand", n |-> 2], [tool |-> "unexpand", n |-> 2, all |-> TRUE],
   [tool |-> "unexpand", n |-> 2, all |-> FALSE],
   [tool |-> "paste"], [tool |-> "comm", suppress |-> {1}],
   [tool |-> "join", unpaired |-> {1, 2}]}

(***************************************************************************)
(* Scripts.                                                                *)
(***************************************************************************)
LastLine == <<[at |-> "last"]>>
Line(n) == <<[at |-> "line", n |-> n]>>
Re(c) == <<[at |-> "regex", c |-> c]>>
Odd == <<[at |-> "step", n |-> 1, step |-> 2]>>

Cmd(range, negated, op) == [range |-> range, negated |-> negated, op |-> op]
Every(op) == Cmd(<<>>, FALSE, op)
With(cmd, field, v) == cmd @@ (field :> v)
Goto_(op, l) == With(Every(op), "label", l)
Label(l) == With(Every(":"), "label", l)
S(c, rep, g, nth, p) ==
  Every("s") @@ [c |-> c, rep |-> rep, g |-> g, nth |-> nth, p |-> p]
Y == Every("y") @@ [from |-> a, to |-> b]
Braces(range, list) == With(Cmd(range, FALSE, "{"), "list", list)
Text(range, op) == With(Cmd(range, FALSE, op), "text", <<b>>)

Loud(list) == [list |-> list, quiet |-> FALSE, in_place |-> FALSE]
Quiet(list) == [Loud(list) EXCEPT !.quiet = TRUE]


Head9 == [Head2 EXCEPT !.n = 9]
Known(s, t) == [script |-> s, tool |-> t]
Swap == S(a, <<b>>, FALSE, 0, FALSE)

MCOneLiner ==
  {Known(Loud(<<Cmd(Line(2), FALSE, "q")>>), Head2),
   Known(Loud(<<Cmd(Line(1) \o Line(2), TRUE, "d")>>), Head2),
   Known(Quiet(<<Cmd(Line(1) \o Re(97), FALSE, "p"), Every("q")>>), Head1),
   Known(Loud(<<Cmd(LastLine, TRUE, "d")>>), Tail1),
   Known(Quiet(<<Label("l"), Cmd(LastLine, FALSE, "p"), Every("N"), Goto_("b", "l")>>), Head9),
   Known(Loud(<<Every("n"), Every("n")>>), Head9),
   Known(Loud(<<Cmd(Line(1), TRUE, "G"), Every("h"), Cmd(LastLine, TRUE, "d")>>),
         [tool |-> "tac"]),
   Known(Quiet(<<Braces(Re(a), <<Every("p")>>)>>), GrepA("lines", FALSE)),
   Known(Loud(<<Cmd(Re(a), FALSE, "d")>>), GrepA("lines", TRUE)),
   Known(Loud(<<Y>>), Tr(<<a>>, <<b>>, FALSE, FALSE)),
   Known(Loud(<<S(a, <<b>>, TRUE, 0, FALSE)>>), Tr(<<a>>, <<b>>, FALSE, FALSE)),
   Known(Loud(<<Label("l"), Swap, Goto_("t", "l")>>), Tr(<<a>>, <<b>>, FALSE, FALSE)),
   Known(Loud(<<Label("l"), Swap, Goto_("T", ""), Goto_("b", "l")>>),
         Tr(<<a>>, <<b>>, FALSE, FALSE))}

\* Scripts that are no tool: every other command, branches for ever, and
\* groups that are left early.
MCScript ==
  {p.script : p \in MCOneLiner} \cup
  {Loud(<<Label("l"), Goto_("b", "l")>>),
   Loud(<<Braces(<<>>, <<Text(Odd, "a"), Every("n"), Goto_("b", "")>>), Text(Line(1), "i")>>),
   Loud(<<Label("l"), Every("H"), Braces(Re(b), <<Goto_("t", "l"), Every("x")>>),
          S(a, <<a, a>>, FALSE, 2, TRUE)>>),
   Loud(<<Text(Re(a) \o Re(b), "c"), Every("noop"), Every("="), Every("g")>>),
   [Loud(<<S(a, <<a, b>>, TRUE, 0, TRUE), Cmd(LastLine, FALSE, "H")>>) EXCEPT !.in_place = TRUE]}

MCFiles == {<<>>, <<b, a, LF, a, LF>>}

\* The file is one of two, and a sed runs on the first texts alone.
FewJobs ==
  /\ file \in MCFiles
  /\ Working => IF sed.job.in_place THEN text = <<>> /\ file # <<>>
                ELSE text \in MCSources /\ file = <<>>
=============================================================================
