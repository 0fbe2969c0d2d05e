------------------------------- MODULE Words --------------------------------
(***************************************************************************)
(* A script of simple commands whose words are expanded: set --,           *)
(* assignments, ((...)), read, mapfile and getopts, each one after the     *)
(* other, as src/interpreter/walker.rs runs them.  The state t is what     *)
(* expansions read and change.  Commands keep a position in the standard   *)
(* input (offset) and in the parameters (sub, before).                     *)
(***************************************************************************)
EXTENDS WordExpand

(***************************************************************************)
(* The builtins of src/interpreter/builtins.rs that turn text into         *)
(* variables: read, mapfile and getopts, as functions of the environment.  *)
(* An outcome has err, env, the status and what else the builtin keeps.    *)
(* Flags are taken as parsed; timeouts and descriptors are not modelled.   *)
(***************************************************************************)
\* Assignments <<name, word>> in order, up to the first that fails.
RECURSIVE SetVars(_, _)
SetNext(r, sets) == IF r.err # "ok" THEN r ELSE SetVars(r.env, sets)
SetVars(env, sets) ==
  IF sets = <<>> THEN Ok(env)
  ELSE SetNext(set_variable(env, sets[1][1], sets[1][2]), Tail(sets))

(***************************************************************************)
(* read.  o has raw (-r), delim, n (-n, or 0), big (-N, or 0), array (-a,  *)
(* or Empty) and names.                                                    *)
(***************************************************************************)
Unit(c, esc) == [c |-> c, q |-> esc, g |-> esc]

\* The units up to the delimiter or the count, and what they consume.  A
\* backslash takes the next character; before a newline both are gone.
RECURSIVE scan_units(_, _, _, _)
scan_units(data, i, units, o) ==
  LET stop(used, found) == [units |-> units, consumed |-> used, found |-> found]
      next(used, more) == scan_units(data, used + 1, units \o more, o)
  IN  IF i > Len(data) \/ (o.n # 0 /\ Len(units) >= o.n) THEN stop(i - 1, FALSE)
      ELSE IF ~o.raw /\ data[i] = 92
      THEN IF i = Len(data) THEN stop(i, FALSE)
           ELSE next(i + 1, IF data[i + 1] = LF THEN <<>> ELSE <<Unit(data[i + 1], TRUE)>>)
      ELSE IF data[i] = o.delim THEN stop(i, TRUE)
      ELSE next(i, <<Unit(data[i], FALSE)>>)

scan_read_units(data, o) ==
  LET r == scan_units(data, 1, <<>>, o)
      n == SmallerOf(o.big, Len(data))
  IN  IF o.big # 0
      THEN [units |-> [i \in 1..n |-> Unit(data[i], FALSE)], consumed |-> n, eof |-> n < o.big]
      ELSE [units |-> r.units, consumed |-> r.consumed,
            eof |-> ~r.found /\ r.consumed >= Len(data)]

\* Where the trailing run of units that satisfy a set ends: the length before.
BeforeRun(units, cs) ==
  MostIn({n \in 0..Len(units) : n = 0 \/ ~Separates(units[n], cs)})
Blanks(ifs) == Range(ifs) \cap White
Others(ifs) == Range(ifs) \ White
Untailed(units, cs) == SubSeq(units, 1, BeforeRun(units, cs))
trim_read_ifs_ws(units, ifs) ==
  From(Untailed(units, Blanks(ifs)), Past(Untailed(units, Blanks(ifs)), 1, Blanks(ifs)))

\* The last name gets the rest of the line.  One separator at its end goes,
\* unless a blank is before it, and blanks between escaped blanks are a mark.
RestOfLine(units, ifs) ==
  LET u == Untailed(units, Blanks(ifs))
      v == Untailed(u, Others(ifs))
      w == IF Len(u) - Len(v) = 1 /\ \A i \in DOMAIN v : ~Separates(v[i], Blanks(ifs))
           THEN v ELSE u
  IN  IF /\ Len(w) >= 3 /\ w[1].q /\ Last(w).q
         /\ \A i \in DOMAIN w : w[i].c \in White
         /\ \E i \in DOMAIN w : ~w[i].q
      THEN <<1>> ELSE TextIn(w)

\* One field for each name but the last, and the separators after it.
RECURSIVE FieldsFor(_, _, _)
FieldsFor(units, names, ifs) ==
  LET i == LeastIn({j \in 1..(Len(units) + 1) :
                      j > Len(units) \/ Separates(units[j], Range(ifs))})
      j == Past(units, i, Blanks(ifs))
      k == IF j <= Len(units) /\ Separates(units[j], Others(ifs))
           THEN Past(units, j + 1, Blanks(ifs)) ELSE j
  IN  IF Len(names) = 1 THEN <<<<names[1], RestOfLine(units, ifs)>>>>
      ELSE <<<<names[1], TextIn(SubSeq(units, 1, i - 1))>>>>
             \o FieldsFor(From(units, k), Tail(names), ifs)

REPLY == <<82, 69, 80, 76, 89>>
assign_read_fields_to_vars(units, names, ifs) ==
  IF names = <<REPLY>> \/ ifs = Empty THEN <<<<names[1], TextIn(units)>>>>
  ELSE IF Len(names) = 1 THEN <<<<names[1], TextIn(trim_read_ifs_ws(units, ifs))>>>>
  ELSE FieldsFor(From(units, Past(units, 1, Blanks(ifs))), names, ifs)

\* IFS itself is read, not what it refers to.
ReadIfs(env) == IF IsSet(env, IFS) THEN as_scalar(env[IFS]) ELSE <<SP, TAB, LF>>

RECURSIVE SetElements(_, _, _, _)
SetNextElement(r, n, values, i) ==
  IF r.err # "ok" THEN r ELSE SetElements(r.env, n, values, i)
SetElements(env, n, values, i) ==
  IF values = <<>> THEN Ok(env)
  ELSE SetNextElement(set_array_element(env, n, i, values[1]), n, Tail(values), i + 1)

TextsIn(fields) == [i \in DOMAIN fields |-> TextIn(fields[i])]
ReadFields(units, ifs) ==
  IF units = <<>> THEN <<>>
  ELSE IF ifs = Empty THEN <<TextIn(units)>>
  ELSE TextsIn(split_ifs_quoted_chars(units, ifs))

\* What is read is consumed even when storing it fails; nothing to read is
\* status 1, and leaves the names as they are.
NamesRead(o) == IF o.names = <<>> THEN <<REPLY>> ELSE o.names
Line(names, w) == [i \in DOMAIN names |-> <<names[i], IF i = 1 THEN w ELSE Empty>>]
commit_read_input(env, units, o, ifs) ==
  IF o.array # Empty
  THEN SetElements(Put(env, o.array, Var(Bare("indexed"), {})), o.array, ReadFields(units, ifs), 0)
  ELSE SetVars(env, IF o.big # 0 THEN Line(NamesRead(o), TextIn(units))
                    ELSE assign_read_fields_to_vars(units, NamesRead(o), ifs))
ReadEnds(r, offset, eof) ==
  [err |-> r.err, env |-> r.env, status |-> IF eof THEN 1 ELSE 0, offset |-> offset]
Scanned(env, scan, offset, o) ==
  IF Len(scan.units) > MaxString THEN ReadEnds(Err(env, "limit"), offset + scan.consumed, TRUE)
  ELSE ReadEnds(commit_read_input(env, scan.units, o, ReadIfs(env)), offset + scan.consumed,
                scan.eof)
builtin_read(env, input, offset, o) ==
  IF offset >= Len(input) THEN ReadEnds(Ok(env), offset, TRUE)
  ELSE Scanned(env, scan_read_units(From(input, offset + 1), o), offset, o)

(***************************************************************************)
(* mapfile.  o has strip (-t), delim, count (-n, or -1), skip (-s),        *)
(* origin (-O) and array.                                                  *)
(***************************************************************************)
RECURSIVE split_keeping_delimiter(_, _)
split_keeping_delimiter(w, d) ==
  LET i == LeastIn({j \in DOMAIN w : w[j] = d})
  IN  IF w = <<>> THEN <<>> ELSE IF i = NoMatch THEN <<w>>
      ELSE <<SubSeq(w, 1, i)>> \o split_keeping_delimiter(From(w, i + 1), d)

\* Only an array keeps its elements when there is an origin.
builtin_mapfile(env, input, o) ==
  LET lines == From(split_keeping_delimiter(input, o.delim), o.skip + 1)
      n == IF o.count < 0 THEN Len(lines) ELSE SmallerOf(o.count, Len(lines))
      ended(w) == w # <<>> /\ Last(w) = o.delim /\ o.strip
      value(w) == IF ended(w) THEN SubSeq(w, 1, Len(w) - 1) ELSE w
      old == IF o.origin # 0 /\ IsKind(env, o.array, "indexed") THEN env[o.array].at ELSE <<>>
      at == [k \in DOMAIN old \cup o.origin..(o.origin + n - 1) |->
               IF k \in o.origin..(o.origin + n - 1) THEN value(lines[k - o.origin + 1])
               ELSE old[k]]
      full == n > 0 /\ Cardinality(DOMAIN old \cup o.origin..(o.origin + n - 2)) >= MaxElements
  IN  IF full THEN Err(env, "limit")
      ELSE Ok(Put(env, o.array, Var([kind |-> "indexed", at |-> at], {})))

(***************************************************************************)
(* getopts.  o has spec, silent, n and args: what is kept between calls is *)
(* OPTIND, the position sub inside an argument, and the arguments of the   *)
(* call before.                                                            *)
(***************************************************************************)
OPTIND == <<79, 80, 84, 73, 78, 68>>
OPTARG == <<79, 80, 84, 65, 82, 71>>
DASH == 45
COLON == 58
QUERYWORD == <<63>>

OptInd(env) ==
  LET w == ScalarOf(env, OPTIND)
  IN  IF Digits(w) THEN LargerOf(1, ValueOf(w)) ELSE 1

Named(o, w) == IF o.n \in Valid THEN <<<<o.n, w>>>> ELSE <<>>
NoArgument(env) == IF IsSet(env, OPTARG) THEN <<<<OPTARG, Empty>>>> ELSE <<>>
OptIndIs(k) == <<<<OPTIND, Numeral(k)>>>>
Reports(o) == IF o.n \in Valid THEN 0 ELSE 1

GetoptsEnds(env, sets, sub, status) ==
  LET r == SetVars(env, sets)
  IN  [err |-> r.err, env |-> r.env, sub |-> sub, status |-> status]

IsOption(w) == Len(w) > 1 /\ w[1] = DASH /\ w # <<DASH, DASH>>
SpecAt(o, c) == LeastIn({i \in DOMAIN o.spec : o.spec[i] = c})
TakesArgument(o, c) == SpecAt(o, c) < Len(o.spec) /\ o.spec[SpecAt(o, c) + 1] = COLON

\* Mutant: the position in an argument stays when the argument is done.
Onward_stays(word, k, sub) ==
  IF sub + 1 < Len(word) - 1 THEN [sets |-> <<>>, sub |-> sub + 1]
  ELSE [sets |-> OptIndIs(k + 1), sub |-> sub]

\* After the option at sub of argument k: the next one of it, or the next.
Onward(word, k, sub) ==
  IF sub + 1 < Len(word) - 1 THEN [sets |-> <<>>, sub |-> sub + 1]
  ELSE [sets |-> OptIndIs(k + 1), sub |-> 0]

MissingArgument(env, o, k, c, reset) ==
  IF reset THEN GetoptsEnds(env, OptIndIs(k + 1) \o NoArgument(env) \o Named(o, QUERYWORD), 0, 1)
  ELSE IF o.silent
  THEN GetoptsEnds(env, OptIndIs(k + 1) \o Named(o, <<COLON>>) \o <<<<OPTARG, <<c>>>>>>, 0,
                   Reports(o))
  ELSE GetoptsEnds(env, OptIndIs(k + 1) \o Named(o, QUERYWORD), 0, Reports(o))

OptionWithArgument(env, o, k, sub, c, reset) ==
  LET rest == From(o.args[k], sub + 3)
      argument(w, next) ==
        GetoptsEnds(env, <<<<OPTARG, w>>>> \o OptIndIs(next) \o Named(o, <<c>>), 0, Reports(o))
  IN  IF rest # <<>> THEN argument(rest, k + 1)
      ELSE IF k < Len(o.args) THEN argument(o.args[k + 1], k + 2)
      ELSE MissingArgument(env, o, k, c, reset)

UnknownOption(env, o, k, sub, c) ==
  LET on == Onward(o.args[k], k, sub)
  IN  GetoptsEnds(env, Named(o, QUERYWORD) \o <<<<OPTARG, IF o.silent THEN <<c>> ELSE Empty>>>>
                         \o on.sets, on.sub, Reports(o))

PlainOption(env, o, k, sub, c) ==
  LET on == Onward(o.args[k], k, sub)
  IN  GetoptsEnds(env, NoArgument(env) \o on.sets \o Named(o, <<c>>), on.sub, Reports(o))

\* One call: the option at sub of argument k.
GetoptsAt(env, o, k, sub, reset) ==
  LET c == o.args[k][sub + 2]
  IN  IF SpecAt(o, c) = NoMatch THEN UnknownOption(env, o, k, sub, c)
      ELSE IF TakesArgument(o, c) THEN OptionWithArgument(env, o, k, sub, c, reset)
      ELSE PlainOption(env, o, k, sub, c)
NoMore(o, k) ==
  IF k <= Len(o.args) /\ o.args[k] = <<DASH, DASH>> THEN OptIndIs(k + 1) ELSE <<>>
Refused(r) == [err |-> r.err, env |-> r.env, sub |-> 0, status |-> 1]

RECURSIVE GetoptsFrom(_, _, _, _, _)
\* Arguments that are not those of the call before start over, whenever
\* OPTIND is past them.
GetoptsReset(r, o) ==
  IF r.err # "ok" THEN Refused(r) ELSE GetoptsFrom(r.env, o, 1, 0, TRUE)
GetoptsStart(env, o, k, sub) ==
  IF o.fresh /\ k > Len(o.args) THEN GetoptsReset(SetVars(env, OptIndIs(1)), o)
  ELSE GetoptsFrom(env, o, k, sub, FALSE)
GetoptsNext(r, o, k) == IF r.err # "ok" THEN Refused(r) ELSE GetoptsStart(r.env, o, k, 0)
GetoptsFrom(env, o, k, sub, reset) ==
  IF k > Len(o.args) \/ (k <= Len(o.args) /\ ~IsOption(o.args[k]))
  THEN GetoptsEnds(env, Named(o, QUERYWORD) \o NoArgument(env) \o NoMore(o, k), 0, 1)
  ELSE IF sub >= Len(o.args[k]) - 1 THEN GetoptsNext(SetVars(env, OptIndIs(k + 1)), o, k + 1)
  ELSE GetoptsAt(env, o, k, sub, reset)

\* The arguments are compared as one text: none are like an empty one.
Signature(args) == IF args = <<Empty>> THEN <<>> ELSE args
builtin_getopts(env, sub, before, g, args) ==
  GetoptsStart(env, [spec |-> g.spec, silent |-> g.silent, n |-> g.n, args |-> args,
                     fresh |-> before # Signature(args)], OptInd(env), sub)

CONSTANTS
  StartEnv,        \* the environment a script starts with
  StartArgs,       \* and its arguments
  Settings,        \* what set and shopt make of the options: [nounset, opts]
  Stdin,           \* the text of standard input
  ParamWords,      \* the words of set --
  Assignments,     \* pairs <<name, word>>
  Expressions,     \* the texts of ((...))
  Reads, Mapfiles, Getopts,   \* what the builtins are called with
  MaxCommands      \* bound: commands of a script

VARIABLES t, offset, sub, before, ended, count
vars == <<t, offset, sub, before, ended, count>>

Init ==
  /\ t = [env |-> StartEnv, params |-> StartArgs, status |-> 0, nounset |-> FALSE,
          guard |-> 0, nest |-> 0, depth |-> 0, opts |-> {}]
  /\ offset = 0 /\ sub = 0 /\ before = <<>> /\ ended = FALSE /\ count = 0

Runs == ~ended /\ count < MaxCommands /\ count' = count + 1

\* How the walker goes on after an error: a fatal one, and what ends the
\* script from within a substitution too, end it; the others are the status 1.
Ends(e) == e = "fatal" \/ EndsScript(e)
After(r, done) ==
  /\ t' = IF r.err = "ok" THEN done ELSE [r.t EXCEPT !.status = 1]
  /\ ended' = Ends(r.err)

\* set -- word
SetParams ==
  /\ Runs
  /\ \E word \in ParamWords :
       \E r \in {expand_word_mut(word, t)} :
         After(r, [r.t EXCEPT !.params = r.fields, !.status = 0])
  /\ UNCHANGED <<offset, sub, before>>

\* set -u, shopt -s nullglob and the like.
SetOptions ==
  /\ Runs
  /\ \E o \in Settings :
       t' = [t EXCEPT !.nounset = o.nounset, !.opts = o.opts, !.status = 0]
  /\ UNCHANGED <<offset, sub, before, ended>>

\* name=word: the status is 0, unless a substitution has changed it.
Assign ==
  /\ Runs
  /\ \E a \in Assignments :
       \E r \in {expand_word_to_string_mut(a[2], t)} :
       \E at \in {Stored(r.t, set_variable(r.t.env, a[1], r.w), 0)} :
         IF r.err # "ok" THEN After(r, r.t)
         ELSE After(at, [at.t EXCEPT !.status =
                           IF r.t.status # t.status THEN r.t.status ELSE 0])
  /\ UNCHANGED <<offset, sub, before>>

\* ((text)): every error but an unbound name is the status 1.
Arith ==
  /\ Runs
  /\ \E w \in Expressions :
       \E r \in {eval_arithmetic(w, t)} :
         IF r.err \in {"fatal", "overflow"} THEN After(r, r.t)
         ELSE After([err |-> "ok", t |-> r.t],
                    [r.t EXCEPT !.status = IF r.err = "ok" /\ r.v # 0 THEN 0 ELSE 1])
  /\ UNCHANGED <<offset, sub, before>>

Builtin(r) == After([err |-> r.err, t |-> [t EXCEPT !.env = r.env]],
                    [t EXCEPT !.env = r.env, !.status = r.status])

ReadLine ==
  /\ Runs
  /\ \E o \in Reads :
       \E r \in {builtin_read(t.env, Stdin, offset, o)} :
         Builtin(r) /\ offset' = r.offset
  /\ UNCHANGED <<sub, before>>

\* mapfile reads all of the input, whatever was read before.
Mapfile ==
  /\ Runs
  /\ \E o \in Mapfiles :
       \E r \in {builtin_mapfile(t.env, Stdin, o)} :
         Builtin([err |-> r.err, env |-> r.env, status |-> 0])
  /\ UNCHANGED <<offset, sub, before>>

NextOption ==
  /\ Runs
  /\ \E g \in Getopts :
       \E r \in {builtin_getopts(t.env, sub, before, g, t.params)} :
         Builtin(r) /\ sub' = r.sub /\ before' = Signature(t.params)
  /\ UNCHANGED offset

Next == SetOptions \/ SetParams \/ Assign \/ Arith \/ ReadLine \/ Mapfile \/ NextOption
Spec == Init /\ [][Next]_vars

(***************************************************************************)
(* What the expansion of words promises, about the variables Texts, the    *)
(* patterns in the variables Patterns, and the trees of arithmetic.        *)
(***************************************************************************)
CONSTANTS
  Texts, Patterns,     \* names of variables
  Ring,                \* trees of + - * and signs alone
  Numbers,             \* names that are read as numbers
  Untaken,             \* trees whose right sides are not evaluated
  Substitutions        \* words with command substitutions only

\* The counters of nested work are back at 0 whenever no command runs, after
\* failures too, and every variable has a value of its kind.
TypeOK ==
  /\ t.depth = 0 /\ t.guard = 0 /\ t.nest = 0
  /\ t.status \in 0..255
  /\ \A n \in DOMAIN t.env : t.env[n].kind \in {"scalar", "indexed"}
                               /\ t.env[n].kind = "scalar" => DOMAIN t.env[n].at = {0}
  /\ offset \in 0..Len(Stdin)

(***************************************************************************)
(* Fields.                                                                 *)
(***************************************************************************)
\* Where the fields of a text end: at each separator that is no blank, and at
\* a character before blanks that lead to no such separator, or to the end.
FieldEnds(w, ifs) ==
  LET blank(i) == w[i] \in Blanks(ifs)
      other(i) == w[i] \in Others(ifs)
      onward(i) == {j \in (i + 1)..Len(w) : ~blank(j)}
      first(i) == CHOOSE j \in onward(i) : \A k \in onward(i) : j <= k
  IN  {i \in DOMAIN w :
         \/ other(i)
         \/ /\ ~blank(i)
            /\ onward(i) = {} \/ (first(i) > i + 1 /\ ~other(first(i)))}
FieldTo(w, ifs, e) ==
  LET mine == {i \in 1..e : /\ w[i] \notin Range(ifs)
                            /\ ~\E f \in FieldEnds(w, ifs) : i <= f /\ f < e}
      at == InOrder(mine)
  IN  [k \in DOMAIN at |-> w[at[k]]]
Fields(w, ifs) ==
  LET ends == InOrder(FieldEnds(w, ifs)) IN [k \in DOMAIN ends |-> FieldTo(w, ifs, ends[k])]

Units(w, q) == [i \in DOMAIN w |-> Unit(w[i], q)]
Parameters == [k |-> "all", indirect |-> FALSE, star |-> FALSE]
Quoted == <<[p |-> "double", in |-> <<[p |-> "param", x |-> Parameters, o |-> [o |-> "value"]]>>]>>

\* A value that is not quoted is divided at every separator, blanks around
\* one belong to it, and read -a divides a line as the shell does; what is
\* quoted is not divided, and "$@" gives the parameters back as they are
\* (finalize_with_ifs_split and split_ifs_quoted_chars in expansion.rs).
FieldsAreSplitRight ==
  LET ifs == get_ifs(t.env)
      got(word) == LET fs == finalize_with_ifs_split(<<word>>, t.env)
                   IN  [i \in DOMAIN fs |-> TextIn(fs[i])]
  IN  /\ \A n \in Texts : LET w == ScalarOf(t.env, n) IN
           /\ got(<<Seg(w, FALSE, FALSE)>>) = Fields(w, ifs)
           /\ got(<<Seg(w, TRUE, TRUE)>>) = <<w>>
           /\ ifs # Empty => ReadFields(Units(w, FALSE), ifs) = Fields(w, ifs)
      /\ ExpandEach(<<Quoted>>, t).fields = t.params

(***************************************************************************)
(* Patterns.                                                               *)
(***************************************************************************)
\* The positions of a text a pattern leads to from a set of positions.
RECURSIVE Reach(_, _, _)
RECURSIVE Repeated(_, _, _)
AltEnds(alts, w, S) == UNION {Reach(alts[a], w, {i}) : a \in DOMAIN alts, i \in S}
Repeated(alts, w, S) ==
  LET more == S \cup AltEnds(alts, w, S)
  IN  IF more = S THEN S ELSE Repeated(alts, w, more)
StepFrom(e, w, i) ==
  CASE e.k = "star" -> i..Len(w)
    [] e.k \in {"lit", "any", "class"} ->
         {j \in {i + 1} : j <= Len(w) /\ Takes(e, w[j], Plain)}
    [] e.k = "group" /\ e.op = "@" -> AltEnds(e.alts, w, {i})
    [] e.k = "group" /\ e.op = "?" -> {i} \cup AltEnds(e.alts, w, {i})
    [] e.k = "group" /\ e.op = "*" -> Repeated(e.alts, w, {i})
    [] e.k = "group" /\ e.op = "+" -> Repeated(e.alts, w, AltEnds(e.alts, w, {i}) \ {i})
    [] e.k = "group" /\ e.op = "!" -> (i..Len(w)) \ AltEnds(e.alts, w, {i})
Reach(pat, w, S) ==
  IF pat = <<>> THEN S
  ELSE Reach(Tail(pat), w, UNION {StepFrom(Head(pat), w, i) : i \in S})
Means(pat, w, i, j) == j \in Reach(pat, w, {i})

\* A text with the longest of the earliest matches replaced, from i on.
RECURSIVE Rewritten(_, _, _, _)
Rewritten(w, pat, repl, i) ==
  LET ends == Reach(pat, w, {i}) \ {i}
      j == CHOOSE x \in ends : \A y \in ends : y <= x
  IN  IF i = Len(w) THEN <<>>
      ELSE IF ends = {} THEN <<w[i + 1]>> \o Rewritten(w, pat, repl, i + 1)
      ELSE repl \o Rewritten(w, pat, repl, j)

\* A pattern matches the texts of its language, though the matcher keeps one
\* star to return to and tries groups one after the other; ## and %% take the
\* longest match and # and % the shortest; // replaces from the left
\* (glob_match_inner, ext_match and replace_all in pattern.rs).
PatternsMean ==
  \A n \in Texts, p \in Patterns :
    LET w == ScalarOf(t.env, n)
        pat == PatternOf(Units(ScalarOf(t.env, p), FALSE))
        heads == {j \in 0..Len(w) : Means(pat, w, 0, j)}
        tails == {i \in 0..Len(w) : Means(pat, w, i, Len(w))}
        best(S, long) == CHOOSE x \in S : \A y \in S : IF long THEN y <= x ELSE x <= y
    IN  /\ extglob_match(pat, w) <=> Means(pat, w, 0, Len(w))
        /\ \A long \in BOOLEAN :
             /\ StripPrefix(w, pat, long)
                  = IF heads = {} THEN w ELSE From(w, best(heads, long) + 1)
             /\ StripSuffix(w, pat, long)
                  = IF tails = {} THEN w ELSE SubSeq(w, 1, best(tails, ~long))
        /\ replace_all(w, pat, <<SLASH>>) = Rewritten(w, pat, <<SLASH>>, 0)

(***************************************************************************)
(* Arithmetic.                                                             *)
(***************************************************************************)
\* The exact value of a tree of the ring.
RECURSIVE Exact(_)
Exact(e) ==
  CASE e.k = "num" -> e.n
    [] e.k = "ref" -> LET w == ScalarOf(t.env, e.name) IN IF w = Empty THEN 0 ELSE ValueOf(w)
    [] e.k = "un"  -> -Exact(e.e)
    [] e.k = "bin" -> CASE e.op = "+" -> Exact(e.l) + Exact(e.r)
                        [] e.op = "-" -> Exact(e.l) - Exact(e.r)
                        [] e.op = "*" -> Exact(e.l) * Exact(e.r)

IsPlain(n) == LET w == ScalarOf(t.env, n) IN w = Empty \/ ParsesAsNumber(w)
NumberOf(n) == LET w == ScalarOf(t.env, n) IN IF ParsesAsNumber(w) THEN ValueOf(w) ELSE 0

\* ++n, n--: the value is that of n in between, and n is as it was.
Step(n, by, pre) == [k |-> "inc", to |-> [k |-> "ref", name |-> n], by |-> by, pre |-> pre]
UpAndDown(n) ==
  [k |-> "bin", op |-> ",", l |-> Step(n, 1, TRUE), r |-> Step(n, -1, FALSE)]
Shuttles == {UpAndDown(n) : n \in Numbers}

\* Sums, products and powers wrap, however they are grouped: the value is the
\* exact one modulo the width.  A quotient and a remainder give the dividend
\* back, the minimum over -1 too; so do what a shift to the right leaves and
\* what it drops, and a shift back from where nothing was lost; a shift by
\* the width or less than 0 is one by what is left of it.  A step up and one
\* down give the variable back, at the maximum too.  The side of && and ||
\* that is not needed changes nothing (apply_binary_arith, eval and
\* eval_binary in arithmetic.rs).
ArithmeticIsModular ==
  ~t.nounset /\ (\A n \in Numbers : IsPlain(n)) =>
    /\ \A e \in Ring \cup Untaken \cup Shuttles : \A r \in {eval(e, t)} :
         /\ e \in Ring => r.v = Wrap(Exact(e))
         /\ e \in Untaken => r.t = t
         /\ \A n \in Numbers : e = UpAndDown(n) =>
              /\ r.v = Wrap(NumberOf(n) + 1)
              /\ ValueOf(ScalarOf(r.t.env, n)) = NumberOf(n)
    /\ \A m, n \in Numbers :
         LET a == NumberOf(m)
             b == NumberOf(n)
             k == b % Bits
             does(op, l, r) == apply_binary_arith(op, l, r, t).v
         IN  /\ b >= 0 => does("**", a, b) = IF b = 0 THEN 1 ELSE Wrap(a ^ b)
             /\ does(">>", a, b) * 2 ^ k + does("&", a, 2 ^ k - 1) = a
             /\ a * 2 ^ k \in Number => does(">>", does("<<", a, b), b) = a
    /\ \A m, n \in Numbers :
         LET a == NumberOf(m)
             b == NumberOf(n)
             q == apply_binary_arith("/", a, b, t)
             r == apply_binary_arith("%", a, b, t)
         IN  IF b = 0 THEN q.err # "ok" /\ r.err # "ok"
             ELSE /\ Wrap(q.v * b + r.v) = a
                  /\ Abs(r.v) < Abs(b) /\ r.v * a >= 0

(***************************************************************************)
(* Substitutions and options.                                              *)
(***************************************************************************)
OnlyStatus(after) == after = [t EXCEPT !.status = after.status]

\* Whatever the command of a substitution does to variables, parameters and
\* counters stays in the copy it runs on: the status alone comes back, when
\* an error or a limit ends the command too, and of its errors only those that
\* end the script (execute_command_substitution).
SubstitutionsAreContained ==
  \A word \in Substitutions :
    \A r \in {expand_word_to_string_mut(word, t)} :
       OnlyStatus(r.t) /\ (r.err = "ok" \/ EndsScript(r.err))

\* What getopts has yet to report from where it stands: the options, each
\* with what is left of the arguments when it is reported.
RECURSIVE Ahead(_, _, _, _)
Ahead(args, g, k, s) ==
  LET c == args[k][s + 2]
      known == \E i \in DOMAIN g.spec : g.spec[i] = c
      takes == known /\ \E i \in 1..(Len(g.spec) - 1) : g.spec[i] = c /\ g.spec[i + 1] = COLON
  IN  IF k > Len(args) THEN <<>>
      ELSE IF ~IsOption(args[k]) THEN <<>>
      ELSE IF s + 2 > Len(args[k]) THEN Ahead(args, g, k + 1, 0)
      ELSE IF ~takes THEN <<c>> \o Ahead(args, g, k, s + 1)
      ELSE IF s + 2 < Len(args[k]) THEN <<c>> \o Ahead(args, g, k + 1, 0)
      ELSE <<c>> \o Ahead(args, g, k + 2, 0)

\* As long as the parameters stay, each call of getopts reports the option
\* that comes next, be it in a bundle, after an argument, or not known, and
\* none twice; at the end it reports none (builtin_getopts).
OptionsInOrder ==
  [][\A g \in Getopts :
       NextOption /\ ~ended' /\ before = Signature(t.params) =>
         LET ahead == Ahead(t.params, g, OptInd(t.env), sub)
             then == Ahead(t.params, g, OptInd(t'.env), sub')
         IN  IF ahead = <<>> THEN t'.status = 1 /\ then = <<>>
             ELSE t'.status = 0 /\ then = Tail(ahead)]_vars
=============================================================================
