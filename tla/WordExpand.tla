----------------------------- MODULE WordExpand -----------------------------
(***************************************************************************)
(* The expansion of a word, src/interpreter/expansion.rs.  A word is the   *)
(* sequence of pieces the external parser makes of it:                     *)
(*   [p |-> "char", c]           a character that is not quoted            *)
(*   [p |-> "single", w, in]     '...', and its text as pieces             *)
(*   [p |-> "double", in]        "..."                                     *)
(*   [p |-> "esc", c]            a backslash and a character               *)
(*   [p |-> "param", x, o]       ${...}: parameter x and operation o       *)
(*   [p |-> "cmd", word, status] $(echo word; exit status)                 *)
(*   [p |-> "badcmd"]            $(...) around what does not parse         *)
(*   [p |-> "file", word]        $(<word)                                  *)
(*   [p |-> "arith", in]         $((...))                                  *)
(*   [p |-> "tilde"]             ~                                         *)
(* An expansion under way is a record: err, the words so far, the state t  *)
(* (that of ShellArith with the depth of substitutions and the options),   *)
(* and saw, that a "$@" without values was met.                            *)
(***************************************************************************)
EXTENDS ParamOps

(***************************************************************************)
(* Braces, src/interpreter/brace.rs.  A piece of kind "char" is one        *)
(* character of the source that is not quoted; whatever the scanner of the *)
(* code skips (quotes, escapes, substitutions) is a piece of another kind. *)
(***************************************************************************)
CONSTANT max_brace_expansion

OPEN  == 123
CLOSE == 125
COMMA == 44
DOT   == 46

Char(c) == [p |-> "char", c |-> c]
Chars(w) == [i \in DOMAIN w |-> Char(w[i])]
IsChar(piece, c) == piece.p = "char" /\ piece.c = c
At(word, i, c) == i \in DOMAIN word /\ IsChar(word[i], c)

(***************************************************************************)
(* Scanning.                                                               *)
(***************************************************************************)
\* How deep the braces are nested between open and i, both included.
DepthAt(word, open, i) ==
  Cardinality({j \in open..i : IsChar(word[j], OPEN)})
    - Cardinality({j \in open..i : IsChar(word[j], CLOSE)})

Closes(word, open) == {i \in open..Len(word) : DepthAt(word, open, i) = 0}
Smallest(S) == CHOOSE x \in S : \A y \in S : x <= y
find_matching_close(word, open) ==
  IF Closes(word, open) = {} THEN 0 ELSE Smallest(Closes(word, open))

\* The first brace that is closed, or none.
find_brace_pair(word) ==
  LET opens == {i \in DOMAIN word :
                  IsChar(word[i], OPEN) /\ find_matching_close(word, i) # 0}
  IN  IF opens = {} THEN <<>>
      ELSE <<Smallest(opens), find_matching_close(word, Smallest(opens))>>

\* The pieces of a body between the commas that are in no braces of its own.
split_alternatives(body) ==
  LET cuts == {0, Len(body) + 1}
                \cup {i \in DOMAIN body : IsChar(body[i], COMMA) /\ DepthAt(body, 1, i) = 0}
      cut(k) == CHOOSE i \in cuts : Cardinality({j \in cuts : j < i}) = k
  IN  [k \in 1..(Cardinality(cuts) - 1) |-> SubSeq(body, cut(k - 1) + 1, cut(k) - 1)]

(***************************************************************************)
(* Sequences {x..y} and {x..y..step}.                                      *)
(***************************************************************************)
IsText(word) == \A i \in DOMAIN word : word[i].p = "char"
TextOf(word) == [i \in DOMAIN word |-> word[i].c]

\* str::split(".."), from the left.
DotPairs(w) == {i \in 1..(Len(w) - 1) : w[i] = DOT /\ w[i + 1] = DOT}
RECURSIVE SplitDots(_)
SplitDots(w) ==
  IF DotPairs(w) = {} THEN <<w>>
  ELSE LET i == Smallest(DotPairs(w))
       IN  <<SubSeq(w, 1, i - 1)>> \o SplitDots(SubSeq(w, i + 2, Len(w)))

zero_pad_width(w) ==
  LET d == IF w[1] = MINUS THEN Tail(w) ELSE w
  IN  IF Len(d) > 1 /\ d[1] = 48 THEN Len(d) ELSE 0
format_padded(n, width) ==
  LET d == Numeral(Abs(n))
  IN  (IF n < 0 THEN <<MINUS>> ELSE <<>>)
        \o [i \in 1..LargerOf(0, width - Len(d)) |-> 48] \o d

\* The numbers from a to b, in their order.
Steps(a, b, step) ==
  [k \in 1..(Abs(b - a) \div step + 1) |->
     IF a <= b THEN a + (k - 1) * step ELSE a - (k - 1) * step]

\* No sequence; a bad one; or the items.  Too many items are an error as
\* soon as they reach the limit.
NoSequence == [at |-> "none", items |-> <<>>]
Failed(at) == [at |-> at, items |-> <<>>]
Counted(items) ==
  IF Len(items) >= max_brace_expansion THEN Failed("limit")
  ELSE [at |-> "ok", items |-> items]

IsLower(c) == c \in 97..122
IsUpper(c) == c \in 65..90
SameClass(c, d) ==
  (IsLower(c) /\ IsLower(d)) \/ (IsUpper(c) /\ IsUpper(d)) \/ ({c, d} \subseteq 48..57)

StepOf(parts) == IF Len(parts) = 3 THEN LargerOf(1, Abs(ValueOf(parts[3]))) ELSE 1

try_sequence_expansion(body) ==
  LET parts == SplitDots(TextOf(body)) IN
  IF ~IsText(body) \/ Len(parts) \notin {2, 3} THEN NoSequence
  ELSE LET x == parts[1]
           y == parts[2]
           goodStep == Len(parts) = 3 => IsNumber(parts[3])
       IN  IF IsNumber(x) /\ IsNumber(y)
           THEN IF ~goodStep THEN NoSequence
                ELSE LET width == LargerOf(zero_pad_width(x), zero_pad_width(y))
                         vals == Steps(ValueOf(x), ValueOf(y), StepOf(parts))
                     IN  Counted([k \in DOMAIN vals |-> format_padded(vals[k], width)])
           ELSE IF Len(x) # 1 \/ Len(y) # 1 THEN NoSequence
           ELSE IF (IsLower(x[1]) /\ IsUpper(y[1])) \/ (IsUpper(x[1]) /\ IsLower(y[1]))
                THEN Failed("bad")
           ELSE IF ~SameClass(x[1], y[1]) \/ ~goodStep THEN NoSequence
           ELSE LET vals == Steps(x[1], y[1], StepOf(parts))
                IN  Counted([k \in DOMAIN vals |-> <<vals[k]>>])

(***************************************************************************)
(* The expansion: what is before the first pair, each item of it, and the  *)
(* expansions of the rest.  Alternatives are expanded again together with  *)
(* what is around them; a body that is no list stays as it is.             *)
(***************************************************************************)
RECURSIVE expand_recursive(_)

\* The results of several expansions after each other; the first part that fails,
\* or brings the results to the limit, stops it.
Gather(parts) ==
  LET upTo(k) == FlattenSeq([i \in 1..k |-> parts[i].items])
      stops == {k \in DOMAIN parts :
                  parts[k].at # "ok" \/ Len(upTo(k)) >= max_brace_expansion}
      first == Smallest(stops)
  IN  IF stops = {} THEN [at |-> "ok", items |-> upTo(Len(parts))]
      ELSE Failed(IF parts[first].at # "ok" THEN parts[first].at ELSE "limit")

Prefixed(prefix, r) ==
  [r EXCEPT !.items = [i \in DOMAIN r.items |-> prefix \o r.items[i]]]

Expanded(word, pair) ==
  LET prefix == SubSeq(word, 1, pair[1] - 1)
      body == SubSeq(word, pair[1] + 1, pair[2] - 1)
      suffix == SubSeq(word, pair[2] + 1, Len(word))
      sequence == try_sequence_expansion(body)
      alts == split_alternatives(body)
  IN  IF sequence.at \in {"bad", "limit"} THEN sequence
      ELSE IF sequence.at = "ok"
      THEN LET rest == expand_recursive(suffix)
           IN  Gather([i \in DOMAIN sequence.items |->
                         Prefixed(prefix \o Chars(sequence.items[i]), rest)])
      ELSE IF Len(alts) < 2
      THEN Gather(<<Prefixed(SubSeq(word, 1, pair[2]), expand_recursive(suffix))>>)
      ELSE Gather([i \in DOMAIN alts |-> expand_recursive(prefix \o alts[i] \o suffix)])

expand_recursive(word) ==
  IF find_brace_pair(word) = <<>> THEN [at |-> "ok", items |-> <<word>>]
  ELSE Expanded(word, find_brace_pair(word))

brace_expand(word) == expand_recursive(word)

(***************************************************************************)
(* Words.                                                                  *)
(***************************************************************************)

CONSTANTS
  Contents,                 \* the text of each file
  max_substitution_depth

HOME == <<72, 79, 77, 69>>

Begin(t) == [err |-> "ok", words |-> << <<>> >>, t |-> t, saw |-> FALSE]
Fails(r, e) == [r EXCEPT !.err = e]
Push(r, w, q, g) == [r EXCEPT !.words = push_segment(@, w, q, g)]

(***************************************************************************)
(* How pieces are read: pure where the state may not change (patterns),    *)
(* as a word, as the raw operand of := and :?, or as the operand of :- and *)
(* :+, whose text is divided outside of quotes.                            *)
(***************************************************************************)
Mode == [pure : BOOLEAN, as : {"word", "raw", "operand"}]
Ordinary == [pure |-> FALSE, as |-> "word"]
Pure == [pure |-> TRUE, as |-> "word"]
As(mode, as) == [mode EXCEPT !.as = as]

RECURSIVE Pieces(_, _, _, _)
RECURSIVE expand_word_mut(_, _)
RECURSIVE expand_parameter(_, _, _, _, _)

\* To one text.
finish(r) ==
  IF r.err # "ok" THEN [err |-> r.err, w |-> Empty, t |-> r.t]
  ELSE [err |-> "ok", w |-> JoinWith(finalize_no_split(r.words), <<SP>>), t |-> r.t]
expand_raw_string(ps, t, dq, mode) == finish(Pieces(ps, Begin(t), dq, As(mode, "raw")))
Bounded(r) == IF r.err = "ok" /\ Len(r.w) > MaxString THEN [r EXCEPT !.err = "limit"] ELSE r
expand_word_to_string_mut(ps, t) == Bounded(finish(Pieces(ps, Begin(t), FALSE, Ordinary)))

\* Arithmetic: the text first, then its value.
ValueOfText(text) ==
  IF text.err # "ok" THEN Bad(text.t, text.err) ELSE eval_arithmetic(text.w, text.t)
Evaluate(ps, t) ==
  ValueOfText(IF IsText(ps) THEN Read(t, TextOf(ps)) ELSE expand_word_to_string_mut(ps, t))

(***************************************************************************)
(* Command substitution.  The command runs on a copy of the state, from    *)
(* which the status comes back.  An error of an expansion ends the copy    *)
(* with status 1; a limit, what does not parse and a value that is         *)
(* evaluated too deep end the script as well.                              *)
(***************************************************************************)
RECURSIVE Trimmed(_)
Trimmed(w) == IF w # <<>> /\ Last(w) = LF THEN Trimmed(SubSeq(w, 1, Len(w) - 1)) ELSE w
EndsScript(e) == e \in {"limit", "overflow", "parse", "deep"}

Printed(out) ==
  IF out.err = "ok" THEN Trimmed(JoinWith(out.fields, <<SP>>)) ELSE Empty

\* Mutant: the failure of the command skips the end of the substitution.
Returns_leaks(r, out, status, dq) ==
  IF EndsScript(out.err) THEN Fails([r EXCEPT !.t = out.t], out.err)
  ELSE Push([r EXCEPT !.t.status = IF out.err = "ok" THEN status ELSE 1], Printed(out), dq, dq)

Returns(r, out, status, dq) ==
  IF EndsScript(out.err) THEN Fails(r, out.err)
  ELSE Push([r EXCEPT !.t.status = IF out.err = "ok" THEN status ELSE 1], Printed(out), dq, dq)
Deeper(t) == [t EXCEPT !.depth = @ + 1]
TooDeep(r) == r.t.depth + 1 > max_substitution_depth
execute_command_substitution(r, word, status, dq) ==
  IF TooDeep(r) THEN Fails(r, "limit")
  ELSE Returns(r, expand_word_mut(word, Deeper(r.t)), status, dq)

\* The name of the file is expanded in the state itself.
TextOfFile(back, name, dq) ==
  IF name.err # "ok" THEN Fails(back, name.err)
  ELSE IF name.w \notin DOMAIN Contents THEN Fails(back, "shell")
  ELSE Push([back EXCEPT !.t.status = 0], Trimmed(Contents[name.w]), dq, dq)
ReadThe(r, name, dq) ==
  TextOfFile([r EXCEPT !.t = [name.t EXCEPT !.depth = r.t.depth]], name, dq)
ReadsFile(r, word, dq) ==
  IF TooDeep(r) THEN Fails(r, "limit")
  ELSE ReadThe(r, expand_word_to_string_mut(word, Deeper(r.t)), dq)

(***************************************************************************)
(* Pieces.                                                                 *)
(***************************************************************************)
\* Inside double quotes a backslash is kept before most characters.
KeepsNoBackslash == {DOLLAR, 96, 34, BACKSLASH, LF}
Escape(c, dq, mode) ==
  IF dq /\ c \notin KeepsNoBackslash /\ ~(mode.as = "operand" /\ c = CLOSE)
  THEN <<BACKSLASH, c>> ELSE <<c>>

\* In an operand inside double quotes single quotes are characters.
SingleQuoted(x, r, dq, mode) ==
  IF ~dq \/ mode.as = "word" THEN Push(r, x.w, TRUE, TRUE)
  ELSE IF mode.as = "raw" THEN Push(r, <<QUOTE>> \o x.w \o <<QUOTE>>, TRUE, TRUE)
  ELSE Push(Pieces(x.in, Push(r, <<QUOTE>>, TRUE, TRUE), TRUE, As(mode, "word")),
            <<QUOTE>>, TRUE, TRUE)

\* Quotes that add nothing leave an empty word, but for "$@" without values.
Added(r, inner) ==
  Len(inner.words) # Len(r.words) \/ Len(Last(inner.words)) # Len(Last(r.words))
QuotesEnd(r, inner) ==
  IF inner.err # "ok" \/ Added(r, inner) \/ inner.saw THEN [inner EXCEPT !.saw = r.saw]
  ELSE Push([inner EXCEPT !.saw = r.saw], Empty, TRUE, TRUE)
DoubleQuoted(x, r, mode) ==
  QuotesEnd(r, Pieces(x.in, [r EXCEPT !.saw = FALSE], TRUE, As(mode, "word")))

PushNumber(r, n, dq) ==
  IF n.err # "ok" THEN Fails([r EXCEPT !.t = n.t], n.err)
  ELSE Push([r EXCEPT !.t = n.t], Numeral(n.v), dq, dq)
Arithmetic(x, r, dq) == PushNumber(r, Evaluate(x.in, r.t), dq)

Tilde(r, dq) == Push(r, IF dq THEN <<126>> ELSE get_var(r.t.env, HOME), TRUE, TRUE)

expand_word_piece_mut(x, r, dq, mode) ==
  CASE x.p = "char" -> IF mode.as = "operand" /\ ~dq THEN Push(r, <<x.c>>, FALSE, FALSE)
                       ELSE Push(r, <<x.c>>, TRUE, dq)
    [] x.p = "single" -> SingleQuoted(x, r, dq, mode)
    [] x.p = "double" -> DoubleQuoted(x, r, mode)
    [] x.p = "esc"    -> Push(r, Escape(x.c, dq, mode), TRUE, TRUE)
    [] x.p = "tilde"  -> Tilde(r, dq)
    [] x.p = "param"  -> expand_parameter(x.x, x.o, r, dq, As(mode, "word"))
    [] x.p \in {"cmd", "badcmd", "file", "arith"} /\ mode.pure -> r
    [] x.p = "cmd" /\ ~mode.pure -> execute_command_substitution(r, x.word, x.status, dq)
    [] x.p = "badcmd" /\ ~mode.pure ->
         Fails(r, IF r.t.depth + 1 > max_substitution_depth THEN "limit" ELSE "parse")
    [] x.p = "file" /\ ~mode.pure -> ReadsFile(r, x.word, dq)
    [] x.p = "arith" /\ ~mode.pure -> Arithmetic(x, r, dq)

Pieces(ps, r, dq, mode) ==
  IF ps = <<>> \/ r.err # "ok" THEN r
  ELSE Pieces(Tail(ps), expand_word_piece_mut(Head(ps), r, dq, mode), dq, mode)

(***************************************************************************)
(* Patterns and replacements: expanded without a change of the state.      *)
(***************************************************************************)
InPattern(r) == [err |-> r.err, pat |-> finalize_no_split_pattern(r.words)]
expand_pattern_string(ps, t) == InPattern(Pieces(ps, Begin(t), FALSE, Pure))

\* In a replacement a parameter is read with no checks.
resolve_pattern_var(p, t) ==
  IF p.k = "name" THEN ScalarOf(t.env, resolve_nameref_or_self(t.env, p.n))
  ELSE resolve_parameter_direct(p, t)
RECURSIVE expand_replacement_string(_, _)
Joint(first, rest) ==
  IF first.err # "ok" THEN first
  ELSE IF rest.err # "ok" THEN rest ELSE [rest EXCEPT !.w = first.w \o @]
ReplacementPiece(x, t) ==
  CASE x.p = "char"   -> Read(t, <<x.c>>)
    [] x.p = "single" -> Read(t, x.w)
    [] x.p = "esc"    -> Read(t, IF x.c \in {SLASH, BACKSLASH} THEN <<x.c>>
                                 ELSE <<BACKSLASH, x.c>>)
    [] x.p = "param"  -> Read(t, resolve_pattern_var(x.x, t))
    [] x.p = "double" -> expand_raw_string(x.in, t, TRUE, Pure)
expand_replacement_string(ps, t) ==
  IF ps = <<>> THEN Read(t, Empty)
  ELSE Joint(ReplacementPiece(Head(ps), t), expand_replacement_string(Tail(ps), t))

(***************************************************************************)
(* Operations on parameters.  Each gets the parameter x, the operation o,  *)
(* the expansion r, dq and the mode.                                       *)
(***************************************************************************)
\* Each value of a vector, or the one of a parameter, through an operator.
Mapped(values, F(_)) == [i \in DOMAIN values |-> F(values[i])]
ForEach(x, r, dq, F(_)) ==
  IF IsVector(x)
  THEN [r EXCEPT !.words = push_vectorized(@, Mapped(get_vectorized_values(x, r.t), F),
                                           x.star, r.t, dq)]
  ELSE Push(r, F(resolve_parameter(x, r.t)), dq, dq)

\* The value of a parameter, where the state may change and where not.
Reading(x, r, mode) ==
  IF mode.pure THEN Read(r.t, resolve_parameter(x, r.t)) ELSE resolve_parameter_maybe_mut(x, r.t)
PushValue(x, v, r, dq) ==
  IF v.err # "ok" THEN Fails([r EXCEPT !.t = v.t], v.err)
  ELSE [r EXCEPT !.t = v.t, !.words = expand_param_value(@, x, v.w, v.t, dq),
                 !.saw = @ \/ at_empty(x, v.t, dq)]
Value(x, r, dq, mode) == PushValue(x, Reading(x, r, mode), r, dq)

LengthOf(x, r, dq) ==
  Push(r, Numeral(IF IsVector(x) THEN Len(get_vectorized_values(x, r.t))
                  ELSE Len(resolve_parameter(x, r.t))), dq, dq)

InArray(env, n, i, v) ==
  IF i.err # "ok" THEN i
  ELSE IF v < 0 \/ (i.v < 0 /\ (IF IsSet(env, n) THEN env[n].at = <<>> ELSE TRUE))
  THEN Bad(i.t, "shell") ELSE Val(i.t, v)
IndexFor(n, i) ==
  InArray(i.t.env, n, i, IF IsSet(i.t.env, n) THEN FromEnd(i.t.env[n], i.v) ELSE i.v)
resolve_array_assignment_index(n, index, t) == IndexFor(n, eval_arithmetic(index, t))

\* Other parameters than names and elements are not assigned.
AssignNamed(aim, w) ==
  IF aim.w = Empty THEN Val(aim.t, 0) ELSE Stored(aim.t, set_variable(aim.t.env, aim.w, w), 0)
AssignAt(n, i, w) ==
  IF i.err # "ok" THEN i ELSE Stored(i.t, set_array_element(i.t.env, n, i.v, w), 0)
AssignIn(array, x, w, t) == AssignAt(array, resolve_array_assignment_index(array, x.index, t), w)
assign_default_to_parameter(x, w, t) ==
  IF x.indirect THEN AssignNamed(resolve_parameter_maybe_mut([x EXCEPT !.indirect = FALSE], t), w)
  ELSE IF x.k = "name" THEN Stored(t, set_variable(t.env, x.n, w), 0)
  ELSE IF x.k = "elem" THEN AssignIn(Resolved(t, x.n), x, w, t)
  ELSE Val(t, 0)

PushAfter(a, w, r, dq) ==
  IF a.err # "ok" THEN Fails([r EXCEPT !.t = a.t], a.err)
  ELSE Push([r EXCEPT !.t = a.t], w, dq, dq)
Assigns(x, w, r, dq) == PushAfter(assign_default_to_parameter(x, w, r.t), w, r, dq)

\* The operand of :- := :? :+ is expanded only when it is used.
Uses(x, o, text, r, dq, mode) ==
  IF text.err # "ok" THEN Fails(r, text.err)
  ELSE IF o.o = "error" THEN Fails(r, "fatal")
  ELSE IF mode.pure THEN Push(r, text.w, dq, dq)
  ELSE Assigns(x, text.w, r, dq)
UsesText(x, o, text, r, dq, mode) == Uses(x, o, text, [r EXCEPT !.t = text.t], dq, mode)
Operand(x, o, r, dq, mode) ==
  IF o.o \in {"default", "alt"} THEN Pieces(o.arg, r, dq, As(mode, "operand"))
  ELSE UsesText(x, o, expand_raw_string(o.arg, r.t, dq, mode), r, dq, mode)

DefaultOps == {"default", "assign", "error", "alt"}
\* Is the operand of a test to be used, the value being w?
Tests(x, w, null, t, dq, mode) ==
  IF mode.pure THEN [use |-> should_use_default_for_parameter(x, w, null, t, dq), t |-> t]
  ELSE should_use_default_for_parameter_mut(x, w, null, t, dq)
Vanishes(x, t) == ~x.indirect /\ IsVector(x) /\ get_vectorized_values(x, t) = <<>>
Decided(x, o, w, use, r, dq, mode) ==
  IF use = (o.o # "alt") THEN Operand(x, o, r, dq, mode)
  ELSE IF o.o = "alt" THEN [r EXCEPT !.saw = @ \/ Vanishes(x, r.t)]
  ELSE [r EXCEPT !.words = push_expanded_parameter_value(@, x, w, r.t, dq)]
DecidedBy(x, o, w, d, r, dq, mode) == Decided(x, o, w, d.use, [r EXCEPT !.t = d.t], dq, mode)
DefaultFor(x, o, v, r, dq, mode) ==
  IF v.err # "ok" THEN Fails([r EXCEPT !.t = v.t], v.err)
  ELSE DecidedBy(x, o, v.w, Tests(x, v.w, o.null, v.t, dq, mode), r, dq, mode)
Default(x, o, r, dq, mode) == DefaultFor(x, o, Reading(x, r, mode), r, dq, mode)

OnPattern(p, r, F(_)) == IF p.err # "ok" THEN Fails(r, p.err) ELSE F(p.pat)
WithPattern(o, r, F(_)) == OnPattern(expand_pattern_string(o.pat, r.t), r, F)

Strip(x, o, r, dq) ==
  WithPattern(o, r, LAMBDA pat :
    ForEach(x, r, dq, LAMBDA w :
      IF o.side = "prefix" THEN StripPrefix(w, pat, o.longest)
      ELSE StripSuffix(w, pat, o.longest)))

Case(x, o, r, dq) ==
  WithPattern(o, r, LAMBDA pat :
    ForEach(x, r, dq, LAMBDA w : change_case(w, pat, o.up, o.first)))

ReplaceBy(x, o, repl, r, dq) ==
  WithPattern(o, r, LAMBDA pat :
    IF repl.err # "ok" THEN Fails(r, repl.err)
    ELSE ForEach(x, r, dq, LAMBDA w : do_replace(w, pat, repl.w, o.kind)))
Replace(x, o, r, dq) == ReplaceBy(x, o, expand_replacement_string(o.repl, r.t), r, dq)

\* Offset and length, in this order.
PositionalSlice(from, n) == SkipTake(from.values, from.start, n)
SliceValues(x, t, off, len) ==
  IF x.k = "all" THEN PositionalSlice(positional_slice_values_and_start(t, off), len)
  ELSE ArraySlice(get_array_kv_pairs(t, x.n), off, len)

\* v is the text, i the offset and n the length: each as it was evaluated.
Sliced(x, v, off, n, r, dq) ==
  IF n.err # "ok" THEN Fails([r EXCEPT !.t = n.t], n.err)
  ELSE IF ~IsVector(x) THEN Push([r EXCEPT !.t = n.t], ScalarSlice(v, off, n.v), dq, dq)
  ELSE IF n.v < 0 THEN Fails([r EXCEPT !.t = n.t], "expansion")
  ELSE [r EXCEPT !.t = n.t,
                 !.words = push_vectorized(@, SliceValues(x, r.t, off, n.v), x.star, n.t, dq)]
\* Without a length, all there is.
AllOf(x, v, t) == IF IsVector(x) THEN Len(get_vectorized_values(x, t)) + 1 ELSE Len(v)
SliceAfter(x, o, v, i, r, dq) ==
  IF i.err # "ok" THEN Fails([r EXCEPT !.t = i.t], i.err)
  ELSE Sliced(x, v, i.v, IF o.len = <<>> THEN Val(i.t, AllOf(x, v, r.t))
                         ELSE Evaluate(o.len, i.t), r, dq)
SliceFrom(x, o, v, r, dq) ==
  IF v.err # "ok" THEN Fails([r EXCEPT !.t = v.t], v.err)
  ELSE SliceAfter(x, o, v.w, Evaluate(o.off, v.t), r, dq)
Slice(x, o, r, dq) ==
  SliceFrom(x, o, IF IsVector(x) THEN Read(r.t, Empty) ELSE resolve_parameter_maybe_mut(x, r.t),
            r, dq)

Transforms(x, o, r, dq) ==
  IF IsVector(x) /\ ~x.star /\ get_vectorized_values(x, r.t) = <<>>
  THEN [r EXCEPT !.saw = TRUE]
  ELSE ForEach(x, r, dq, LAMBDA w :
         apply_transform(w, o.f, ~parameter_scalar_is_unset(x, r.t)))

\* ${!prefix*} and ${!x[*]} join with a separator, the others are words.
Names(values, star, sep, r, dq) ==
  IF star THEN Push(r, JoinWith(values, sep), dq, dq)
  ELSE IF values = <<>> THEN [r EXCEPT !.saw = TRUE]
  ELSE [r EXCEPT !.words = PushEach(@, values, TRUE, dq, FALSE)]
VariableNames(o, r, dq) ==
  Names(Sorted({n \in DOMAIN r.t.env : IsPrefix(o.prefix, n)}), o.star,
        FirstOfIfs(r.t.env), r, dq)
MemberKeys(x, o, r, dq) ==
  Names(get_array_keys(r.t, x.n), o.star,
        IF ifs_empty(r.t.env) THEN <<SP>> ELSE FirstOfIfs(r.t.env), r, dq)

Checked == {"value", "length", "slice", "replace", "transform"}
Refusal(x, o, t) ==
  IF o.o \in {"names", "keys"} THEN "ok"
  ELSE IF validate_indirect_reference(x, t) # "ok" THEN "shell"
  ELSE IF o.o \in Checked THEN check_nounset(x, t) ELSE "ok"
Apply(x, o, r, dq, mode) ==
  CASE o.o = "value"     -> Value(x, r, dq, mode)
    [] o.o = "length"    -> LengthOf(x, r, dq)
    [] o.o \in DefaultOps -> Default(x, o, r, dq, mode)
    [] o.o = "strip"     -> Strip(x, o, r, dq)
    [] o.o = "slice"     -> Slice(x, o, r, dq)
    [] o.o = "replace"   -> Replace(x, o, r, dq)
    [] o.o = "case"      -> Case(x, o, r, dq)
    [] o.o = "transform" -> Transforms(x, o, r, dq)
    [] o.o = "names"     -> VariableNames(o, r, dq)
    [] o.o = "keys"      -> MemberKeys(x, o, r, dq)
Unless(e, r, applied) == IF e # "ok" THEN Fails(r, e) ELSE applied
expand_parameter(x, o, r, dq, mode) ==
  Unless(Refusal(x, o, r.t), r, Apply(x, o, r, dq, mode))

(***************************************************************************)
(* A word to fields: braces, then each result to its fields and names, the *)
(* state passing from one to the next.                                     *)
(***************************************************************************)
RECURSIVE ExpandEach(_, _)
\* The outcome f of the fields of one word, with the state t, and what
\* comes after it.
InFront(fields, rest) == [rest EXCEPT !.fields = fields \o @]
ThenEach(f, raws, t) ==
  IF f.err # "ok" THEN [err |-> f.err, fields |-> <<>>, t |-> t]
  ELSE InFront(f.fields, ExpandEach(raws, t))
ToFields(r, raws) ==
  IF r.err # "ok" THEN [err |-> r.err, fields |-> <<>>, t |-> r.t]
  ELSE ThenEach(glob_expand_words(finalize_with_ifs_split(r.words, r.t.env), r.t.opts),
                raws, r.t)
ExpandEach(raws, t) ==
  IF raws = <<>> THEN [err |-> "ok", fields |-> <<>>, t |-> t]
  ELSE ToFields(Pieces(Head(raws), Begin(t), FALSE, Ordinary), Tail(raws))

Braced(b, t) ==
  CASE b.at = "ok"    -> ExpandEach(b.items, t)
    [] b.at = "bad"   -> [err |-> "expansion", fields |-> <<>>, t |-> t]
    [] b.at = "limit" -> [err |-> "limit", fields |-> <<>>, t |-> t]
expand_word_mut(ps, t) == Braced(brace_expand(ps), t)
=============================================================================
