------------------------------ MODULE ParamOps ------------------------------
(***************************************************************************)
(* What src/interpreter/expansion.rs reads of a parameter, and what the    *)
(* operators of ${...} make of the text they are given.  A parameter is    *)
(*   [k |-> "name", n]           $x                                        *)
(*   [k |-> "pos", i]            $1                                        *)
(*   [k |-> "special", c]        $# and $?, the code of the character      *)
(*   [k |-> "all", star]         $@ and $*                                 *)
(*   [k |-> "elem", n, index]    ${x[index]}, the index a text             *)
(*   [k |-> "array", n, star]    ${x[@]} and ${x[*]}                       *)
(* with a field indirect, for ${!...}.  Arrays are indexed; the option     *)
(* extglob is on; names that are computed when read are not modelled.      *)
(***************************************************************************)
EXTENDS WordSplit

CONSTANT ShellName    \* $0

HashSign == 35
AtSign == 64

(***************************************************************************)
(* Reading.                                                                *)
(***************************************************************************)
InOrder(S) ==
  [k \in 1..Cardinality(S) |-> CHOOSE x \in S : Cardinality({y \in S : y < x}) = k - 1]
PairsAt(v, ks) == [i \in DOMAIN ks |-> [key |-> ks[i], w |-> v.at[ks[i]]]]
Pairs(v) ==
  IF v.kind = "scalar" /\ as_scalar(v) = Empty THEN <<>> ELSE PairsAt(v, InOrder(DOMAIN v.at))
PairsOf(env, r) == IF IsSet(env, r) THEN Pairs(env[r]) ELSE <<>>
get_array_kv_pairs(t, n) == PairsOf(t.env, Resolved(t, n))
WordsOf(ps) == [i \in DOMAIN ps |-> ps[i].w]
get_array_values(t, n) == WordsOf(get_array_kv_pairs(t, n))
KeysOf(ps) == [i \in DOMAIN ps |-> Numeral(ps[i].key)]
get_array_keys(t, n) == KeysOf(get_array_kv_pairs(t, n))

ParamAt(t, i) == IF i \in DOMAIN t.params THEN t.params[i] ELSE Empty
Joined(t, values, star) == JoinWith(values, IF star THEN FirstOfIfs(t.env) ELSE <<SP>>)
resolve_special(t, c) ==
  Numeral(IF c = HashSign THEN Len(t.params) ELSE t.status)

\* An index where nothing can be evaluated: a number or a name, else 0.
NumberIn(w) == IF ParsesAsNumber(w) THEN ValueOf(w) ELSE 0
simple_arith_eval(w, t) ==
  IF IsNumber(w) THEN ValueOf(w)
  ELSE IF w \in Valid THEN NumberIn(ScalarOf(t.env, Resolved(t, w))) ELSE 0

resolve_parameter_direct(p, t) ==
  CASE p.k = "name"    -> get_var(t.env, p.n)
    [] p.k = "pos"     -> ParamAt(t, p.i)
    [] p.k = "special" -> resolve_special(t, p.c)
    [] p.k = "all"     -> Joined(t, t.params, p.star)
    [] p.k = "array"   -> Joined(t, get_array_values(t, p.n), p.star)
    [] p.k = "elem"    -> IF p.index = Empty THEN Empty
                          ELSE resolve_array_element(t.env, p.n, simple_arith_eval(p.index, t))

\* What a text names, for ${!x}.
parse_indirect_target_parameter(w) ==
  IF w \in DOMAIN Subscripted
    THEN [k |-> "elem", indirect |-> FALSE, n |-> Subscripted[w].arr,
          index |-> Numeral(Subscripted[w].key)]
  ELSE IF Digits(w) THEN [k |-> "pos", indirect |-> FALSE, i |-> ValueOf(w)]
  ELSE IF w \in {<<AtSign>>, <<STAR>>}
    THEN [k |-> "all", indirect |-> FALSE, star |-> w = <<STAR>>]
  ELSE IF w \in {HASH, QUERY} THEN [k |-> "special", indirect |-> FALSE, c |-> w[1]]
  ELSE [k |-> "name", indirect |-> FALSE, n |-> w]

is_valid_indirect_target(w) ==
  w = Empty \/ w \in Valid \cup DOMAIN Subscripted \cup {<<AtSign>>, <<STAR>>, HASH, QUERY} \/ Digits(w)
resolve_indirect_value(w, t) ==
  IF w = Empty THEN Empty
  ELSE IF Digits(w) /\ ValueOf(w) = 0 THEN ShellName
  ELSE resolve_parameter_direct(parse_indirect_target_parameter(w), t)

\* A name reference read indirectly gives the name it refers to.
IsReference(p, t) == p.k = "name" /\ Has(t.env, p.n, "nameref")
Indirectly(p, w, t) ==
  IF ~p.indirect THEN w
  ELSE IF IsReference(p, t) THEN as_scalar(t.env[p.n])
  ELSE resolve_indirect_value(w, t)
resolve_parameter(p, t) == Indirectly(p, resolve_parameter_direct(p, t), t)

\* A text with the state that reading it leaves.
Read(t, w) == [err |-> "ok", w |-> w, t |-> t]
Unread(r) == [err |-> r.err, w |-> Empty, t |-> r.t]
\* Where the state may change, the index of an element is an expression.
ElementAt(n, i) ==
  IF i.err # "ok" THEN Unread(i) ELSE Read(i.t, resolve_array_element(i.t.env, n, i.v))
resolve_array_element_mut(p, t) ==
  IF p.index = Empty THEN Unread(Bad(t, "shell"))
  ELSE ElementAt(p.n, eval_arithmetic(p.index, t))
ReadThrough(p, r) == IF r.err # "ok" THEN r ELSE [r EXCEPT !.w = Indirectly(p, @, r.t)]
resolve_parameter_maybe_mut(p, t) ==
  IF p.k = "name" /\ resolve_nameref(t.env, p.n) = Circular
  THEN Read([t EXCEPT !.status = 1], Empty)
  ELSE ReadThrough(p, IF p.k = "elem" THEN resolve_array_element_mut(p, t)
                      ELSE Read(t, resolve_parameter_direct(p, t)))

(***************************************************************************)
(* Is a parameter set?                                                     *)
(***************************************************************************)
ElementUnset(v, k) ==
  IF v.kind = "scalar" THEN k \notin {0, -1} ELSE FromEnd(v, k) \notin DOMAIN v.at
NameUnset(p, r, t) ==
  CASE p.k = "name"  -> \/ ~IsSet(t.env, r) \/ Has(t.env, r, "declared_only")
                        \/ IsKind(t.env, r, "indexed") /\ 0 \notin DOMAIN t.env[r].at
    [] p.k = "elem"  -> ~IsSet(t.env, r)
                          \/ ElementUnset(t.env[r], simple_arith_eval(p.index, t))
    [] p.k = "array" -> ~IsSet(t.env, r)
is_unset(p, t) ==
  CASE p.k \in {"name", "elem", "array"} -> NameUnset(p, Resolved(t, p.n), t)
    [] p.k = "pos"   -> p.i # 0 /\ p.i \notin DOMAIN t.params
    [] p.k \in {"special", "all"} -> FALSE

check_nounset(p, t) ==
  IF t.nounset /\ p.k \in {"name", "elem", "pos"} /\ is_unset(p, t) THEN "fatal" ELSE "ok"
validate_indirect_reference(p, t) ==
  IF p.indirect /\ (is_unset(p, t) \/ ~is_valid_indirect_target(resolve_parameter_direct(p, t)))
  THEN "shell" ELSE "ok"

IsVector(p) == p.k \in {"all", "array"}
get_vectorized_values(p, t) == IF p.k = "all" THEN t.params ELSE get_array_values(t, p.n)
InWords(p, values, t, dq) ==
  IF ~p.star \/ values = <<>> \/ (~dq /\ ifs_empty(t.env)) THEN values
  ELSE <<Joined(t, values, TRUE)>>
vectorized_parameter_words(p, t, dq) == InWords(p, get_vectorized_values(p, t), t, dq)

\* Tests "null" and "unset": for a list of words, and for one value w.
should_use_default_for_words(null, words) ==
  words = <<>> \/ (null /\ words = <<Empty>>)
should_use_default(p, w, null, t) == (null /\ w = Empty) \/ is_unset(p, t)
UsesDefault(p, w, null, t, dq) ==
  IF IsVector(p) THEN should_use_default_for_words(null, vectorized_parameter_words(p, t, dq))
  ELSE should_use_default(p, w, null, t)
\* With the state: what an indirect parameter names is read again.
NamedUsesDefault(aim, w, null, t, dq) ==
  aim = Empty \/ UsesDefault(parse_indirect_target_parameter(aim), w, null, t, dq)
Decides(r, w, null, dq) == [use |-> NamedUsesDefault(r.w, w, null, r.t, dq), t |-> r.t]
should_use_default_for_parameter_mut(p, w, null, t, dq) ==
  IF ~p.indirect THEN [use |-> UsesDefault(p, w, null, t, dq), t |-> t]
  ELSE Decides(resolve_parameter_maybe_mut([p EXCEPT !.indirect = FALSE], t), w, null, dq)
\* The same without a change of the state.
should_use_default_for_parameter(p, w, null, t, dq) ==
  IF ~p.indirect THEN UsesDefault(p, w, null, t, dq)
  ELSE NamedUsesDefault(resolve_parameter_direct(p, t), w, null, t, dq)

NamedUnset(aim, t) == aim = Empty \/ is_unset(parse_indirect_target_parameter(aim), t)
parameter_scalar_is_unset(p, t) ==
  IF ~p.indirect THEN is_unset(p, t) ELSE NamedUnset(resolve_parameter_direct(p, t), t)

(***************************************************************************)
(* Putting values into the words.                                          *)
(***************************************************************************)
RECURSIVE PushEach(_, _, _, _, _)
\* Each value but the first starts a word; marks says whether an empty value
\* leaves a mark.
PushEach(words, values, first, dq, marks) ==
  IF values = <<>> THEN words
  ELSE LET here == IF first THEN words ELSE start_new_word(words)
           next == IF marks /\ values[1] = Empty THEN push_synthetic_empty_segment(here)
                   ELSE push_segment(here, values[1], dq, dq)
       IN  PushEach(next, Tail(values), FALSE, dq, marks)

push_vectorized(words, values, star, t, dq) ==
  IF star THEN push_segment(words, Joined(t, values, TRUE), dq, dq)
  ELSE PushEach(words, values, TRUE, dq, ~dq /\ ifs_preserves_unquoted_empty(t.env))

\* $*, ${x[*]} with an empty IFS, outside of quotes, are like $@.
PushValues(words, p, values, t, dq) ==
  IF p.star /\ ~dq /\ ifs_empty(t.env) THEN PushEach(words, values, TRUE, FALSE, FALSE)
  ELSE push_vectorized(words, values, p.star, t, dq)
expand_param_value(words, p, w, t, dq) ==
  IF IsVector(p) THEN PushValues(words, p, get_vectorized_values(p, t), t, dq)
  ELSE push_segment(words, w, dq, dq)
\* Is it the expansion that makes quotes around it produce no word?
at_empty(p, t, dq) ==
  /\ IsVector(p)
  /\ get_vectorized_values(p, t) = <<>>
  /\ p.star => ~dq /\ ifs_empty(t.env)

push_expanded_parameter_value(words, p, w, t, dq) ==
  IF ~p.indirect /\ IsVector(p)
  THEN push_vectorized(words, get_vectorized_values(p, t), p.star, t, dq)
  ELSE push_segment(words, w, dq, dq)

(***************************************************************************)
(* What the operators make of one value.                                   *)
(***************************************************************************)
\* The text after the first n characters, or the first n, with what replaces
\* the others; all of it when there is no match.
HeadFor(w, n, repl) == IF n = NoMatch THEN w ELSE repl \o From(w, n + 1)
TailFor(w, n, repl) == IF n = NoMatch THEN w ELSE SubSeq(w, 1, n) \o repl
StripPrefix(w, pat, longest) ==
  HeadFor(w, IF longest THEN longest_prefix_match(w, pat) ELSE shortest_prefix_match(w, pat),
          <<>>)
StripSuffix(w, pat, longest) ==
  TailFor(w, IF longest THEN longest_suffix_match(w, pat) ELSE shortest_suffix_match(w, pat),
          <<>>)

Between(w, m, repl) ==
  IF m = <<>> THEN w ELSE SubSeq(w, 1, m[1]) \o repl \o From(w, m[2] + 1)
do_replace(w, pat, repl, kind) ==
  CASE kind = "all"    -> replace_all(w, pat, repl)
    [] kind = "first"  -> Between(w, first_match(w, pat), repl)
    [] kind = "prefix" -> HeadFor(w, longest_prefix_match(w, pat), repl)
    [] kind = "suffix" -> TailFor(w, longest_suffix_match(w, pat), repl)

\* An empty pattern is none, and stands for every character.
pattern_matches_char(pat, c) == pat = <<>> \/ extglob_match(pat, <<c>>)
Cased(c, up) == IF up THEN to_ascii_uppercase(c) ELSE to_ascii_lowercase(c)
change_case(w, pat, up, first) ==
  [i \in DOMAIN w |-> IF (first => i = 1) /\ pattern_matches_char(pat, w[i])
                      THEN Cased(w[i], up) ELSE w[i]]

\* A slice: the values, or characters, after the first i, at most n of them.
SkipTake(values, i, n) == SubSeq(values, i + 1, SmallerOf(Len(values), i + n))
ScalarSlice(w, off, len) ==
  LET i == IF off < 0 THEN LargerOf(0, Len(w) + off) ELSE off
      n == IF len < 0 THEN LargerOf(0, Len(w) - i + len) ELSE len
  IN  IF i <= Len(w) THEN SkipTake(w, i, n) ELSE Empty
\* $@ counts from $0, and an offset past it gives nothing.
positional_slice_values_and_start(t, off) ==
  LET full == 1 + Len(t.params)
      named == <<ShellName>> \o t.params
  IN  IF off = 0 \/ full + off = 0 THEN [values |-> named, start |-> 0]
      ELSE IF off > 0 THEN [values |-> t.params, start |-> off - 1]
      ELSE IF full + off < 0 THEN [values |-> <<>>, start |-> 0]
      ELSE [values |-> t.params, start |-> full + off - 1]
\* The elements from a key on; a negative one counts from the last key.
ArraySlice(pairs, off, n) ==
  LET last == IF pairs = <<>> THEN 0 ELSE Last(pairs).key
      key == IF off < 0 THEN last + 1 + off ELSE off
      kept == IF key < 0 THEN <<>> ELSE SelectSeq(pairs, LAMBDA p : p.key >= key)
  IN  SkipTake([i \in DOMAIN kept |-> kept[i].w], 0, n)

(***************************************************************************)
(* Quoting, and reading a quotation.                                       *)
(***************************************************************************)
QUOTE == 39
BACKSLASH == 92
DOLLAR == 36
IsControl(c) == c \in 0..31 \cup {127}
\* The letters of escapes, by the character they stand for.
EscapeLetter ==
  (QUOTE :> QUOTE) @@ (BACKSLASH :> BACKSLASH) @@ (10 :> 110) @@ (9 :> 116) @@ (13 :> 114)
    @@ (7 :> 97) @@ (8 :> 98) @@ (12 :> 102) @@ (11 :> 118) @@ (27 :> 69)
Octal(c) == <<48 + c \div 64, 48 + ((c \div 8) % 8), 48 + (c % 8)>>
Escaped(c) ==
  IF c \in DOMAIN EscapeLetter THEN <<BACKSLASH, EscapeLetter[c]>>
  ELSE IF IsControl(c) THEN <<BACKSLASH>> \o Octal(c) ELSE <<c>>

shell_quote(w) ==
  LET each(F(_)) == FlattenSeq([i \in DOMAIN w |-> F(w[i])])
      reopened(c) == IF c = QUOTE THEN <<QUOTE, BACKSLASH, QUOTE, QUOTE>> ELSE <<c>>
  IN  IF \E i \in DOMAIN w : IsControl(w[i])
      THEN <<DOLLAR, QUOTE>> \o each(Escaped) \o <<QUOTE>>
      ELSE <<QUOTE>> \o each(reopened) \o <<QUOTE>>

\* $'...' and @E: letters, octal numbers, anything else as it is.
IsOctal(c) == c \in 48..55
RECURSIVE OctalValue(_)
OctalValue(w) ==
  IF w = <<>> THEN 0 ELSE 8 * OctalValue(SubSeq(w, 1, Len(w) - 1)) + w[Len(w)] - 48
OctalLength(w) ==
  LET most == IF w[1] = 48 THEN 4 ELSE 3
  IN  MostIn({n \in 1..SmallerOf(most, Len(w)) : \A i \in 1..n : IsOctal(w[i])})
Letters == (101 :> 27) @@ (34 :> 34) @@ [x \in Range(EscapeLetter) |->
              CHOOSE c \in DOMAIN EscapeLetter : EscapeLetter[c] = x]

\* An escape that gives the character 0 ends the text.
RECURSIVE expand_escape_sequences(_)
expand_escape_sequences(w) ==
  IF Len(w) < 2 THEN w
  ELSE IF w[1] # BACKSLASH THEN <<w[1]>> \o expand_escape_sequences(Tail(w))
  ELSE IF w[2] \in DOMAIN Letters
    THEN <<Letters[w[2]]>> \o expand_escape_sequences(From(w, 3))
  ELSE IF ~IsOctal(w[2]) THEN SubSeq(w, 1, 2) \o expand_escape_sequences(From(w, 3))
  ELSE LET n == OctalLength(Tail(w))
           c == OctalValue(SubSeq(w, 2, n + 1)) % 256
       IN  IF c = 0 THEN <<>> ELSE <<c>> \o expand_escape_sequences(From(w, n + 2))

\* ${x@U} and its relatives.
apply_transform(w, f, defined) ==
  CASE f = "U" -> change_case(w, <<>>, TRUE, FALSE)
    [] f = "L" -> change_case(w, <<>>, FALSE, FALSE)
    [] f = "u" -> change_case(w, <<>>, TRUE, TRUE)
    [] f = "E" -> expand_escape_sequences(w)
    [] f = "Q" -> IF defined THEN shell_quote(w) ELSE Empty
=============================================================================
