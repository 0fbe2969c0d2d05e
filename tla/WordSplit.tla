----------------------------- MODULE WordSplit ------------------------------
(***************************************************************************)
(* What src/interpreter/expansion.rs makes of an expanded word: fields,    *)
(* and the names of files.  A word under expansion is a sequence of        *)
(* segments [w, q, g, s]: the text w, q when it may not be split, g when   *)
(* its pattern characters stand for themselves, s for the empty mark that  *)
(* an empty element leaves.  A code of Elements stands for one bracket     *)
(* expression or group of the source.                                      *)
(***************************************************************************)
EXTENDS ShellArith, FiniteSets, SequencesExt

(***************************************************************************)
(* The pattern matcher of src/interpreter/pattern.rs.  A text is a         *)
(* sequence of character codes.  A pattern is a sequence of elements, the  *)
(* parsed form of what the code reads byte by byte:                        *)
(*   [k |-> "lit", c]              a character, escaped or not             *)
(*   [k |-> "any"], [k |-> "star"] ? and *                                 *)
(*   [k |-> "class", neg, ranges, named]  [...]: pairs of a first and a    *)
(*                                 last one, and those of named classes    *)
(*   [k |-> "group", op, alts]     op(alt|...), op one of @ ? + * !        *)
(* Characters of several bytes and brackets left open are not modelled.    *)
(***************************************************************************)
\* How deep the matcher of groups recurses before it gives up.
CONSTANT MAX_EXTGLOB_DEPTH

SLASH == 47

to_ascii_lowercase(c) == IF c \in 65..90 THEN c + 32 ELSE c
to_ascii_uppercase(c) == IF c \in 97..122 THEN c - 32 ELSE c
bytes_eq(c, d, nocase) ==
  c = d \/ (nocase /\ to_ascii_lowercase(c) = to_ascii_lowercase(d))

InRange(c, r, nocase) ==
  IF nocase THEN to_ascii_lowercase(c) \in to_ascii_lowercase(r[1])..to_ascii_lowercase(r[2])
  ELSE c \in r[1]..r[2]
\* A named class is what it is, whatever the case of a letter.
match_char_class(e, c, nocase) ==
  (\E r \in e.ranges \cup e.named : InRange(c, r, nocase /\ r \in e.ranges)) # e.neg

posix_class_matches(name) ==
  CASE name = "alpha" -> {<<65, 90>>, <<97, 122>>} [] name = "digit" -> {<<48, 57>>}
    [] name = "alnum" -> {<<65, 90>>, <<97, 122>>, <<48, 57>>}
    [] name = "upper" -> {<<65, 90>>} [] name = "lower" -> {<<97, 122>>}
    [] name = "space" -> {<<9, 10>>, <<12, 13>>, <<32, 32>>}
    [] name = "blank" -> {<<9, 9>>, <<32, 32>>}
    [] name = "xdigit" -> {<<48, 57>>, <<65, 70>>, <<97, 102>>}
    [] name = "print" -> {<<32, 126>>} [] name = "graph" -> {<<33, 126>>}
    [] name = "cntrl" -> {<<0, 31>>, <<127, 127>>}
    [] name = "punct" -> {<<33, 47>>, <<58, 64>>, <<91, 96>>, <<123, 126>>}
    [] name = "ascii" -> {<<0, 127>>} [] OTHER -> {}

\* Does one element that is no star take this character?  In path mode ? does
\* not take a slash; a class does.
Takes(e, c, o) ==
  CASE e.k = "lit" -> bytes_eq(e.c, c, o.nocase)
    [] e.k = "any" -> ~(o.path_mode /\ c = SLASH)
    [] e.k = "class" -> match_char_class(e, c, o.nocase)

Is(pat, i, k) == i <= Len(pat) /\ pat[i].k = k

(***************************************************************************)
(* Without groups: one pass that remembers the last star, and on a         *)
(* mismatch lets that star take one character more.                        *)
(***************************************************************************)
\* Mutant: the star forgets where it stood, and goes on from the mismatch.
RECURSIVE Scan_forgets(_, _, _, _, _, _, _)
Scan_forgets(pat, txt, o, pi, ti, star_pi, star_ti) ==
  IF ti > Len(txt) THEN \A i \in pi..Len(pat) : pat[i].k = "star"
  ELSE IF Is(pat, pi, "star") THEN Scan_forgets(pat, txt, o, pi + 1, ti, pi, ti)
  ELSE IF pi <= Len(pat) /\ Takes(pat[pi], txt[ti], o)
       THEN Scan_forgets(pat, txt, o, pi + 1, ti + 1, star_pi, star_ti)
  ELSE star_pi # 0 /\ Scan_forgets(pat, txt, o, star_pi + 1, ti + 1, star_pi, ti + 1)

RECURSIVE Scan(_, _, _, _, _, _, _)
Scan(pat, txt, o, pi, ti, star_pi, star_ti) ==
  IF ti > Len(txt) THEN \A i \in pi..Len(pat) : pat[i].k = "star"
  ELSE IF Is(pat, pi, "star") THEN Scan(pat, txt, o, pi + 1, ti, pi, ti)
  ELSE IF pi <= Len(pat) /\ Takes(pat[pi], txt[ti], o)
       THEN Scan(pat, txt, o, pi + 1, ti + 1, star_pi, star_ti)
  ELSE /\ star_pi # 0
       /\ ~(o.path_mode /\ txt[star_ti] = SLASH)
       /\ Scan(pat, txt, o, star_pi + 1, star_ti + 1, star_pi, star_ti + 1)

glob_match_inner(pat, txt, o) == Scan(pat, txt, o, 1, 1, 0, 0)

Plain == [nocase |-> FALSE, path_mode |-> FALSE]
glob_match(pat, txt) == glob_match_inner(pat, txt, Plain)
glob_match_nocase(pat, txt) == glob_match_inner(pat, txt, [Plain EXCEPT !.nocase = TRUE])

(***************************************************************************)
(* With groups: the matcher tries every way to divide the text.            *)
(***************************************************************************)
has_extglob_syntax(pat) == \E i \in DOMAIN pat : pat[i].k = "group"
From(s, i) == SubSeq(s, i, Len(s))

RECURSIVE ext_match(_, _, _, _)
RECURSIVE ext_match_repeat(_, _, _, _, _, _)

AltTakes(alts, txt, nocase, depth) ==
  \E a \in DOMAIN alts : ext_match(alts[a], txt, nocase, depth + 1)

\* Some alternative takes a beginning of the text, and the rest matches.
Once(alts, rest, txt, nocase, depth) ==
  \E n \in 0..Len(txt) : /\ AltTakes(alts, SubSeq(txt, 1, n), nocase, depth)
                         /\ ext_match(rest, From(txt, n + 1), nocase, depth + 1)

ext_match_group(e, rest, txt, nocase, depth) ==
  CASE e.op = "@" -> Once(e.alts, rest, txt, nocase, depth)
    [] e.op = "?" -> ext_match(rest, txt, nocase, depth + 1)
                       \/ Once(e.alts, rest, txt, nocase, depth)
    [] e.op = "+" -> ext_match_repeat(e.alts, rest, txt, nocase, depth, 1)
    [] e.op = "*" -> ext_match_repeat(e.alts, rest, txt, nocase, depth, 0)
    [] e.op = "!" -> \E n \in 0..Len(txt) :
                       /\ ~AltTakes(e.alts, SubSeq(txt, 1, n), nocase, depth)
                       /\ ext_match(rest, From(txt, n + 1), nocase, depth + 1)

\* A repetition takes at least one character.
ext_match_repeat(alts, rest, txt, nocase, depth, min_count) ==
  /\ depth <= MAX_EXTGLOB_DEPTH
  /\ \/ min_count = 0 /\ ext_match(rest, txt, nocase, depth + 1)
     \/ \E n \in 1..Len(txt) :
          /\ AltTakes(alts, SubSeq(txt, 1, n), nocase, depth)
          /\ ext_match_repeat(alts, rest, From(txt, n + 1), nocase, depth + 1, 0)

ext_match(pat, txt, nocase, depth) ==
  /\ depth <= MAX_EXTGLOB_DEPTH
  /\ IF pat = <<>> THEN txt = <<>>
     ELSE IF Head(pat).k = "group"
          THEN ext_match_group(Head(pat), Tail(pat), txt, nocase, depth)
     ELSE IF Head(pat).k = "star"
          THEN \E n \in 1..(Len(txt) + 1) :
                 ext_match(Tail(pat), From(txt, n), nocase, depth + 1)
     ELSE /\ txt # <<>>
          /\ Takes(Head(pat), Head(txt), [Plain EXCEPT !.nocase = nocase])
          /\ ext_match(Tail(pat), Tail(txt), nocase, depth)

extglob_match(pat, txt) ==
  IF has_extglob_syntax(pat) THEN ext_match(pat, txt, FALSE, 0) ELSE glob_match(pat, txt)

(***************************************************************************)
(* Where a pattern matches.  Positions count characters before the match;  *)
(* NoMatch is none.                                                        *)
(***************************************************************************)
NoMatch == -1
LeastIn(S) == IF S = {} THEN NoMatch ELSE CHOOSE x \in S : \A y \in S : x <= y
MostIn(S) == IF S = {} THEN NoMatch ELSE CHOOSE x \in S : \A y \in S : x >= y

PrefixLengths(txt, pat) == {n \in 0..Len(txt) : extglob_match(pat, SubSeq(txt, 1, n))}
SuffixStarts(txt, pat) == {n \in 0..Len(txt) : extglob_match(pat, From(txt, n + 1))}

shortest_prefix_match(txt, pat) == LeastIn(PrefixLengths(txt, pat))
longest_prefix_match(txt, pat) == MostIn(PrefixLengths(txt, pat))
shortest_suffix_match(txt, pat) == MostIn(SuffixStarts(txt, pat))
longest_suffix_match(txt, pat) == LeastIn(SuffixStarts(txt, pat))

EndsAt(txt, pat, i) == {j \in i..Len(txt) : extglob_match(pat, SubSeq(txt, i + 1, j))}
\* The longest match at the earliest place.
LongestAt(txt, pat, i) == IF i = NoMatch THEN <<>> ELSE <<i, MostIn(EndsAt(txt, pat, i))>>
first_match(txt, pat) ==
  LongestAt(txt, pat, LeastIn({s \in 0..Len(txt) : EndsAt(txt, pat, s) # {}}))

\* Every match that is not empty, from the left.
RECURSIVE replace_from(_, _, _, _)
replace_from(txt, pat, replacement, i) ==
  IF i >= Len(txt) THEN <<>>
  ELSE LET j == MostIn(EndsAt(txt, pat, i) \ {i})
       IN  IF j = NoMatch THEN <<txt[i + 1]>> \o replace_from(txt, pat, replacement, i + 1)
           ELSE replacement \o replace_from(txt, pat, replacement, j)
replace_all(txt, pat, replacement) == replace_from(txt, pat, replacement, 0)

(***************************************************************************)
(* Words under expansion.                                                  *)
(***************************************************************************)
CONSTANTS
  Elements,          \* codes of bracket expressions and groups -> element
  Files,             \* the names in the working directory
  max_glob_results

SP == 32
TAB == 9
LF == 10
STAR == 42
QUESTION == 63
IFS == <<73, 70, 83>>     \* the name IFS
White == {SP, TAB, LF}

(***************************************************************************)
(* Segments.                                                               *)
(***************************************************************************)
Seg(w, q, g) == [w |-> w, q |-> q, g |-> g, s |-> FALSE]
Synthetic == [w |-> Empty, q |-> FALSE, g |-> FALSE, s |-> TRUE]

\* In place of the last of a sequence.
OnLast(words, word) == SubSeq(words, 1, Len(words) - 1) \o <<word>>

\* Text joins the last segment when it is of the same kind; text that is
\* empty and not quoted is nothing.
Joins(word, q, g) ==
  word # <<>> /\ Last(word).q = q /\ Last(word).g = g /\ ~Last(word).s
push_segment(words, w, q, g) ==
  LET word == Last(words)
  IN  IF w = Empty /\ ~q THEN words
      ELSE IF Joins(word, q, g)
      THEN OnLast(words, OnLast(word, [Last(word) EXCEPT !.w = @ \o w]))
      ELSE OnLast(words, word \o <<Seg(w, q, g)>>)

push_synthetic_empty_segment(words) == OnLast(words, Last(words) \o <<Synthetic>>)
start_new_word(words) == words \o << <<>> >>

(***************************************************************************)
(* The separators.                                                         *)
(***************************************************************************)
IsUnset(env, n) == ~IsSet(env, resolve_nameref_or_self(env, n))
get_ifs(env) == IF IsUnset(env, IFS) THEN <<SP, TAB, LF>> ELSE get_var(env, IFS)
FirstOf(w) == IF w = Empty THEN Empty ELSE <<w[1]>>
FirstOfIfs(env) == FirstOf(get_ifs(env))
ifs_empty(env) == get_ifs(env) = Empty
ifs_preserves_unquoted_empty(env) == Range(get_ifs(env)) \ White # {}

RECURSIVE JoinWith(_, _)
JoinWith(values, sep) ==
  IF values = <<>> THEN Empty
  ELSE IF Len(values) = 1 THEN values[1]
  ELSE values[1] \o sep \o JoinWith(Tail(values), sep)

(***************************************************************************)
(* Fields.  A character is [c, q, g]; a field is its characters.           *)
(***************************************************************************)
Flat(word) ==
  FlattenSeq([i \in DOMAIN word |->
    [j \in DOMAIN word[i].w |-> [c |-> word[i].w[j], q |-> word[i].q, g |-> word[i].g]]])

Separates(x, cs) == ~x.q /\ x.c \in cs
\* Where a run of blanks that starts at i ends.
Past(chars, i, ws) ==
  LeastIn({j \in i..(Len(chars) + 1) : j > Len(chars) \/ ~Separates(chars[j], ws)})

\* Mutant: blanks around another separator divide too.
RECURSIVE SplitFrom_twice(_, _, _, _, _, _)
SplitFrom_twice(chars, i, cur, out, ws, nw) ==
  IF i > Len(chars) THEN [out |-> out, cur |-> cur]
  ELSE IF Separates(chars[i], nw)
  THEN SplitFrom_twice(chars, Past(chars, i + 1, ws), <<>>, out \o <<cur>>, ws, nw)
  ELSE IF Separates(chars[i], ws)
  THEN SplitFrom_twice(chars, Past(chars, i, ws), <<>>,
                       IF cur # <<>> THEN out \o <<cur>> ELSE out, ws, nw)
  ELSE SplitFrom_twice(chars, i + 1, cur \o <<chars[i]>>, out, ws, nw)

\* The fields from position i on; a separator that is no blank takes the
\* blanks on both sides, and always ends a field.
RECURSIVE SplitFrom(_, _, _, _, _, _)
SplitFrom(chars, i, cur, out, ws, nw) ==
  IF i > Len(chars) THEN [out |-> out, cur |-> cur]
  ELSE IF Separates(chars[i], nw)
  THEN SplitFrom(chars, Past(chars, i + 1, ws), <<>>, out \o <<cur>>, ws, nw)
  ELSE IF Separates(chars[i], ws)
  THEN LET j == Past(chars, i, ws)
           absorbed == j <= Len(chars) /\ Separates(chars[j], nw)
       IN  IF absorbed \/ cur = <<>> THEN SplitFrom(chars, j, cur, out, ws, nw)
           ELSE SplitFrom(chars, j, <<>>, out \o <<cur>>, ws, nw)
  ELSE SplitFrom(chars, i + 1, cur \o <<chars[i]>>, out, ws, nw)

Anchor(seg) == seg.q /\ seg.w = Empty

\* Empty quotes at the ends of a word stand for fields of their own, at its
\* end only when nothing is left to hang them on.
ifs_split_word(word, ifs) ==
  LET chars == Flat(word)
      quoted == \E i \in DOMAIN word : word[i].q
      leading == word # <<>> /\ Anchor(word[1])
      trailing == Len(word) > 1 /\ Anchor(Last(word))
      ws == Range(ifs) \cap White
      nw == Range(ifs) \ White
      r == SplitFrom(chars, IF leading THEN 1 ELSE Past(chars, 1, ws), <<>>,
                     IF leading THEN << <<>> >> ELSE <<>>, ws, nw)
  IN  IF chars = <<>>
      THEN IF quoted \/ \E i \in DOMAIN word : word[i].s THEN << <<>> >> ELSE <<>>
      ELSE IF \A i \in DOMAIN chars : chars[i].q THEN <<chars>>
      ELSE IF r.cur # <<>> THEN r.out \o <<r.cur>>
      ELSE IF trailing \/ (quoted /\ r.out = <<>>) THEN r.out \o << <<>> >>
      ELSE r.out

word_is_synthetic_only(word) == word # <<>> /\ \A i \in DOMAIN word : word[i].s

finalize_with_ifs_split(words, env) ==
  FlattenSeq([i \in DOMAIN words |->
    IF i = Len(words) /\ word_is_synthetic_only(words[i]) THEN <<>>
    ELSE ifs_split_word(words[i], get_ifs(env))])

\* For read: characters that are quoted one by one.
split_ifs_quoted_chars(chars, ifs) ==
  ifs_split_word([i \in DOMAIN chars |-> Seg(<<chars[i].c>>, chars[i].q, chars[i].q)], ifs)

TextIn(field) == [i \in DOMAIN field |-> field[i].c]
finalize_no_split(words) == [i \in DOMAIN words |-> TextIn(Flat(words[i]))]

(***************************************************************************)
(* Patterns, and the names they stand for.                                 *)
(***************************************************************************)
ElementOf(x) ==
  IF x.g THEN [k |-> "lit", c |-> x.c]
  ELSE IF x.c = STAR THEN [k |-> "star"]
  ELSE IF x.c = QUESTION THEN [k |-> "any"]
  ELSE IF x.c \in DOMAIN Elements THEN Elements[x.c]
  ELSE [k |-> "lit", c |-> x.c]
PatternOf(field) == [i \in DOMAIN field |-> ElementOf(field[i])]

\* A pattern of several words has blanks between them.
finalize_no_split_pattern(words) ==
  PatternOf(JoinWith([i \in DOMAIN words |-> Flat(words[i])],
                     <<[c |-> SP, q |-> TRUE, g |-> TRUE]>>))

is_glob_meta(c) == c \in {STAR, QUESTION} \cup DOMAIN Elements
may_glob(field) == \E i \in DOMAIN field : ~field[i].g /\ is_glob_meta(field[i].c)

\* The order of strings, and names in that order.
Before(v, w) ==
  \E i \in 1..Len(w) : /\ \A j \in 1..(i - 1) : j <= Len(v) /\ v[j] = w[j]
                       /\ i > Len(v) \/ v[i] < w[i]
Sorted(S) ==
  [k \in 1..Cardinality(S) |->
     CHOOSE w \in S : Cardinality({v \in S : Before(v, w)}) = k - 1]

DOTCHAR == 46
\* Hidden names match only a pattern that starts with the dot itself.
Hidden(w, pat) == w # <<>> /\ w[1] = DOTCHAR /\ pat[1] # [k |-> "lit", c |-> DOTCHAR]
glob(pat) == Sorted({w \in Files : extglob_match(pat, w) /\ ~Hidden(w, pat)})

\* A pattern without names stays as it is, vanishes or is an error.
FieldNames(field, opts) ==
  LET found == glob(PatternOf(field))
  IN  IF "noglob" \in opts \/ ~may_glob(field)
        THEN [err |-> "ok", fields |-> <<TextIn(field)>>]
      ELSE IF Len(found) > max_glob_results THEN [err |-> "limit", fields |-> <<>>]
      ELSE IF found # <<>> THEN [err |-> "ok", fields |-> found]
      ELSE IF "failglob" \in opts THEN [err |-> "failglob", fields |-> <<>>]
      ELSE IF "nullglob" \in opts THEN [err |-> "ok", fields |-> <<>>]
      ELSE [err |-> "ok", fields |-> <<TextIn(field)>>]

glob_expand_words(fields, opts) ==
  LET each == [i \in DOMAIN fields |-> FieldNames(fields[i], opts)]
      bad == {i \in DOMAIN fields : each[i].err # "ok"}
  IN  IF bad # {} THEN [err |-> each[LeastIn(bad)].err, fields |-> <<>>]
      ELSE [err |-> "ok", fields |-> FlattenSeq([i \in DOMAIN each |-> each[i].fields])]
=============================================================================
