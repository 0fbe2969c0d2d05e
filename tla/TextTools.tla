------------------------------ MODULE TextTools ----------------------------
(***************************************************************************)
(* The text commands of src/commands/text.rs as functions of the text they *)
(* read.  Text is a sequence of character codes; a tool gives its output   *)
(* and its status.  Regular expressions are abstracted to one character,   *)
(* options to a record; column widths and number formats are left out.     *)
(***************************************************************************)
EXTENDS Integers, Sequences, FiniteSets, SequencesExt

TAB   == 9
LF    == 10
SPACE == 32
Dash  == <<45, 45>>

Num(n) == <<48 + n>>     \* bound: numbers of one digit

(***************************************************************************)
(* Lines, fields and words.                                                *)
(***************************************************************************)
\* The members of a set of numbers in increasing order.
InOrder(S) ==
  [k \in 1..Cardinality(S) |-> CHOOSE i \in S : Cardinality({j \in S : j < i}) = k - 1]

Between(w, cuts) ==
  [k \in 1..(Len(cuts) - 1) |-> SubSeq(w, cuts[k] + 1, cuts[k + 1] - 1)]
Split(w, c) ==
  Between(w, InOrder({0, Len(w) + 1} \cup {i \in DOMAIN w : w[i] = c}))

DropEmptyEnd(parts) ==
  IF parts # <<>> /\ parts[Len(parts)] = <<>> THEN SubSeq(parts, 1, Len(parts) - 1)
  ELSE parts

\* str::lines: the newline at the end starts no line.
Lines(w) == DropEmptyEnd(Split(w, LF))
Unlines(ls) == FlattenSeq([i \in DOMAIN ls |-> ls[i] \o <<LF>>])

Filled(w) == w # <<>>
Words(w) ==
  SelectSeq(Split([i \in DOMAIN w |-> IF w[i] \in {TAB, LF} THEN SPACE ELSE w[i]], SPACE),
            Filled)
Joined(parts, sep) ==
  FlattenSeq([i \in DOMAIN parts |-> IF i = 1 THEN parts[i] ELSE sep \o parts[i]])

\* The order of strings.
Below(a, b) ==
  \E i \in 1..Len(b) : /\ \A j \in 1..(i - 1) : j <= Len(a) /\ a[j] = b[j]
                       /\ i > Len(a) \/ a[i] < b[i]

Pick(s, at) == [k \in 1..Cardinality(at) |-> s[InOrder(at)[k]]]
Has(c, w) == \E i \in DOMAIN w : w[i] = c
Gives(out) == [out |-> out, code |-> 0]
LeastOf(a, b) == IF a < b THEN a ELSE b

(***************************************************************************)
(* grep: o.max is the count at which it stops, or -1.                      *)
(***************************************************************************)
Keeps(o, line) == Has(o.c, line) # o.invert
Chosen(o, ls) ==
  LET all == {i \in DOMAIN ls : Keeps(o, ls[i])}
  IN  {i \in all : o.max < 0 \/ Cardinality({j \in all : j < i}) < o.max}

OnlyMatching(o, line) ==
  IF o.invert THEN <<>>
  ELSE FlattenSeq([i \in DOMAIN line |-> IF line[i] = o.c THEN <<o.c, LF>> ELSE <<>>])

Near(o, n, at) ==
  UNION {(i - o.before)..(i + o.after) : i \in at} \cap 1..n

\* The lines around the matches, with a mark where lines are left out.
Context(ls, near) ==
  FlattenSeq([i \in DOMAIN ls |->
    IF i \notin near THEN <<>>
    ELSE (IF i - 1 \notin near /\ \E j \in near : j < i THEN Dash \o <<LF>> ELSE <<>>)
           \o ls[i] \o <<LF>>])

grep_with_context(o, ls, at) == Context(ls, Near(o, Len(ls), at))

GrepOut(o, ls, at) ==
  CASE o.show = "quiet"   -> <<>>
    [] o.show = "count"   -> Num(Cardinality(at)) \o <<LF>>
    [] o.show = "only"    -> FlattenSeq([k \in 1..Cardinality(at) |->
                                           OnlyMatching(o, Pick(ls, at)[k])])
    [] o.show = "lines"   -> Unlines(Pick(ls, at))
    [] o.show = "context" -> grep_with_context(o, ls, at)

grep(o, w) ==
  [out |-> GrepOut(o, Lines(w), Chosen(o, Lines(w))),
   code |-> IF Chosen(o, Lines(w)) = {} THEN 1 ELSE 0]

(***************************************************************************)
(* sort and uniq.                                                          *)
(***************************************************************************)
Decimals == 4  \* bound: the decimals of a number

Run(w, S)  == Cardinality({i \in DOMAIN w : \A j \in 1..i : w[j] \in S})
Drop(w, n) == SubSeq(w, n + 1, Len(w))
Digits == 48..57
Sign   == [c \in {43, 45} |-> IF c = 45 THEN -1 ELSE 1]
Point  == 46
\* Blanks, a sign, digits and decimals: the number in units of its last decimal.
parse_leading_number(w) ==
  LET trimmed == Drop(w, Run(w, {SPACE, TAB}))
      signed  == trimmed # <<>> /\ trimmed[1] \in DOMAIN Sign
      number  == IF signed THEN Tail(trimmed) ELSE trimmed
      whole   == Run(number, Digits)
      rest    == Drop(number, whole)
      decimals == IF rest # <<>> /\ rest[1] = Point THEN Run(Tail(rest), Digits) ELSE 0
      digit(k) == IF k <= whole THEN number[k] - 48
                  ELSE IF k <= whole + decimals THEN number[k + 1] - 48 ELSE 0
      upto[k \in 0..(whole + Decimals)] == IF k = 0 THEN 0 ELSE 10 * upto[k - 1] + digit(k)
  IN  (IF signed THEN Sign[trimmed[1]] ELSE 1) * upto[whole + Decimals]

extract_sort_key(o, line) ==
  IF o.key = 0 THEN line
  ELSE IF o.key > Len(Split(line, TAB)) THEN <<>> ELSE Split(line, TAB)[o.key]

Key(o, line) ==
  IF o.numeric THEN <<parse_leading_number(extract_sort_key(o, line))>>
  ELSE extract_sort_key(o, line)

Ranked(keys, i) == 1 + Cardinality({j \in DOMAIN keys : Below(keys[j], keys[i])})
                     + Cardinality({j \in 1..(i - 1) : keys[j] = keys[i]})
Arranged(ls, ranks) ==
  [k \in DOMAIN ls |-> ls[CHOOSE i \in DOMAIN ls : ranks[i] = k]]
Stable(ls, keys) == Arranged(ls, [i \in DOMAIN ls |-> Ranked(keys, i)])

\* Neighbours that are the same line, whatever the keys.
Starts(ls) == {i \in DOMAIN ls : i = 1 \/ ls[i] # ls[i - 1]}
Dedup(ls) == Pick(ls, Starts(ls))

SortedLines(o, ls) == Stable(ls, [i \in DOMAIN ls |-> Key(o, ls[i])])
Turned(o, ls) == IF o.reverse THEN Reverse(ls) ELSE ls
sort(o, w) ==
  LET out(ls) == Unlines(IF o.unique THEN Dedup(ls) ELSE ls)
  IN  Gives(out(Turned(o, SortedLines(o, Lines(w)))))

GroupSize(ls, i) ==
  CHOOSE n \in 1..Len(ls) :
    /\ \A j \in i..(i + n - 1) : j \in DOMAIN ls /\ ls[j] = ls[i]
    /\ i + n \notin DOMAIN ls \/ ls[i + n] # ls[i]

Group(o, ls, i) ==
  IF \/ o.duplicates /\ GroupSize(ls, i) < 2
     \/ o.unique /\ GroupSize(ls, i) > 1 THEN <<>>
  ELSE (IF o.count THEN Num(GroupSize(ls, i)) \o <<SPACE>> ELSE <<>>) \o ls[i] \o <<LF>>

UniqLines(o, ls) ==
  FlattenSeq([i \in DOMAIN ls |-> IF i \in Starts(ls) THEN Group(o, ls, i) ELSE <<>>])
uniq(o, w) == Gives(UniqLines(o, Lines(w)))

(***************************************************************************)
(* head, tail, cut, tr, wc.                                                *)
(***************************************************************************)
head(o, w) ==
  IF o.bytes THEN Gives(SubSeq(w, 1, LeastOf(o.n, Len(w))))
  ELSE Gives(Unlines(SubSeq(Lines(w), 1, LeastOf(o.n, Len(Lines(w))))))

\* -n +N counts from the end as -n N does.
LastLines(ls, n) == SubSeq(ls, IF n > Len(ls) THEN 1 ELSE Len(ls) - n + 1, Len(ls))
tail(o, w) == Gives(Unlines(LastLines(Lines(w), o.n)))

\* A part of a list of fields is a number or two; one without an end, as 2-,
\* is its start alone.
Missing == -1
parse_range_spec(spec) ==
  FlattenSeq([k \in DOMAIN spec |->
    LET lo == IF spec[k][1] = Missing THEN 1 ELSE spec[k][1]
        hi == IF Len(spec[k]) = 1 \/ spec[k][2] = Missing THEN lo ELSE spec[k][2]
    IN  [i \in 1..(hi - lo + 1) |-> lo + i - 1]])

Present(parts, at) ==
  LET In(i) == i \in DOMAIN parts
      is == SelectSeq(at, In)
  IN  [k \in DOMAIN is |-> parts[is[k]]]

CutLine(o, line) ==
  IF o.fields THEN Joined(Present(Split(line, o.delim), parse_range_spec(o.spec)), <<o.delim>>)
  ELSE Present(line, parse_range_spec(o.spec))
cut(o, w) == Gives(Unlines([i \in DOMAIN Lines(w) |-> CutLine(o, Lines(w)[i])]))

wc(o, w) ==
  Gives(Num(CASE o.show = "lines" -> Len(Lines(w))
              [] o.show = "words" -> Len(Words(w))
              [] o.show = "bytes" -> Len(w)) \o <<LF>>)

Image(o, c) ==
  IF ~Has(c, o.set1) \/ o.set2 = <<>> THEN c
  ELSE LET at == CHOOSE i \in DOMAIN o.set1 : o.set1[i] = c /\ \A j \in 1..(i - 1) : o.set1[j] # c
       IN  o.set2[LeastOf(at, Len(o.set2))]

Squeeze(w, set) ==
  Pick(w, {i \in DOMAIN w : i = 1 \/ w[i] # w[i - 1] \/ ~Has(w[i], set)})

tr(o, w) ==
  LET Kept(c) == ~Has(c, o.set1)
      out == [i \in DOMAIN w |-> Image(o, w[i])]
  IN  Gives(CASE o.delete -> SelectSeq(w, Kept)
              [] ~o.delete /\ o.squeeze /\ o.set2 = <<>> -> Squeeze(w, o.set1)
              [] ~o.delete /\ o.squeeze /\ o.set2 # <<>> -> Squeeze(out, o.set2)
              [] ~o.delete /\ ~o.squeeze -> out)

(***************************************************************************)
(* rev, tac, nl, fold, fmt, column.                                        *)
(***************************************************************************)
rev(w) == Gives(Unlines([i \in DOMAIN Lines(w) |-> Reverse(Lines(w)[i])]))

TacParts(parts) == IF parts = <<>> THEN <<>> ELSE Joined(Reverse(parts), <<LF>>) \o <<LF>>
tac(w) == Gives(TacParts(DropEmptyEnd(Split(w, LF))))

NlLine(ls, i) ==
  IF ls[i] = <<>> THEN <<SPACE>>
  ELSE Num(Cardinality({j \in 1..i : ls[j] # <<>>})) \o <<TAB>> \o ls[i]
nl(w) == Gives(Unlines([i \in DOMAIN Lines(w) |-> NlLine(Lines(w), i)]))

\* Where a line longer than the width is broken.
Spaces(w, n) == {i \in 2..n : w[i] = SPACE}
BreakAt(o, w) ==
  IF o.spaces /\ Spaces(w, o.width) # {}
    THEN CHOOSE i \in Spaces(w, o.width) : \A j \in Spaces(w, o.width) : j <= i
  ELSE o.width

\* bound: widths are positive; of width 0 the code never ends.
RECURSIVE FoldLine(_, _)
FoldLine(o, w) ==
  IF Len(w) <= o.width THEN <<w>>
  ELSE <<SubSeq(w, 1, BreakAt(o, w))>> \o FoldLine(o, SubSeq(w, BreakAt(o, w) + 1, Len(w)))
fold(o, w) ==
  Gives(Unlines(FlattenSeq([i \in DOMAIN Lines(w) |-> FoldLine(o, Lines(w)[i])])))

\* The words of a paragraph, as many on a line as fit.
RECURSIVE Refill(_, _, _)
Refill(o, line, ws) ==
  IF ws = <<>> THEN <<line>>
  ELSE IF Len(line) + 1 + Len(Head(ws)) > o.width
    THEN <<line>> \o Refill(o, Head(ws), Tail(ws))
  ELSE Refill(o, line \o <<SPACE>> \o Head(ws), Tail(ws))

RECURSIVE TrimStart(_)
TrimStart(w) == IF w # <<>> /\ Head(w) \in {SPACE, TAB} THEN TrimStart(Tail(w)) ELSE w

LastSpace(w, n) ==
  LET at == {i \in 1..n : w[i] = SPACE}
  IN  IF at = {} THEN n ELSE (CHOOSE i \in at : \A j \in at : j <= i) - 1

RECURSIVE SplitLong(_, _)
SplitLong(o, w) ==
  IF w = <<>> THEN <<>>
  ELSE IF Len(w) <= o.width THEN <<w>>
  ELSE <<SubSeq(w, 1, LastSpace(w, o.width))>>
         \o SplitLong(o, TrimStart(SubSeq(w, LastSpace(w, o.width) + 1, Len(w))))

\* Paragraphs are the runs of lines between blank ones; a blank line is a
\* paragraph of its own.
Blank(line) == Words(line) = <<>>
ParaEnd(ls, i) ==
  CHOOSE j \in i..Len(ls) : /\ \A k \in i..j : ~Blank(ls[k])
                            /\ j = Len(ls) \/ Blank(ls[j + 1])
split_paragraphs(ls) ==
  FlattenSeq([i \in DOMAIN ls |->
    IF Blank(ls[i]) THEN << <<>> >>
    ELSE IF i = 1 \/ Blank(ls[i - 1]) THEN <<SubSeq(ls, i, ParaEnd(ls, i))>>
    ELSE <<>>])

FmtPara(o, para) ==
  IF para = <<>> THEN << <<>> >>
  ELSE IF o.split THEN FlattenSeq([i \in DOMAIN para |-> SplitLong(o, para[i])])
  ELSE LET ws == Words(Joined(para, <<LF>>)) IN Refill(o, Head(ws), Tail(ws))
fmt(o, w) ==
  LET paras == split_paragraphs(Lines(w))
  IN  Gives(Unlines(FlattenSeq([i \in DOMAIN paras |-> FmtPara(o, paras[i])])))

Widest(rows, k) ==
  CHOOSE n \in 0..100 :
    /\ \E r \in DOMAIN rows : k \in DOMAIN rows[r] /\ Len(rows[r][k]) = n
    /\ \A r \in DOMAIN rows : k \in DOMAIN rows[r] => Len(rows[r][k]) <= n
Padded(rows, r, k) ==
  IF k = Len(rows[r]) THEN rows[r][k]
  ELSE rows[r][k] \o [i \in 1..(Widest(rows, k) - Len(rows[r][k])) |-> SPACE]
TableRows(rows) ==
  [r \in DOMAIN rows |->
     Joined([k \in DOMAIN rows[r] |-> Padded(rows, r, k)], <<SPACE, SPACE>>)]
column_table(w) ==
  LET ls == SelectSeq(Lines(w), Filled)
  IN  Gives(Unlines(TableRows([i \in DOMAIN ls |-> Words(ls[i])])))

(***************************************************************************)
(* expand and unexpand.                                                    *)
(***************************************************************************)
next_tab_stop(col, n) == (col \div n + 1) * n
Blanks(n) == [i \in 1..n |-> SPACE]

ExpandLine(n, line) ==
  LET Put(s, c) ==
        IF c = TAB THEN [out |-> s.out \o Blanks(next_tab_stop(s.col, n) - s.col),
                         col |-> next_tab_stop(s.col, n)]
        ELSE [out |-> Append(s.out, c), col |-> s.col + 1]
      upto[i \in 0..Len(line)] ==
        IF i = 0 THEN [out |-> <<>>, col |-> 0] ELSE Put(upto[i - 1], line[i])
  IN  upto[Len(line)].out
expand(o, w) == Gives(Unlines([i \in DOMAIN Lines(w) |-> ExpandLine(o.n, Lines(w)[i])]))

\* Blanks that reach a stop become a tab; those before it are held back.  A
\* tab of the input counts as one column.
UnexpandAll(n, line) ==
  LET Put(s, c) ==
        IF c # SPACE THEN [out |-> s.out \o Blanks(s.held) \o <<c>>,
                           held |-> 0, col |-> s.col + 1]
        ELSE IF (s.col + 1) % n = 0
          THEN [out |-> Append(s.out, TAB), held |-> 0, col |-> s.col + 1]
        ELSE [s EXCEPT !.held = @ + 1, !.col = @ + 1]
      upto[i \in 0..Len(line)] ==
        IF i = 0 THEN [out |-> <<>>, held |-> 0, col |-> 0] ELSE Put(upto[i - 1], line[i])
  IN  upto[Len(line)].out \o Blanks(upto[Len(line)].held)

\* Mutant: what is held back is forgotten.
unexpand_line_drops(n, all, line) ==
  LET lead == {i \in DOMAIN line : \A j \in 1..i : line[j] = SPACE}
      k == Cardinality(lead)
  IN  IF all THEN UnexpandAll(n, line)
      ELSE [i \in 1..(k \div n) |-> TAB] \o SubSeq(line, k + 1, Len(line))

unexpand_line(n, all, line) ==
  LET lead == {i \in DOMAIN line : \A j \in 1..i : line[j] = SPACE}
      k == Cardinality(lead)
  IN  IF all THEN UnexpandAll(n, line)
      ELSE [i \in 1..(k \div n) |-> TAB] \o Blanks(k % n) \o SubSeq(line, k + 1, Len(line))
unexpand(o, w) ==
  Gives(Unlines([i \in DOMAIN Lines(w) |-> unexpand_line(o.n, o.all, Lines(w)[i])]))

(***************************************************************************)
(* Two inputs: paste, comm and join.                                       *)
(***************************************************************************)
LineOr(ls, i) == IF i \in DOMAIN ls THEN ls[i] ELSE <<>>
PasteLines(a, b, d) ==
  [i \in 1..(IF Len(a) > Len(b) THEN Len(a) ELSE Len(b)) |->
     LineOr(a, i) \o <<d>> \o LineOr(b, i)]
paste(w, v) == Gives(Unlines(PasteLines(Lines(w), Lines(v), TAB)))

\* The lines with the column they come in; -1, -2 and -3 leave columns out.
RECURSIVE Comm(_, _)
Comm(a, b) ==
  IF b = <<>> THEN [i \in DOMAIN a |-> [col |-> 1, line |-> a[i]]]
  ELSE IF a = <<>> THEN [i \in DOMAIN b |-> [col |-> 2, line |-> b[i]]]
  ELSE IF Below(Head(a), Head(b)) THEN <<[col |-> 1, line |-> Head(a)]>> \o Comm(Tail(a), b)
  ELSE IF Below(Head(b), Head(a)) THEN <<[col |-> 2, line |-> Head(b)]>> \o Comm(a, Tail(b))
  ELSE <<[col |-> 3, line |-> Head(a)]>> \o Comm(Tail(a), Tail(b))

CommTabs(o, col) ==
  [i \in 1..Cardinality({k \in 1..(col - 1) : k \notin o.suppress}) |-> TAB]
CommOut(o, rows) ==
  FlattenSeq([k \in DOMAIN rows |->
    IF rows[k].col \in o.suppress THEN <<>>
    ELSE CommTabs(o, rows[k].col) \o rows[k].line \o <<LF>>])
comm(o, w, v) == Gives(CommOut(o, Comm(Lines(w), Lines(v))))

\* Rows of join: the places of the two lines joined, 0 for none.
FieldKey(line) == IF Words(line) = <<>> THEN <<>> ELSE Words(line)[1]
Keys(ls) == [i \in DOMAIN ls |-> FieldKey(ls[i])]

Lone2(o, at) == IF 2 \in o.unpaired THEN [k \in DOMAIN at |-> <<0, at[k]>>] ELSE <<>>
SameKey(keys, j, key) ==
  {k \in j..Len(keys) : \A l \in j..k : keys[l] = key}

\* Mutant: the lines with the key itself are passed over too.
Smaller_through(keys, j, key) ==
  {k \in j..Len(keys) : \A l \in j..k : ~Below(key, keys[l])}

Smaller(keys, j, key) ==
  {k \in j..Len(keys) : \A l \in j..k : Below(keys[l], key)}
Ends(S, j) == j + Cardinality(S)

\* One line of the first file: j is where the scan of the second is, end what
\* has been matched there.
Matched(o, st, i, key, keys2, run) ==
  [st EXCEPT !.prev = key, !.end = IF Ends(run, st.j) > @ THEN Ends(run, st.j) ELSE @,
             !.rows = @ \o (IF run # {} THEN [k \in 1..Cardinality(run) |-> <<i, InOrder(run)[k]>>]
                            ELSE IF 1 \in o.unpaired THEN << <<i, 0>> >> ELSE <<>>)]

Skipped(o, st, key, small) ==
  [st EXCEPT !.j = Ends(small, st.end), !.rows = @ \o Lone2(o, InOrder(small))]

JoinLine(o, st, i, key, keys2) ==
  LET At(s) == Matched(o, s, i, key, keys2, SameKey(keys2, s.j, key))
  IN  IF key = st.prev THEN At(st)
      ELSE At(Skipped(o, st, key, Smaller(keys2, st.end, key)))

JoinAll(o, keys1, keys2) ==
  LET upto[i \in 0..Len(keys1)] ==
        IF i = 0 THEN [j |-> 1, end |-> 1, prev |-> <<>>, rows |-> <<>>]
        ELSE JoinLine(o, upto[i - 1], i, keys1[i], keys2)
      Rest(st) == st.rows \o Lone2(o, InOrder(st.end..Len(keys2)))
  IN  Rest(upto[Len(keys1)])

RestOf(line) == IF Words(line) = <<>> THEN <<>> ELSE Tail(Words(line))
JoinRow(r, a, b) ==
  Joined(<<FieldKey(IF r[1] = 0 THEN b[r[2]] ELSE a[r[1]])>>
           \o (IF r[1] = 0 THEN <<>> ELSE RestOf(a[r[1]]))
           \o (IF r[2] = 0 THEN <<>> ELSE RestOf(b[r[2]])), <<SPACE>>)
JoinOut(a, b, rows) == Unlines([k \in DOMAIN rows |-> JoinRow(rows[k], a, b)])
join(o, w, v) ==
  Gives(JoinOut(Lines(w), Lines(v), JoinAll(o, Keys(Lines(w)), Keys(Lines(v)))))
=============================================================================
