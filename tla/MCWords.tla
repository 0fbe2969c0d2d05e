------------------------------- MODULE MCWords ------------------------------
(***************************************************************************)
(* Small instances of Words for TLC.  Characters are codes: 97 is a, 98 b, *)
(* 32 a blank, 58 a colon, 42 a star, 63 a question mark.                  *)
(***************************************************************************)
EXTENDS Words

CONSTANT MaxText   \* bound: characters of a value or a parameter

X == <<88>>
P == <<80>>
I == <<73>>
Z == <<90>>
R == <<82>>
OPT == <<79>>
X1 == <<88, 91, 49, 93>>

MCAtom == 0..255
MCSubscripted == [w \in {X1} |-> [arr |-> X, key |-> 1]]
MCUpper == [c \in MCAtom |-> c]
MCValid == {X, P, I, Z, R, OPT, IFS, REPLY, OPTIND, OPTARG, HOME}

(***************************************************************************)
(* Pieces and trees.                                                       *)
(***************************************************************************)
NameOf(n) == [k |-> "name", indirect |-> FALSE, n |-> n]
Elem(n, w) == [k |-> "elem", indirect |-> FALSE, n |-> n, index |-> w]
Every(star) == [k |-> "all", indirect |-> FALSE, star |-> star]
Array(n, star) == [k |-> "array", indirect |-> FALSE, n |-> n, star |-> star]
Pos(i) == [k |-> "pos", indirect |-> FALSE, i |-> i]
Via(x) == [x EXCEPT !.indirect = TRUE]

Param(x, o) == [p |-> "param", x |-> x, o |-> o]
Get(x) == Param(x, [o |-> "value"])
DQ(ps) == [p |-> "double", in |-> ps]
SQ(w) == [p |-> "single", w |-> w, in |-> Chars(w)]
Esc(c) == [p |-> "esc", c |-> c]
Cmd(ps, code) == [p |-> "cmd", word |-> ps, status |-> code]
Sum2(ps) == [p |-> "arith", in |-> ps]

With(op, null, ps) == [o |-> op, null |-> null, arg |-> ps]
StripOp(side, longest, ps) == [o |-> "strip", side |-> side, longest |-> longest, pat |-> ps]
ReplaceOp(kind, ps, repl) == [o |-> "replace", kind |-> kind, pat |-> ps, repl |-> repl]
SliceOp(off, len) == [o |-> "slice", off |-> Chars(off), len |-> Chars(len)]
CaseOp(up, first, ps) == [o |-> "case", up |-> up, first |-> first, pat |-> ps]
TransformOp(f) == [o |-> "transform", f |-> f]

Num(n) == [k |-> "num", n |-> n]
Ref(n) == [k |-> "ref", name |-> n]
At1(n, e) == [k |-> "elem", name |-> n, index |-> e]
Bin(op, l, r) == [k |-> "bin", op |-> op, l |-> l, r |-> r]
Un(op, e) == [k |-> "un", op |-> op, e |-> e]
SetTo(to, e) == [k |-> "set", to |-> to, e |-> e]
OpSet(op, to, e) == [k |-> "opset", op |-> op, to |-> to, e |-> e]
Inc(to, by, pre) == [k |-> "inc", to |-> to, by |-> by, pre |-> pre]
Iff(c, t1, f) == [k |-> "if", c |-> c, t |-> t1, f |-> f]

(***************************************************************************)
(* Patterns.  Codes from 200 on are bracket expressions and groups.        *)
(***************************************************************************)
Lit1(c) == [k |-> "lit", c |-> c]
Group(op, alts) == [k |-> "group", op |-> op, alts |-> alts]
AorBlank == <<<<Lit1(97)>>, <<Lit1(SP)>>>>
MCElements ==
  (200 :> [k |-> "class", neg |-> FALSE, named |-> {},
           ranges |-> {<<97, 97>>, <<58, 58>>}]) @@
  (201 :> [k |-> "class", neg |-> TRUE, ranges |-> {},
           named |-> posix_class_matches("alpha")]) @@
  (202 :> Group("@", AorBlank)) @@ (203 :> Group("+", AorBlank)) @@
  (204 :> Group("*", <<<<Lit1(97), Lit1(58)>>, <<>>>>)) @@
  (205 :> Group("!", AorBlank)) @@ (206 :> Group("?", <<<<[k |-> "any"]>>>>))
MCPatternTexts ==
  {<<97, STAR>>, <<STAR, 97, 58>>, <<STAR, 97, STAR, 58>>, <<QUESTION, 200>>, <<201>>,
   <<202, STAR>>, <<203>>, <<STAR, 204>>, <<205, 58>>, <<206, 97>>}

MCFiles == {<<97>>, <<97, 98>>, <<46, 97>>}
MCContents == (<<97>> :> <<97, LF, 98, LF, LF>>) @@ (<<98>> :> <<>>)

(***************************************************************************)
(* Expressions.                                                            *)
(***************************************************************************)
Text(i) == <<40, 48 + i>>      \* a text that stands for the expression i
Trees ==
  << Bin("+", Ref(X), Num(7)), Bin("*", Un("-", Ref(X)), Num(3)),
     Bin("&&", Num(0), SetTo(Ref(X), Num(5))),
     OpSet("+", At1(X, Inc(Ref(I), 1, FALSE)), Num(1)),
     Bin("/", Num(1), Ref(Z)), Iff(Ref(X), Inc(Ref(X), -1, TRUE), Num(0)),
     Bin(",", SetTo(At1(X, Num(-2)), Num(2)), Bin("<<", Num(3), Ref(X))),
     Bin("||", Bin("**", Num(2), Num(3)), Ref(X)),
     Bin("^", Bin("|", Ref(X), Num(4)), Bin("&", Un("~", Num(1)), Num(6))),
     At1(X, Num(0)) >>
MCExpressions == {Text(i) : i \in DOMAIN Trees}
\* A name is an expression too, and Z names what names it.
MCParsed ==
  [w \in MCExpressions \cup {X, Z, Numeral(1), Numeral(-1), Numeral(0)} |->
     IF w \in MCExpressions THEN Trees[w[2] - 48]
     ELSE IF w \in {X, Z} THEN Ref(w)
     ELSE IF w = Numeral(-1) THEN Un("-", Num(1)) ELSE Num(ValueOf(w))]
MCRing == {Bin("-", Bin("*", Ref(X), Ref(X)), Num(5)),
           Bin("+", Bin("+", Ref(X), Num(7)), Num(7)), Un("-", Bin("*", Ref(X), Num(7)))}
MCNumbers == {X, P, Z}
MCUntaken == {Bin("&&", Num(0), Inc(Ref(X), 1, TRUE)),
              Bin("||", Num(1), SetTo(Ref(P), Bin("/", Num(1), Num(0)))),
              Iff(Num(0), SetTo(Ref(X), Num(1)), Num(2))}

(***************************************************************************)
(* Commands.                                                               *)
(***************************************************************************)
A == Chars(<<97>>)
Given(op, null) == With(op, null, <<SQ(<<97>>), Esc(SP), Get(NameOf(Z))>>)
Scalars ==
  {Param(NameOf(X), o) :
     o \in {Given("default", TRUE), Given("assign", TRUE), Given("alt", FALSE),
            Given("error", FALSE), [o |-> "length"],
            StripOp("prefix", FALSE, Chars(<<STAR, SP>>)),
            StripOp("suffix", TRUE, <<DQ(Chars(<<58>>)), Char(STAR)>>),
            ReplaceOp("all", <<Get(NameOf(P))>>, <<Esc(SLASH), Get(NameOf(Z))>>),
            ReplaceOp("first", A, <<SQ(<<58>>), Char(98)>>),
            ReplaceOp("prefix", A, <<DQ(<<Get(Pos(1))>>)>>), ReplaceOp("suffix", A, <<>>),
            SliceOp(<<49>>, <<49>>), SliceOp(<<45, 49>>, <<>>),
            CaseOp(TRUE, FALSE, <<>>), CaseOp(FALSE, TRUE, <<Char(QUESTION)>>)}
            \cup {TransformOp(f) : f \in {"U", "L", "u", "E", "Q"}}}
Vectors ==
  {Get(Every(TRUE)), Get(Array(X, FALSE)), Get(Array(X, TRUE)), Get(Elem(X, Numeral(1))),
   Get(Via(NameOf(P))), Get(Via(NameOf(X))), Param(Array(X, FALSE), [o |-> "length"]),
   Param(Every(FALSE), Given("alt", FALSE)), Param(Array(X, TRUE), Given("default", TRUE)),
   Param(Every(FALSE), SliceOp(<<49>>, <<49>>)), Param(Array(X, FALSE), SliceOp(<<45, 49>>, <<>>)),
   Param(Every(FALSE), StripOp("suffix", FALSE, A)),
   Param(Array(X, FALSE), TransformOp("Q")), Param(Elem(X, Z), Given("assign", FALSE)),
   Param(NameOf(X), [o |-> "names", prefix |-> OPTIND, star |-> FALSE]),
   Param(Array(X, FALSE), [o |-> "keys", star |-> TRUE])}
Others2 ==
  {<<Get(Every(FALSE))>>, <<Char(SP + 1), Get(NameOf(X)), DQ(<<>>)>>,
   Chars(<<123, 97, 44, 98, 125, 123, 49, 46, 46, 50, 125>>),
   Chars(<<123, 49, 46, 46, 57, 125>>), Chars(<<123, 97, 46, 46, 66, 125>>),
   Chars(<<123, 97, 125, 98>>), Chars(<<97, STAR>>), Chars(<<QUESTION, QUESTION, QUESTION>>),
   <<[p |-> "tilde"]>>, <<[p |-> "badcmd"]>>, <<Sum2(Chars(Text(1)))>>,
   <<Sum2(<<Get(NameOf(X))>>)>>, <<Cmd(<<[p |-> "badcmd"]>>, 0)>>, <<DQ(<<Param(NameOf(Z), With("default", TRUE, <<SQ(<<97>>), Esc(97)>>))>>)>>,
   <<[p |-> "file", word |-> A]>>, <<[p |-> "file", word |-> <<Get(NameOf(X))>>]>>}
MCParamWords ==
  {<<x>> : x \in Scalars \cup Vectors} \cup {<<DQ(<<x>>)>> : x \in Vectors} \cup Others2
    \cup {<<Char(123)>> \o Chars(w) \o <<Char(125)>> :
             w \in {<<DASH, 97, 98, COMMA, DASH, 99>>, <<DASH, 98, 97, COMMA, 97>>,
                    <<DASH, 98, COMMA, DASH, DASH, COMMA, 97>>, <<DASH, 100, 97, COMMA, DASH, 98>>}}

MCTexts == UNION {[1..n -> {97, SP, 58}] : n \in 0..2}
             \cup {<<97, 97, 58>>, <<97, SP, 58, SP, 97>>, <<SP, 97, SP, SP, 97>>}
MCIfs == {Empty, <<58>>, <<SP, 58>>}
MCAssignments ==
  {<<X, Chars(w)>> : w \in {v \in MCTexts : Len(v) <= MaxText}} \cup {<<X, Chars(Numeral(n))>> : n \in {-8, -3, 3, 7}}
    \cup {<<X, <<Get(NameOf(X)), Char(c)>>>> : c \in {97, SP, 58}}
    \cup {<<IFS, Chars(w)>> : w \in MCIfs}
    \cup {<<P, Chars(w)>> : w \in MCPatternTexts}
    \cup {<<P, Chars(X)>>, <<P, Chars(X1)>>, <<Z, Chars(Z)>>, <<Z, Chars(Numeral(-1))>>, <<X, Chars(Text(2))>>, <<X, Chars(Text(10))>>,
          <<X, <<Cmd(<<Get(NameOf(Z)), Cmd(<<Char(97), Cmd(A, 0)>>, 3)>>, 0)>>>>,
          <<X, <<Cmd(Chars(<<97, LF>>), 1)>>>>}

MCSubstitutions ==
  {<<Cmd(<<Param(NameOf(X), With("assign", TRUE, A)), [p |-> "badcmd"]>>, 2)>>,
   <<Cmd(<<Param(NameOf(X), With("assign", TRUE, A)), Cmd(A, 2)>>, 0),
     Cmd(<<Sum2(Chars(Text(2))), Param(NameOf(P), With("error", TRUE, A))>>, 3)>>,
   <<Cmd(<<Sum2(Chars(Text(4)))>>, 0), Cmd(<<Cmd(<<Cmd(A, 0)>>, 0)>>, 1)>>}

ReadBy(f, n, big, array, names) ==
  [raw |-> f, delim |-> LF, n |-> n, big |-> big, array |-> array, names |-> names]
MCReads ==
  {ReadBy(TRUE, 0, 0, Empty, <<>>), ReadBy(FALSE, 0, 0, Empty, <<X, P>>),
   ReadBy(FALSE, 2, 0, Empty, <<X>>), ReadBy(FALSE, 0, 3, Empty, <<X, P>>),
   ReadBy(FALSE, 0, 0, X, <<>>)}
MCStdin == <<97, SP, 92, SP, 58, 97, 58, LF, 98, 92, LF, SP, 97>>
MCMapfiles ==
  {[strip |-> TRUE, delim |-> LF, count |-> -1, skip |-> 0, origin |-> 0, array |-> X],
   [strip |-> FALSE, delim |-> LF, count |-> 1, skip |-> 1, origin |-> 2, array |-> X]}
MCGetopts ==
  {[spec |-> <<97, 98, 99, COLON>>, silent |-> b, n |-> OPT] : b \in BOOLEAN}

MCStartEnv == (HOME :> Var(Scalar(<<SLASH, 97>>), {})) @@ (OPTIND :> Var(Scalar(<<49>>), {}))
MCSettings ==
  {[nounset |-> TRUE, opts |-> {"failglob"}], [nounset |-> FALSE, opts |-> {"nullglob"}],
   [nounset |-> FALSE, opts |-> {"noglob"}]}
MCStartArgs == <<<<DASH, 97, 98>>, <<DASH, 99>>, Empty>>
MCShellName == <<115, 104>>
MCTextNames == {X}
MCPatternNames == {P}
=============================================================================
