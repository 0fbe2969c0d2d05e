------------------------------ MODULE MCScopes -----------------------------
(***************************************************************************)
(* Small instances of ShellScopes for TLC.                                 *)
(***************************************************************************)
EXTENDS ShellScopes, FiniteSetsExt

\* Bounds: attributes, elements, calls and what they hide.
CONSTANTS MaxWeight, MaxCallWeight

X == <<"x">>
R == <<"r">>
A == <<"a">>
X1 == <<"x[1]">>

MCAtom == {"x", "r", "a", "x[1]"}
MCSubscripted == [w \in {X1} |-> [arr |-> X, key |-> 1]]
MCUpper == [c \in MCAtom |-> c]
MCValid == {X, R, A, X1}

Simple(form, n, w) == [form |-> form, name |-> n, word |-> w]
MCAssignment ==
  {Simple("set", X, A), Simple("set", R, A), Simple("append", R, A),
   [form |-> "array", name |-> X, items |-> <<A>>],
   [form |-> "element", name |-> X, key |-> 1, word |-> A],
   [form |-> "extend", name |-> R, key |-> -1, word |-> A]}

MCPrefix == {<<>>, <<Simple("set", R, A), Simple("append", X, A)>>,
             <<Simple("set", X, A), Simple("append", X, A)>>}

Decl(n, form, list, items, shape, attrs, global) ==
  [name |-> n, form |-> form, list |-> list, items |-> items, shape |-> shape,
   attrs |-> attrs, global |-> global]
MCDeclaration ==
  {Decl(X, "none", FALSE, <<>>, "scalar", {}, FALSE),
   Decl(X, "none", FALSE, <<>>, "assoc", {"readonly"}, FALSE),
   Decl(X, "append", TRUE, <<A>>, "indexed", {}, TRUE),
   Decl(R, "set", FALSE, <<X>>, "nameref", {}, FALSE),
   Decl(R, "set", FALSE, <<X1>>, "nameref", {}, TRUE),
   Decl(X, "set", FALSE, <<R>>, "nameref", {}, TRUE)}
MCMarking ==
  {Decl(X, "none", FALSE, <<>>, "scalar", {}, FALSE),
   Decl(R, "append", FALSE, <<A>>, "scalar", {}, FALSE)}

MCName == {X, R}
MCKey == {-1}
MCOptions == {<<FALSE, FALSE>>, <<TRUE, FALSE>>, <<TRUE, TRUE>>}

Weight(n) == Cardinality(s.env[n].attrs) + Cardinality(DOMAIN s.env[n].at)
CallWeight(i) == 1 + Cardinality(DOMAIN s.scopes[i])

\* The code limits a scalar's length and not an element's.
Short(n) == \A k \in DOMAIN s.env[n].at : Len(s.env[n].at[k]) <= MaxString + 1

Total == MapThenSumSet(Weight, DOMAIN s.env)
           + MapThenSumSet(CallWeight, DOMAIN frames)

\* What a state may hold.  Without posix: values of every kind, and calls that
\* have nothing before their names.  With posix: nested calls with assignments
\* before their names, and scalars only.
Values == /\ Total <= MaxWeight
          /\ \A i \in DOMAIN frames : frames[i].saved = <<>>
Calls  == /\ Total <= MaxCallWeight
          /\ \A n \in DOMAIN s.env : /\ s.env[n].kind = "scalar"
                                    /\ s.env[n].attrs \subseteq {"exported"}
Few == /\ \A n \in DOMAIN s.env : Short(n)
       /\ IF s.posix THEN Calls ELSE Values
=============================================================================
