---------------------------- MODULE VfsPathProofs ---------------------------
(***************************************************************************)
(* Paths, their prefixes and the sets made of them, for every set of names *)
(* and every depth.                                                        *)
(***************************************************************************)
EXTENDS VfsPath, SequenceTheorems, Recursion

(***************************************************************************)
(* What the sets Above, Below and Subtree of VfsPath have to do with each  *)
(* other, for every set of names and every depth.                          *)
(***************************************************************************)
LEMMA NodePathType ==
  ASSUME NEW p \in NodePath
  PROVE  p \in Seq(Name) /\ Len(p) \in Nat /\ Len(p) >= 1 /\ Len(p) <= MaxDepth
BY PathAssumption DEF NodePath

LEMMA NodePathIntro ==
  ASSUME NEW p \in Seq(Name), Len(p) >= 1, Len(p) <= MaxDepth
  PROVE  p \in NodePath
<1>1. p \in [1..Len(p) -> Name] /\ Len(p) \in Nat
  BY LenProperties
<1>2. Len(p) \in 1..MaxDepth
  BY <1>1, PathAssumption
<1> QED
  BY <1>1, <1>2 DEF NodePath

\* Taking prefixes of prefixes.
LEMMA PrefixOfPrefix ==
  ASSUME NEW S, NEW p \in Seq(S), NEW m \in Nat, NEW n \in Nat,
         n <= m, m <= Len(p)
  PROVE  /\ SubSeq(p, 1, m) \in Seq(S) /\ Len(SubSeq(p, 1, m)) = m
         /\ SubSeq(SubSeq(p, 1, m), 1, n) = SubSeq(p, 1, n)
OBVIOUS

LEMMA AboveType ==
  ASSUME NEW p \in NodePath, NEW r \in Above(p)
  PROVE  r \in NodePath /\ Len(r) < Len(p) /\ r = SubSeq(p, 1, Len(r))
<1>1. PICK n \in 1..(Len(p) - 1) : r = SubSeq(p, 1, n)
  BY DEF Above
<1>2. p \in Seq(Name) /\ Len(p) \in Nat /\ Len(p) <= MaxDepth
  BY NodePathType
<1>3. n \in Nat /\ n >= 1 /\ n < Len(p)
  BY <1>2
<1>4. r \in Seq(Name) /\ Len(r) = n
  BY <1>1, <1>2, <1>3, PrefixOfPrefix
<1>5. Len(r) >= 1 /\ Len(r) <= MaxDepth
  BY <1>2, <1>3, <1>4, PathAssumption
<1>6. r \in NodePath
  BY <1>4, <1>5, NodePathIntro
<1> QED
  BY <1>1, <1>3, <1>4, <1>6

LEMMA AboveIntro ==
  ASSUME NEW p \in NodePath, NEW n \in Nat, n >= 1, n < Len(p)
  PROVE  SubSeq(p, 1, n) \in Above(p)
BY NodePathType DEF Above

LEMMA AboveTransitive ==
  ASSUME NEW p \in NodePath, NEW q \in Above(p), NEW r \in Above(q)
  PROVE  r \in Above(p)
<1>1. q \in NodePath /\ Len(q) < Len(p) /\ q = SubSeq(p, 1, Len(q))
  BY AboveType
<1>2. r \in NodePath /\ Len(r) < Len(q) /\ r = SubSeq(q, 1, Len(r))
  BY <1>1, AboveType
<1>3. /\ p \in Seq(Name) /\ Len(p) \in Nat /\ Len(q) \in Nat
      /\ Len(r) \in Nat /\ Len(r) >= 1
  BY <1>1, <1>2, NodePathType
<1>4. SubSeq(SubSeq(p, 1, Len(q)), 1, Len(r)) = SubSeq(p, 1, Len(r))
  BY <1>1, <1>2, <1>3, PrefixOfPrefix
<1>5. SubSeq(p, 1, Len(r)) \in Above(p)
  BY <1>1, <1>2, <1>3, AboveIntro
<1> QED
  BY <1>1, <1>2, <1>4, <1>5

LEMMA UpToIsAboveAndSelf ==
  ASSUME NEW p \in NodePath
  PROVE  UpTo(p) = Above(p) \cup {p}
<1>1. SubSeq(p, 1, Len(p)) = p
  BY NodePathType
<1>2. 1..Len(p) = (1..(Len(p) - 1)) \cup {Len(p)}
  BY NodePathType
<1> QED
  BY <1>1, <1>2 DEF UpTo, Above

LEMMA BelowIsAbove ==
  ASSUME NEW p \in NodePath, NEW q \in NodePath
  PROVE  q \in Below(p) <=> p \in Above(q)
<1>1. ASSUME q \in Below(p) PROVE p \in Above(q)
  BY <1>1, NodePathType, AboveIntro DEF Below, StartsWith
<1>2. ASSUME p \in Above(q) PROVE q \in Below(p)
  BY <1>2, AboveType, NodePathType DEF Below, StartsWith
<1> QED
  BY <1>1, <1>2

LEMMA SubtreeIsSelfAndBelow ==
  ASSUME NEW p \in NodePath
  PROVE  Subtree(p) = {p} \cup Below(p)
<1>1. StartsWith(p, p)
  BY NodePathType DEF StartsWith
<1>2. ASSUME NEW q \in NodePath, StartsWith(q, p), Len(q) <= Len(p) PROVE q = p
  BY <1>2, NodePathType DEF StartsWith
<1> QED
  BY <1>1, <1>2, NodePathType DEF Subtree, Below

LEMMA ParentType ==
  ASSUME NEW q \in NodePath, Parent(q) \in NodePath
  PROVE  /\ Parent(q) \in Above(q)
         /\ Above(q) = Above(Parent(q)) \cup {Parent(q)}
<1>1. /\ q \in Seq(Name) /\ Len(q) \in Nat /\ Len(q) >= 1
      /\ Len(Parent(q)) >= 1 /\ Len(Parent(q)) \in Nat
  BY NodePathType
<1>2. Len(q) >= 2 /\ Len(Parent(q)) = Len(q) - 1
  <2>1. Len(q) - 1 \in Nat /\ Len(q) - 1 <= Len(q)
    BY <1>1
  <2>2. Len(Parent(q)) = Len(q) - 1
    BY <1>1, <2>1, PrefixOfPrefix DEF Parent
  <2> QED
    BY <1>1, <2>2
<1>3. Parent(q) \in Above(q)
  BY <1>1, <1>2, AboveIntro DEF Parent
<1>4. ASSUME NEW r \in Above(q), r # Parent(q) PROVE r \in Above(Parent(q))
  <2>1. /\ r \in NodePath /\ Len(r) < Len(q) /\ r = SubSeq(q, 1, Len(r))
        /\ Len(r) \in Nat /\ Len(r) >= 1
    BY AboveType, NodePathType
  <2>2. Len(r) < Len(Parent(q))
    <3>1. ASSUME Len(r) = Len(q) - 1 PROVE FALSE
      <4>1. SubSeq(q, 1, Len(r)) = SubSeq(q, 1, Len(q) - 1)
        BY <3>1, Zenon
      <4> QED
        BY <4>1, <2>1, <1>4, Zenon DEF Parent
    <3> QED
      BY <1>1, <1>2, <2>1, <3>1
  <2>3. SubSeq(SubSeq(q, 1, Len(q) - 1), 1, Len(r)) = SubSeq(q, 1, Len(r))
    BY <1>1, <1>2, <2>1, <2>2, PrefixOfPrefix
  <2>4. SubSeq(Parent(q), 1, Len(r)) \in Above(Parent(q))
    BY <2>1, <2>2, AboveIntro
  <2> QED
    BY <2>1, <2>3, <2>4 DEF Parent
<1>5. ASSUME NEW r \in Above(Parent(q)) PROVE r \in Above(q)
  BY <1>3, AboveTransitive
<1> QED
  BY <1>3, <1>4, <1>5

(***************************************************************************)
(* Moving a path from one subtree to another.                              *)
(***************************************************************************)
LEMMA Prefixes ==
  ASSUME NEW S, NEW v \in Seq(S), NEW n \in Nat, n <= Len(v)
  PROVE  /\ SubSeq(v, 1, n) \in Seq(S) /\ Len(SubSeq(v, 1, n)) = n
         /\ \A i \in 1..n : SubSeq(v, 1, n)[i] = v[i]
<1>1. \A i \in 1..n : v[i] \in S
  BY LenProperties
<1>2. SubSeq(v, 1, n) \in Seq(S) /\ Len(SubSeq(v, 1, n)) = IF 1 <= n THEN n - 1 + 1 ELSE 0
  BY <1>1, SubSeqProperties
<1>3. \A i \in 1..(n - 1 + 1) : SubSeq(v, 1, n)[i] = v[1 + i - 1]
  BY <1>1, SubSeqProperties
<1> QED
  BY <1>2, <1>3

\* u is v with its prefix s replaced by q, point by point.
Shifted(u, v, s, q) ==
  /\ u \in Seq(Name)
  /\ Len(u) = Len(q) + Len(v) - Len(s)
  /\ \A i \in 1..Len(q) : u[i] = q[i]
  /\ \A i \in 1..(Len(v) - Len(s)) : u[Len(q) + i] = v[Len(s) + i]

LEMMA RebasePoints ==
  ASSUME NEW v \in Seq(Name), NEW s \in Seq(Name), NEW q \in Seq(Name),
         Len(s) <= Len(v)
  PROVE  Shifted(Rebase(v, s, q), v, s, q)
<1> DEFINE w == SubSeq(v, Len(s) + 1, Len(v))
<1>1. Len(v) \in Nat /\ Len(s) \in Nat /\ Len(q) \in Nat
  BY LenProperties
<1>2. \A i \in (Len(s) + 1)..Len(v) : v[i] \in Name
  BY <1>1, LenProperties
<1>3. /\ w \in Seq(Name)
      /\ Len(w) = IF Len(s) + 1 <= Len(v) THEN Len(v) - (Len(s) + 1) + 1 ELSE 0
      /\ \A i \in 1..(Len(v) - (Len(s) + 1) + 1) : w[i] = v[Len(s) + 1 + i - 1]
  BY <1>1, <1>2, SubSeqProperties
<1>4. Len(w) = Len(v) - Len(s) /\ \A i \in 1..(Len(v) - Len(s)) : w[i] = v[Len(s) + i]
  BY <1>1, <1>3
<1>5. /\ q \o w \in Seq(Name) /\ Len(q \o w) = Len(q) + Len(w)
      /\ \A i \in 1..(Len(q) + Len(w)) :
           (q \o w)[i] = IF i <= Len(q) THEN q[i] ELSE w[i - Len(q)]
  BY <1>3, ConcatProperties
<1> HIDE DEF w
<1>6. \A i \in 1..Len(q) : (q \o w)[i] = q[i]
  BY <1>1, <1>4, <1>5
<1>7. \A i \in 1..(Len(v) - Len(s)) : (q \o w)[Len(q) + i] = w[i]
  BY <1>1, <1>4, <1>5
<1>8. Shifted(q \o w, v, s, q)
  BY <1>1, <1>4, <1>5, <1>6, <1>7 DEF Shifted
<1> QED
  BY <1>8 DEF Rebase, w

\* Moving there and back again.
LEMMA RebaseBack ==
  ASSUME NEW s \in NodePath, NEW q \in NodePath, NEW v \in Below(s)
  PROVE  Rebase(Rebase(v, s, q), q, s) = v
<1> DEFINE u == Rebase(v, s, q)
           z == Rebase(u, q, s)
<1>1. /\ v \in Seq(Name) /\ s \in Seq(Name) /\ q \in Seq(Name)
      /\ Len(v) \in Nat /\ Len(s) \in Nat /\ Len(q) \in Nat
      /\ Len(s) < Len(v) /\ Len(s) <= Len(v)
      /\ SubSeq(v, 1, Len(s)) = s
  BY NodePathType DEF Below, StartsWith
<1>2. /\ u \in Seq(Name) /\ Len(u) = Len(q) + Len(v) - Len(s)
      /\ \A i \in 1..(Len(v) - Len(s)) : u[Len(q) + i] = v[Len(s) + i]
  <2>1. Shifted(u, v, s, q)
    BY <1>1, RebasePoints
  <2> QED
    BY <2>1, Zenon DEF Shifted
<1> HIDE DEF u
<1>3. /\ z \in Seq(Name) /\ Len(z) = Len(s) + Len(u) - Len(q)
      /\ \A i \in 1..Len(s) : z[i] = s[i]
      /\ \A i \in 1..(Len(u) - Len(q)) : z[Len(s) + i] = u[Len(q) + i]
  <2>1. Len(q) <= Len(u)
    BY <1>1, <1>2
  <2>2. u \in Seq(Name) /\ s \in Seq(Name) /\ q \in Seq(Name)
    BY <1>1, <1>2
  <2>3. Shifted(z, u, q, s)
    BY <2>1, <2>2, RebasePoints
  <2> QED
    BY <2>3, Zenon DEF Shifted
<1> HIDE DEF z
<1>4. Len(z) = Len(v)
  BY <1>1, <1>2, <1>3
<1>5. \A i \in 1..Len(s) : z[i] = v[i]
  BY <1>1, <1>3, Prefixes
<1>6. \A j \in 1..(Len(v) - Len(s)) : z[Len(s) + j] = v[Len(s) + j]
  <2>1. Len(u) - Len(q) = Len(v) - Len(s)
    BY <1>1, <1>2
  <2> QED
    BY <1>2, <1>3, <2>1, Zenon
<1>7. ASSUME NEW i \in 1..Len(z) PROVE z[i] = v[i]
  <2>1. CASE i <= Len(s)
    BY <1>1, <1>5, <2>1
  <2>2. CASE i > Len(s)
    <3>1. i - Len(s) \in 1..(Len(v) - Len(s)) /\ Len(s) + (i - Len(s)) = i
      BY <1>1, <1>4, <2>2
    <3> QED
      BY <1>6, <3>1
  <2> QED
    BY <1>1, <2>1, <2>2
<1> QED
  BY <1>1, <1>3, <1>4, <1>7, SeqEqual DEF u, z

\* The ancestors of a moved path: those of the place it moved to, and the
\* moved ancestors.
LEMMA RebaseAbove ==
  ASSUME NEW s \in NodePath, NEW q \in NodePath, NEW v \in Below(s),
         Rebase(v, s, q) \in NodePath, NEW x \in Above(Rebase(v, s, q))
  PROVE  x \in UpTo(q) \/ \E y \in Above(v) \cap Below(s) : x = Rebase(y, s, q)
<1> DEFINE u == Rebase(v, s, q)
<1>1. /\ v \in Seq(Name) /\ s \in Seq(Name) /\ q \in Seq(Name)
      /\ Len(v) \in Nat /\ Len(s) \in Nat /\ Len(q) \in Nat
      /\ Len(s) < Len(v) /\ Len(s) <= Len(v)
      /\ SubSeq(v, 1, Len(s)) = s /\ v \in NodePath /\ Len(s) >= 1 /\ Len(q) >= 1
  BY NodePathType DEF Below, StartsWith
<1>2. /\ u \in Seq(Name) /\ Len(u) = Len(q) + Len(v) - Len(s)
      /\ \A i \in 1..Len(q) : u[i] = q[i]
      /\ \A i \in 1..(Len(v) - Len(s)) : u[Len(q) + i] = v[Len(s) + i]
  <2>1. Shifted(u, v, s, q)
    BY <1>1, RebasePoints
  <2> QED
    BY <2>1, Zenon DEF Shifted
<1>3. /\ x \in NodePath /\ x \in Seq(Name) /\ Len(x) \in Nat /\ Len(x) >= 1
      /\ Len(x) < Len(u) /\ x = SubSeq(u, 1, Len(x))
  BY AboveType, NodePathType
<1> HIDE DEF u
<1>4. \A i \in 1..Len(x) : x[i] = u[i]
  BY <1>2, <1>3, Prefixes
<1>5. CASE Len(x) <= Len(q)
  <2>1. /\ SubSeq(q, 1, Len(x)) \in Seq(Name) /\ Len(SubSeq(q, 1, Len(x))) = Len(x)
        /\ \A i \in 1..Len(x) : SubSeq(q, 1, Len(x))[i] = q[i]
    BY <1>1, <1>3, <1>5, Prefixes
  <2>2. \A i \in 1..Len(x) : x[i] = SubSeq(q, 1, Len(x))[i]
    <3>1. ASSUME NEW i \in 1..Len(x) PROVE x[i] = SubSeq(q, 1, Len(x))[i]
      <4>1. i \in 1..Len(q)
        BY <1>1, <1>3, <1>5
      <4> QED
        BY <1>2, <1>4, <2>1, <3>1, <4>1, Zenon
    <3> QED
      BY <3>1
  <2>3. x = SubSeq(q, 1, Len(x))
    BY <1>3, <2>1, <2>2, SeqEqual
  <2>4. Len(x) \in 1..Len(q)
    BY <1>1, <1>3, <1>5
  <2> QED
    BY <2>3, <2>4, Zenon DEF UpTo
<1>6. CASE Len(x) > Len(q)
  <2> DEFINE n == Len(x) - Len(q) + Len(s)
             y == SubSeq(v, 1, n)
             z == Rebase(y, s, q)
  <2>1. n \in Nat /\ n >= 1 /\ n < Len(v) /\ n > Len(s)
    BY <1>1, <1>2, <1>3, <1>6
  <2> HIDE DEF n
  <2>2. /\ y \in Above(v) /\ y \in NodePath /\ y \in Seq(Name) /\ Len(y) = n
        /\ \A i \in 1..n : y[i] = v[i]
    BY <1>1, <2>1, AboveIntro, AboveType, Prefixes
  <2>3. SubSeq(y, 1, Len(s)) = s
    BY <1>1, <2>1, PrefixOfPrefix
  <2>4. y \in Below(s)
    <3> HIDE DEF y
    <3> QED
      BY <1>1, <2>1, <2>2, <2>3 DEF Below, StartsWith
  <2> HIDE DEF y
  <2>5. /\ z \in Seq(Name) /\ Len(z) = Len(q) + n - Len(s)
        /\ \A i \in 1..Len(q) : z[i] = q[i]
        /\ \A i \in 1..(n - Len(s)) : z[Len(q) + i] = y[Len(s) + i]
    <3>1. Len(s) <= Len(y)
      BY <1>1, <2>1, <2>2
    <3>2. y \in Seq(Name) /\ s \in Seq(Name) /\ q \in Seq(Name)
      BY <1>1, <2>2
    <3>3. Shifted(z, y, s, q)
      BY <3>1, <3>2, RebasePoints
    <3>4. Len(y) = n
      BY <2>2
    <3> HIDE DEF z
    <3> QED
      BY <3>3, <3>4, Zenon DEF Shifted
  <2> HIDE DEF z
  <2>6. Len(z) = Len(x)
    BY <1>1, <1>3, <2>5 DEF n
  <2>7. ASSUME NEW i \in 1..Len(x) PROVE x[i] = z[i]
    <3>1. CASE i <= Len(q)
      <4>1. i \in 1..Len(q)
        BY <1>1, <1>3, <3>1
      <4> QED
        BY <1>2, <1>4, <2>5, <4>1, Zenon
    <3>2. CASE i > Len(q)
      <4> DEFINE j == i - Len(q)
      <4>1. /\ j \in 1..(n - Len(s)) /\ j \in 1..(Len(v) - Len(s))
            /\ Len(q) + j = i /\ Len(s) + j \in 1..n
        BY <1>1, <1>2, <1>3, <2>1, <3>2 DEF n
      <4> HIDE DEF j
      <4>2. u[Len(q) + j] = v[Len(s) + j]
        BY <1>2, <4>1
      <4>3. z[Len(q) + j] = y[Len(s) + j]
        BY <2>5, <4>1
      <4>4. y[Len(s) + j] = v[Len(s) + j]
        BY <2>2, <4>1
      <4> QED
        BY <1>4, <4>1, <4>2, <4>3, <4>4
    <3> QED
      BY <1>1, <1>3, <3>1, <3>2
  <2>8. x = z
    BY <1>3, <2>5, <2>6, <2>7, SeqEqual
  <2> QED
    BY <2>2, <2>4, <2>8 DEF z
<1> QED
  BY <1>1, <1>3, <1>5, <1>6

\* A moved path lies below the place it moved to.
LEMMA RebaseBelow ==
  ASSUME NEW s \in NodePath, NEW q \in NodePath, NEW v \in Below(s),
         Rebase(v, s, q) \in NodePath
  PROVE  Rebase(v, s, q) \in Below(q)
<1> DEFINE u == Rebase(v, s, q)
<1>1. /\ v \in Seq(Name) /\ s \in Seq(Name) /\ q \in Seq(Name)
      /\ Len(v) \in Nat /\ Len(s) \in Nat /\ Len(q) \in Nat
      /\ Len(s) < Len(v) /\ Len(s) <= Len(v)
  BY NodePathType DEF Below
<1>2. /\ u \in Seq(Name) /\ Len(u) = Len(q) + Len(v) - Len(s)
      /\ \A i \in 1..Len(q) : u[i] = q[i]
  <2>1. Shifted(u, v, s, q)
    BY <1>1, RebasePoints
  <2> QED
    BY <2>1, Zenon DEF Shifted
<1> HIDE DEF u
<1>3. Len(q) < Len(u)
  BY <1>1, <1>2
<1>4. /\ SubSeq(u, 1, Len(q)) \in Seq(Name) /\ Len(SubSeq(u, 1, Len(q))) = Len(q)
      /\ \A i \in 1..Len(q) : SubSeq(u, 1, Len(q))[i] = q[i]
  BY <1>1, <1>2, <1>3, Prefixes
<1>5. SubSeq(u, 1, Len(q)) = q
  BY <1>1, <1>4, SeqEqual
<1> QED
  BY <1>1, <1>2, <1>3, <1>5 DEF Below, StartsWith, u

(***************************************************************************)
(* Paths of any length, taken apart and put together.                      *)
(***************************************************************************)
\* A path that is not empty has a first name and a shorter rest.
LEMMA PathSteps ==
  ASSUME NEW at \in Seq(Name), NEW todo \in Seq(Name), todo # <<>>
  PROVE  /\ Head(todo) \in Name /\ Tail(todo) \in Seq(Name)
         /\ Append(at, Head(todo)) \in Seq(Name)
         /\ Len(Tail(todo)) = Len(todo) - 1 /\ Len(Tail(todo)) \in Nat
         /\ Len(Append(at, Head(todo))) = Len(at) + 1
OBVIOUS

\* The empty path is a path, and the only one of length 0.
LEMMA EmptyPath ==
  /\ <<>> \in Seq(Name) /\ Root \in Seq(Name) /\ Root = <<>> /\ Len(Root) = 0
BY DEF Root

LEMMA Concat ==
  ASSUME NEW u \in Seq(Name), NEW v \in Seq(Name)
  PROVE  /\ u \o v \in Seq(Name) /\ Len(u \o v) = Len(u) + Len(v)
         /\ u = <<>> => u \o v = v
         /\ v = <<>> => u \o v = u
         /\ v # <<>> => u \o v # <<>>
         /\ u # <<>> => /\ u \o v # <<>> /\ Head(u \o v) = Head(u)
                        /\ Tail(u \o v) = Tail(u) \o v
<1>1. u \o v \in Seq(Name) /\ Len(u \o v) = Len(u) + Len(v)
  OBVIOUS
<1>2. u = <<>> => u \o v = v
  OBVIOUS
<1>3. v = <<>> => u \o v = u
  OBVIOUS
<1>4. v # <<>> => u \o v # <<>>
  OBVIOUS
<1>5. u # <<>> => u \o v # <<>> /\ Head(u \o v) = Head(u)
  OBVIOUS
<1>6. u # <<>> => Tail(u \o v) = Tail(u) \o v
  OBVIOUS
<1>7. QED
  BY <1>1, <1>2, <1>3, <1>4, <1>5, <1>6

\* Concatenation is associative.
LEMMA ConcatThree ==
  ASSUME NEW u \in Seq(Name), NEW v \in Seq(Name), NEW w \in Seq(Name)
  PROVE  (u \o v) \o w = u \o (v \o w)
OBVIOUS

\* Appending a name is concatenating the path of that name.
LEMMA AppendOne ==
  ASSUME NEW u \in Seq(Name), NEW n \in Name
  PROVE  /\ Append(u, n) = u \o <<n>> /\ <<n>> \in Seq(Name) /\ <<n>> # <<>>
         /\ Head(<<n>>) = n /\ Tail(<<n>>) = <<>>
         /\ Append(u, n) \in Seq(Name) /\ Len(Append(u, n)) = Len(u) + 1
         /\ Append(u, n)[Len(u) + 1] = n
         /\ SubSeq(Append(u, n), 1, Len(u)) = u
         /\ Append(u, n) # Root
<1>1. Append(u, n) \in Seq(Name) /\ Len(Append(u, n)) = Len(u) + 1
  OBVIOUS
<1>2. Append(u, n) = u \o <<n>> /\ <<n>> \in Seq(Name) /\ <<n>> # <<>>
  OBVIOUS
<1>3. Head(<<n>>) = n /\ Tail(<<n>>) = <<>>
  OBVIOUS
<1>4. Append(u, n)[Len(u) + 1] = n
  OBVIOUS
<1>5. SubSeq(Append(u, n), 1, Len(u)) = u
  <2> DEFINE z == Append(u, n)
  <2>1. z \in Seq(Name) /\ Len(u) <= Len(z) /\ Len(u) \in Nat
    BY <1>1
  <2>2. \A i \in 1..Len(u) : z[i] = u[i]
    OBVIOUS
  <2> HIDE DEF z
  <2>3. /\ SubSeq(z, 1, Len(u)) \in Seq(Name) /\ Len(SubSeq(z, 1, Len(u))) = Len(u)
        /\ \A i \in 1..Len(u) : SubSeq(z, 1, Len(u))[i] = z[i]
    BY <2>1, Prefixes
  <2>4. \A i \in 1..Len(u) : SubSeq(z, 1, Len(u))[i] = u[i]
    BY <2>2, <2>3
  <2> DEFINE w == SubSeq(z, 1, Len(u))
  <2>5. w \in Seq(Name) /\ Len(w) = Len(u) /\ \A i \in 1..Len(w) : w[i] = u[i]
    BY <2>3, <2>4
  <2> HIDE DEF w
  <2>6. w = u
    BY <2>5, SeqEqual
  <2>7. QED
    BY <2>6 DEF w, z
<1>6. Append(u, n) # Root
  <2>1. Len(Root) = 0
    BY DEF Root
  <2>2. Len(Append(u, n)) # 0
    BY <1>1, LenProperties
  <2>3. QED
    BY <2>1, <2>2, Zenon
<1>7. QED
  BY <1>1, <1>2, <1>3, <1>4, <1>5, <1>6

\* Each prefix of a path is the one before it with one more name.
LEMMA PrefixStep ==
  ASSUME NEW p \in Seq(Name), NEW k \in Nat, k >= 1, k <= Len(p)
  PROVE  /\ SubSeq(p, 1, k - 1) \in Seq(Name) /\ Len(SubSeq(p, 1, k - 1)) = k - 1
         /\ SubSeq(p, 1, k) \in Seq(Name) /\ p[k] \in Name
         /\ SubSeq(p, 1, k) = Append(SubSeq(p, 1, k - 1), p[k])
OBVIOUS

\* The longest prefix of a path is the path.
LEMMA PrefixWhole ==
  ASSUME NEW p \in Seq(Name)
  PROVE  SubSeq(p, 1, Len(p)) = p
OBVIOUS

\* A path is its parent with its last name appended.
LEMMA SameLast ==
  ASSUME NEW a \in Seq(Name), NEW n \in Name, NEW q \in Seq(Name),
         Len(q) = Len(a) + 1, SubSeq(q, 1, Len(a)) = a, q[Len(q)] = n
  PROVE  q = Append(a, n)
<1> DEFINE x == Append(a, n)
<1>1. x \in Seq(Name) /\ Len(x) = Len(q)
  OBVIOUS
<1>2. ASSUME NEW i \in 1..Len(q) PROVE q[i] = x[i]
  <2>1. CASE i <= Len(a)
    <3>1. SubSeq(q, 1, Len(a))[i] = q[i]
      BY <2>1
    <3>2. QED
      BY <2>1, <3>1
  <2>2. CASE i = Len(a) + 1
    BY <2>2
  <2>3. QED
    BY <2>1, <2>2
<1>3. QED
  BY <1>1, <1>2, SeqEqual

\* What is in a directory has that directory right above it.
LEMMA ParentIsDir ==
  ASSUME NEW layer, Rooted(layer), NEW q \in Seq(Name), NEW n \in Name,
         ~IsNone(At(layer, Append(q, n)))
  PROVE  IsDir(At(layer, q))
<1> DEFINE x == Append(q, n)
<1>1. /\ x \in Seq(Name) /\ Len(x) = Len(q) + 1 /\ SubSeq(x, 1, Len(q)) = q
      /\ x # Root
  BY AppendOne
<1>2. x \in NodePath /\ ~IsNone(layer[x])
  BY <1>1 DEF At, IsNone, None
<1>3. CASE q = Root
  BY <1>3 DEF At, IsDir, Dir
<1>4. CASE q # Root
  <2>1. Len(q) \in Nat /\ Len(q) >= 1 /\ Len(q) < Len(x)
    BY <1>1, <1>4 DEF Root
  <2>2. q \in Above(x)
    <3> HIDE DEF x
    <3> QED BY <1>1, <1>2, <2>1, AboveIntro
  <2>3. IsDir(layer[q]) /\ q \in NodePath
    BY <1>2, <2>2, AboveType DEF Rooted
  <2>4. QED
    BY <1>4, <2>3 DEF At
<1>5. QED
  BY <1>3, <1>4

\* The kinds of nodes exclude each other.
LEMMA TypeNames ==
  ASSUME NEW n
  PROVE  /\ IsDir(n) => ~IsNone(n) /\ ~IsFile(n) /\ ~IsSymlink(n) /\ ~IsWhiteout(n)
         /\ IsFile(n) => ~IsNone(n) /\ ~IsSymlink(n) /\ ~IsWhiteout(n)
         /\ IsSymlink(n) => ~IsNone(n) /\ ~IsWhiteout(n)
         /\ IsNone(n) => ~IsWhiteout(n)
         /\ IsContent(n) <=> IsFile(n) \/ IsSymlink(n) \/ IsDir(n)
         /\ IsLeaf(n) <=> IsFile(n) \/ IsSymlink(n)
         /\ IsNone(None) /\ IsWhiteout(Whiteout)
BY DEF IsDir, IsNone, IsFile, IsSymlink, IsWhiteout, IsContent, IsLeaf, None, Whiteout

\* The front of a concatenation is its first part.
LEMMA FirstPart ==
  ASSUME NEW x \in Seq(Name), NEW z \in Seq(Name)
  PROVE  SubSeq(x \o z, 1, Len(x)) = x
<1> DEFINE y == x \o z
           u == SubSeq(y, 1, Len(x))
<1>1. y \in Seq(Name) /\ Len(x) \in Nat /\ Len(x) <= Len(y)
      /\ \A i \in 1..Len(x) : y[i] = x[i]
  OBVIOUS
<1> DEFINE n == Len(x)
<1>2. n \in Nat /\ n <= Len(y)
  BY <1>1
<1>3. SubSeq(y, 1, n) \in Seq(Name) /\ Len(SubSeq(y, 1, n)) = n
      /\ \A i \in 1..n : SubSeq(y, 1, n)[i] = y[i]
  <2> HIDE DEF y, n
  <2> QED BY <1>1, <1>2, Prefixes
<1> HIDE DEF y
<1>4. \A i \in 1..Len(u) : u[i] = x[i]
  BY <1>1, <1>3
<1>5. u \in Seq(Name) /\ Len(u) = Len(x)
  BY <1>3
<1>6. u = x
  <2> HIDE DEF u
  <2> QED BY <1>4, <1>5, SeqEqual
<1>7. QED
  BY <1>6 DEF y

LEMMA PrefixType ==
  ASSUME NEW p \in Seq(Name), NEW r \in Above(p)
  PROVE  /\ r \in Seq(Name) /\ Len(r) \in Nat /\ Len(r) >= 1 /\ Len(r) < Len(p)
         /\ r = SubSeq(p, 1, Len(r)) /\ r # Root
<1>1. PICK n \in 1..(Len(p) - 1) : r = SubSeq(p, 1, n)
  BY DEF Above
<1>2. r \in Seq(Name) /\ Len(r) = n /\ n \in Nat /\ n >= 1 /\ n < Len(p)
  BY <1>1, Prefixes
<1>3. QED
  BY <1>1, <1>2, EmptyPath

\* A shorter prefix lies above.
LEMMA PrefixIntro ==
  ASSUME NEW p \in Seq(Name), NEW n \in Nat, n >= 1, n < Len(p)
  PROVE  SubSeq(p, 1, n) \in Above(p)
BY DEF Above

\* Above is transitive, for paths of any depth.
LEMMA PrefixTransitive ==
  ASSUME NEW p \in Seq(Name), NEW q \in Above(p), NEW r \in Above(q)
  PROVE  r \in Above(p)
<1>1. /\ q \in Seq(Name) /\ Len(q) \in Nat /\ Len(q) < Len(p)
      /\ q = SubSeq(p, 1, Len(q))
  BY PrefixType
<1>2. /\ r \in Seq(Name) /\ Len(r) \in Nat /\ Len(r) >= 1 /\ Len(r) < Len(q)
      /\ r = SubSeq(q, 1, Len(r))
  BY <1>1, PrefixType
<1> DEFINE m == Len(q)
           n == Len(r)
<1>5. m \in Nat /\ n \in Nat /\ n <= m /\ m <= Len(p) /\ n >= 1 /\ n < Len(p)
      /\ q = SubSeq(p, 1, m) /\ r = SubSeq(q, 1, n)
  BY <1>1, <1>2
<1> HIDE DEF m, n
<1>3. r = SubSeq(p, 1, n)
  BY <1>5, PrefixOfPrefix
<1>4. QED
  BY <1>5, <1>3, PrefixIntro

\* A path cut after n names.
LEMMA CutInTwo ==
  ASSUME NEW p \in Seq(Name), NEW n \in Nat, n <= Len(p)
  PROVE  /\ SubSeq(p, 1, n) \in Seq(Name) /\ Len(SubSeq(p, 1, n)) = n
         /\ SubSeq(p, n + 1, Len(p)) \in Seq(Name)
         /\ Len(SubSeq(p, n + 1, Len(p))) = Len(p) - n
         /\ p = SubSeq(p, 1, n) \o SubSeq(p, n + 1, Len(p))
<1> DEFINE u == SubSeq(p, 1, n)
           v == SubSeq(p, n + 1, Len(p))
<1>1. u \in Seq(Name) /\ Len(u) = n /\ \A i \in 1..n : u[i] = p[i]
  BY Prefixes
<1>2. /\ v \in Seq(Name) /\ Len(v) = Len(p) - n
      /\ \A i \in 1..(Len(p) - n) : v[i] = p[n + i]
  OBVIOUS
<1>3. ASSUME NEW i \in 1..Len(p) PROVE p[i] = (u \o v)[i]
  <2> HIDE DEF u, v
  <2>1. CASE i <= n
    BY <1>1, <1>2, <2>1
  <2>2. CASE i > n
    <3>1. (u \o v)[i] = v[i - n]
      BY <1>1, <1>2, <2>2
    <3>2. v[i - n] = p[n + (i - n)]
      BY <1>2, <2>2
    <3>3. QED
      BY <3>1, <3>2
  <2>3. i <= n \/ i > n
    OBVIOUS
  <2>4. QED
    BY <2>1, <2>2, <2>3
<1> HIDE DEF u, v
<1>4. u \o v \in Seq(Name) /\ Len(u \o v) = Len(p)
  <2>1. u \o v \in Seq(Name) /\ Len(u \o v) = Len(u) + Len(v)
    BY <1>1, <1>2, ConcatProperties
  <2>2. Len(u) + Len(v) = Len(p)
    <3>1. Len(u) = n /\ Len(v) = Len(p) - n /\ n \in Nat /\ Len(p) \in Nat
      BY <1>1, <1>2, LenProperties
    <3>2. QED
      BY ONLY <3>1
  <2>3. QED
    BY <2>1, <2>2
<1>5. p = u \o v
  <2> DEFINE w == u \o v
  <2>1. w \in Seq(Name) /\ Len(w) = Len(p) /\ \A i \in 1..Len(p) : p[i] = w[i]
    BY <1>3, <1>4
  <2> HIDE DEF w
  <2>2. p = w
    BY <2>1, SeqEqual
  <2>3. QED
    BY <2>2 DEF w
<1>6. QED
  BY <1>1, <1>2, <1>5 DEF u, v

\* What lies above a path, with some rest, is the path.
LEMMA PrefixRest ==
  ASSUME NEW p \in Seq(Name), NEW r \in Above(p)
  PROVE  \E v \in Seq(Name) : v # <<>> /\ p = r \o v
<1> DEFINE n == Len(r)
           v == SubSeq(p, n + 1, Len(p))
<1>1. n \in Nat /\ n < Len(p) /\ r = SubSeq(p, 1, n)
  BY PrefixType
<1> HIDE DEF n
<1>2. v \in Seq(Name) /\ Len(v) = Len(p) - n /\ p = r \o v
  <2>1. n <= Len(p) /\ Len(p) \in Nat
    BY <1>1
  <2>2. QED
    BY ONLY p \in Seq(Name), <1>1, <2>1, CutInTwo
<1> HIDE DEF v
<1>3. v # <<>>
  BY <1>1, <1>2
<1>4. QED
  BY <1>2, <1>3

\* Whatever lies above a path lies up to its parent.
LEMMA ParentAbove ==
  ASSUME NEW y \in NodePath, NEW r \in Above(y)
  PROVE  Parent(y) \in NodePath /\ r \in UpTo(Parent(y)) /\ Parent(y) \in Above(y)
<1> DEFINE m == Len(y) - 1
           n == Len(r)
<1>1. y \in Seq(Name) /\ Len(y) \in Nat
  BY NodePathType
<1>2. r \in NodePath /\ n \in Nat /\ n >= 1 /\ n <= m /\ r = SubSeq(y, 1, n)
  BY <1>1, AboveType, PrefixType
<1>3. m \in Nat /\ m >= 1 /\ m < Len(y) /\ m <= Len(y)
  BY <1>1, <1>2
<1> HIDE DEF m, n
<1>4. SubSeq(y, 1, m) \in Above(y)
  BY <1>3, AboveIntro
<1>5. Parent(y) = SubSeq(y, 1, m)
  BY DEF Parent, m
<1>6. SubSeq(SubSeq(y, 1, m), 1, n) = r /\ Len(SubSeq(y, 1, m)) = m
  BY <1>1, <1>2, <1>3, PrefixOfPrefix
<1>7. n \in 1..m
  BY <1>2, <1>3
<1>8. r \in UpTo(Parent(y))
  BY <1>5, <1>6, <1>7 DEF UpTo
<1>9. QED
  BY <1>4, <1>5, <1>8, AboveType

\* Of two prefixes of a path one is a prefix of the other.
LEMMA PrefixesOrder ==
  ASSUME NEW x \in NodePath, NEW r \in UpTo(x), NEW y \in UpTo(x)
  PROVE  r = y \/ r \in Above(y) \/ y \in Above(r)
<1> DEFINE n == Len(r)
           m == Len(y)
<1>1. /\ x \in Seq(Name) /\ Len(x) \in Nat /\ n \in Nat /\ n >= 1 /\ n <= Len(x)
      /\ r = SubSeq(x, 1, n) /\ r \in NodePath /\ m \in Nat /\ m >= 1
      /\ m <= Len(x) /\ y = SubSeq(x, 1, m) /\ y \in NodePath
  <2>1. x \in Seq(Name) /\ Len(x) \in Nat /\ Len(x) >= 1 /\ SubSeq(x, 1, Len(x)) = x
    BY NodePathType, PrefixWhole
  <2>2. ASSUME NEW z \in UpTo(x)
        PROVE  /\ Len(z) \in Nat /\ Len(z) >= 1 /\ Len(z) <= Len(x)
               /\ z = SubSeq(x, 1, Len(z)) /\ z \in NodePath
    <3>1. CASE z = x
      BY <2>1, <3>1
    <3>2. CASE z \in Above(x)
      BY <2>1, <3>2, AboveType, NodePathType
    <3>3. QED
      BY <3>1, <3>2, UpToIsAboveAndSelf
  <2>3. QED
    BY <2>1, <2>2
<1> HIDE DEF n, m
<1>2. CASE n = m
  BY <1>1, <1>2
<1>3. CASE n < m
  <2>1. SubSeq(SubSeq(x, 1, m), 1, n) = SubSeq(x, 1, n) /\ Len(SubSeq(x, 1, m)) = m
    BY <1>1, <1>3, PrefixOfPrefix
  <2>2. SubSeq(y, 1, n) \in Above(y)
    BY <1>1, <1>3, <2>1, AboveIntro
  <2>3. QED
    BY <1>1, <2>1, <2>2
<1>4. CASE m < n
  <2>1. SubSeq(SubSeq(x, 1, n), 1, m) = SubSeq(x, 1, m) /\ Len(SubSeq(x, 1, n)) = n
    BY <1>1, <1>4, PrefixOfPrefix
  <2>2. SubSeq(r, 1, m) \in Above(r)
    BY <1>1, <1>4, <2>1, AboveIntro
  <2>3. QED
    BY <1>1, <2>1, <2>2
<1>5. QED
  BY <1>1, <1>2, <1>3, <1>4

\* The parent of a path of two names or more, and the prefixes up to it.
LEMMA ParentPath ==
  ASSUME NEW q \in Seq(Name), Len(q) > 1
  PROVE  /\ Parent(q) \in Above(q) /\ Parent(q) \in Seq(Name) /\ Parent(q) # Root
         /\ UpTo(Parent(q)) = Above(q)
<1>1. Len(q) \in Nat /\ Parent(q) \in Seq(Name) /\ Len(Parent(q)) = Len(q) - 1
  BY PrefixOfPrefix DEF Parent
<1>2. Parent(q) \in Above(q)
  BY <1>1, PrefixIntro DEF Parent
<1>3. ASSUME NEW n \in 1..(Len(q) - 1)
      PROVE  SubSeq(Parent(q), 1, n) = SubSeq(q, 1, n)
  BY <1>1, PrefixOfPrefix DEF Parent
<1>4. UpTo(Parent(q)) = Above(q)
  BY <1>1, <1>3 DEF UpTo, Above
<1>5. QED
  BY <1>1, <1>2, <1>4, PrefixType

\* Whatever lies outside a subtree has no ancestor inside it.
LEMMA OutsideSubtree ==
  ASSUME NEW s \in NodePath, NEW x \in NodePath, x \notin Subtree(s)
  PROVE  x # s /\ x \notin Below(s) /\ \A r \in Above(x) : r \notin Subtree(s)
<1>1. x # s /\ x \notin Below(s) /\ s \notin Above(x)
  BY SubtreeIsSelfAndBelow, BelowIsAbove
<1>2. ASSUME NEW r \in Above(x), r \in Subtree(s)
      PROVE  FALSE
  <2>1. r \in NodePath
    BY AboveType
  <2>2. r = s \/ s \in Above(r)
    BY <1>2, <2>1, SubtreeIsSelfAndBelow, BelowIsAbove
  <2>3. QED
    BY <1>1, <2>2, AboveTransitive
<1>3. QED
  BY <1>1, <1>2

(***************************************************************************)
(* The places of a walk: the path walked, the path to walk, and the links  *)
(* that may still be followed.  A walk ends because the links become fewer *)
(* or the path to walk becomes shorter.                                    *)
(***************************************************************************)
Spots(K) == Seq(Name) \X Seq(Name) \X (0..K)

Closer(x, w) == x[3] < w[3] \/ (x[3] = w[3] /\ Len(x[2]) < Len(w[2]))

\* Among any places there is one none of them is closer to the end than.
LEMMA LeastSpot ==
  ASSUME NEW K \in Nat, NEW B, B \subseteq Spots(K), B # {}
  PROVE  \E w \in B : \A x \in B : ~Closer(x, w)
<1> DEFINE m(w) == <<w[3], Len(w[2])>>
           S == {m(w) : w \in B}
<1>1. \A w \in B : w[3] \in Nat /\ Len(w[2]) \in Nat
  BY DEF Spots
<1>2. S \subseteq Nat \X Nat /\ S # {}
  <2>1. \A w \in B : m(w) \in Nat \X Nat
    BY <1>1
  <2> HIDE DEF m
  <2>2. QED
    BY <2>1
<1>3. PICK k \in S :
             \A l \in S : k[1] <= l[1] /\ (k[1] = l[1] => k[2] <= l[2])
  <2> HIDE DEF S
  <2> QED BY ONLY <1>2, LeastPair
<1>4. PICK w \in B : k = m(w)
  OBVIOUS
<1>5. ASSUME NEW x \in B PROVE ~Closer(x, w)
  <2>1. m(x) \in S
    OBVIOUS
  <2>2. ASSUME NEW l \in S PROVE k[1] <= l[1] /\ (k[1] = l[1] => k[2] <= l[2])
    <3> HIDE DEF S
    <3> QED BY <1>3
  <2>3. k[1] = w[3] /\ k[2] = Len(w[2])
    BY <1>4
  <2>4. k[1] <= m(x)[1] /\ (k[1] = m(x)[1] => k[2] <= m(x)[2])
    <3> HIDE DEF S, m
    <3> QED BY ONLY <2>1, <2>2
  <2>5. m(x)[1] = x[3] /\ m(x)[2] = Len(x[2])
    OBVIOUS
  <2> HIDE DEF m, S
  <2>6. QED
    BY <1>1, <2>3, <2>4, <2>5 DEF Closer
<1>6. QED
  BY <1>5
=============================================================================
