------------------------------ MODULE Recursion ------------------------------
(***************************************************************************)
(* Reasoning about recursive functions without an induction rule: the      *)
(* least number, or pair of numbers, at which a claim would fail, and the  *)
(* existence of functions defined by recursion.                            *)
(***************************************************************************)
EXTENDS Integers, WellFoundedInduction, TLAPS

\* A set of numbers that is not empty has a least one.
LEMMA LeastNatural ==
  ASSUME NEW S, S \subseteq Nat, S # {}
  PROVE  \E m \in S : \A k \in S : m <= k
<1>1. PICK R : IsWellFoundedOn(R, Nat) /\ \A x, y \in Nat : <<y, x>> \in R <=> y < x
  <2> DEFINE Q == OpToRel(<, Nat)
  <2>1. \A x, y \in Nat : <<y, x>> \in Q <=> y < x
    BY DEF OpToRel
  <2>2. IsWellFoundedOn(Q, Nat)
    BY NatLessThanWellFounded
  <2> HIDE DEF Q
  <2> QED BY <2>1, <2>2, Zenon
<1>2. PICK m \in S : \A y \in S : ~ (<<y, m>> \in R)
  BY <1>1, WFMin
<1>3. ASSUME NEW k \in S PROVE m <= k
  <2>1. m \in Nat /\ k \in Nat
    OBVIOUS
  <2>2. ~ (k < m)
    BY <1>1, <1>2, <2>1, Zenon
  <2> QED BY <2>1, <2>2
<1>4. QED
  BY <1>3

\* The least number at which a claim fails is not 0 if the claim holds at 0.
LEMMA LeastFailure ==
  ASSUME NEW S, 0 \in S, NEW n \in Nat, ~(0..n \subseteq S)
  PROVE  \E m \in 1..n : m \notin S /\ m - 1 \in S
<1> DEFINE B == (0..n) \ S
<1>1. B \subseteq Nat /\ B # {}
  OBVIOUS
<1>2. PICK m \in B : \A k \in B : m <= k
  <2> HIDE DEF B
  <2> QED BY <1>1, LeastNatural
<1>3. m \in 1..n /\ m - 1 \in 0..n
  OBVIOUS
<1>4. m - 1 \notin B
  BY <1>2, <1>3
<1>5. QED
  BY <1>3, <1>4

LEMMA GreatestNatural ==
  ASSUME NEW S, S # {}, NEW b \in Nat, S \subseteq 0..b
  PROVE  \E m \in S : \A k \in S : k <= m
<1> DEFINE B == {c \in Nat : S \subseteq 0..c}
<1>1. B \subseteq Nat /\ B # {}
  OBVIOUS
<1>2. PICK m \in B : \A c \in B : m <= c
  <2> HIDE DEF B
  <2> QED BY <1>1, LeastNatural
<1>3. m \in S
  <2>1. SUFFICES ASSUME m \notin S PROVE FALSE
    OBVIOUS
  <2>2. m # 0
    <3>1. PICK x \in S : TRUE
      OBVIOUS
    <3>2. x \in 0..m /\ x # m
      BY <1>2, <2>1
    <3>3. QED
      BY <3>2
  <2>3. m - 1 \in B
    BY <1>2, <2>1, <2>2
  <2>4. QED
    BY <1>2, <2>3
<1>4. QED
  BY <1>2, <1>3

\* A set of pairs of numbers that is not empty has one with the least first
\* number and, among those, the least second one.
LEMMA LeastPair ==
  ASSUME NEW S, S \subseteq Nat \X Nat, S # {}
  PROVE  \E m \in S :
           \A k \in S : m[1] <= k[1] /\ (m[1] = k[1] => m[2] <= k[2])
<1> DEFINE F == {k[1] : k \in S}
<1>1. F \subseteq Nat /\ F # {}
  OBVIOUS
<1>2. PICK a \in F : \A k \in F : a <= k
  <2> HIDE DEF F
  <2> QED BY <1>1, LeastNatural
<1> DEFINE B == {k[2] : k \in {x \in S : x[1] = a}}
<1>3. B \subseteq Nat /\ B # {}
  BY <1>2
<1>4. PICK b \in B : \A k \in B : b <= k
  <2> HIDE DEF B
  <2> QED BY <1>3, LeastNatural
<1>5. PICK m \in S : m[1] = a /\ m[2] = b
  BY <1>4
<1>6. \A k \in S : a <= k[1] /\ (a = k[1] => b <= k[2])
  BY <1>2, <1>4
<1>7. QED
  BY <1>5, <1>6

(***************************************************************************)
(* Recursive functions of a number exist: from b by the steps G.           *)
(***************************************************************************)
Recurs(f, D, b, G, j) ==
  /\ f \in [0..j -> D] /\ f[0] = b
  /\ \A i \in 1..j : f[i] = G[<<i, f[i - 1]>>]

LEMMA RecursionExists ==
  ASSUME NEW D, NEW b \in D, NEW K \in Nat, NEW G \in [(1..K) \X D -> D]
  PROVE  \E f : Recurs(f, D, b, G, K)
<1> DEFINE S == {j \in 0..K : \E f : Recurs(f, D, b, G, j)}
<1>1. SUFFICES 0..K \subseteq S
  OBVIOUS
<1>2. 0 \in S
  <2> DEFINE f == [k \in 0..0 |-> b]
  <2>1. Recurs(f, D, b, G, 0)
    BY DEF Recurs
  <2> QED BY <2>1
<1>3. SUFFICES ASSUME NEW m \in 1..K, m \notin S, m - 1 \in S PROVE FALSE
  <2> HIDE DEF S
  <2> QED BY <1>2, LeastFailure
<1>4. PICK g : Recurs(g, D, b, G, m - 1)
  BY <1>3
<1> DEFINE x == G[<<m, g[m - 1]>>]
           f == [k \in 0..m |-> IF k = m THEN x ELSE g[k]]
<1>5. g[m - 1] \in D /\ m - 1 \in 0..(m - 1)
  BY <1>4 DEF Recurs
<1>6. x \in D
  BY <1>5
<1>7. f \in [0..m -> D] /\ f[0] = b
  <2> HIDE DEF x
  <2> QED BY <1>4, <1>6 DEF Recurs
<1>8. ASSUME NEW i \in 1..m PROVE f[i] = G[<<i, f[i - 1]>>]
  <2>1. CASE i = m
    <3>1. f[m] = x /\ f[m - 1] = g[m - 1]
      OBVIOUS
    <3>2. QED
      BY <2>1, <3>1
  <2>2. CASE i # m
    <3>1. i \in 1..(m - 1) /\ f[i] = g[i] /\ f[i - 1] = g[i - 1]
      BY <2>2
    <3>2. QED
      BY <1>4, <3>1 DEF Recurs
  <2>3. QED
    BY <2>1, <2>2
<1>9. Recurs(f, D, b, G, m)
  <2> HIDE DEF f
  <2> QED BY <1>7, <1>8 DEF Recurs
<1>10. QED
  BY <1>3, <1>9

(***************************************************************************)
(* Tail recursion: from x by the steps nxt until done, then val.           *)
(***************************************************************************)
RunOf(k, c, x, nxt, done) ==
  /\ k \in Nat /\ c[0] = x /\ c[k] \in done
  /\ \A i \in 1..k : c[i - 1] \notin done /\ c[i] = nxt[c[i - 1]]

\* The steps from x end at one place only.
LEMMA OneEnd ==
  ASSUME NEW x, NEW nxt, NEW done, NEW k, NEW c, NEW l, NEW e,
         RunOf(k, c, x, nxt, done), RunOf(l, e, x, nxt, done), k <= l
  PROVE  c[k] = e[l]
<1> DEFINE S == {i \in 0..k : c[i] = e[i]}
<1>1. k \in Nat /\ l \in Nat
  BY DEF RunOf
<1>2. 0..k \subseteq S
  <2>1. 0 \in S
    BY <1>1 DEF RunOf
  <2>2. SUFFICES ASSUME NEW m \in 1..k, m \notin S, m - 1 \in S PROVE FALSE
    <3> HIDE DEF S
    <3> QED BY <1>1, <2>1, LeastFailure
  <2>3. m \in 1..k /\ m \in 1..l
    BY <1>1
  <2>4. c[m] = nxt[c[m - 1]] /\ e[m] = nxt[e[m - 1]]
    BY <2>3 DEF RunOf
  <2>5. c[m - 1] = e[m - 1]
    BY <2>2
  <2>6. QED
    BY <1>1, <2>2, <2>4, <2>5
<1>3. c[k] = e[k]
  BY <1>1, <1>2
<1>4. k = l
  <2> SUFFICES ASSUME k < l PROVE FALSE
    BY <1>1
  <2>1. k + 1 \in 1..l /\ (k + 1) - 1 = k
    BY <1>1
  <2>2. e[k] \notin done
    BY <2>1 DEF RunOf
  <2>3. QED
    BY <1>3, <2>2 DEF RunOf
<1>5. QED
  BY <1>3, <1>4

\* One step further back.
LEMMA LongerRun ==
  ASSUME NEW X, NEW x \in X, NEW nxt \in [X -> X], NEW done, x \notin done,
         NEW k, NEW c, RunOf(k, c, nxt[x], nxt, done)
  PROVE  \E e : RunOf(k + 1, e, x, nxt, done) /\ e[k + 1] = c[k]
<1> DEFINE e == [i \in 0..(k + 1) |-> IF i = 0 THEN x ELSE c[i - 1]]
<1>1. k \in Nat
  BY DEF RunOf
<1>2. e[0] = x /\ \A i \in 1..(k + 1) : e[i] = c[i - 1]
  BY <1>1
<1> HIDE DEF e
<1>3. e[k + 1] = c[k]
  BY <1>1, <1>2
<1>4. ASSUME NEW i \in 1..(k + 1)
      PROVE  e[i - 1] \notin done /\ e[i] = nxt[e[i - 1]]
  <2>1. CASE i = 1
    BY <1>1, <1>2, <2>1 DEF RunOf
  <2>2. CASE i # 1
    <3>1. i - 1 \in 1..k /\ i - 1 \in 1..(k + 1)
      BY <1>1, <2>2
    <3>2. c[i - 1 - 1] \notin done /\ c[i - 1] = nxt[c[i - 1 - 1]]
      BY <3>1 DEF RunOf
    <3>3. e[i] = c[i - 1] /\ e[i - 1] = c[i - 1 - 1]
      BY <1>2, <3>1
    <3>4. QED
      BY <3>2, <3>3
  <2>3. QED
    BY <2>1, <2>2
<1>5. RunOf(k + 1, e, x, nxt, done)
  BY <1>1, <1>2, <1>3, <1>4 DEF RunOf
<1>6. QED
  BY <1>3, <1>5

\* A tail recursive function exists, whether or not its steps end.
TailRecurs(f, X, V, done, nxt, val) ==
  /\ f \in [X -> V]
  /\ \A x \in X : f[x] = IF x \in done THEN val[x] ELSE f[nxt[x]]

LEMMA TailRecursionExists ==
  ASSUME NEW X, NEW V, NEW done \in SUBSET X, NEW nxt \in [X -> X],
         NEW val \in [X -> V]
  PROVE  \E f : TailRecurs(f, X, V, done, nxt, val)
<1> DEFINE Ends(x, y) == y \in X /\ \E k, c : RunOf(k, c, x, nxt, done) /\ c[k] = y
           g(x) == CHOOSE y : Ends(x, y)
           f == [x \in X |-> IF \E y : Ends(x, y) THEN val[g(x)] ELSE CHOOSE v \in V : TRUE]
<1>1. ASSUME NEW x, NEW y, NEW z, Ends(x, y), Ends(x, z) PROVE y = z
  <2>1. PICK k, c : RunOf(k, c, x, nxt, done) /\ c[k] = y
    BY <1>1
  <2>2. PICK l, e : RunOf(l, e, x, nxt, done) /\ e[l] = z
    BY <1>1
  <2>3. k \in Nat /\ l \in Nat
    BY <2>1, <2>2 DEF RunOf
  <2>4. CASE k <= l
    <3>1. c[k] = e[l]
      BY <2>1, <2>2, <2>4, OneEnd
    <3>2. QED
      BY <2>1, <2>2, <3>1
  <2>5. CASE l <= k
    <3>1. e[l] = c[k]
      BY <2>1, <2>2, <2>5, OneEnd
    <3>2. QED
      BY <2>1, <2>2, <3>1
  <2>6. QED
    BY <2>3, <2>4, <2>5
<1>2. ASSUME NEW x \in X, x \in done PROVE Ends(x, x)
  <2> DEFINE c == [i \in 0..0 |-> x]
  <2>1. RunOf(0, c, x, nxt, done) /\ c[0] = x
    BY <1>2 DEF RunOf
  <2> HIDE DEF c
  <2>2. QED
    BY <2>1
<1>3. ASSUME NEW x \in X, x \notin done, NEW y
      PROVE  Ends(x, y) <=> Ends(nxt[x], y)
  <2>1. ASSUME Ends(nxt[x], y) PROVE Ends(x, y)
    <3>1. PICK k, c : RunOf(k, c, nxt[x], nxt, done) /\ c[k] = y
      BY <2>1
    <3>2. PICK e : RunOf(k + 1, e, x, nxt, done) /\ e[k + 1] = c[k]
      BY <1>3, <3>1, LongerRun
    <3>3. QED
      BY <2>1, <3>1, <3>2
  <2>2. ASSUME Ends(x, y) PROVE Ends(nxt[x], y)
    <3>1. PICK k, c : RunOf(k, c, x, nxt, done) /\ c[k] = y
      BY <2>2
    <3>2. k \in Nat /\ k # 0
      BY <1>3, <3>1 DEF RunOf
    <3> DEFINE e == [i \in 0..(k - 1) |-> c[i + 1]]
    <3>3. \A i \in 0..(k - 1) : e[i] = c[i + 1]
      OBVIOUS
    <3> HIDE DEF e
    <3>4. e[k - 1] = c[k] /\ k - 1 \in Nat
      BY <3>2, <3>3
    <3>5. e[0] = nxt[x]
      <4>1. 1 \in 1..k /\ 1 - 1 = 0 /\ e[0] = c[1]
        BY <3>2, <3>3
      <4>2. QED
        BY <3>1, <4>1 DEF RunOf
    <3>6. ASSUME NEW i \in 1..(k - 1)
          PROVE  e[i - 1] \notin done /\ e[i] = nxt[e[i - 1]]
      <4>1. i + 1 \in 1..k /\ (i + 1) - 1 = i /\ i \in 0..(k - 1)
            /\ i - 1 \in 0..(k - 1) /\ (i - 1) + 1 = i
        BY <3>2
      <4>2. c[i] \notin done /\ c[i + 1] = nxt[c[i]]
        BY <3>1, <4>1 DEF RunOf
      <4>3. QED
        BY <3>3, <4>1, <4>2
    <3>7. RunOf(k - 1, e, nxt[x], nxt, done)
      BY <3>1, <3>4, <3>5, <3>6 DEF RunOf
    <3>8. QED
      BY <2>2, <3>1, <3>4, <3>7
  <2>3. QED
    BY <2>1, <2>2
<1> HIDE DEF Ends
<1>4. \A x, y : Ends(x, y) => y \in X
  BY DEF Ends
<1>5. \A x, y : Ends(x, y) => g(x) = y
  BY <1>1
<1>6. f \in [X -> V]
  <2> SUFFICES ASSUME NEW x \in X
               PROVE  (IF \E y : Ends(x, y) THEN val[g(x)] ELSE CHOOSE v \in V : TRUE) \in V
    OBVIOUS
  <2>1. val[x] \in V
    OBVIOUS
  <2>2. (\E y : Ends(x, y)) => g(x) \in X
    BY <1>4, <1>5
  <2> HIDE DEF g
  <2>3. QED
    BY <2>1, <2>2
<1>7. ASSUME NEW x \in X PROVE f[x] = IF x \in done THEN val[x] ELSE f[nxt[x]]
  <2> DEFINE e(z) == \E y : Ends(z, y)
             w == CHOOSE v \in V : TRUE
  <2>1. \A z \in X : f[z] = IF e(z) THEN val[g(z)] ELSE w
    OBVIOUS
  <2>2. x \in done => e(x) /\ g(x) = x
    BY <1>2, <1>5
  <2>3. nxt[x] \in X
    OBVIOUS
  <2>4. x \notin done => (e(x) <=> e(nxt[x]))
    BY <1>3
  <2>5. x \notin done /\ e(x) => g(x) = g(nxt[x])
    BY <1>3, <1>5
  <2> HIDE DEF f, g, e, w
  <2>6. QED
    BY <2>1, <2>2, <2>3, <2>4, <2>5
<1>8. TailRecurs(f, X, V, done, nxt, val)
  <2> HIDE DEF f
  <2> QED BY <1>6, <1>7 DEF TailRecurs
<1>9. QED
  BY <1>8
=============================================================================
