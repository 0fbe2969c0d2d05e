---------------------------- MODULE MergedProofs ----------------------------
(***************************************************************************)
(* What the overlay shows, proved for every disk, tree and path: the walks *)
(* of the disk and the resolvers of OverlayFs exist and go where their     *)
(* steps lead, every method is a step of the one tree of MergedFs, rename  *)
(* moves what it says, listings name what lookups find, sync keeps what is *)
(* seen, and diff is what a host must do to get there.                     *)
(***************************************************************************)
EXTENDS OverlayProps, OverlayProofs, Recursion

(***************************************************************************)
(* The kernel's walk, one component at a time: it stops, goes back into    *)
(* the text of a link, or goes on.                                         *)
(***************************************************************************)
Next1(w) == Append(w[1], Head(w[2]))

Follows(d, follow, w) ==
  IsSymlink(At(d, Next1(w))) /\ (follow \/ Tail(w[2]) # <<>>)
Sinks(d, follow, w) ==
  LET node == At(d, Next1(w))
  IN  IF Follows(d, follow, w) THEN node.target.abs \/ w[3] = 0
      ELSE IsNone(node) \/ (IsFile(node) /\ Tail(w[2]) # <<>>)
Onward(d, follow, w) ==
  IF Follows(d, follow, w)
  THEN <<w[1], At(d, Next1(w)).target.to \o Tail(w[2]), w[3] - 1>>
  ELSE <<Next1(w), Tail(w[2]), w[3]>>

Walks(d, follow, W) ==
  /\ \A w \in Places : w[2] = <<>> => W[w] = w[1]
  /\ \A w \in Places : w[2] # <<>> /\ Sinks(d, follow, w) => W[w] = Nowhere
  /\ \A w \in Places : w[2] # <<>> /\ ~Sinks(d, follow, w) =>
                         W[w] = W[Onward(d, follow, w)]

\* A link on a disk has a text of the right type.
LEMMA SymlinkType ==
  ASSUME NEW d \in Disk, NEW p, IsSymlink(At(d, p))
  PROVE  At(d, p).target \in Link /\ At(d, p).target.to \in Seq(Name)
<1>1. At(d, p) \in DiskNode
  BY AtType
<1>2. QED
  BY <1>1, NodeAssumption
  DEF DiskNode, ContentNode, LeafNode, DirNode, IsSymlink, None

\* What a place of a walk consists of.
LEMMA PlaceIs ==
  ASSUME NEW w \in Places
  PROVE  /\ w[1] \in Seq(Name) /\ w[2] \in Seq(Name) /\ w[3] \in 0..MaxHops
         /\ w[3] \in Nat /\ w = <<w[1], w[2], w[3]>>
BY HopAssumption DEF Places

\* A place put together.
LEMMA PlaceIntro ==
  ASSUME NEW a \in Seq(Name), NEW b \in Seq(Name), NEW h \in 0..MaxHops
  PROVE  /\ <<a, b, h>> \in Places /\ <<a, b, h>>[1] = a
         /\ <<a, b, h>>[2] = b /\ <<a, b, h>>[3] = h
BY DEF Places

\* A walk that goes on stands at a place.
LEMMA OnwardTyped ==
  ASSUME NEW d \in Disk, NEW follow, NEW w \in Places, w[2] # <<>>,
         ~Sinks(d, follow, w)
  PROVE  Onward(d, follow, w) \in Places
<1>1. /\ w[1] \in Seq(Name) /\ w[3] \in 0..MaxHops /\ Tail(w[2]) \in Seq(Name)
      /\ Next1(w) \in Seq(Name)
  BY PlaceIs, PathSteps DEF Next1
<1>2. CASE Follows(d, follow, w)
  <2>1. At(d, Next1(w)).target.to \in Seq(Name)
    BY <1>2, SymlinkType DEF Follows
  <2>2. w[3] - 1 \in 0..MaxHops
    BY <1>1, <1>2, HopAssumption DEF Sinks
  <2>3. At(d, Next1(w)).target.to \o Tail(w[2]) \in Seq(Name)
    BY <1>1, <2>1
  <2>4. QED
    BY <1>1, <1>2, <2>2, <2>3 DEF Onward, Places
<1>3. CASE ~Follows(d, follow, w)
  BY <1>1, <1>3 DEF Onward, Places
<1>4. QED
  BY <1>2, <1>3

\* Walk does what its body says: the recursive function it is defined by exists.
LEMMA WalkIs ==
  ASSUME NEW d \in Disk, NEW follow
  PROVE  \E W : /\ Walks(d, follow, W)
                /\ \A p : Walk(d, p, follow) = W[<<Root, p, MaxHops>>]
<1> DEFINE stop(w) == w[2] = <<>> \/ Sinks(d, follow, w)
           end(w) == IF w[2] = <<>> THEN w[1] ELSE Nowhere
           V == Seq(Name) \cup {Nowhere}
           done == {w \in Places : stop(w)}
           nxt == [w \in Places |-> IF stop(w) THEN w ELSE Onward(d, follow, w)]
           val == [w \in Places |-> end(w)]
           P(W) == W = [w \in Places |->
                          IF w[2] = <<>> THEN w[1]
                          ELSE IF Sinks(d, follow, w) THEN Nowhere
                          ELSE W[Onward(d, follow, w)]]
           Body(W) ==
             W = [w \in Places |->
                    LET at   == w[1]
                        todo == w[2]
                        hops == w[3]
                        next == Append(at, Head(todo))
                        rest == Tail(todo)
                        Past(node) ==
                          IF IsSymlink(node) /\ (follow \/ rest # <<>>)
                          THEN IF node.target.abs \/ hops = 0 THEN Nowhere
                               ELSE W[<<at, node.target.to \o rest, hops - 1>>]
                          ELSE IF IsNone(node) \/ (IsFile(node) /\ rest # <<>>)
                          THEN Nowhere
                          ELSE W[<<next, rest, hops>>]
                    IN  IF todo = <<>> THEN at ELSE Past(At(d, next))]
           W == CHOOSE f : Body(f)
<1>1. \A w \in Places : ~stop(w) => Onward(d, follow, w) \in Places
  BY OnwardTyped
<1>2. nxt \in [Places -> Places] /\ val \in [Places -> V]
  <2>1. \A w \in Places : end(w) \in V
    BY PlaceIs
  <2> HIDE DEF end, stop, V
  <2>2. QED
    BY <1>1, <2>1
<1>3. PICK f : TailRecurs(f, Places, V, done, nxt, val)
  <2>1. done \in SUBSET Places
    OBVIOUS
  <2> HIDE DEF done, nxt, val, V
  <2>2. QED
    BY <1>2, <2>1, TailRecursionExists
<1>4. P(f)
  <2>1. \A w \in Places : f[w] = IF stop(w) THEN end(w) ELSE f[Onward(d, follow, w)]
    <3> HIDE DEF stop, end
    <3> QED BY <1>3 DEF TailRecurs
  <2>2. \A w \in Places : f[w] = IF w[2] = <<>> THEN w[1]
                                  ELSE IF Sinks(d, follow, w) THEN Nowhere
                                  ELSE f[Onward(d, follow, w)]
    BY <2>1
  <2>3. f = [w \in Places |-> f[w]]
    <3> HIDE DEF done, nxt, val, V
    <3> QED BY <1>3 DEF TailRecurs
  <2> HIDE DEF stop, end, done, nxt, val, V
  <2>4. QED
    BY <2>2, <2>3
<1>5a. \A g : P(g) <=> Body(g)
  <2>1. ASSUME NEW g PROVE P(g) <=> Body(g)
    BY DEF Sinks, Follows, Onward, Next1
  <2> QED
    BY <2>1
<1>5. P(W)
  <2> HIDE DEF P, Body
  <2> QED BY <1>4, <1>5a
<1>6. \A p : Walk(d, p, follow) = W[<<Root, p, MaxHops>>]
  <2>1. ASSUME NEW p PROVE Walk(d, p, follow) = W[<<Root, p, MaxHops>>]
    BY Zenon DEF Walk
  <2>2. QED
    BY <2>1
<1>7. Walks(d, follow, W)
  <2> HIDE DEF W
  <2> QED BY <1>5 DEF Walks
<1>8. QED
  BY <1>6, <1>7

(***************************************************************************)
(* Induction over a walk: the links it may still follow become fewer, or   *)
(* the path it has before it becomes shorter.                              *)
(***************************************************************************)
\* Among any places there is one none of them is closer to the end than.
LEMMA LeastPlace ==
  ASSUME NEW B, B \subseteq Places, B # {}
  PROVE  \E w \in B : \A x \in B : ~Closer(x, w)
<1>1. B \subseteq Spots(MaxHops)
  BY DEF Places, Spots
<1>2. QED
  BY <1>1, LeastSpot, HopAssumption

\* A walk that goes on comes closer to its end.
LEMMA OnwardCloser ==
  ASSUME NEW d \in Disk, NEW follow, NEW w \in Places, w[2] # <<>>,
         ~Sinks(d, follow, w)
  PROVE  Closer(Onward(d, follow, w), w)
<1>1. Len(Tail(w[2])) < Len(w[2]) /\ w[3] \in Nat
  BY PlaceIs, PathSteps
<1>2. CASE Follows(d, follow, w)
  <2> DEFINE u == At(d, Next1(w)).target.to \o Tail(w[2])
  <2>1. Onward(d, follow, w) = <<w[1], u, w[3] - 1>>
    BY <1>2 DEF Onward
  <2> HIDE DEF u
  <2>2. QED
    BY <1>1, <2>1 DEF Closer
<1>3. CASE ~Follows(d, follow, w)
  BY <1>1, <1>3 DEF Onward, Closer
<1>4. QED
  BY <1>2, <1>3

(***************************************************************************)
(* Paths taken apart.                                                      *)
(***************************************************************************)
\* The kinds a node of a disk can have.
LEMMA DiskKinds ==
  ASSUME NEW n \in DiskNode
  PROVE  IsNone(n) \/ IsDir(n) \/ IsFile(n) \/ IsSymlink(n)
BY DEF DiskNode, ContentNode, LeafNode, DirNode, IsNone, IsDir, IsFile, IsSymlink, None

(***************************************************************************)
(* What a walk of a longer path does.                                      *)
(***************************************************************************)
Split(T, W, w, v) ==
  \/ T[w] = Nowhere /\ W[<<w[1], w[2] \o v, w[3]>>] = Nowhere
  \/ /\ T[w] \in Seq(Name)
     /\ \E h \in 0..MaxHops : W[<<w[1], w[2] \o v, w[3]>>] = W[<<T[w], v, h>>]

\* The walk of a path in two parts: it is lost in the first, or goes on with the
\* second from where the first leads.
LEMMA WalkSplit ==
  ASSUME NEW d \in Disk, Rooted(d), NEW follow, NEW W, Walks(d, follow, W),
         NEW T, Walks(d, TRUE, T), NEW v \in Seq(Name), v # <<>>,
         NEW w \in Places
  PROVE  Split(T, W, w, v)
<1> DEFINE on(x) == <<x[1], x[2] \o v, x[3]>>
           Q(x) == \/ T[x] = Nowhere /\ W[on(x)] = Nowhere
                   \/ /\ T[x] \in Seq(Name)
                      /\ \E h \in 0..MaxHops : W[on(x)] = W[<<T[x], v, h>>]
           B == {x \in Places : ~Q(x)}
<1>1. SUFFICES B = {}
  BY DEF Split
<1>2. SUFFICES ASSUME NEW x \in B, \A y \in B : ~Closer(y, x) PROVE FALSE
  <2>1. B \subseteq Places
    OBVIOUS
  <2> HIDE DEF B
  <2>2. QED
    BY <1>2, <2>1, LeastPlace
<1>3. x \in Places /\ ~Q(x)
  OBVIOUS
<1>4. /\ x[1] \in Seq(Name) /\ x[2] \in Seq(Name) /\ x[3] \in 0..MaxHops
      /\ x = <<x[1], x[2], x[3]>>
  BY <1>3, PlaceIs
<1>5. \A y \in Places : Closer(y, x) => Q(y)
  BY <1>2
<1>6. on(x) \in Places /\ on(x)[2] # <<>> /\ on(x)[2] = x[2] \o v
      /\ on(x)[1] = x[1] /\ on(x)[3] = x[3]
  BY <1>4, Concat DEF Places
<1> HIDE DEF B
<1>7. CASE x[2] = <<>>
  <2>1. on(x) = <<x[1], v, x[3]>>
    BY <1>4, <1>7, Concat
  <2>2. T[x] = x[1]
    BY <1>3, <1>7 DEF Walks
  <2> HIDE DEF on
  <2>3. QED
    BY <1>3, <1>4, <2>1, <2>2
<1>8. CASE x[2] # <<>>
  <2> DEFINE node == At(d, Next1(x))
             y == Onward(d, TRUE, x)
  <2>1. /\ Head(on(x)[2]) = Head(x[2]) /\ Tail(on(x)[2]) = Tail(x[2]) \o v
        /\ Tail(x[2]) \in Seq(Name)
    <3> DEFINE b == x[2]
    <3>1. b \in Seq(Name) /\ b # <<>> /\ on(x)[2] = b \o v
      BY <1>4, <1>6, <1>8
    <3> HIDE DEF b, on
    <3>2. Head(b \o v) = Head(b) /\ Tail(b \o v) = Tail(b) \o v
      BY <3>1, Concat
    <3>3. Tail(b) \in Seq(Name)
      BY <3>1, PathSteps
    <3>4. QED
      BY <3>1, <3>2, <3>3, Zenon DEF b
  <2>0. Tail(on(x)[2]) # <<>>
    <3>1. Tail(x[2]) \o v # <<>>
      BY <2>1, Concat
    <3> HIDE DEF on
    <3>2. QED
      BY <2>1, <3>1
  <2>2. Tail(on(x)[2]) # <<>> /\ Next1(on(x)) = Next1(x)
    <3> HIDE DEF on
    <3> QED BY <1>6, <2>0, <2>1 DEF Next1
  <2> HIDE DEF on
  <2>3. Follows(d, follow, on(x)) <=> IsSymlink(node)
    BY <2>2 DEF Follows
  <2>4. Follows(d, TRUE, x) <=> IsSymlink(node)
    BY DEF Follows
  <2>5. CASE Sinks(d, TRUE, x)
    <3>1. Sinks(d, follow, on(x))
      BY <1>6, <2>2, <2>3, <2>4, <2>5 DEF Sinks
    <3>2. T[x] = Nowhere /\ W[on(x)] = Nowhere
      BY <1>3, <1>6, <1>8, <2>5, <3>1 DEF Walks
    <3>3. QED
      BY <1>3, <3>2
  <2>6. CASE ~Sinks(d, TRUE, x) /\ Sinks(d, follow, on(x))
    <3>1. ~IsSymlink(node) /\ IsFile(node) /\ Tail(x[2]) = <<>>
      BY <1>6, <2>2, <2>3, <2>4, <2>6 DEF Sinks
    <3>2. y = <<Next1(x), <<>>, x[3]>>
      BY <2>4, <3>1 DEF Onward
    <3>3. Next1(x) \in Seq(Name)
      BY <1>4, <1>8, PathSteps DEF Next1
    <3> HIDE DEF y
    <3>4. y \in Places /\ y[2] = <<>> /\ y[1] = Next1(x)
      BY <1>4, <3>2, <3>3, EmptyPath, PlaceIntro
    <3>5. T[x] = Next1(x)
      <4>1. T[x] = T[y]
        BY <1>3, <1>8, <2>6 DEF Walks, y
      <4>2. T[y] = y[1]
        BY <3>4 DEF Walks
      <4>3. QED
        BY <3>4, <4>1, <4>2
    <3> DEFINE z == <<Next1(x), v, x[3]>>
    <3>6. z \in Places /\ z[2] = v /\ z[1] = Next1(x)
      BY <1>4, <3>3 DEF Places
    <3>7. Head(v) \in Name
      BY PathSteps
    <3>8. IsNone(At(d, Append(Next1(x), Head(v))))
      BY <3>1, <3>3, <3>7, ParentIsDir, TypeNames
    <3>9. Sinks(d, follow, z)
      BY <3>6, <3>8, TypeNames DEF Sinks, Follows, Next1
    <3>10. W[z] = Nowhere
      BY <3>6, <3>9 DEF Walks
    <3>11. W[on(x)] = Nowhere
      BY <1>6, <2>6 DEF Walks
    <3>12. QED
      BY <1>3, <1>4, <3>3, <3>5, <3>10, <3>11
  <2>7. CASE ~Sinks(d, TRUE, x) /\ ~Sinks(d, follow, on(x))
    <3>1. y \in Places /\ Closer(y, x)
      BY <1>3, <1>8, <2>7, OnwardTyped, OnwardCloser
    <3>2. Q(y)
      BY <1>5, <3>1
    <3>3. T[x] = T[y] /\ W[on(x)] = W[Onward(d, follow, on(x))]
      BY <1>3, <1>6, <1>8, <2>7 DEF Walks
    <3>4. Onward(d, follow, on(x)) = on(y)
      <4>1. CASE IsSymlink(node)
        <5> DEFINE to == node.target.to
        <5>1. to \in Seq(Name)
          BY <4>1, SymlinkType
        <5>2. y = <<x[1], to \o Tail(x[2]), x[3] - 1>>
          BY <2>4, <4>1 DEF Onward
        <5>3. Onward(d, follow, on(x)) = <<x[1], to \o (Tail(x[2]) \o v), x[3] - 1>>
          BY <1>6, <2>1, <2>2, <2>3, <4>1 DEF Onward
        <5> HIDE DEF to
        <5>4. (to \o Tail(x[2])) \o v = to \o (Tail(x[2]) \o v)
          BY <2>1, <5>1, ConcatThree
        <5> HIDE DEF y
        <5>6. on(y) = <<x[1], (to \o Tail(x[2])) \o v, x[3] - 1>>
          BY <5>2 DEF on
        <5>5. QED
          BY <5>3, <5>4, <5>6
      <4>2. CASE ~IsSymlink(node)
        <5>1. y = <<Next1(x), Tail(x[2]), x[3]>>
          BY <2>4, <4>2 DEF Onward
        <5>2. Onward(d, follow, on(x)) = <<Next1(x), Tail(x[2]) \o v, x[3]>>
          BY <1>6, <2>1, <2>2, <2>3, <4>2 DEF Onward
        <5> HIDE DEF y
        <5>3. on(y) = <<Next1(x), Tail(x[2]) \o v, x[3]>>
          BY <5>1 DEF on
        <5>4. QED
          BY <5>2, <5>3
      <4>3. QED
        BY <4>1, <4>2
    <3> HIDE DEF y, node
    <3>5. QED
      BY <1>3, <3>2, <3>3, <3>4
  <2>8. QED
    BY <2>5, <2>6, <2>7
<1>9. QED
  BY <1>7, <1>8

\* A walk that does not follow a link at its end differs only if it ends there.
LEMMA WalkSame ==
  ASSUME NEW d \in Disk, NEW F, Walks(d, FALSE, F), NEW T, Walks(d, TRUE, T),
         NEW w \in Places
  PROVE  F[w] = T[w] \/ (F[w] \in Seq(Name) /\ IsSymlink(At(d, F[w])))
<1> DEFINE Q(x) == F[x] = T[x] \/ (F[x] \in Seq(Name) /\ IsSymlink(At(d, F[x])))
           B == {x \in Places : ~Q(x)}
<1>1. SUFFICES B = {}
  OBVIOUS
<1>2. SUFFICES ASSUME NEW x \in B, \A y \in B : ~Closer(y, x) PROVE FALSE
  <2>1. B \subseteq Places
    OBVIOUS
  <2> HIDE DEF B
  <2>2. QED
    BY <1>2, <2>1, LeastPlace
<1>3. x \in Places /\ ~Q(x)
  OBVIOUS
<1>4. /\ x[1] \in Seq(Name) /\ x[2] \in Seq(Name) /\ x[3] \in 0..MaxHops
  BY <1>3, PlaceIs
<1>5. \A y \in Places : Closer(y, x) => Q(y)
  BY <1>2
<1> HIDE DEF B
<1>6. x[2] # <<>>
  BY <1>3 DEF Walks
<1> DEFINE node == At(d, Next1(x))
           y == Onward(d, FALSE, x)
<1>7. CASE IsSymlink(node) /\ Tail(x[2]) = <<>>
  <2>1. ~Follows(d, FALSE, x)
    BY <1>7 DEF Follows
  <2>2. ~Sinks(d, FALSE, x)
    BY <1>7, <2>1, TypeNames DEF Sinks
  <2>3. y = <<Next1(x), <<>>, x[3]>> /\ Next1(x) \in Seq(Name)
    BY <1>4, <1>6, <1>7, <2>1, PathSteps DEF Onward, Next1
  <2> HIDE DEF y
  <2>4. y \in Places /\ y[2] = <<>> /\ y[1] = Next1(x)
    BY <1>4, <2>3, EmptyPath, PlaceIntro
  <2>5. F[x] = Next1(x)
    <3>1. F[x] = F[y]
      BY <1>3, <1>6, <2>2 DEF Walks, y
    <3>2. F[y] = y[1]
      BY <2>4 DEF Walks
    <3>3. QED
      BY <2>4, <3>1, <3>2
  <2>6. QED
    BY <1>3, <1>7, <2>3, <2>5
<1>8. CASE ~(IsSymlink(node) /\ Tail(x[2]) = <<>>)
  <2>1. Follows(d, FALSE, x) <=> Follows(d, TRUE, x)
    BY <1>8 DEF Follows
  <2>2. /\ Sinks(d, FALSE, x) <=> Sinks(d, TRUE, x)
        /\ Onward(d, FALSE, x) = Onward(d, TRUE, x)
    BY <2>1 DEF Sinks, Onward
  <2>3. CASE Sinks(d, FALSE, x)
    BY <1>3, <1>6, <2>2, <2>3 DEF Walks
  <2>4. CASE ~Sinks(d, FALSE, x)
    <3>1. y \in Places /\ Closer(y, x)
      BY <1>3, <1>6, <2>4, OnwardTyped, OnwardCloser
    <3>2. F[x] = F[y] /\ T[x] = T[y]
      BY <1>3, <1>6, <2>2, <2>4 DEF Walks
    <3>3. QED
      BY <1>3, <1>5, <3>1, <3>2
  <2>5. QED
    BY <2>3, <2>4
<1>9. QED
  BY <1>7, <1>8

(***************************************************************************)
(* What is above a path, from the top down.                                *)
(***************************************************************************)
LEMMA HighestAbove ==
  ASSUME NEW p \in NodePath, NEW B, NEW x \in Above(p), x \in B
  PROVE  \E r \in Above(p) : r \in B /\ \A y \in Above(r) : y \notin B
<1> DEFINE S == {Len(r) : r \in Above(p) \cap B}
<1>1. S # {}
  OBVIOUS
<1>2. S \subseteq Nat
  BY AboveType, NodePathType
<1>3. PICK m \in S : \A k \in S : m <= k
  <2> HIDE DEF S
  <2> QED BY <1>1, <1>2, LeastNatural
<1>4. PICK r \in Above(p) : r \in B /\ m = Len(r)
  OBVIOUS
<1>5. ASSUME NEW y \in Above(r) PROVE y \notin B
  <2>1. r \in NodePath
    BY AboveType
  <2>2. y \in Above(p) /\ Len(y) < Len(r) /\ y \in NodePath
    BY <2>1, AboveTransitive, AboveType
  <2>3. y \in B => m <= Len(y)
    BY <1>3, <2>2
  <2>4. Len(y) \in Nat /\ Len(r) \in Nat
    BY <2>1, <2>2, NodePathType
  <2>5. QED
    BY <1>4, <2>2, <2>3, <2>4
<1>6. QED
  BY <1>4, <1>5

\* Two layers that agree on which nodes in reach are directories reach the same.
LEMMA SameReach ==
  ASSUME NEW D, NEW E,
         \A p \in NodePath : Above(p) \subseteq D => (p \in D <=> p \in E),
         NEW p \in NodePath
  PROVE  Above(p) \subseteq D <=> Above(p) \subseteq E
<1>1. ASSUME Above(p) \subseteq D PROVE Above(p) \subseteq E
  <2>1. ASSUME NEW r \in Above(p) PROVE r \in E
    <3>1. r \in NodePath /\ Above(r) \subseteq D
      BY <1>1, AboveType, AboveTransitive
    <3>2. QED
      BY <1>1, <3>1
  <2>2. QED
    BY <2>1
<1>2. ASSUME Above(p) \subseteq E, ~(Above(p) \subseteq D) PROVE FALSE
  <2> DEFINE B == NodePath \ D
  <2>1. PICK x \in Above(p) : x \in B
    BY <1>2, AboveType
  <2>2. PICK r \in Above(p) : r \in B /\ \A y \in Above(r) : y \notin B
    <3> HIDE DEF B
    <3> QED BY <2>1, HighestAbove
  <2>3. r \in NodePath /\ Above(r) \subseteq D
    BY <2>2, AboveType
  <2>4. QED
    BY <1>2, <2>2, <2>3
<1>3. QED
  BY <1>1, <1>2

(***************************************************************************)
(* The node the overlay shows at a path.                                   *)
(***************************************************************************)
Covered(t, p) == \E r \in Above(p) : IsLeaf(t[r]) \/ IsWhiteout(t[r])

\* What a tree holds at a path.
LEMMA NodeOfTree ==
  ASSUME NEW t, Good(t), NEW p \in NodePath
  PROVE  /\ At(t, p) = t[p] /\ t[p] \in UpperNode \cup {None}
         /\ IsNone(t[p]) \/ IsWhiteout(t[p]) \/ IsContent(t[p])
         /\ IsNone(t[p]) => t[p] = None
         /\ IsWhiteout(t[p]) => t[p] = Whiteout
         /\ IsContent(t[p]) => t[p] \in DiskNode
<1>1. p # Root
  BY NodePathType, EmptyPath
<1>2. At(t, p) = t[p]
  BY <1>1 DEF At
<1>3. t[p] \in UpperNode \cup {None}
  BY DEF Good, Tree
<1>4. QED
  BY <1>2, <1>3 DEF UpperNode, ContentNode, LeafNode, DirNode, DiskNode, IsNone,
     IsWhiteout, IsContent, None, Whiteout

\* The node the overlay shows, by what covers the path and what the tree holds at it.
LEMMA OverlayIs ==
  ASSUME NEW d, NEW t, Good(t), NEW p \in NodePath
  PROVE  lstat_overlay(d, t, p) =
           IF Covered(t, p) \/ IsWhiteout(t[p]) THEN None
           ELSE IF IsNone(t[p]) THEN lstat_lower(d, p) ELSE t[p]
<1>1. At(t, p) = t[p] /\ p # Root
  BY NodeOfTree, NodePathType, EmptyPath
<1>2. \A r \in Above(p) : At(t, r) = t[r]
  BY AboveType, NodeOfTree
<1>3. IsNone(t[p]) \/ IsWhiteout(t[p]) \/ IsContent(t[p])
  BY NodeOfTree
<1>4. CASE Covered(t, p)
  <2>1. descend(t, p) \in {"Blocked", "NotDir"}
    BY <1>2, <1>4 DEF descend, Hidden, Covered
  <2>2. QED
    BY <1>4, <2>1 DEF lstat_overlay, has_content
<1>5. CASE ~Covered(t, p)
  <2>1. descend(t, p) = IF IsNone(t[p]) THEN "Missing" ELSE "Found"
    BY <1>1, <1>2, <1>5 DEF descend, Hidden, Covered
  <2>2. QED
    BY <1>1, <1>3, <1>5, <2>1, TypeNames DEF lstat_overlay, has_content
<1>6. QED
  BY <1>4, <1>5

\* What shows a directory holds one, or leaves the place to the lower layer.
LEMMA DirCovers ==
  ASSUME NEW d \in Disk, NEW t, Good(t), NEW p \in NodePath,
         IsDir(lstat_overlay(d, t, p))
  PROVE  IsDir(t[p]) \/ IsNone(t[p])
BY OverlayIs, NodeOfTree, TypeNames

Reaches(d, t) == {p \in NodePath : IsDir(lstat_overlay(d, t, p))}

\* Nothing in the tree covers a path reached through directories.
LEMMA ReachUncovered ==
  ASSUME NEW d \in Disk, NEW t, Good(t), NEW p \in NodePath,
         Above(p) \subseteq Reaches(d, t)
  PROVE  ~Covered(t, p)
BY DirCovers, AboveType, TypeNames DEF Covered, Reaches

\* The view shows what the overlay does, where directories lead to it.
LEMMA MergedIs ==
  ASSUME NEW d, NEW t, NEW p \in NodePath
  PROVE  Merged(d, t)[p] = IF Above(p) \subseteq Reaches(d, t)
                           THEN lstat_overlay(d, t, p) ELSE None
<1>1. (\A r \in Above(p) : IsDir(lstat_overlay(d, t, r)))
        <=> Above(p) \subseteq Reaches(d, t)
  BY AboveType DEF Reaches
<1>2. QED
  BY <1>1 DEF Merged

\* The view has the type of a disk.
LEMMA MergedType ==
  ASSUME NEW d \in Disk, NEW t, Good(t)
  PROVE  /\ Merged(d, t) \in Disk
         /\ \A p \in NodePath : Merged(d, t)[p] \in DiskNode
<1>1. \A p \in NodePath : lstat_overlay(d, t, p) \in DiskNode
  BY OverlayAnswers
<1>2. None \in DiskNode
  BY DEF DiskNode
<1>3. QED
  BY <1>1, <1>2 DEF Merged, Disk

(***************************************************************************)
(* sync.                                                                   *)
(***************************************************************************)
LEMMA EqualIs ==
  ASSUME NEW m, NEW n
  PROVE  Merge!EqualButMode(m, n) <=> /\ m.type = n.type
                                      /\ IsFile(m) => m.content = n.content
                                      /\ IsSymlink(m) => m.target = n.target
BY DEF Merge!EqualButMode, Merge!IsFile, Merge!IsSymlink, IsFile, IsSymlink

\* Nodes equal but for the mode are of the same kind.
LEMMA EqualKinds ==
  ASSUME NEW m, NEW n
  PROVE  /\ Merge!EqualButMode(m, n) =>
              (IsDir(m) <=> IsDir(n)) /\ (IsNone(m) <=> IsNone(n))
         /\ Merge!EqualButMode(m, m)
BY DEF Merge!EqualButMode, IsDir, IsNone

\* What sync drops as matching the disk looks like the disk.
LEMMA MatchIs ==
  ASSUME NEW d, NEW p, NEW node, matches_disk(d, p, node)
  PROVE  /\ IsContent(node) => Merge!EqualButMode(lstat_lower(d, p), node)
         /\ IsWhiteout(node) => IsNone(lstat_lower(d, p))
<1> DEFINE n == lstat_lower(d, p)
<1> HIDE DEF n
<1>1. /\ IsFile(node) => IsFile(n) /\ n.content = node.content
      /\ IsDir(node) => IsDir(n)
      /\ IsSymlink(node) => IsSymlink(n) /\ n.target = node.target
      /\ IsWhiteout(node) => IsNone(n)
  BY DEF matches_disk, IsFile, IsDir, IsSymlink, IsWhiteout, n
<1>2. IsContent(node) => Merge!EqualButMode(n, node)
  BY <1>1, EqualIs DEF IsFile, IsDir, IsSymlink, IsContent
<1>3. QED
  BY <1>1, <1>2 DEF n

\* Where directories lead, a synced tree shows what the tree did, but for a mode.
LEMMA SyncShows ==
  ASSUME NEW d \in Disk, NEW t, Good(t), NEW p \in NodePath,
         Above(p) \subseteq Reaches(d, t)
  PROVE  Merge!EqualButMode(lstat_overlay(d, sync(d, t), p),
                            lstat_overlay(d, t, p))
<1> DEFINE u == sync(d, t)
           o == lstat_overlay(d, t, p)
           n == lstat_lower(d, p)
<1>1. Good(u)
  BY syncGood
<1>2. \A q \in NodePath : u[q] = t[q] \/ u[q] = None
  BY DEF sync
<1>3. u[p] = t[p] \/ (u[p] = None /\ (IsNone(t[p]) \/ matches_disk(d, p, t[p])))
  <2>1. p \in Subtree(p)
    BY SubtreeIsSelfAndBelow
  <2>2. QED
    BY <2>1 DEF sync
<1>4. ~Covered(t, p)
  BY ReachUncovered
<1>5. ~Covered(u, p)
  BY <1>2, <1>4, AboveType, TypeNames DEF Covered
<1>6. o = IF IsWhiteout(t[p]) THEN None ELSE IF IsNone(t[p]) THEN n ELSE t[p]
  BY <1>4, OverlayIs
<1>7. lstat_overlay(d, u, p) =
        IF IsWhiteout(u[p]) THEN None ELSE IF IsNone(u[p]) THEN n ELSE u[p]
  BY <1>1, <1>5, OverlayIs
<1> SUFFICES Merge!EqualButMode(lstat_overlay(d, u, p), o)
  OBVIOUS
<1> HIDE DEF u, o
<1>8. CASE u[p] = t[p]
  BY <1>6, <1>7, <1>8, EqualKinds
<1>9. CASE u[p] = None /\ IsNone(t[p])
  BY <1>6, <1>7, <1>9, EqualKinds, TypeNames
<1>10. CASE u[p] = None /\ matches_disk(d, p, t[p])
  <2>1. lstat_overlay(d, u, p) = n
    BY <1>7, <1>10, TypeNames
  <2>2. IsNone(t[p]) \/ IsWhiteout(t[p]) \/ IsContent(t[p])
    BY NodeOfTree
  <2>3. CASE IsContent(t[p])
    <3>1. o = t[p]
      BY <1>6, <2>3, TypeNames
    <3>2. Merge!EqualButMode(n, t[p])
      BY <1>10, <2>3, MatchIs
    <3>3. QED
      BY <2>1, <3>1, <3>2
  <2>6. CASE IsNone(t[p])
    BY <1>6, <2>1, <2>6, EqualKinds, TypeNames
  <2>7. CASE IsWhiteout(t[p])
    <3>1. o = None
      BY <1>6, <2>7
    <3>2. IsNone(n)
      BY <1>10, <2>7, MatchIs
    <3>3. QED
      BY <2>1, <3>1, <3>2, EqualIs DEF IsFile, IsSymlink, IsNone, None
  <2>8. QED
    BY <2>2, <2>3, <2>6, <2>7
<1>11. QED
  BY <1>3, <1>8, <1>9, <1>10

\* At every path a synced tree shows what the tree did, but for a mode.
LEMMA SyncKeeps ==
  ASSUME NEW d \in Disk, NEW t, Good(t), NEW p \in NodePath
  PROVE  Merge!EqualButMode(Merged(d, sync(d, t))[p], Merged(d, t)[p])
<1> DEFINE u == sync(d, t)
           D == Reaches(d, t)
           E == Reaches(d, u)
<1>1. ASSUME NEW q \in NodePath, Above(q) \subseteq D
      PROVE  q \in D <=> q \in E
  BY <1>1, SyncShows, EqualKinds DEF Reaches
<1>2. Above(p) \subseteq D <=> Above(p) \subseteq E
  <2> HIDE DEF D, E
  <2> QED BY ONLY <1>1, p \in NodePath, SameReach
<1>3. QED
  BY <1>2, MergedIs, SyncShows, EqualKinds

\* So it does for every disk the real directory can be.
LEMMA SyncKept ==
  ASSUME IInv
  PROVE  SyncKeepsView
BY SyncKeeps, DisksAreDisks DEF IInv, SyncKeepsView

\* sync() may forget a mode, never an entry, its content or a deletion: in every
\* state a sequence of calls reaches it leaves what a script sees as it was.
THEOREM SyncAlwaysKeepsTheView == Spec => []SyncKeepsView
<1>1. IInv /\ [Next]_vars => IInv'
  BY StepGood
<1> QED
  BY <1>1, InitGood, SyncKept, PTL DEF Spec

\* The same however the real directory has changed under the overlay since.
THEOREM SyncKeepsTheViewOfAnyDisk == HostSpec => []SyncKeepsView
<1>1. IInv /\ [Next \/ HostChange]_vars => IInv'
  BY StepGood
<1> QED
  BY <1>1, InitGood, SyncKept, PTL DEF HostSpec

(***************************************************************************)
(* The answers of the disk, taken together.                                *)
(***************************************************************************)
LEMMA StartPlace ==
  ASSUME NEW p \in Seq(Name)
  PROVE  /\ <<Root, p, MaxHops>> \in Places /\ <<Root, p, MaxHops>>[1] = Root
         /\ <<Root, p, MaxHops>>[2] = p /\ <<Root, p, MaxHops>>[3] = MaxHops
<1>1. MaxHops \in 0..MaxHops
  BY HopAssumption
<1>2. QED
  BY <1>1, EmptyPath, PlaceIntro

\* The two ways to end a walk agree, or the one that does not follow ends at a link.
LEMMA WalkEnds ==
  ASSUME NEW d \in Disk, NEW p \in Seq(Name)
  PROVE  \/ Walk(d, p, FALSE) = Walk(d, p, TRUE)
         \/ Walk(d, p, FALSE) \in Seq(Name) /\ IsSymlink(At(d, Walk(d, p, FALSE)))
<1>1. PICK F : Walks(d, FALSE, F) /\ \A q : Walk(d, q, FALSE) = F[<<Root, q, MaxHops>>]
  BY WalkIs
<1>2. PICK T : Walks(d, TRUE, T) /\ \A q : Walk(d, q, TRUE) = T[<<Root, q, MaxHops>>]
  BY WalkIs
<1> DEFINE w == <<Root, p, MaxHops>>
<1>3. F[w] = T[w] \/ (F[w] \in Seq(Name) /\ IsSymlink(At(d, F[w])))
  <2>1. w \in Places
    BY StartPlace
  <2> HIDE DEF w
  <2> QED BY <1>1, <1>2, <2>1, WalkSame
<1>4. QED
  BY <1>1, <1>2, <1>3

\* stat and lstat differ only at a link.
LEMMA StatSame ==
  ASSUME NEW d \in Disk, NEW p \in Seq(Name)
  PROVE  stat_lower(d, p) = lstat_lower(d, p) \/ IsSymlink(lstat_lower(d, p))
BY WalkEnds, HopAssumption DEF stat_lower, lstat_lower, Entry

\* What the walk of u finds when it follows every link, and what that says of
\* the walk of a longer path.
LEMMA LongerWalk ==
  ASSUME NEW d \in Disk, Rooted(d), NEW u \in Seq(Name), NEW v \in Seq(Name),
         v # <<>>
  PROVE  \E F :
           /\ Walks(d, FALSE, F)
           /\ \/ Walk(d, u, TRUE) = Nowhere /\ Walk(d, u \o v, FALSE) = Nowhere
              \/ /\ Walk(d, u, TRUE) \in Seq(Name)
                 /\ \E h \in 0..MaxHops :
                      Walk(d, u \o v, FALSE) = F[<<Walk(d, u, TRUE), v, h>>]
<1>1. PICK F : Walks(d, FALSE, F) /\ \A q : Walk(d, q, FALSE) = F[<<Root, q, MaxHops>>]
  BY WalkIs
<1>2. PICK T : Walks(d, TRUE, T) /\ \A q : Walk(d, q, TRUE) = T[<<Root, q, MaxHops>>]
  BY WalkIs
<1> DEFINE w == <<Root, u, MaxHops>>
<1>3. w \in Places /\ w[1] = Root /\ w[2] = u /\ w[3] = MaxHops
  BY StartPlace
<1>4. Split(T, F, w, v)
  <2> HIDE DEF w
  <2> QED BY <1>1, <1>2, <1>3, WalkSplit
<1>5. Walk(d, u, TRUE) = T[w] /\ Walk(d, u \o v, FALSE) = F[<<w[1], w[2] \o v, w[3]>>]
  BY <1>1, <1>2, <1>3
<1> HIDE DEF w
<1>6. QED
  BY <1>1, <1>4, <1>5 DEF Split

\* An entry is below a directory, if need be through a link.
LEMMA LowerParent ==
  ASSUME NEW d \in Disk, Rooted(d), NEW u \in Seq(Name), NEW v \in Seq(Name),
         v # <<>>, ~IsNone(lstat_lower(d, u \o v))
  PROVE  IsDir(stat_lower(d, u))
<1> DEFINE a == Walk(d, u, TRUE)
<1>1. PICK F : /\ Walks(d, FALSE, F)
               /\ \/ a = Nowhere /\ Walk(d, u \o v, FALSE) = Nowhere
                  \/ /\ a \in Seq(Name)
                     /\ \E h \in 0..MaxHops :
                          Walk(d, u \o v, FALSE) = F[<<a, v, h>>]
  BY LongerWalk
<1>2. Walk(d, u \o v, FALSE) # Nowhere
  BY TypeNames DEF lstat_lower, Entry
<1>3. PICK h \in 0..MaxHops : a \in Seq(Name) /\ F[<<a, v, h>>] # Nowhere
  BY <1>1, <1>2
<1> DEFINE z == <<a, v, h>>
<1>4. z \in Places /\ z[1] = a /\ z[2] = v /\ z[3] = h
  BY <1>3, PlaceIntro
<1> HIDE DEF z
<1>5. ~Sinks(d, FALSE, z)
  BY <1>1, <1>3, <1>4 DEF Walks, z
<1>6. ~IsNone(At(d, Next1(z)))
  BY <1>5, TypeNames DEF Sinks, Follows
<1>7. Next1(z) = Append(a, Head(v)) /\ Head(v) \in Name
  BY <1>4, PathSteps DEF Next1
<1>8. IsDir(At(d, a))
  BY <1>3, <1>6, <1>7, ParentIsDir
<1>9. a # Nowhere
  BY <1>3, HopAssumption
<1>10. QED
  BY <1>8, <1>9 DEF stat_lower, Entry

\* One component more: the walk that does not follow its last link stands
\* below where the walk before it ended.
LEMMA OneMore ==
  ASSUME NEW d \in Disk, Rooted(d), NEW u \in Seq(Name), NEW n \in Name
  PROVE  \/ Walk(d, u, TRUE) = Nowhere /\ Walk(d, Append(u, n), FALSE) = Nowhere
         \/ /\ Walk(d, u, TRUE) \in Seq(Name)
            /\ Walk(d, Append(u, n), FALSE) =
                 IF IsNone(At(d, Append(Walk(d, u, TRUE), n))) THEN Nowhere
                 ELSE Append(Walk(d, u, TRUE), n)
<1> DEFINE a == Walk(d, u, TRUE)
           v == <<n>>
<1>1. /\ v \in Seq(Name) /\ v # <<>> /\ Head(v) = n /\ Tail(v) = <<>>
      /\ Append(u, n) = u \o v
  BY AppendOne
<1>2. PICK F : /\ Walks(d, FALSE, F)
               /\ \/ a = Nowhere /\ Walk(d, u \o v, FALSE) = Nowhere
                  \/ /\ a \in Seq(Name)
                     /\ \E h \in 0..MaxHops :
                          Walk(d, u \o v, FALSE) = F[<<a, v, h>>]
  <2> HIDE DEF v
  <2> QED BY <1>1, LongerWalk
<1>3. CASE a = Nowhere /\ Walk(d, u \o v, FALSE) = Nowhere
  BY <1>1, <1>3
<1>4. ASSUME a \in Seq(Name), NEW h \in 0..MaxHops,
             Walk(d, u \o v, FALSE) = F[<<a, v, h>>]
      PROVE  Walk(d, Append(u, n), FALSE) =
               IF IsNone(At(d, Append(a, n))) THEN Nowhere ELSE Append(a, n)
  <2> DEFINE x == Append(a, n)
             node == At(d, x)
             z == <<a, v, h>>
  <2>1. x \in Seq(Name)
    BY <1>4, AppendOne
  <2>2. z \in Places /\ z[1] = a /\ z[2] = v /\ z[3] = h
    BY <1>1, <1>4, PlaceIntro
  <2>3. Walk(d, Append(u, n), FALSE) = F[z]
    BY <1>1, <1>4
  <2> HIDE DEF z
  <2>5. Next1(z) = x /\ Tail(z[2]) = <<>> /\ z[2] # <<>>
    BY <1>1, <2>2 DEF Next1
  <2>6. ~Follows(d, FALSE, z)
    BY <2>5 DEF Follows
  <2>7. CASE IsNone(node)
    <3>1. Sinks(d, FALSE, z)
      BY <2>5, <2>6, <2>7 DEF Sinks
    <3>2. F[z] = Nowhere
      BY <1>2, <2>2, <2>5, <3>1 DEF Walks
    <3>4. QED
      BY <2>3, <2>7, <3>2
  <2>8. CASE ~IsNone(node)
    <3>1. ~Sinks(d, FALSE, z)
      BY <2>5, <2>6, <2>8 DEF Sinks
    <3> DEFINE y == Onward(d, FALSE, z)
    <3>2. y = <<x, <<>>, h>>
      BY <2>2, <2>5, <2>6 DEF Onward
    <3> SUFFICES F[z] = x
      BY <2>3, <2>8
    <3> HIDE DEF y, x
    <3>3. y \in Places /\ y[1] = x /\ y[2] = <<>>
      BY <2>1, <3>2, EmptyPath, PlaceIntro
    <3>4. F[z] = F[y]
      BY <1>2, <2>2, <2>5, <3>1 DEF Walks, y
    <3>5. F[y] = x
      BY <1>2, <3>3 DEF Walks
    <3>6. QED
      BY <3>4, <3>5
  <2>9. QED
    BY <2>7, <2>8
<1>5. QED
  BY <1>2, <1>3, <1>4

\* What the kernel finds one name further.
LEMMA OneMoreEntry ==
  ASSUME NEW d \in Disk, Rooted(d), NEW u \in Seq(Name), NEW n \in Name
  PROVE  lstat_lower(d, Append(u, n)) =
           IF Walk(d, u, TRUE) = Nowhere THEN None
           ELSE IF IsNone(At(d, Append(Walk(d, u, TRUE), n))) THEN None
           ELSE At(d, Append(Walk(d, u, TRUE), n))
<1> DEFINE a == Walk(d, u, TRUE)
           z == Append(a, n)
           f == Walk(d, Append(u, n), FALSE)
<1>1. ASSUME a \in Seq(Name) PROVE a # Nowhere /\ z # Nowhere
  <2> HIDE DEF a
  <2>1. z \in Seq(Name)
    BY <1>1
  <2>2. QED
    BY <1>1, <2>1, HopAssumption
<1>2. \/ a = Nowhere /\ f = Nowhere
      \/ a \in Seq(Name) /\ f = IF IsNone(At(d, z)) THEN Nowhere ELSE z
  BY OneMore
<1>3. lstat_lower(d, Append(u, n)) = IF f = Nowhere THEN None ELSE At(d, f)
  BY DEF lstat_lower, Entry
<1> HIDE DEF a, z, f
<1>4. CASE a = Nowhere
  BY <1>1, <1>2, <1>3, <1>4 DEF a, z
<1>5. CASE a # Nowhere
  <2>1. f = IF IsNone(At(d, z)) THEN Nowhere ELSE z
    BY <1>2, <1>5
  <2>2. z # Nowhere
    BY <1>1, <1>2, <1>5
  <2>3. lstat_lower(d, Append(u, n)) = IF IsNone(At(d, z)) THEN None ELSE At(d, z)
    BY <1>3, <2>1, <2>2
  <2>4. QED
    BY <1>5, <2>3 DEF a, z
<1>6. QED
  BY <1>4, <1>5

\* read_dir lists the names symlink_metadata finds.
LEMMA ReaddirIs ==
  ASSUME NEW d \in Disk, Rooted(d), NEW u \in Seq(Name), NEW n \in Name
  PROVE  n \in readdir_lower(d, u) <=> ~IsNone(lstat_lower(d, Append(u, n)))
<1> DEFINE a == Walk(d, u, TRUE)
           x == Append(a, n)
<1>1. CASE a = Nowhere
  BY <1>1, OneMoreEntry, TypeNames DEF readdir_lower, Entries
<1>2. CASE a # Nowhere
  <2>1. a \in Seq(Name)
    BY <1>2, OneMore
  <2>2. Len(a) \in Nat
    <3> HIDE DEF a
    <3> QED BY <2>1, LenProperties
  <2>3. /\ x \in Seq(Name) /\ Len(x) = Len(a) + 1 /\ x[Len(a) + 1] = n
        /\ SubSeq(x, 1, Len(a)) = a /\ x # Root
    BY <2>1, AppendOne
  <2>4. readdir_lower(d, u) = {q[Len(q)] : q \in {c \in Children(a) : ~IsNone(d[c])}}
    BY <1>2 DEF readdir_lower, Entries
  <2>5. ~IsNone(lstat_lower(d, Append(u, n))) <=> ~IsNone(At(d, x))
    BY <1>2, OneMoreEntry, TypeNames
  <2> HIDE DEF a
  <2>6. ASSUME ~IsNone(At(d, x)) PROVE n \in readdir_lower(d, u)
    <3>1. x \in NodePath /\ ~IsNone(d[x])
      BY <2>3, <2>6, TypeNames DEF At
    <3>2. x \in Children(a) /\ x[Len(x)] = n
      <4> HIDE DEF x
      <4> QED BY <2>2, <2>3, <3>1 DEF Children, StartsWith
    <3> HIDE DEF x
    <3>3. QED
      BY <2>4, <3>1, <3>2
  <2>7. ASSUME n \in readdir_lower(d, u) PROVE ~IsNone(At(d, x))
    <3>1. PICK q \in Children(a) : ~IsNone(d[q]) /\ q[Len(q)] = n
      BY <2>4, <2>7
    <3>2. /\ q \in NodePath /\ q \in Seq(Name) /\ Len(q) = Len(a) + 1
          /\ SubSeq(q, 1, Len(a)) = a
      BY <3>1, NodePathType DEF Children, StartsWith
    <3>3. q = x
      BY <2>1, <2>3, <3>1, <3>2, SameLast
    <3>4. QED
      BY <2>3, <3>1, <3>2, <3>3 DEF At
  <2>8. QED
    BY <2>5, <2>6, <2>7
<1>3. QED
  BY <1>1, <1>2

\* A walk without links ends where its path says.
LEMMA PlainWalk ==
  ASSUME NEW d \in Disk, Rooted(d), NEW p \in NodePath,
         \A r \in Above(p) : IsDir(d[r]), NEW m \in 0..(Len(p) - 1)
  PROVE  Walk(d, SubSeq(p, 1, m), TRUE) = SubSeq(p, 1, m)
<1> DEFINE pre(i) == SubSeq(p, 1, i)
           S == {i \in Nat : Walk(d, pre(i), TRUE) = pre(i)}
<1>1. p \in Seq(Name) /\ Len(p) \in Nat /\ Len(p) >= 1
  BY NodePathType
<1>2. 0 \in S
  <2>1. pre(0) = <<>>
    BY <1>1
  <2>2. PICK T : Walks(d, TRUE, T) /\ \A q : Walk(d, q, TRUE) = T[<<Root, q, MaxHops>>]
    BY WalkIs
  <2>3. T[<<Root, <<>>, MaxHops>>] = Root
    <3> DEFINE w == <<Root, <<>>, MaxHops>>
    <3>1. w \in Places /\ w[1] = Root /\ w[2] = <<>>
      BY StartPlace, EmptyPath
    <3> HIDE DEF w
    <3>2. T[w] = Root
      BY <2>2, <3>1 DEF Walks
    <3>3. QED
      BY <3>2 DEF w
  <2>4. QED
    BY <2>1, <2>2, <2>3 DEF Root
<1>3. SUFFICES ASSUME ~(0..(Len(p) - 1) \subseteq S) PROVE FALSE
  OBVIOUS
<1>4. PICK k \in 1..(Len(p) - 1) : k \notin S /\ k - 1 \in S
  <2>1. Len(p) - 1 \in Nat
    BY <1>1
  <2> HIDE DEF S
  <2> QED BY <1>2, <1>3, <2>1, LeastFailure
<1>5. /\ pre(k - 1) \in Seq(Name) /\ p[k] \in Name
      /\ pre(k) = Append(pre(k - 1), p[k]) /\ pre(k) \in Seq(Name)
  <2>1. k \in Nat /\ k >= 1 /\ k <= Len(p)
    BY <1>1
  <2>2. QED
    BY <1>1, <2>1, PrefixStep
<1>6. pre(k) \in Above(p) /\ pre(k) \in NodePath /\ pre(k) # Root
  <2>1. pre(k) \in Above(p)
    BY <1>1, AboveIntro
  <2>2. QED
    BY <2>1, AboveType, NodePathType, EmptyPath
<1>7. IsDir(At(d, pre(k)))
  BY <1>6 DEF At
<1>8. Walk(d, pre(k - 1), TRUE) = pre(k - 1)
  BY <1>4
<1>12. Walk(d, pre(k), TRUE) # pre(k)
  <2>1. k \in Nat
    BY <1>1
  <2> HIDE DEF pre
  <2>2. QED
    BY <1>4, <2>1
<1> HIDE DEF pre, S
<1>9. Walk(d, pre(k), FALSE) = pre(k)
  <2> DEFINE u == pre(k - 1)
             n == p[k]
             z == pre(k)
             a == Walk(d, u, TRUE)
             f == Walk(d, z, FALSE)
  <2>1. /\ u \in Seq(Name) /\ n \in Name /\ z = Append(u, n) /\ a = u
        /\ u # Nowhere
    BY <1>5, <1>8, HopAssumption
  <2>2. ~IsNone(At(d, z))
    BY <1>7, TypeNames
  <2>3. \/ a = Nowhere /\ Walk(d, Append(u, n), FALSE) = Nowhere
        \/ Walk(d, Append(u, n), FALSE) =
             IF IsNone(At(d, Append(a, n))) THEN Nowhere ELSE Append(a, n)
    BY <1>5, OneMore
  <2> HIDE DEF u, n, z, a
  <2>4. QED
    BY <2>1, <2>2, <2>3 DEF z
<1>10. Walk(d, pre(k), TRUE) = pre(k)
  BY <1>5, <1>7, <1>9, WalkEnds, TypeNames
<1>11. QED
  BY <1>10, <1>12

\* Below plain directories the kernel finds what the disk holds.
LEMMA PlainEntry ==
  ASSUME NEW d \in Disk, Rooted(d), NEW p \in NodePath,
         \A r \in Above(p) : IsDir(d[r])
  PROVE  lstat_lower(d, p) = d[p]
<1> DEFINE u == Parent(p)
           n == p[Len(p)]
<1>1. p \in Seq(Name) /\ Len(p) \in Nat /\ Len(p) >= 1 /\ p # Root
  BY NodePathType, EmptyPath
<1>2. u \in Seq(Name) /\ n \in Name /\ Append(u, n) = p
  BY <1>1, PrefixStep, PrefixWhole DEF Parent
<1>3. Walk(d, u, TRUE) = u
  <2>1. Len(p) - 1 \in 0..(Len(p) - 1)
    BY <1>1
  <2>2. QED
    BY <2>1, PlainWalk DEF Parent
<1> HIDE DEF u, n
<1>4. At(d, p) = d[p] /\ d[p] \in DiskNode
  BY <1>1 DEF At, Disk
<1>5. IsNone(d[p]) => d[p] = None
  BY <1>4 DEF DiskNode, ContentNode, LeafNode, DirNode, IsNone, None
<1>6. u # Nowhere
  BY <1>2, HopAssumption
<1>7. lstat_lower(d, Append(u, n)) =
        IF Walk(d, u, TRUE) = Nowhere THEN None
        ELSE IF IsNone(At(d, Append(Walk(d, u, TRUE), n))) THEN None
        ELSE At(d, Append(Walk(d, u, TRUE), n))
  BY <1>2, OneMoreEntry
<1>8. QED
  BY <1>2, <1>3, <1>4, <1>5, <1>6, <1>7

\* Before anything is called, a script sees the real directory.
LEMMA EmptyShowsLower ==
  ASSUME NEW d \in Disk, Rooted(d)
  PROVE  Merged(d, EmptyTree) = d
<1> DEFINE D == {p \in NodePath : IsDir(d[p])}
           E == Reaches(d, EmptyTree)
<1>1. ASSUME NEW p \in NodePath PROVE lstat_overlay(d, EmptyTree, p) = lstat_lower(d, p)
  <2>1. ~Covered(EmptyTree, p)
    BY AboveType, TypeNames DEF Covered, EmptyTree
  <2>2. IsNone(EmptyTree[p])
    BY TypeNames DEF EmptyTree
  <2>3. QED
    BY <2>1, <2>2, EmptyTreeGood, OverlayIs, TypeNames
<1>2. ASSUME NEW p \in NodePath, Above(p) \subseteq D
      PROVE  lstat_overlay(d, EmptyTree, p) = d[p]
  BY <1>1, <1>2, PlainEntry
<1>3. ASSUME NEW p \in NodePath PROVE Above(p) \subseteq D <=> Above(p) \subseteq E
  <2>1. ASSUME NEW q \in NodePath, Above(q) \subseteq D PROVE q \in D <=> q \in E
    BY <1>2, <2>1 DEF Reaches
  <2> HIDE DEF D, E
  <2>2. QED
    BY ONLY <2>1, p \in NodePath, SameReach
<1>4. ASSUME NEW p \in NodePath PROVE Merged(d, EmptyTree)[p] = d[p]
  <2>1. CASE Above(p) \subseteq D
    BY <1>2, <1>3, <2>1, MergedIs
  <2>2. CASE ~(Above(p) \subseteq D)
    <3>1. IsNone(d[p])
      BY <2>2, AboveType DEF Rooted
    <3>2. d[p] = None
      BY <3>1 DEF Disk, DiskNode, ContentNode, LeafNode, DirNode, IsNone, None
    <3>3. QED
      BY <1>3, <2>2, <3>2, MergedIs
  <2>3. QED
    BY <2>1, <2>2
<1>5. QED
  BY <1>4 DEF Merged, Disk

(***************************************************************************)
(* Paths of any length: what the overlay shows at them.                    *)
(***************************************************************************)
\* The kernel finds a directory at the root.
LEMMA RootEntry ==
  ASSUME NEW d \in Disk
  PROVE  lstat_lower(d, Root) = Dir(DirMode)
<1>1. PICK F : Walks(d, FALSE, F) /\ \A q : Walk(d, q, FALSE) = F[<<Root, q, MaxHops>>]
  BY WalkIs
<1> DEFINE w == <<Root, Root, MaxHops>>
<1>2. w \in Places /\ w[1] = Root /\ w[2] = <<>>
  BY StartPlace, EmptyPath
<1>3. Walk(d, Root, FALSE) = F[w]
  BY <1>1
<1> HIDE DEF w
<1>4. F[w] = Root
  BY <1>1, <1>2 DEF Walks
<1>5. Root # Nowhere
  BY EmptyPath, HopAssumption
<1>6. QED
  BY <1>3, <1>4, <1>5 DEF lstat_lower, Entry, At

\* A disk has one way to hold nothing.
LEMMA DiskNone ==
  ASSUME NEW n \in DiskNode, IsNone(n)
  PROVE  n = None
BY DEF DiskNode, ContentNode, LeafNode, DirNode, IsNone, None

\* Nothing lies below a place where the disk has no entry, or a file.
LEMMA NothingInLower ==
  ASSUME NEW d \in Disk, Rooted(d), NEW x \in Seq(Name), NEW r \in Above(x),
         IsNone(lstat_lower(d, r)) \/ IsFile(lstat_lower(d, r))
  PROVE  lstat_lower(d, x) = None
<1>1. r \in Seq(Name)
  BY PrefixType
<1>2. PICK v \in Seq(Name) : v # <<>> /\ x = r \o v
  BY PrefixRest
<1>3. ~IsDir(stat_lower(d, r))
  BY <1>1, StatSame, TypeNames
<1>4. IsNone(lstat_lower(d, x))
  BY <1>1, <1>2, <1>3, LowerParent
<1>5. QED
  BY <1>4, LowerAnswers, DiskNone

CoveredAt(t, p) ==
  \E r \in Above(p) : IsLeaf(At(t, r)) \/ IsWhiteout(At(t, r))

\* What a tree holds at a path of any depth.
LEMMA AnyNode ==
  ASSUME NEW t, Good(t), NEW p
  PROVE  /\ IsNone(At(t, p)) \/ IsWhiteout(At(t, p)) \/ IsContent(At(t, p))
         /\ ~IsNone(At(t, p)) => p = Root \/ p \in NodePath
         /\ IsContent(At(t, p)) => At(t, p) \in DiskNode
         /\ IsNone(At(t, p)) => At(t, p) = None
<1>1. CASE p = Root
  BY <1>1, NodeAssumption
  DEF At, Dir, IsContent, DiskNode, ContentNode, DirNode, IsNone
<1>2. CASE p # Root /\ p \in NodePath
  BY <1>2, NodeOfTree
<1>3. CASE p # Root /\ p \notin NodePath
  BY <1>3, TypeNames DEF At, DiskNode
<1>4. QED
  BY <1>1, <1>2, <1>3

\* What the overlay shows at a path of any depth.
LEMMA AnyOverlay ==
  ASSUME NEW d \in Disk, NEW t, Good(t), NEW p \in Seq(Name)
  PROVE  lstat_overlay(d, t, p) =
           IF CoveredAt(t, p) \/ IsWhiteout(At(t, p)) THEN None
           ELSE IF IsNone(At(t, p)) THEN lstat_lower(d, p) ELSE At(t, p)
<1>1. CASE CoveredAt(t, p)
  <2>1. descend(t, p) \in {"Blocked", "NotDir"}
    BY <1>1 DEF descend, Hidden, CoveredAt
  <2>2. QED
    BY <1>1, <2>1 DEF lstat_overlay, has_content
<1>2. CASE ~CoveredAt(t, p) /\ p = Root
  <2>1. descend(t, p) = "Missing"
    BY <1>2 DEF descend, Hidden, CoveredAt
  <2>2. At(t, p) = Dir(DirMode)
    BY <1>2 DEF At
  <2>3. QED
    BY <1>2, <2>1, <2>2, RootEntry DEF lstat_overlay, Dir, IsWhiteout, IsNone
<1>3. CASE ~CoveredAt(t, p) /\ p # Root
  <2>1. descend(t, p) = IF IsNone(At(t, p)) THEN "Missing" ELSE "Found"
    BY <1>3 DEF descend, Hidden, CoveredAt
  <2>2. ~IsNone(At(t, p)) => At(t, p) = t[p]
    BY <1>3, TypeNames DEF At
  <2>3. QED
    BY <1>3, <2>1, <2>2, AnyNode, TypeNames DEF lstat_overlay, has_content
<1>4. QED
  BY <1>1, <1>2, <1>3

\* What the tree has at a path it has in directories all the way up.
LEMMA TreeAbove ==
  ASSUME NEW t, Good(t), NEW p \in Seq(Name), NEW r \in Above(p),
         ~IsNone(At(t, p))
  PROVE  IsDir(At(t, r)) /\ r \in NodePath
<1>1. p # Root
  BY EmptyPath, PrefixType
<1>2. p \in NodePath /\ ~IsNone(t[p])
  BY <1>1, AnyNode DEF At
<1>3. r \in NodePath /\ IsDir(t[r])
  BY <1>2, AboveType DEF Good, TreeWF, Rooted
<1>4. QED
  BY <1>3, PrefixType DEF At

(***************************************************************************)
(* Paths without links on the way.                                         *)
(***************************************************************************)
Straight(d, t, p) ==
  /\ p \in Seq(Name)
  /\ \A r \in Above(p) : ~IsSymlink(lstat_overlay(d, t, r))
Clean(d, t, p) == Straight(d, t, p) /\ ~IsSymlink(lstat_overlay(d, t, p))

\* What shows at the end of a path without links lies in directories that show.
LEMMA ShownBelowDirs ==
  ASSUME NEW d \in Disk, Rooted(d), NEW t, Good(t), NEW p, Straight(d, t, p),
         ~IsNone(lstat_overlay(d, t, p)), NEW r \in Above(p)
  PROVE  IsDir(lstat_overlay(d, t, r))
<1>1. p \in Seq(Name) /\ ~IsSymlink(lstat_overlay(d, t, r))
  BY DEF Straight
<1>2. r \in Seq(Name)
  BY <1>1, PrefixType
<1>3. ~CoveredAt(t, p) /\ ~IsWhiteout(At(t, p))
  BY <1>1, AnyOverlay, TypeNames
<1>4. ~CoveredAt(t, r)
  BY <1>1, <1>3, PrefixTransitive DEF CoveredAt
<1>5. IsNone(At(t, r)) \/ IsDir(At(t, r))
  BY <1>3, AnyNode, TypeNames DEF CoveredAt
<1>6. CASE IsDir(At(t, r))
  BY <1>2, <1>4, <1>6, AnyOverlay, TypeNames
<1>7. CASE IsNone(At(t, r))
  <2>1. IsNone(At(t, p))
    BY <1>1, <1>7, TreeAbove, TypeNames
  <2>2. /\ lstat_overlay(d, t, r) = lstat_lower(d, r)
        /\ lstat_overlay(d, t, p) = lstat_lower(d, p)
    BY <1>1, <1>2, <1>3, <1>4, <1>7, <2>1, AnyOverlay, TypeNames
  <2>3. ~IsNone(lstat_lower(d, r)) /\ ~IsFile(lstat_lower(d, r))
    BY <1>1, <2>2, NothingInLower, TypeNames
  <2>4. lstat_lower(d, r) \in DiskNode
    BY LowerAnswers
  <2>5. IsDir(lstat_lower(d, r)) \/ IsSymlink(lstat_lower(d, r))
    BY <2>3, <2>4, DiskKinds
  <2>6. QED
    BY <1>1, <2>2, <2>5
<1>8. QED
  BY <1>5, <1>6, <1>7

\* At the end of a path without links the view shows what the overlay does.
LEMMA StraightMerged ==
  ASSUME NEW d \in Disk, Rooted(d), NEW t, Good(t), NEW p \in NodePath,
         Straight(d, t, p)
  PROVE  Merged(d, t)[p] = lstat_overlay(d, t, p)
<1>1. CASE IsNone(lstat_overlay(d, t, p))
  <2>1. lstat_overlay(d, t, p) = None
    BY <1>1, OverlayAnswers, DiskNone
  <2>2. QED
    BY <2>1 DEF Merged
<1>2. CASE ~IsNone(lstat_overlay(d, t, p))
  BY <1>2, ShownBelowDirs DEF Merged
<1>3. QED
  BY <1>1, <1>2

\* Every prefix of a path without links is clean.
LEMMA StraightAbove ==
  ASSUME NEW d, NEW t, NEW p, Straight(d, t, p), NEW r \in Above(p)
  PROVE  Clean(d, t, r)
BY PrefixType, PrefixTransitive DEF Straight, Clean

(***************************************************************************)
(* resolve_write_target, one component at a time.                          *)
(***************************************************************************)
LinkAt(d, t, w) == IsSymlink(lstat_overlay(d, t, Next1(w)))
WFollows(d, t, follow, w) == LinkAt(d, t, w) /\ (follow \/ Tail(w[2]) # <<>>)
WLoops(d, t, follow, w) == WFollows(d, t, follow, w) /\ w[3] = 0
Spliced(d, t, w) == LinkTarget(w[1], lstat_overlay(d, t, Next1(w)).target)
WOnward(d, t, follow, w) ==
  IF WFollows(d, t, follow, w)
  THEN <<Root, Spliced(d, t, w) \o Tail(w[2]), w[3] - 1>>
  ELSE <<Next1(w), Tail(w[2]), w[3]>>

Targets(d, t, follow, W) ==
  /\ \A w \in Places : w[2] = <<>> => W[w] = Resolved(w[1])
  /\ \A w \in Places : w[2] # <<>> /\ WLoops(d, t, follow, w) =>
                         W[w] = Unresolved("SymlinkLoop")
  /\ \A w \in Places : w[2] # <<>> /\ ~WLoops(d, t, follow, w) =>
                         W[w] = W[WOnward(d, t, follow, w)]

\* A link's text spliced into a path is a path.
LEMMA SplicedType ==
  ASSUME NEW d \in Disk, NEW t, Good(t), NEW w \in Places, LinkAt(d, t, w)
  PROVE  Spliced(d, t, w) \in Seq(Name)
<1> DEFINE n == lstat_overlay(d, t, Next1(w))
<1>1. n \in DiskNode /\ IsSymlink(n)
  BY OverlayAnswers DEF LinkAt
<1> HIDE DEF n
<1>2. n.target \in Link /\ n.target.to \in Seq(Name)
  BY <1>1, NodeAssumption
  DEF DiskNode, ContentNode, LeafNode, DirNode, IsSymlink, None
<1>3. w[1] \in Seq(Name)
  BY PlaceIs
<1>4. LinkTarget(w[1], n.target) \in Seq(Name)
  BY <1>2, <1>3, Concat DEF LinkTarget
<1>5. QED
  BY <1>4 DEF Spliced, n

\* A scan of resolve_write_target that goes on stands at a place closer to the end.
LEMMA WOnwardIs ==
  ASSUME NEW d \in Disk, NEW t, Good(t), NEW follow, NEW w \in Places,
         w[2] # <<>>, ~WLoops(d, t, follow, w)
  PROVE  /\ WOnward(d, t, follow, w) \in Places
         /\ Closer(WOnward(d, t, follow, w), w)
         /\ WFollows(d, t, follow, w) =>
              /\ WOnward(d, t, follow, w)[1] = Root
              /\ WOnward(d, t, follow, w)[2] = Spliced(d, t, w) \o Tail(w[2])
         /\ ~WFollows(d, t, follow, w) =>
              /\ WOnward(d, t, follow, w)[1] = Next1(w)
              /\ WOnward(d, t, follow, w)[2] = Tail(w[2])
<1> DEFINE y == WOnward(d, t, follow, w)
<1>1. /\ w[1] \in Seq(Name) /\ w[3] \in 0..MaxHops /\ Tail(w[2]) \in Seq(Name)
      /\ Next1(w) \in Seq(Name) /\ w[3] \in Nat
      /\ Len(Tail(w[2])) < Len(w[2])
  BY PlaceIs, PathSteps DEF Next1
<1>2. CASE WFollows(d, t, follow, w)
  <2> DEFINE u == Spliced(d, t, w) \o Tail(w[2])
             h == w[3] - 1
  <2>1. u \in Seq(Name)
    BY <1>1, <1>2, SplicedType, Concat DEF WFollows
  <2>2. h \in 0..MaxHops /\ h < w[3]
    BY <1>1, <1>2, HopAssumption DEF WLoops
  <2>3. y = <<Root, u, h>>
    BY <1>2 DEF WOnward
  <2>4. QED
    <3> SUFFICES y \in Places /\ Closer(y, w) /\ y[1] = Root /\ y[2] = u
      BY <1>2
    <3> HIDE DEF y, u, h
    <3> QED BY <2>1, <2>2, <2>3, EmptyPath, PlaceIntro DEF Closer
<1>3. CASE ~WFollows(d, t, follow, w)
  <2>1. y = <<Next1(w), Tail(w[2]), w[3]>>
    BY <1>3 DEF WOnward
  <2>2. QED
    <3> SUFFICES y \in Places /\ Closer(y, w) /\ y[1] = Next1(w) /\ y[2] = Tail(w[2])
      BY <1>3
    <3> HIDE DEF y
    <3> QED BY <1>1, <2>1, PlaceIntro DEF Closer
<1>4. QED
  BY <1>2, <1>3

Answer == {"ok", "SymlinkLoop", "NotFound", "NotADirectory"}
Result == {a \in [err : Answer, path : Seq(Name)] : a.err = "ok" \/ a.path = Root}

\* The results of the resolvers.
LEMMA ResultTypes ==
  /\ \A p \in Seq(Name) : Resolved(p) \in Result /\ Resolved(p).err = "ok"
                          /\ Resolved(p).path = p
  /\ \A e \in Answer : Unresolved(e) \in Result /\ Unresolved(e).err = e
                       /\ Unresolved(e).path = Root
  /\ \A r \in Result : r.err = "ok" => r = Resolved(r.path) /\ r.path \in Seq(Name)
  /\ Unresolved("SymlinkLoop") \in Result
<1>1. \A p \in Seq(Name) : Resolved(p) \in Result /\ Resolved(p).err = "ok"
                             /\ Resolved(p).path = p
  BY DEF Result, Resolved, Answer
<1>2. \A e \in Answer : Unresolved(e) \in Result /\ Unresolved(e).err = e
                         /\ Unresolved(e).path = Root
  BY EmptyPath DEF Result, Unresolved
<1>3. \A r \in Result : r.err = "ok" => r = Resolved(r.path) /\ r.path \in Seq(Name)
  BY DEF Result, Resolved
<1>4. Unresolved("SymlinkLoop") \in Result
  BY <1>2 DEF Answer
<1>5. QED
  BY <1>1, <1>2, <1>3, <1>4

\* resolve_write_target does what its body says: the recursive function it is
\* defined by exists.
LEMMA TargetIs ==
  ASSUME NEW d \in Disk, NEW t, Good(t), NEW follow
  PROVE  \E W : /\ Targets(d, t, follow, W)
                /\ \A p : resolve_write_target(d, t, p, follow) =
                            W[<<Root, p, MaxHops>>]
<1> DEFINE stop(w) == w[2] = <<>> \/ WLoops(d, t, follow, w)
           end(w) == IF w[2] = <<>> THEN Resolved(w[1]) ELSE Unresolved("SymlinkLoop")
           done == {w \in Places : stop(w)}
           nxt == [w \in Places |-> IF stop(w) THEN w ELSE WOnward(d, t, follow, w)]
           val == [w \in Places |-> end(w)]
           P(W) == W = [w \in Places |->
                          IF w[2] = <<>> THEN Resolved(w[1])
                          ELSE IF WLoops(d, t, follow, w)
                          THEN Unresolved("SymlinkLoop")
                          ELSE W[WOnward(d, t, follow, w)]]
           W == CHOOSE f : P(f)
<1>1. \A w \in Places : ~stop(w) => WOnward(d, t, follow, w) \in Places
  BY WOnwardIs
<1>2. nxt \in [Places -> Places] /\ val \in [Places -> Result]
  <2>1. \A w \in Places : end(w) \in Result
    BY PlaceIs, ResultTypes
  <2> HIDE DEF end, stop
  <2>2. QED
    BY <1>1, <2>1
<1>3. PICK f : TailRecurs(f, Places, Result, done, nxt, val)
  <2>1. done \in SUBSET Places
    OBVIOUS
  <2> HIDE DEF done, nxt, val
  <2>2. QED
    BY <1>2, <2>1, TailRecursionExists
<1>4. P(f)
  <2>1. \A w \in Places : f[w] = IF stop(w) THEN end(w) ELSE f[WOnward(d, t, follow, w)]
    <3> HIDE DEF stop, end
    <3> QED BY <1>3 DEF TailRecurs
  <2>2. \A w \in Places : f[w] = IF w[2] = <<>> THEN Resolved(w[1])
                                  ELSE IF WLoops(d, t, follow, w)
                                  THEN Unresolved("SymlinkLoop")
                                  ELSE f[WOnward(d, t, follow, w)]
    BY <2>1
  <2>3. f = [w \in Places |-> f[w]]
    <3> HIDE DEF done, nxt, val
    <3> QED BY <1>3 DEF TailRecurs
  <2>4. QED
    BY <2>2, <2>3
<1>5. P(W)
  <2> HIDE DEF P
  <2> QED BY <1>4
<1>6. \A p : resolve_write_target(d, t, p, follow) = W[<<Root, p, MaxHops>>]
  <2>1. ASSUME NEW p
        PROVE  resolve_write_target(d, t, p, follow) = W[<<Root, p, MaxHops>>]
    BY DEF resolve_write_target, WLoops, WFollows, LinkAt, WOnward, Spliced, Next1
  <2>2. QED
    BY <2>1
<1>7. Targets(d, t, follow, W)
  <2> HIDE DEF W
  <2> QED BY <1>5 DEF Targets
<1>8. QED
  BY <1>6, <1>7

\* Moving the first name of the rest to the end of what is done.
LEMMA PathMoves ==
  ASSUME NEW u \in Seq(Name), NEW v \in Seq(Name), v # <<>>
  PROVE  /\ Append(u, Head(v)) \o Tail(v) = u \o v
         /\ Tail(v) # <<>> => Append(u, Head(v)) \in Above(u \o v)
         /\ Tail(v) = <<>> => Append(u, Head(v)) = u \o v
<1> DEFINE x == Append(u, Head(v))
           p == u \o v
<1>1. Head(v) \in Name /\ Tail(v) \in Seq(Name) /\ Len(Tail(v)) = Len(v) - 1
  BY PathSteps
<1>2. x \in Seq(Name) /\ x = u \o <<Head(v)>> /\ <<Head(v)>> \in Seq(Name)
      /\ Len(x) = Len(u) + 1
  BY <1>1, AppendOne
<1>3. <<Head(v)>> \o Tail(v) = v
  OBVIOUS
<1>4. x \o Tail(v) = p
  BY <1>1, <1>2, <1>3, ConcatThree
<1>5. Tail(v) = <<>> => x = p
  <2> HIDE DEF x, p
  <2> QED BY <1>1, <1>2, <1>4, Concat
<1>6. ASSUME Tail(v) # <<>> PROVE x \in Above(p)
  <2>1. p \in Seq(Name) /\ Len(p) = Len(u) + Len(v) /\ Len(u) \in Nat /\ Len(v) \in Nat
    BY Concat
  <2>2. Len(v) > 1
    BY <1>6
  <2>3. SubSeq(p, 1, Len(u) + 1) = x
    <3>1. SubSeq(x \o Tail(v), 1, Len(x)) = x
      <4> DEFINE z == Tail(v)
      <4>1. z \in Seq(Name) /\ x \in Seq(Name)
        BY <1>1, <1>2
      <4> HIDE DEF x, z
      <4>2. QED
        BY <4>1, FirstPart
    <3>2. QED
      BY <1>2, <1>4, <3>1
  <2> DEFINE n == Len(u) + 1
  <2>4. n \in Nat /\ n >= 1 /\ n < Len(p)
    BY <2>1, <2>2
  <2> HIDE DEF x, p, n
  <2>5. SubSeq(p, 1, n) \in Above(p)
    BY <2>1, <2>4, PrefixIntro
  <2>6. QED
    BY <2>3, <2>5 DEF n
<1>7. QED
  BY <1>4, <1>5, <1>6

\* What lies above an appended path lies above the path, or is it.
LEMMA AboveAppend ==
  ASSUME NEW u \in Seq(Name), NEW n \in Name, NEW r \in Above(Append(u, n))
  PROVE  r \in Above(u) \/ (r = u /\ u # Root)
<1> DEFINE x == Append(u, n)
           k == Len(r)
<1>1. x \in Seq(Name) /\ Len(x) = Len(u) + 1 /\ SubSeq(x, 1, Len(u)) = u
      /\ Len(u) \in Nat
  BY AppendOne
<1>2. k \in Nat /\ k >= 1 /\ k < Len(x) /\ r = SubSeq(x, 1, k)
  BY <1>1, PrefixType
<1> HIDE DEF x, k
<1>3. CASE k = Len(u)
  BY <1>1, <1>2, <1>3, EmptyPath
<1>4. CASE k < Len(u)
  <2>1. SubSeq(SubSeq(x, 1, Len(u)), 1, k) = SubSeq(x, 1, k)
    <3> DEFINE m == Len(u)
    <3>1. m \in Nat /\ k <= m /\ m <= Len(x)
      BY <1>1, <1>2, <1>4
    <3> HIDE DEF m
    <3>2. SubSeq(SubSeq(x, 1, m), 1, k) = SubSeq(x, 1, k)
      BY <1>1, <1>2, <3>1, PrefixOfPrefix
    <3>3. QED
      BY <3>2 DEF m
  <2>2. r = SubSeq(u, 1, k)
    BY <1>1, <1>2, <2>1
  <2>3. QED
    BY <1>2, <1>4, <2>2, PrefixIntro
<1>5. k = Len(u) \/ k < Len(u)
  <2>1. k < Len(u) + 1 /\ k \in Nat /\ Len(u) \in Nat
    BY <1>1, <1>2
  <2>2. QED
    BY ONLY <2>1
<1>6. QED
  BY <1>3, <1>4, <1>5

\* The root is a directory that shows, with nothing above it.
LEMMA RootClean ==
  ASSUME NEW d \in Disk, NEW t, Good(t)
  PROVE  /\ Clean(d, t, Root) /\ IsDir(lstat_overlay(d, t, Root))
         /\ lstat_overlay(d, t, Root) = Dir(DirMode) /\ Above(Root) = {}
<1>1. Above(Root) = {}
  BY EmptyPath DEF Above
<1>2. At(t, Root) = Dir(DirMode)
  BY DEF At
<1>3. lstat_overlay(d, t, Root) = Dir(DirMode)
  <2>1. ~CoveredAt(t, Root)
    BY <1>1 DEF CoveredAt
  <2>2. IsDir(At(t, Root))
    BY <1>2 DEF Dir, IsDir
  <2>3. QED
    BY <1>2, <2>1, <2>2, EmptyPath, AnyOverlay, TypeNames
<1>4. QED
  BY <1>1, <1>3, EmptyPath DEF Clean, Straight, Dir, IsDir, IsSymlink

\* How a resolver's answer relates to the links of the overlay: none on the way
\* to it, and none at it if links at the end are followed.
Arrived(d, t, follow, p) ==
  Straight(d, t, p) /\ (follow => Clean(d, t, p))

\* One name further from a clean path.
LEMMA NextArrives ==
  ASSUME NEW d, NEW t, NEW follow, NEW u \in Seq(Name), NEW n \in Name,
         Clean(d, t, u)
  PROVE  /\ Straight(d, t, Append(u, n))
         /\ ~IsSymlink(lstat_overlay(d, t, Append(u, n))) => Clean(d, t, Append(u, n))
<1>1. Append(u, n) \in Seq(Name)
  BY AppendOne
<1>2. \A r \in Above(Append(u, n)) : ~IsSymlink(lstat_overlay(d, t, r))
  BY AboveAppend DEF Clean, Straight
<1>3. QED
  BY <1>1, <1>2 DEF Clean, Straight

Begins(d, t, follow, w) ==
  /\ w[2] = <<>> => Arrived(d, t, follow, w[1])
  /\ w[2] # <<>> => Clean(d, t, w[1])

\* Where resolve_write_target arrives no link is left on the way.
LEMMA TargetArrives ==
  ASSUME NEW d \in Disk, NEW t, Good(t), NEW follow, NEW W,
         Targets(d, t, follow, W), NEW w \in Places, Begins(d, t, follow, w)
  PROVE  W[w] \in Result /\ (W[w].err = "ok" => Arrived(d, t, follow, W[w].path))
<1> DEFINE Q(x) == /\ W[x] \in Result
                   /\ W[x].err = "ok" => Arrived(d, t, follow, W[x].path)
           B == {x \in Places : Begins(d, t, follow, x) /\ ~Q(x)}
<1>1. SUFFICES B = {}
  OBVIOUS
<1>2. SUFFICES ASSUME NEW x \in B, \A y \in B : ~Closer(y, x) PROVE FALSE
  <2>1. B \subseteq Places
    OBVIOUS
  <2> HIDE DEF B
  <2>2. QED
    BY <1>2, <2>1, LeastPlace
<1>3. x \in Places /\ Begins(d, t, follow, x) /\ ~Q(x)
  OBVIOUS
<1>4. /\ x[1] \in Seq(Name) /\ x[2] \in Seq(Name)
  BY <1>3, PlaceIs
<1>5. \A y \in Places : Closer(y, x) /\ Begins(d, t, follow, y) => Q(y)
  BY <1>2
<1> HIDE DEF B
<1>6. CASE x[2] = <<>>
  <2>1. W[x] = Resolved(x[1])
    BY <1>3, <1>6 DEF Targets
  <2>2. QED
    BY <1>3, <1>4, <1>6, <2>1, ResultTypes DEF Begins
<1>7. CASE x[2] # <<>> /\ WLoops(d, t, follow, x)
  <2>1. W[x] = Unresolved("SymlinkLoop")
    BY <1>3, <1>7 DEF Targets
  <2>2. QED
    BY <1>3, <2>1, ResultTypes DEF Answer
<1>8. CASE x[2] # <<>> /\ ~WLoops(d, t, follow, x)
  <2> DEFINE y == WOnward(d, t, follow, x)
  <2>1. W[x] = W[y]
    BY <1>3, <1>8 DEF Targets
  <2>2. y \in Places /\ Closer(y, x)
    BY <1>3, <1>8, WOnwardIs
  <2>3. Head(x[2]) \in Name /\ Clean(d, t, x[1])
    BY <1>3, <1>4, <1>8, PathSteps DEF Begins
  <2>4. CASE WFollows(d, t, follow, x)
    <3>1. y[1] = Root
      BY <1>3, <1>8, <2>4, WOnwardIs
    <3> HIDE DEF y
    <3>2. Begins(d, t, follow, y)
      BY <3>1, RootClean DEF Begins, Arrived, Clean
    <3>3. QED
      BY <1>3, <1>5, <2>1, <2>2, <3>2
  <2>5. CASE ~WFollows(d, t, follow, x)
    <3>1. y[1] = Next1(x) /\ y[2] = Tail(x[2])
      BY <1>3, <1>8, <2>5, WOnwardIs
    <3>2. Straight(d, t, Next1(x))
      BY <1>4, <2>3, NextArrives DEF Next1
    <3>3. (follow \/ Tail(x[2]) # <<>>) => Clean(d, t, Next1(x))
      BY <2>5, <3>2 DEF WFollows, LinkAt, Clean
    <3> HIDE DEF y
    <3>4. Begins(d, t, follow, y)
      BY <3>1, <3>2, <3>3 DEF Begins, Arrived
    <3>5. QED
      BY <1>3, <1>5, <2>1, <2>2, <3>4
  <2>6. QED
    BY <2>4, <2>5
<1>9. QED
  BY <1>6, <1>7, <1>8

\* What resolve_write_target answers for a path of a script.
LEMMA WriteTarget ==
  ASSUME NEW d \in Disk, NEW t, Good(t), NEW follow, NEW p \in Seq(Name)
  PROVE  /\ resolve_write_target(d, t, p, follow) \in Result
         /\ resolve_write_target(d, t, p, follow).err = "ok" =>
              Arrived(d, t, follow, resolve_write_target(d, t, p, follow).path)
<1>1. PICK W : /\ Targets(d, t, follow, W)
               /\ \A q : resolve_write_target(d, t, q, follow) = W[<<Root, q, MaxHops>>]
  BY TargetIs
<1> DEFINE w == <<Root, p, MaxHops>>
<1>2. w \in Places /\ w[1] = Root
  BY StartPlace
<1>3. resolve_write_target(d, t, p, follow) = W[w]
  BY <1>1
<1> HIDE DEF w
<1>4. Begins(d, t, follow, w)
  BY <1>2, RootClean DEF Begins, Arrived, Clean
<1>5. QED
  BY <1>1, <1>2, <1>3, <1>4, TargetArrives

\* A path without links is its own target.
LEMMA TargetOfArrived ==
  ASSUME NEW d \in Disk, NEW t, Good(t), NEW follow, NEW p,
         Arrived(d, t, follow, p)
  PROVE  resolve_write_target(d, t, p, follow) = Resolved(p)
<1>1. PICK W : /\ Targets(d, t, follow, W)
               /\ \A q : resolve_write_target(d, t, q, follow) = W[<<Root, q, MaxHops>>]
  BY TargetIs
<1> DEFINE B == {x \in Places : x[1] \o x[2] = p /\ W[x] # Resolved(p)}
<1>2. p \in Seq(Name) /\ \A r \in Above(p) : ~IsSymlink(lstat_overlay(d, t, r))
  BY DEF Arrived, Straight
<1>3. SUFFICES B = {}
  <2> DEFINE w == <<Root, p, MaxHops>>
  <2>1. w \in Places /\ w[1] = Root /\ w[2] = p
    BY <1>2, StartPlace
  <2>2. w[1] \o w[2] = p
    BY <1>2, <2>1, Concat, EmptyPath
  <2>3. W[w] = Resolved(p)
    <3> HIDE DEF w
    <3> QED BY <1>3, <2>1, <2>2
  <2>4. QED
    BY <1>1, <2>3
<1>4. SUFFICES ASSUME NEW x \in B, \A y \in B : ~Closer(y, x) PROVE FALSE
  <2>1. B \subseteq Places
    OBVIOUS
  <2> HIDE DEF B
  <2>2. QED
    BY <1>4, <2>1, LeastPlace
<1>5. x \in Places /\ x[1] \o x[2] = p /\ W[x] # Resolved(p)
  OBVIOUS
<1>6. /\ x[1] \in Seq(Name) /\ x[2] \in Seq(Name)
  BY <1>5, PlaceIs
<1>7. \A y \in Places : Closer(y, x) /\ y[1] \o y[2] = p => W[y] = Resolved(p)
  BY <1>4
<1> HIDE DEF B
<1>8. x[2] # <<>>
  <2>1. ASSUME x[2] = <<>> PROVE FALSE
    <3>1. W[x] = Resolved(x[1])
      BY <1>1, <1>5, <2>1 DEF Targets
    <3>2. x[1] = p
      BY <1>5, <1>6, <2>1, Concat
    <3>3. QED
      BY <1>5, <3>1, <3>2
  <2>2. QED
    BY <2>1
<1>9. /\ Next1(x) \o Tail(x[2]) = p
      /\ Tail(x[2]) # <<>> => Next1(x) \in Above(p)
      /\ Tail(x[2]) = <<>> => Next1(x) = p
  BY <1>5, <1>6, <1>8, PathMoves DEF Next1
<1>10. ~WFollows(d, t, follow, x)
  BY <1>2, <1>9 DEF WFollows, LinkAt, Arrived, Clean
<1> DEFINE y == WOnward(d, t, follow, x)
<1>11. y \in Places /\ Closer(y, x) /\ y[1] = Next1(x) /\ y[2] = Tail(x[2])
  BY <1>5, <1>8, <1>10, WOnwardIs DEF WLoops
<1>12. W[x] = W[y]
  BY <1>1, <1>5, <1>8, <1>10 DEF Targets, WLoops
<1> HIDE DEF y
<1>13. QED
  BY <1>5, <1>7, <1>9, <1>11, <1>12

(***************************************************************************)
(* Making directories: what shows at the paths made, and that nothing else *)
(* shows anything new.                                                     *)
(***************************************************************************)
Ensured(d, t, S) == EnsureAll(t, S, lower_mode_of(d), lower_entries_of(d))

\* A set of paths a directory can be made at each of, from the top down.
Makeable(t, S) ==
  S \in SUBSET NodePath /\ \A q \in S : Above(q) \subseteq S /\ ~IsLeaf(t[q])

\* What a tree holds once the directories of S are made.
LEMMA EnsuredGood ==
  ASSUME NEW d \in Disk, NEW t, Good(t), NEW S, Makeable(t, S)
  PROVE  /\ Good(Ensured(d, t, S)) /\ \A q \in S : IsDir(Ensured(d, t, S)[q])
         /\ \A q \in S : Ensured(d, t, S)[q] =
              IF IsDir(t[q]) THEN t[q] ELSE Dir(lower_mode_of(d)[q])
         /\ \A q \in NodePath \ S :
              \/ Ensured(d, t, S)[q] = t[q]
              \/ /\ Ensured(d, t, S)[q] = Whiteout /\ Parent(q) \in S
                 /\ Resurrected(t, Parent(q))
         /\ \A q \in NodePath \ S :
              Parent(q) \in S /\ Resurrected(t, Parent(q))
              /\ q[Len(q)] \in readdir_lower(d, Parent(q))
              => Ensured(d, t, S)[q] = Whiteout
<1> DEFINE u == Ensured(d, t, S)
<1>1. /\ Good(u) /\ \A q \in S : IsDir(u[q])
  BY ProbeType, EnsureAllGood DEF Ensured, Makeable
<1>2. \A q \in S : u[q] = IF IsDir(t[q]) THEN t[q] ELSE Dir(lower_mode_of(d)[q])
  BY DEF Ensured, EnsureAll, Makeable
<1>3. \A q \in NodePath \ S : \/ u[q] = t[q]
                              \/ /\ u[q] = Whiteout /\ Parent(q) \in S
                                 /\ Resurrected(t, Parent(q))
  BY DEF Ensured, EnsureAll
<1>4. \A q \in NodePath \ S : Parent(q) \in S /\ Resurrected(t, Parent(q))
              /\ q[Len(q)] \in readdir_lower(d, Parent(q)) => u[q] = Whiteout
  BY DEF Ensured, EnsureAll, lower_entries_of, Makeable
<1>5. QED
  BY <1>1, <1>2, <1>3, <1>4

\* A directory is its mode.
LEMMA DirIs ==
  ASSUME NEW n \in DiskNode, IsDir(n)
  PROVE  n = Dir(n.mode)
BY DEF DiskNode, ContentNode, LeafNode, DirNode, IsDir, None, Dir

\* Directories made show, and those that showed keep their mode.
LEMMA EnsuredDirs ==
  ASSUME NEW d \in Disk, NEW t, Good(t), NEW S, Makeable(t, S), NEW r \in S
  PROVE  /\ IsDir(lstat_overlay(d, Ensured(d, t, S), r))
         /\ IsDir(lstat_overlay(d, t, r)) =>
              lstat_overlay(d, Ensured(d, t, S), r) = lstat_overlay(d, t, r)
<1> DEFINE u == Ensured(d, t, S)
<1>1. r \in NodePath /\ r \in Seq(Name)
  BY NodePathType DEF Makeable
<1>2. Good(u) /\ IsDir(u[r])
      /\ u[r] = IF IsDir(t[r]) THEN t[r] ELSE Dir(lower_mode_of(d)[r])
  BY EnsuredGood
<1> HIDE DEF u
<1>3. ~Covered(u, r)
  BY <1>1, <1>2, TypeNames DEF Covered, Good, TreeWF, Rooted
<1>4. lstat_overlay(d, u, r) = u[r]
  BY <1>1, <1>2, <1>3, OverlayIs, TypeNames
<1>5. ASSUME IsDir(lstat_overlay(d, t, r)) PROVE u[r] = lstat_overlay(d, t, r)
  <2>1. IsDir(t[r]) \/ IsNone(t[r])
    BY <1>1, <1>5, DirCovers
  <2>2. ~Covered(t, r)
    BY <1>1, <1>5, OverlayIs, TypeNames
  <2>3. CASE IsDir(t[r])
    BY <1>1, <1>2, <2>2, <2>3, OverlayIs, TypeNames
  <2>4. CASE IsNone(t[r])
    <3> DEFINE n == lstat_lower(d, r)
    <3>1. lstat_overlay(d, t, r) = n
      BY <1>1, <2>2, <2>4, OverlayIs, TypeNames
    <3>2. n \in DiskNode /\ IsDir(n)
      BY <1>5, <3>1, LowerAnswers
    <3>3. stat_lower(d, r) = n
      BY <1>1, <3>2, StatSame, TypeNames
    <3>4. lower_mode_of(d)[r] = n.mode
      BY <1>1, <3>2, <3>3 DEF lower_mode_of, ModeOr
    <3>5. n = Dir(n.mode)
      BY <3>2, DirIs
    <3>6. QED
      BY <1>2, <2>4, <3>1, <3>4, <3>5, TypeNames
  <2>5. QED
    BY <2>1, <2>3, <2>4
<1>6. QED
  BY <1>2, <1>4, <1>5 DEF u

\* Below a directory that was deleted, nothing shows again when it is remade.
LEMMA NothingComesBack ==
  ASSUME NEW d \in Disk, Rooted(d), NEW t, Good(t), NEW S, Makeable(t, S),
         NEW x \in NodePath, x \notin S, NEW r \in Above(x), r \in S,
         IsWhiteout(t[r])
  PROVE  lstat_overlay(d, Ensured(d, t, S), x) = None
<1> DEFINE u == Ensured(d, t, S)
<1>1. Good(u)
  BY EnsuredGood
<1>2. PICK y \in UpTo(x) : y \notin S /\ \A z \in Above(y) : z \in S
  <2> DEFINE B == NodePath \ S
  <2>1. CASE \E z \in Above(x) : z \in B
    <3>1. PICK z \in Above(x) : z \in B
      BY <2>1
    <3>2. PICK y \in Above(x) : y \in B /\ \A z2 \in Above(y) : z2 \notin B
      <4> HIDE DEF B
      <4> QED BY <3>1, HighestAbove
    <3>3. \A z2 \in Above(y) : z2 \in NodePath
      BY <3>2, AboveType
    <3>4. y \in UpTo(x)
      BY <3>2, UpToIsAboveAndSelf
    <3>5. QED
      BY <3>2, <3>3, <3>4
  <2>2. CASE ~\E z \in Above(x) : z \in B
    BY <2>2, AboveType, UpToIsAboveAndSelf
  <2>3. QED
    BY <2>1, <2>2
<1>3. y \in NodePath /\ (y = x \/ y \in Above(x)) /\ x \in Seq(Name)
  BY <1>2, UpToIsAboveAndSelf, AboveType, NodePathType
<1>4. r \in Above(y)
  <2>1. r \in UpTo(x)
    BY UpToIsAboveAndSelf
  <2>2. r = y \/ r \in Above(y) \/ y \in Above(r)
    BY <1>2, <2>1, PrefixesOrder
  <2>3. y \notin Above(r)
    BY <1>2 DEF Makeable
  <2>4. QED
    BY <1>2, <2>2, <2>3
<1>5. Parent(y) \in S /\ Resurrected(t, Parent(y)) /\ Parent(y) \in NodePath
  BY <1>2, <1>3, <1>4, ParentAbove DEF Resurrected
<1>6. IsNone(t[x])
  BY TypeNames DEF Good, TreeWF, Rooted
<1>7. u[x] = Whiteout \/ u[x] = t[x]
  BY EnsuredGood
<1>8. CASE y[Len(y)] \in readdir_lower(d, Parent(y))
  <2>1. u[y] = Whiteout
    BY <1>2, <1>3, <1>5, <1>8, EnsuredGood
  <2>2. Covered(u, x) \/ IsWhiteout(u[x])
    BY <1>3, <2>1, TypeNames DEF Covered
  <2> HIDE DEF u
  <2>3. lstat_overlay(d, u, x) = None
    BY <1>1, <2>2, OverlayIs
  <2>4. QED
    BY <2>3 DEF u
<1>9. CASE y[Len(y)] \notin readdir_lower(d, Parent(y))
  <2>1. /\ Parent(y) \in Seq(Name) /\ y[Len(y)] \in Name
        /\ Append(Parent(y), y[Len(y)]) = y
    <3>1. y \in Seq(Name) /\ Len(y) \in Nat /\ Len(y) >= 1
      BY <1>3, NodePathType
    <3>2. QED
      BY <3>1, PrefixStep, PrefixWhole DEF Parent
  <2>2. IsNone(lstat_lower(d, y))
    BY <1>9, <2>1, ReaddirIs
  <2>3. IsNone(lstat_lower(d, x))
    BY <1>3, <2>2, NothingInLower, TypeNames
  <2>4. lstat_lower(d, x) = None
    BY <2>3, LowerAnswers, DiskNone
  <2> HIDE DEF u
  <2>5. lstat_overlay(d, u, x) = None
    BY <1>1, <1>6, <1>7, <2>4, OverlayIs, TypeNames
  <2>6. QED
    BY <2>5 DEF u
<1>10. QED
  BY <1>8, <1>9

\* Making directories changes what the overlay shows nowhere else.
LEMMA EnsuredElsewhere ==
  ASSUME NEW d \in Disk, Rooted(d), NEW t, Good(t), NEW S, Makeable(t, S),
         NEW x \in Seq(Name), x \notin S,
         x \in NodePath \/ ~IsNone(lstat_overlay(d, t, x))
  PROVE  lstat_overlay(d, Ensured(d, t, S), x) = lstat_overlay(d, t, x)
<1> DEFINE u == Ensured(d, t, S)
<1>1. Good(u) /\ S \subseteq NodePath
  BY EnsuredGood DEF Makeable
<1>2. ASSUME NEW r \in NodePath, r \notin S, ~IsNone(t[r])
      PROVE  At(u, r) = At(t, r)
  <2>1. ~(Parent(r) \in S /\ Resurrected(t, Parent(r))) \/ t[r] = Whiteout
    <3>1. ASSUME Parent(r) \in S, NEW z \in UpTo(Parent(r)), IsWhiteout(t[z])
          PROVE  FALSE
      <4>1. Parent(r) \in NodePath
        BY <3>1 DEF Makeable
      <4>2. z = Parent(r) \/ z \in Above(Parent(r))
        BY <3>1, <4>1, UpToIsAboveAndSelf
      <4>3. z \in Above(r)
        BY <4>1, <4>2, ParentType
      <4>4. IsDir(t[z])
        BY <1>2, <4>3 DEF Good, TreeWF, Rooted
      <4>5. QED
        BY <3>1, <4>4, TypeNames
    <3>2. QED
      BY <3>1 DEF Resurrected
  <2>2. u[r] = t[r]
    BY <1>2, <2>1, EnsuredGood
  <2>3. QED
    BY <2>2 DEF At
<1>3. CASE \E r \in Above(x) : IsWhiteout(At(t, r)) /\ r \in S
  <2>1. PICK r \in Above(x) : IsWhiteout(At(t, r)) /\ r \in S
    BY <1>3
  <2>2. lstat_overlay(d, t, x) = None
    BY <2>1, AnyOverlay DEF CoveredAt
  <2>3. x \in NodePath
    BY <2>2, TypeNames
  <2>4. IsWhiteout(t[r])
    BY <1>1, <2>1, NodeOfTree
  <2>5. QED
    BY <2>1, <2>2, <2>3, <2>4, NothingComesBack
<1>4. CASE \E r \in Above(x) : /\ IsLeaf(At(t, r)) \/ IsWhiteout(At(t, r))
                               /\ r \notin S
  <2>1. PICK r \in Above(x) : /\ IsLeaf(At(t, r)) \/ IsWhiteout(At(t, r))
                              /\ r \notin S
    BY <1>4
  <2>2. r \in NodePath /\ r # Root /\ ~IsNone(t[r])
    <3>1. r # Root /\ ~IsNone(At(t, r))
      BY <2>1, PrefixType, TypeNames
    <3>2. r \in NodePath
      BY <3>1, AnyNode
    <3>3. QED
      BY <3>1, <3>2 DEF At
  <2>3. At(u, r) = At(t, r)
    BY <1>2, <2>1, <2>2
  <2>4. CoveredAt(t, x) /\ CoveredAt(u, x)
    BY <2>1, <2>3 DEF CoveredAt
  <2> HIDE DEF u
  <2>5. lstat_overlay(d, u, x) = lstat_overlay(d, t, x)
    BY <1>1, <2>4, AnyOverlay
  <2>6. QED
    BY <2>5 DEF u
<1>5. CASE ~CoveredAt(t, x)
  <2>0. \A r \in Above(x) : ~IsWhiteout(At(t, r)) /\ ~IsLeaf(At(t, r))
    BY <1>5 DEF CoveredAt
  <2>1. ASSUME NEW r \in NodePath, r \notin S, r = x \/ r \in Above(x)
        PROVE  At(u, r) = At(t, r)
    <3>1. ~Resurrected(t, Parent(r)) \/ Parent(r) \notin S
      <4>1. ASSUME Parent(r) \in S, NEW z \in UpTo(Parent(r)), IsWhiteout(t[z])
            PROVE  FALSE
        <5>1. Parent(r) \in NodePath
          BY <4>1 DEF Makeable
        <5>2. z = Parent(r) \/ z \in Above(Parent(r))
          BY <4>1, <5>1, UpToIsAboveAndSelf
        <5>3. z \in Above(r)
          BY <5>1, <5>2, ParentType
        <5>4. z \in Above(x) /\ z \in NodePath
          BY <2>1, <5>3, PrefixTransitive, AboveType
        <5>5. IsWhiteout(At(t, z))
          BY <4>1, <5>4, NodeOfTree
        <5>6. QED
          BY <2>0, <5>4, <5>5
      <4>2. QED
        BY <4>1 DEF Resurrected
    <3>2. u[r] = t[r]
      BY <2>1, <3>1, EnsuredGood
    <3>3. QED
      BY <3>2 DEF At
  <2>2. At(u, x) = At(t, x)
    <3>1. CASE x \in NodePath
      BY <2>1, <3>1
    <3>2. CASE x \notin NodePath
      BY <3>2 DEF At
    <3>3. QED
      BY <3>1, <3>2
  <2>3. ~CoveredAt(u, x)
    <3>1. ASSUME NEW r \in Above(x)
          PROVE  ~IsLeaf(At(u, r)) /\ ~IsWhiteout(At(u, r))
      <4>1. CASE r \in S
        <5>1. IsDir(u[r]) /\ r \in NodePath
          BY <1>1, <4>1, EnsuredGood
        <5>2. IsDir(At(u, r))
          BY <1>1, <5>1, NodeOfTree
        <5>3. QED
          BY <5>2, TypeNames
      <4>2. CASE r \notin S /\ r \in NodePath
        BY <2>0, <2>1, <4>2
      <4>3. CASE r \notin NodePath
        BY <4>3, PrefixType, TypeNames DEF At
      <4>4. QED
        BY <4>1, <4>2, <4>3
    <3>2. QED
      BY <3>1 DEF CoveredAt
  <2> HIDE DEF u
  <2>4. lstat_overlay(d, u, x) = lstat_overlay(d, t, x)
    BY <1>1, <1>5, <2>2, <2>3, AnyOverlay
  <2>5. QED
    BY <2>4 DEF u
<1>6. QED
  <2>1. CASE CoveredAt(t, x)
    <3>1. PICK r \in Above(x) : IsLeaf(At(t, r)) \/ IsWhiteout(At(t, r))
      BY <2>1 DEF CoveredAt
    <3>2. CASE r \in S
      <4>1. ~IsLeaf(At(t, r))
        BY <1>1, <3>2, NodeOfTree DEF Makeable
      <4>2. QED
        BY <1>3, <3>1, <3>2, <4>1
    <3>3. CASE r \notin S
      BY <1>4, <3>1, <3>3
    <3>4. QED
      BY <3>2, <3>3
  <2>2. QED
    BY <1>5, <2>1

(***************************************************************************)
(* The steps of the one tree of MergedFs, from the tree M to the tree N.   *)
(***************************************************************************)
KeptOutside(M, N, T) == \A x \in NodePath : x \notin T => N[x] = M[x]

\* A directory can take its place: nothing is there, or an entry of the disk.
GivesWay(d, n) == IsDir(n) \/ IsNone(n) \/ \E z \in NodePath : n = d[z]

DirsMade(d, M, N, S) ==
  \A r \in S : /\ IsDir(N[r]) /\ (IsDir(M[r]) => N[r] = M[r])
              /\ GivesWay(d, M[r])
Makes(d, M, N, S) == DirsMade(d, M, N, S) /\ KeptOutside(M, N, S)
Puts(d, M, N, q, n) ==
  /\ N[q] = n /\ IsLeaf(n) /\ ~IsDir(M[q])
  /\ DirsMade(d, M, N, Above(q)) /\ KeptOutside(M, N, UpTo(q))
Removes(M, N, q) ==
  /\ ~IsNone(M[q]) /\ \A x \in Subtree(q) : IsNone(N[x])
  /\ KeptOutside(M, N, Subtree(q))
Changes(M, N, q) ==
  /\ ~IsNone(M[q]) /\ Merge!EqualButMode(N[q], M[q]) /\ KeptOutside(M, N, {q})
Moves(d, M, N, s, q) ==
  /\ ~IsNone(M[s]) /\ ~StartsWith(q, s)
  /\ IsDir(M[q]) => IsDir(M[s]) /\ \A r \in Below(q) : IsNone(M[r])
  /\ DirsMade(d, M, N, Above(q))
  /\ \A r \in Subtree(s) : IsNone(N[r])
  /\ \A r \in Subtree(q) : Merge!EqualButDirMode(N[r], At(M, Rebase(r, q, s)))
  /\ KeptOutside(M, N, UpTo(q) \cup Subtree(q) \cup Subtree(s))

\* A step the one tree can take.
EntryStep(d, M, N) ==
  \E q \in NodePath : \/ \E n : Puts(d, M, N, q, n)
                      \/ ~IsDir(M[q]) /\ Makes(d, M, N, UpTo(q))
                      \/ Changes(M, N, q) \/ Removes(M, N, q)
MoveStep(d, M, N) == \E s, q \in NodePath : Moves(d, M, N, s, q)
ModeStep(M, N) == \A p \in NodePath : Merge!EqualButMode(N[p], M[p])
ViewStep(d, M, N) == N = M \/ EntryStep(d, M, N) \/ MoveStep(d, M, N) \/ ModeStep(M, N)

\* Such a step of what a script sees is a step of MergedFs.
LEMMA ViewStepIsMerged ==
  ASSUME UNCHANGED lower, ViewStep(lower, Merged(lower, tree), Merged(lower', tree'))
  PROVE  [Merge!MergedNext]_<<lower, Merged(lower, tree)>>
<1> DEFINE M == Merged(lower, tree)
           N == Merged(lower', tree')
<1>1. CASE N = M
  BY <1>1
<1>2. ASSUME NEW q \in NodePath, NEW n, Puts(lower, M, N, q, n)
      PROVE  Merge!PutLeaf(q)
  BY <1>2 DEF Puts, DirsMade, KeptOutside, Merge!PutLeaf, Merge!ParentsMade,
     GivesWay, Merge!GivesWay, Merge!IsNone, IsNone,
     Merge!Unchanged, Merge!IsLeaf, Merge!IsDir, IsLeaf, IsDir, Merge!Above,
     Above, Merge!UpTo, UpTo, Merge!NodePath, NodePath
<1>3. ASSUME NEW q \in NodePath, ~IsDir(M[q]), Makes(lower, M, N, UpTo(q))
      PROVE  Merge!MakeDir(q)
  <2>1. UpTo(q) = Above(q) \cup {q}
    BY UpToIsAboveAndSelf
  <2>2. QED
    BY <1>3, <2>1 DEF Makes, DirsMade, KeptOutside, Merge!MakeDir,
       Merge!ParentsMade, GivesWay, Merge!GivesWay, Merge!IsNone, IsNone,
       Merge!Unchanged, Merge!IsDir, IsDir, Merge!Above, Above, Merge!UpTo, UpTo,
       Merge!NodePath, NodePath
<1>4. ASSUME NEW q \in NodePath, Changes(M, N, q)
      PROVE  Merge!ChangeMode(q)
  BY <1>4 DEF Changes, KeptOutside, Merge!ChangeMode, Merge!Unchanged,
     Merge!IsNone, IsNone, Merge!NodePath, NodePath
<1>5. ASSUME NEW q \in NodePath, Removes(M, N, q)
      PROVE  Merge!Remove(q)
  BY <1>5 DEF Removes, KeptOutside, Merge!Remove, Merge!Unchanged, Merge!IsNone,
     IsNone, Merge!Subtree, Subtree, Merge!StartsWith, StartsWith,
     Merge!NodePath, NodePath
<1>6. ASSUME NEW s \in NodePath, NEW q \in NodePath, Moves(lower, M, N, s, q)
      PROVE  Merge!Move(s, q)
  BY <1>6 DEF Moves, KeptOutside, DirsMade, Merge!Move, Merge!Unchanged,
     Merge!ParentsMade, GivesWay, Merge!GivesWay, Merge!Above, Above, Merge!UpTo,
     UpTo, Merge!IsNone, IsNone, Merge!IsDir, IsDir, Merge!Subtree, Subtree,
     Merge!Below, Below,
     Merge!StartsWith, StartsWith, Merge!NodePath, NodePath, Merge!At, At,
     Merge!Root, Root, Merge!Dir, Dir, Merge!None, None, Merge!Rebase, Rebase
<1>7. ASSUME \A p \in NodePath : Merge!EqualButMode(N[p], M[p])
      PROVE  Merge!Reconcile
  BY <1>7 DEF Merge!Reconcile, Merge!NodePath, NodePath
<1>8. Merge!NodePath = NodePath
  BY DEF Merge!NodePath, NodePath
<1>v. ViewStep(lower, M, N)
  OBVIOUS
<1> HIDE DEF M, N
<1>9. N = M \/ Merge!MergedNext
  <2>1. CASE EntryStep(lower, M, N)
    BY <1>2, <1>3, <1>4, <1>5, <1>8, <2>1 DEF EntryStep, Merge!MergedNext
  <2>2. CASE MoveStep(lower, M, N)
    BY <1>6, <1>8, <2>2 DEF MoveStep, Merge!MergedNext
  <2>3. CASE ModeStep(M, N)
    BY <1>7, <2>3 DEF ModeStep, Merge!MergedNext
  <2>4. QED
    BY <1>v, <2>1, <2>2, <2>3 DEF ViewStep
<1>10. QED
  BY <1>9 DEF M, N

(***************************************************************************)
(* Making directories changes the view at the directories made only.       *)
(***************************************************************************)
\* The places directories are made at: no leaf of the tree and no link is there.
Buildable(d, t, S) ==
  Makeable(t, S) /\ \A r \in S : ~IsSymlink(lstat_overlay(d, t, r))

\* What shows where the tree has no leaf is a directory, or an entry of the disk.
LEMMA NoLeafGivesWay ==
  ASSUME NEW d \in Disk, NEW t, Good(t), NEW r \in NodePath, ~IsLeaf(t[r])
  PROVE  GivesWay(d, lstat_overlay(d, t, r))
<1>1. CASE lstat_overlay(d, t, r) = lstat_lower(d, r)
  <2>1. CASE lstat_lower(d, r) = None
    BY <1>1, <2>1, TypeNames DEF GivesWay
  <2>2. CASE lstat_lower(d, r) # None
    <3>1. lstat_lower(d, r) = At(d, Walk(d, r, FALSE))
      BY <2>2 DEF lstat_lower, Entry
    <3>2. CASE Walk(d, r, FALSE) = Root
      BY <1>1, <3>1, <3>2 DEF At, Dir, IsDir, GivesWay
    <3>3. CASE Walk(d, r, FALSE) # Root
      BY <1>1, <2>2, <3>1, <3>3 DEF At, GivesWay
    <3>4. QED
      BY <3>2, <3>3
  <2>3. QED
    BY <2>1, <2>2
<1>2. CASE lstat_overlay(d, t, r) = None
  BY <1>2, TypeNames DEF GivesWay
<1>3. CASE lstat_overlay(d, t, r) = t[r] /\ ~IsNone(t[r]) /\ ~IsWhiteout(t[r])
  <2>1. IsDir(t[r])
    BY <1>3, NodeOfTree, TypeNames
  <2>2. QED
    BY <1>3, <2>1 DEF GivesWay
<1>4. QED
  BY <1>1, <1>2, <1>3, OverlayIs

\* Nothing shows below a place where a directory can be made and none shows.
LEMMA NothingUnder ==
  ASSUME NEW d \in Disk, Rooted(d), NEW t, Good(t), NEW r \in NodePath,
         ~IsLeaf(t[r]), ~IsSymlink(lstat_overlay(d, t, r)),
         ~IsDir(lstat_overlay(d, t, r)), NEW x \in NodePath, r \in Above(x)
  PROVE  lstat_overlay(d, t, x) = None
<1>1. CASE Covered(t, r) \/ IsWhiteout(t[r])
  <2>1. Covered(t, x)
    BY <1>1, AboveTransitive DEF Covered
  <2>2. QED
    BY <2>1, OverlayIs
<1>2. CASE ~Covered(t, r) /\ IsNone(t[r])
  <2>1. lstat_overlay(d, t, r) = lstat_lower(d, r) /\ r \in Seq(Name) /\ x \in Seq(Name)
    BY <1>2, OverlayIs, TypeNames, NodePathType
  <2>2. lstat_lower(d, r) \in DiskNode
    BY LowerAnswers
  <2>3. IsNone(lstat_lower(d, r)) \/ IsFile(lstat_lower(d, r))
    BY <2>1, <2>2, DiskKinds
  <2>4. lstat_lower(d, x) = None
    BY <2>1, <2>3, NothingInLower
  <2>5. IsNone(t[x])
    BY <1>2, TypeNames DEF Good, TreeWF, Rooted
  <2>6. QED
    BY <2>4, <2>5, OverlayIs
<1>3. CASE IsDir(t[r])
  <2>1. ~Covered(t, r)
    BY <1>3, TypeNames DEF Covered, Good, TreeWF, Rooted
  <2>2. lstat_overlay(d, t, r) = t[r]
    BY <1>3, <2>1, OverlayIs, TypeNames
  <2>3. QED
    BY <1>3, <2>2
<1>4. QED
  BY <1>1, <1>2, <1>3, NodeOfTree, TypeNames

\* Directories made where no link is in the way: they show, and nothing else changed.
LEMMA MakesView ==
  ASSUME NEW d \in Disk, Rooted(d), NEW t, Good(t), NEW S, Buildable(d, t, S)
  PROVE  Makes(d, Merged(d, t), Merged(d, Ensured(d, t, S)), S)
<1> DEFINE u == Ensured(d, t, S)
           M == Merged(d, t)
           N == Merged(d, u)
<1>1. Good(u) /\ S \subseteq NodePath /\ Makeable(t, S)
  BY EnsuredGood DEF Makeable, Buildable
<1>2. ASSUME NEW r \in S
      PROVE  IsDir(lstat_overlay(d, u, r))
             /\ (IsDir(lstat_overlay(d, t, r)) =>
                   lstat_overlay(d, u, r) = lstat_overlay(d, t, r))
  BY <1>1, EnsuredDirs
<1>3. ASSUME NEW x \in NodePath, x \notin S
      PROVE  lstat_overlay(d, u, x) = lstat_overlay(d, t, x)
  BY <1>1, <1>3, NodePathType, EnsuredElsewhere
<1>4. \A x \in NodePath : \A r \in Above(x) : r \in NodePath
  BY AboveType
<1> HIDE DEF u
<1>5. Reaches(d, t) \subseteq Reaches(d, u)
  BY <1>2, <1>3 DEF Reaches
<1>6. ASSUME NEW r \in S
      PROVE  /\ IsDir(N[r]) /\ (IsDir(M[r]) => N[r] = M[r])
             /\ GivesWay(d, M[r])
  <2>1. r \in NodePath /\ Above(r) \subseteq S
    BY <1>1, <1>6 DEF Makeable
  <2>2. Above(r) \subseteq Reaches(d, u)
    BY <1>1, <1>2, <2>1 DEF Reaches
  <2>3. N[r] = lstat_overlay(d, u, r)
    BY <2>1, <2>2, MergedIs
  <2>4. M[r] = lstat_overlay(d, t, r) \/ M[r] = None
    BY <2>1, MergedIs
  <2>5. ~IsLeaf(t[r])
    BY <1>1, <1>6 DEF Makeable
  <2>6. GivesWay(d, lstat_overlay(d, t, r)) /\ GivesWay(d, None)
    BY <2>1, <2>5, NoLeafGivesWay, TypeNames DEF GivesWay
  <2>7. QED
    BY <1>2, <1>6, <2>3, <2>4, <2>6, TypeNames
<1>7. ASSUME NEW x \in NodePath, x \notin S
      PROVE  N[x] = M[x]
  <2>1. CASE Above(x) \subseteq Reaches(d, t)
    <3>1. Above(x) \subseteq Reaches(d, u)
      BY <1>5, <2>1
    <3>2. QED
      BY <1>3, <1>7, <2>1, <3>1, MergedIs
  <2>2. CASE ~(Above(x) \subseteq Reaches(d, t)) /\ Above(x) \subseteq Reaches(d, u)
    <3>1. PICK r \in Above(x) : r \notin Reaches(d, t)
      BY <2>2
    <3>2. r \in NodePath
      BY <1>4
    <3>3. r \in S
      BY <1>3, <2>2, <3>1, <3>2 DEF Reaches
    <3>4. /\ ~IsLeaf(t[r]) /\ ~IsSymlink(lstat_overlay(d, t, r))
          /\ ~IsDir(lstat_overlay(d, t, r))
      BY <3>1, <3>2, <3>3 DEF Buildable, Makeable, Reaches
    <3>5. lstat_overlay(d, t, x) = None
      BY <3>2, <3>4, NothingUnder
    <3>6. QED
      BY <1>3, <1>7, <2>2, <3>5, MergedIs
  <2>3. CASE ~(Above(x) \subseteq Reaches(d, t)) /\ ~(Above(x) \subseteq Reaches(d, u))
    BY <2>3, MergedIs
  <2>4. QED
    BY <2>1, <2>2, <2>3
<1>8. QED
  BY <1>6, <1>7 DEF Makes, DirsMade, KeptOutside, u

\* Two trees of the same view at every path show the same view.
LEMMA SameViews ==
  ASSUME NEW d, NEW t, NEW u, KeptOutside(Merged(d, t), Merged(d, u), {})
  PROVE  Merged(d, u) = Merged(d, t)
BY DEF KeptOutside, Merged

\* Directories made down to one place are a step of the one tree.
LEMMA MakesIsStep ==
  ASSUME NEW d \in Disk, NEW t, NEW u, NEW q \in Path,
         Makes(d, Merged(d, t), Merged(d, u), UpTo(q)),
         \A r \in Above(q) : IsDir(Merged(d, t)[q]) => IsDir(Merged(d, t)[r])
  PROVE  ViewStep(d, Merged(d, t), Merged(d, u))
<1> DEFINE M == Merged(d, t)
           N == Merged(d, u)
<1>1. CASE q = Root
  <2>1. UpTo(q) = {}
    BY <1>1 DEF UpTo, Root
  <2>2. N = M
    BY <2>1, SameViews DEF Makes
  <2>3. QED
    BY <2>2 DEF ViewStep
<1>2. CASE q \in NodePath /\ ~IsDir(M[q])
  BY <1>2 DEF ViewStep, EntryStep
<1>3. CASE q \in NodePath /\ IsDir(M[q])
  <2>1. UpTo(q) = Above(q) \cup {q}
    BY <1>3, UpToIsAboveAndSelf
  <2>2. \A r \in UpTo(q) : IsDir(M[r])
    BY <1>3, <2>1
  <2>3. KeptOutside(M, N, {})
    BY <2>2 DEF Makes, DirsMade, KeptOutside
  <2>4. N = M
    BY <2>3, SameViews
  <2>5. QED
    BY <2>4 DEF ViewStep
<1>4. QED
  BY <1>1, <1>2, <1>3 DEF Path

(***************************************************************************)
(* A file or a link attached, its parents made first.                      *)
(***************************************************************************)
\* What a script sees lies in directories it sees.
LEMMA MergedRooted ==
  ASSUME NEW d, NEW t, NEW p \in NodePath, ~IsNone(Merged(d, t)[p])
  PROVE  /\ \A r \in Above(p) : /\ IsDir(Merged(d, t)[r]) /\ r \in NodePath
                                /\ IsDir(lstat_overlay(d, t, r))
         /\ Merged(d, t)[p] = lstat_overlay(d, t, p)
<1>1. Above(p) \subseteq Reaches(d, t) /\ Merged(d, t)[p] = lstat_overlay(d, t, p)
  BY MergedIs, TypeNames
<1>2. ASSUME NEW r \in Above(p)
      PROVE  /\ IsDir(Merged(d, t)[r]) /\ r \in NodePath
             /\ IsDir(lstat_overlay(d, t, r))
  <2>1. r \in NodePath /\ IsDir(lstat_overlay(d, t, r))
    BY <1>1 DEF Reaches
  <2>2. Above(r) \subseteq Reaches(d, t)
    BY <1>1, AboveTransitive
  <2>3. QED
    BY <2>1, <2>2, MergedIs
<1>3. QED
  BY <1>1, <1>2

\* A leaf comes to be in place of what is no directory.
Lands(M, N, q, n) ==
  N[q] = n /\ IsLeaf(n) /\ ~IsDir(M[q]) /\ KeptOutside(M, N, {q})

\* A leaf put in a directory of the tree, where no directory shows.
LEMMA WithLeafView ==
  ASSUME NEW d \in Disk, NEW t, Good(t), NEW q \in NodePath, NEW n \in LeafNode,
         ~IsDir(t[q]), \A r \in Above(q) : IsDir(t[r]),
         ~IsDir(lstat_overlay(d, t, q))
  PROVE  /\ Lands(Merged(d, t), Merged(d, With(t, q, n)), q, n)
         /\ \A x \in NodePath : x # q /\ q \notin Above(x) =>
              lstat_overlay(d, With(t, q, n), x) = lstat_overlay(d, t, x)
<1> DEFINE u == With(t, q, n)
<1>1. Good(u) /\ u[q] = n /\ \A x \in NodePath : x # q => u[x] = t[x]
  BY WithLeafGood DEF With
<1>2. IsLeaf(n) /\ IsContent(n) /\ ~IsDir(n) /\ ~IsNone(n) /\ ~IsWhiteout(n)
  BY NodeTypes, TypeNames
<1> HIDE DEF u
<1>3. ASSUME NEW x \in NodePath, x # q, q \notin Above(x)
      PROVE  lstat_overlay(d, u, x) = lstat_overlay(d, t, x)
  <2>1. \A r \in Above(x) : r \in NodePath /\ r # q
    BY <1>3, AboveType
  <2>2. Covered(u, x) <=> Covered(t, x)
    BY <1>1, <2>1 DEF Covered
  <2>3. QED
    BY <1>1, <1>3, <2>2, OverlayIs
<1>4. q \notin Above(q)
  BY AboveType, NodePathType
<1>5. \A r \in Above(q) : r \in NodePath /\ r # q /\ IsDir(u[r])
  BY <1>1, <1>4, AboveType
<1>6. ~Covered(u, q)
  BY <1>5, TypeNames DEF Covered
<1>7. lstat_overlay(d, u, q) = n
  BY <1>1, <1>2, <1>6, OverlayIs
<1>8. Above(q) \subseteq Reaches(d, u)
  <2>1. ASSUME NEW r \in Above(q)
        PROVE  r \in NodePath /\ IsDir(lstat_overlay(d, u, r))
    <3>1. ~Covered(u, r)
      BY <1>5, <2>1, TypeNames, AboveTransitive DEF Covered
    <3>2. QED
      BY <1>1, <1>5, <2>1, <3>1, OverlayIs, TypeNames
  <2>2. QED
    BY <2>1 DEF Reaches
<1>9. Merged(d, u)[q] = n
  BY <1>7, <1>8, MergedIs
<1>10. ~IsDir(Merged(d, t)[q])
  BY MergedIs, TypeNames
<1>11. ASSUME NEW x \in NodePath, x # q
       PROVE  Merged(d, u)[x] = Merged(d, t)[x]
  <2>1. CASE q \in Above(x)
    <3>1. q \notin Reaches(d, t) /\ q \notin Reaches(d, u)
      BY <1>2, <1>7 DEF Reaches
    <3>2. QED
      BY <2>1, <3>1, MergedIs
  <2>2. CASE q \notin Above(x)
    <3>1. \A r \in Above(x) : r \in NodePath /\ r # q /\ q \notin Above(r)
      BY <2>2, AboveType, AboveTransitive
    <3>2. \A r \in Above(x) : r \in Reaches(d, u) <=> r \in Reaches(d, t)
      BY <1>3, <3>1 DEF Reaches
    <3>3. QED
      BY <1>3, <1>11, <2>2, <3>2, MergedIs
  <2>3. QED
    BY <2>1, <2>2
<1>12. QED
  BY <1>2, <1>3, <1>9, <1>10, <1>11 DEF u, KeptOutside, Lands

\* What ensure_dirs does to the view at a path that is not through a link.
LEMMA EnsureDirsView ==
  ASSUME NEW d \in Disk, Rooted(d), NEW t, Good(t), NEW q, Clean(d, t, q),
         NEW r, r = ensure_dirs(t, q, lower_mode_of(d), lower_entries_of(d))
  PROVE  \/ ~Succeeds(r) /\ r.tree = t
         \/ /\ Succeeds(r) /\ q \in Path /\ UpTo(q) \subseteq NodePath
            /\ Buildable(d, t, UpTo(q)) /\ r.tree = Ensured(d, t, UpTo(q))
<1>1. CASE q \in Path /\ ~\E z \in UpTo(q) : IsLeaf(t[z])
  <2>1. r = Ok(Ensured(d, t, UpTo(q)))
    BY <1>1 DEF ensure_dirs, Ensured
  <2>2. CASE q = Root
    <3>1. UpTo(q) = {}
      BY <2>2 DEF UpTo, Root
    <3>2. QED
      BY <1>1, <2>1, <3>1 DEF Ok, Succeeds, Buildable, Makeable
  <2>3. CASE q \in NodePath
    <3>1. UpTo(q) = Above(q) \cup {q} /\ \A z \in Above(q) : z \in NodePath
      BY <2>3, UpToIsAboveAndSelf, AboveType
    <3>2. \A z \in UpTo(q) : Above(z) \subseteq UpTo(q)
      BY <2>3, <3>1, AboveTransitive
    <3>3. \A z \in UpTo(q) : ~IsSymlink(lstat_overlay(d, t, z))
      BY <3>1 DEF Clean, Straight
    <3>4. Buildable(d, t, UpTo(q)) /\ UpTo(q) \subseteq NodePath
      BY <1>1, <2>3, <3>1, <3>2, <3>3 DEF Buildable, Makeable
    <3>5. QED
      BY <1>1, <2>1, <3>4 DEF Ok, Succeeds
  <2>4. QED
    BY <1>1, <2>2, <2>3 DEF Path
<1>2. CASE ~(q \in Path /\ ~\E z \in UpTo(q) : IsLeaf(t[z]))
  BY <1>2 DEF ensure_dirs, Fail, Succeeds
<1>3. QED
  BY <1>1, <1>2

\* A directory made at a path, with those above it.
LEMMA EnsurePathView ==
  ASSUME NEW d \in Disk, Rooted(d), NEW t, Good(t), NEW q, Clean(d, t, q),
         NEW r, r = ensure_upper_dir_path(d, t, q)
  PROVE  \/ ~Succeeds(r) /\ r.tree = t
         \/ /\ Succeeds(r) /\ q \in Path /\ UpTo(q) \subseteq NodePath
            /\ Buildable(d, t, UpTo(q)) /\ r.tree = Ensured(d, t, UpTo(q))
<1>1. q \in Seq(Name) /\ Arrived(d, t, TRUE, q)
  BY DEF Clean, Straight, Arrived
<1>2. resolve_write_target(d, t, q, TRUE) = Resolved(q)
  BY <1>1, TargetOfArrived
<1>3. Resolved(q).err = "ok" /\ Resolved(q).path = q
  BY DEF Resolved
<1>4. r = ensure_dirs(t, q, lower_mode_of(d), lower_entries_of(d))
  BY <1>2, <1>3 DEF ensure_upper_dir_path
<1>5. QED
  BY <1>4, EnsureDirsView

\* What the parents made for a new entry leave to see.
LEMMA EnsureParentView ==
  ASSUME NEW d \in Disk, Rooted(d), NEW t, Good(t), NEW q, Straight(d, t, q),
         NEW a, a = EnsureParent(d, t, q)
  PROVE  /\ Good(a.tree)
         /\ ~Succeeds(a) => a.tree = t
         /\ Succeeds(a) => /\ Makes(d, Merged(d, t), Merged(d, a.tree), Above(q))
                           /\ ViewStep(d, Merged(d, t), Merged(d, a.tree))
                           /\ \A x \in Seq(Name) :
                                x \notin Above(q)
                                /\ (x \in NodePath \/ ~IsNone(lstat_overlay(d, t, x)))
                                => lstat_overlay(d, a.tree, x) = lstat_overlay(d, t, x)
<1>1. Good(a.tree) /\ q \in Seq(Name)
  BY EnsureGood DEF Straight
<1>2. CASE Len(q) <= 1
  <2>1. a = Ok(t) /\ Above(q) = {}
    BY <1>1, <1>2 DEF EnsureParent, Above
  <2>2. a.tree = t
    BY <2>1 DEF Ok
  <2>3. QED
    BY <1>1, <2>1, <2>2 DEF Makes, DirsMade, KeptOutside, ViewStep
<1>3. CASE Len(q) > 1
  <2>1. Clean(d, t, Parent(q)) /\ Parent(q) # Root /\ UpTo(Parent(q)) = Above(q)
    BY <1>1, <1>3, ParentPath, StraightAbove
  <2>2. a = ensure_upper_dir_path(d, t, Parent(q))
    BY <1>1, <1>3 DEF EnsureParent
  <2>3. \/ ~Succeeds(a) /\ a.tree = t
        \/ /\ Succeeds(a) /\ Parent(q) \in Path /\ Above(q) \subseteq NodePath
           /\ Buildable(d, t, Above(q)) /\ a.tree = Ensured(d, t, Above(q))
    BY <2>1, <2>2, EnsurePathView
  <2>4. ASSUME Succeeds(a)
        PROVE  /\ Makes(d, Merged(d, t), Merged(d, a.tree), Above(q))
               /\ ViewStep(d, Merged(d, t), Merged(d, a.tree))
               /\ \A x \in Seq(Name) :
                    x \notin Above(q)
                    /\ (x \in NodePath \/ ~IsNone(lstat_overlay(d, t, x)))
                    => lstat_overlay(d, a.tree, x) = lstat_overlay(d, t, x)
    <3>1. /\ Parent(q) \in NodePath /\ Buildable(d, t, Above(q))
          /\ a.tree = Ensured(d, t, Above(q)) /\ Parent(q) \in Path
      BY <2>1, <2>3, <2>4 DEF Path
    <3>2. Makes(d, Merged(d, t), Merged(d, a.tree), Above(q))
      BY <3>1, MakesView
    <3>3. \A r \in Above(Parent(q)) : IsDir(Merged(d, t)[Parent(q)]) =>
                                        IsDir(Merged(d, t)[r])
      BY <3>1, MergedRooted, TypeNames
    <3>4. ViewStep(d, Merged(d, t), Merged(d, a.tree))
      BY <2>1, <3>1, <3>2, <3>3, MakesIsStep
    <3>5. \A x \in Seq(Name) :
            x \notin Above(q)
            /\ (x \in NodePath \/ ~IsNone(lstat_overlay(d, t, x)))
            => lstat_overlay(d, a.tree, x) = lstat_overlay(d, t, x)
      BY <3>1, EnsuredElsewhere DEF Buildable
    <3>6. QED
      BY <3>2, <3>4, <3>5
  <2>5. QED
    BY <1>1, <2>3, <2>4
<1>4. QED
  BY <1>1, <1>2, <1>3

\* What attaching leaves: the leaf put where it should be, or parents for it.
Attaches(d, t, r, q, n) ==
  \/ /\ Succeeds(r) /\ q \in NodePath /\ Good(r.tree)
     /\ Puts(d, Merged(d, t), Merged(d, r.tree), q, n)
  \/ ~Succeeds(r) /\ ViewStep(d, Merged(d, t), Merged(d, r.tree))

\* A leaf attached below its parents, made where missing: it shows at its place and
\* nothing else changed, or the call fails having made at most the parents.
LEMMA AttachView ==
  ASSUME NEW d \in Disk, Rooted(d), NEW t, Good(t), NEW q, Straight(d, t, q),
         NEW n \in LeafNode, ~IsDir(lstat_overlay(d, t, q)),
         NEW a, a = EnsureParent(d, t, q), NEW r, r = AttachAfter(a, q, n)
  PROVE  Attaches(d, t, r, q, n)
<1> DEFINE M == Merged(d, t)
<1>1. /\ Good(a.tree)
      /\ ~Succeeds(a) => a.tree = t
      /\ Succeeds(a) => /\ Makes(d, M, Merged(d, a.tree), Above(q))
                        /\ ViewStep(d, M, Merged(d, a.tree))
                        /\ \A x \in Seq(Name) :
                             x \notin Above(q)
                             /\ (x \in NodePath \/ ~IsNone(lstat_overlay(d, t, x)))
                             => lstat_overlay(d, a.tree, x) = lstat_overlay(d, t, x)
  BY EnsureParentView
<1>2. CASE ~Succeeds(a)
  <2>1. r = a /\ a.tree = t
    BY <1>1, <1>2 DEF AttachAfter, Then
  <2>2. QED
    BY <1>2, <2>1 DEF Attaches, ViewStep
<1>3. CASE Succeeds(a)
  <2>1. r = attach(a.tree, q, n)
    BY <1>3 DEF AttachAfter, Then
  <2>2. CASE q \in NodePath /\ (\A z \in Above(q) : IsContent(a.tree[z]))
             /\ (\A z \in Above(q) : ~IsLeaf(a.tree[z])) /\ ~IsDir(a.tree[q])
    <3>1. r = Ok(With(a.tree, q, n))
      BY <2>1, <2>2 DEF attach
    <3>2. \A z \in Above(q) : IsDir(a.tree[z])
      BY <2>2, TypeNames
    <3>3. q \in Seq(Name) /\ q \notin Above(q)
      BY <2>2, AboveType, NodePathType
    <3>4. ~IsDir(lstat_overlay(d, a.tree, q))
      BY <1>1, <1>3, <2>2, <3>3
    <3> DEFINE v == a.tree
               L == Merged(d, v)
               N == Merged(d, With(v, q, n))
    <3>a. /\ Good(v) /\ q \in NodePath /\ ~IsDir(v[q])
          /\ (\A z \in Above(q) : IsDir(v[z])) /\ ~IsDir(lstat_overlay(d, v, q))
      BY <1>1, <2>2, <3>2, <3>4
    <3> HIDE DEF v
    <3>b. Lands(L, N, q, n)
      BY <3>a, WithLeafView
    <3>5. /\ N[q] = n /\ IsLeaf(n) /\ ~IsDir(L[q]) /\ KeptOutside(L, N, {q})
      BY <3>b DEF Lands
    <3> USE DEF v
    <3>6. Makes(d, M, L, Above(q))
      BY <1>1, <1>3
    <3>7. \A z \in Above(q) : z \in NodePath /\ z # q
      BY <2>2, <3>3, AboveType
    <3>8. UpTo(q) = Above(q) \cup {q}
      BY <2>2, UpToIsAboveAndSelf
    <3> HIDE DEF L, N, M
    <3>9. L[q] = M[q]
      BY <2>2, <3>3, <3>6 DEF Makes, KeptOutside
    <3>10. DirsMade(d, M, N, Above(q)) /\ KeptOutside(M, N, UpTo(q))
      BY <3>5, <3>6, <3>7, <3>8 DEF Makes, DirsMade, KeptOutside
    <3>11. Puts(d, M, N, q, n)
      BY <3>5, <3>9, <3>10 DEF Puts
    <3>12. Good(With(a.tree, q, n))
      BY <1>1, <2>2, <3>2, WithLeafGood
    <3>13. QED
      BY <2>2, <3>1, <3>11, <3>12 DEF Attaches, Ok, Succeeds, M, N
  <2>3. CASE ~(q \in NodePath /\ (\A z \in Above(q) : IsContent(a.tree[z]))
             /\ (\A z \in Above(q) : ~IsLeaf(a.tree[z])) /\ ~IsDir(a.tree[q]))
    <3>1. ~Succeeds(r) /\ r.tree = a.tree
      BY <2>1, <2>3 DEF attach, Fail, Succeeds
    <3>2. QED
      BY <1>1, <1>3, <3>1 DEF Attaches
  <2>4. QED
    BY <2>2, <2>3
<1>4. QED
  BY <1>2, <1>3

\* Either outcome of attaching is a step of the one tree.
LEMMA AttachesIsStep ==
  ASSUME NEW d, NEW t, NEW r, NEW q, NEW n, Attaches(d, t, r, q, n)
  PROVE  ViewStep(d, Merged(d, t), Merged(d, r.tree))
BY DEF Attaches, ViewStep, EntryStep

(***************************************************************************)
(* A subtree hidden: by a whiteout, or, where the lower layer has nothing  *)
(* to hide, by dropping it.                                                *)
(***************************************************************************)
\* A view can change only where the overlay shows something else, or below.
LEMMA SameOutside ==
  ASSUME NEW d, NEW t, NEW u, NEW T,
         \A x \in NodePath : x \notin T =>
           /\ lstat_overlay(d, u, x) = lstat_overlay(d, t, x)
           /\ \A r \in Above(x) : r \notin T
  PROVE  KeptOutside(Merged(d, t), Merged(d, u), T)
<1>1. ASSUME NEW x \in NodePath, x \notin T
      PROVE  Merged(d, u)[x] = Merged(d, t)[x]
  <2>1. \A r \in Above(x) : r \in NodePath /\ r \notin T
    BY <1>1, AboveType
  <2>2. \A r \in Above(x) : r \in Reaches(d, u) <=> r \in Reaches(d, t)
    BY <2>1 DEF Reaches
  <2>3. QED
    BY <1>1, <2>2, MergedIs
<1>2. QED
  BY <1>1 DEF KeptOutside

\* A directory of the lower layer and the one made in its place look the same.
LEMMA ScaffoldShows ==
  ASSUME NEW d \in Disk, NEW x \in NodePath, IsDir(lstat_lower(d, x))
  PROVE  Dir(lower_mode_of(d)[x]) = lstat_lower(d, x)
<1> DEFINE n == lstat_lower(d, x)
<1>1. n \in DiskNode /\ x \in Seq(Name)
  BY LowerAnswers, NodePathType
<1>2. stat_lower(d, x) = n
  BY <1>1, StatSame, TypeNames
<1>3. lower_mode_of(d)[x] = n.mode
  BY <1>2 DEF lower_mode_of, ModeOr
<1>4. n = Dir(n.mode)
  BY <1>1, DirIs
<1>5. QED
  BY <1>3, <1>4

\* A whiteout where something shows hides it with all below, and nothing else.
LEMMA WhiteoutView ==
  ASSUME NEW d \in Disk, Rooted(d), NEW t, Good(t), NEW s \in NodePath,
         ~IsNone(Merged(d, t)[s]), NEW u, u = put_whiteout(t, s, lower_mode_of(d))
  PROVE  /\ \A x \in Subtree(s) : IsNone(Merged(d, u)[x])
         /\ KeptOutside(Merged(d, t), Merged(d, u), Subtree(s))
<1>1. Good(u)
  BY ProbeType, put_whiteoutGood
<1>2. \A r \in Above(s) : r \in NodePath /\ IsDir(lstat_overlay(d, t, r))
  BY MergedRooted
<1>3. \A r \in Above(s) : IsDir(t[r]) \/ IsNone(t[r])
  BY <1>2, DirCovers
<1>4. u = [q \in NodePath |->
             IF q = s THEN Whiteout
             ELSE IF q \in Below(s) THEN None
             ELSE IF q \in Above(s) /\ IsNone(t[q]) THEN Dir(lower_mode_of(d)[q])
             ELSE t[q]]
  BY <1>3 DEF put_whiteout
<1>5. ASSUME NEW x \in Subtree(s)
      PROVE  IsNone(Merged(d, u)[x])
  <2>1. x \in NodePath /\ (x = s \/ s \in Above(x))
    BY SubtreeIsSelfAndBelow, BelowIsAbove DEF Subtree
  <2>2. u[s] = Whiteout
    BY <1>4
  <2>3. Covered(u, x) \/ IsWhiteout(u[x])
    BY <2>1, <2>2, TypeNames DEF Covered
  <2>4. lstat_overlay(d, u, x) = None
    BY <1>1, <2>1, <2>3, OverlayIs
  <2>5. QED
    BY <2>1, <2>4, MergedIs, TypeNames
<1>6. ASSUME NEW x \in NodePath, x \notin Subtree(s)
      PROVE  /\ lstat_overlay(d, u, x) = lstat_overlay(d, t, x)
             /\ \A r \in Above(x) : r \notin Subtree(s)
  <2>1. x # s /\ x \notin Below(s) /\ \A r \in Above(x) : r \notin Subtree(s)
    BY <1>6, OutsideSubtree
  <2>2. \A r \in Above(x) : r \in NodePath /\ r # s /\ r \notin Below(s)
    BY <2>1, AboveType, OutsideSubtree
  <2>3. \A r \in Above(x) \cup {x} :
          \/ u[r] = t[r]
          \/ r \in Above(s) /\ IsNone(t[r]) /\ u[r] = Dir(lower_mode_of(d)[r])
    BY <1>4, <1>6, <2>1, <2>2
  <2>4. \A r \in Above(x) : IsLeaf(u[r]) \/ IsWhiteout(u[r]) <=>
                            IsLeaf(t[r]) \/ IsWhiteout(t[r])
    <3>1. \A m : ~IsLeaf(Dir(m)) /\ ~IsWhiteout(Dir(m))
      BY DEF IsLeaf, IsWhiteout, Dir
    <3>2. QED
      BY <2>3, <3>1, TypeNames
  <2>5. Covered(u, x) <=> Covered(t, x)
    BY <2>4 DEF Covered
  <2>6. CASE u[x] = t[x]
    BY <1>1, <1>6, <2>1, <2>5, <2>6, OverlayIs
  <2>7. CASE x \in Above(s) /\ IsNone(t[x]) /\ u[x] = Dir(lower_mode_of(d)[x])
    <3>1. IsDir(lstat_overlay(d, t, x))
      BY <1>2, <2>7
    <3>2. ~Covered(t, x) /\ lstat_overlay(d, t, x) = lstat_lower(d, x)
      BY <1>6, <2>7, <3>1, OverlayIs, TypeNames
    <3>3. u[x] = lstat_lower(d, x) /\ IsDir(u[x])
      BY <1>6, <2>7, <3>1, <3>2, ScaffoldShows
    <3>4. lstat_overlay(d, u, x) = u[x]
      BY <1>1, <1>6, <2>5, <3>2, <3>3, OverlayIs, TypeNames
    <3>5. QED
      BY <2>1, <3>2, <3>3, <3>4
  <2>8. QED
    BY <2>1, <2>3, <2>6, <2>7
<1>7. KeptOutside(Merged(d, t), Merged(d, u), Subtree(s))
  BY <1>6, SameOutside
<1>8. QED
  BY <1>5, <1>7

\* Dropping what the lower layer does not have hides it with all below, and nothing
\* else.
LEMMA DetachView ==
  ASSUME NEW d \in Disk, Rooted(d), NEW t, Good(t), NEW s \in NodePath,
         ~lower_exists(d, s), NEW u, u = detach(t, s)
  PROVE  /\ \A x \in Subtree(s) : IsNone(Merged(d, u)[x])
         /\ KeptOutside(Merged(d, t), Merged(d, u), Subtree(s))
<1>1. Good(u)
  BY detachGood
<1>2. u = [q \in NodePath |-> IF q \in Subtree(s) THEN None ELSE t[q]]
  BY DEF detach
<1>3. IsNone(lstat_lower(d, s)) /\ lstat_lower(d, s) = None /\ s \in Seq(Name)
  BY LowerAnswers, DiskNone, NodePathType DEF lower_exists
<1>4. ASSUME NEW x \in Subtree(s)
      PROVE  IsNone(Merged(d, u)[x])
  <2>1. x \in NodePath /\ x \in Seq(Name) /\ (x = s \/ s \in Above(x))
    BY SubtreeIsSelfAndBelow, BelowIsAbove, NodePathType DEF Subtree
  <2>2. lstat_lower(d, x) = None
    BY <1>3, <2>1, NothingInLower
  <2>3. u[x] = None
    BY <1>2, <1>4, <2>1
  <2>4. lstat_overlay(d, u, x) = None
    BY <1>1, <2>1, <2>2, <2>3, OverlayIs, TypeNames
  <2>5. QED
    BY <2>1, <2>4, MergedIs, TypeNames
<1>5. ASSUME NEW x \in NodePath, x \notin Subtree(s)
      PROVE  /\ lstat_overlay(d, u, x) = lstat_overlay(d, t, x)
             /\ \A r \in Above(x) : r \notin Subtree(s)
  <2>1. \A r \in Above(x) : r \in NodePath /\ r \notin Subtree(s)
    BY <1>5, OutsideSubtree, AboveType
  <2>2. u[x] = t[x] /\ \A r \in Above(x) : u[r] = t[r]
    BY <1>2, <1>5, <2>1
  <2>3. Covered(u, x) <=> Covered(t, x)
    BY <2>2 DEF Covered
  <2>4. QED
    BY <1>1, <1>5, <2>1, <2>2, <2>3, OverlayIs
<1>6. KeptOutside(Merged(d, t), Merged(d, u), Subtree(s))
  BY <1>5, SameOutside
<1>7. QED
  BY <1>4, <1>6

\* What is hidden is gone with all below it, and nothing else changes.
LEMMA HideView ==
  ASSUME NEW d \in Disk, Rooted(d), NEW t, Good(t), NEW s \in NodePath,
         ~IsNone(Merged(d, t)[s])
  PROVE  Removes(Merged(d, t), Merged(d, Hide(d, t, s)), s)
<1> DEFINE u == Hide(d, t, s)
<1>1. CASE lower_exists(d, s)
  <2>1. u = put_whiteout(t, s, lower_mode_of(d))
    BY <1>1 DEF Hide
  <2>2. QED
    BY <2>1, WhiteoutView DEF Removes
<1>2. CASE ~lower_exists(d, s)
  <2>1. u = detach(t, s)
    BY <1>2 DEF Hide
  <2>2. QED
    BY <1>2, <2>1, DetachView DEF Removes
<1>3. QED
  BY <1>1, <1>2

(***************************************************************************)
(* Edits of one node, and what brings a node into the tree to edit it.     *)
(***************************************************************************)
\* One node gives way to another below directories that show.
Replaced(M, N, p, m, n) ==
  /\ M[p] = m /\ N[p] = n /\ KeptOutside(M, N, {p})
  /\ \A r \in Above(p) : IsDir(M[r])

\* A node of the tree replaced by one of its kind.
LEMMA WithKindView ==
  ASSUME NEW d \in Disk, NEW t, Good(t), NEW p \in NodePath, NEW n \in UpperNode,
         IsContent(t[p]), n.type = t[p].type
  PROVE  Replaced(Merged(d, t), Merged(d, With(t, p, n)), p, t[p], n)
<1> DEFINE u == With(t, p, n)
<1>1. Good(u) /\ u[p] = n /\ \A x \in NodePath : x # p => u[x] = t[x]
  BY WithSameKindGood, TypeNames DEF With
<1>2. \A x \in NodePath : /\ IsLeaf(u[x]) <=> IsLeaf(t[x])
                          /\ IsWhiteout(u[x]) <=> IsWhiteout(t[x])
                          /\ IsNone(u[x]) <=> IsNone(t[x])
                          /\ IsDir(u[x]) <=> IsDir(t[x])
  BY <1>1 DEF IsLeaf, IsWhiteout, IsNone, IsDir
<1> HIDE DEF u
<1>3. ASSUME NEW x \in NodePath
      PROVE  Covered(u, x) <=> Covered(t, x)
  BY <1>2, AboveType DEF Covered
<1>4. ASSUME NEW x \in NodePath, x # p
      PROVE  lstat_overlay(d, u, x) = lstat_overlay(d, t, x)
  BY <1>1, <1>3, <1>4, OverlayIs
<1>5. ~Covered(t, p) /\ \A r \in Above(p) : r \in NodePath /\ IsDir(t[r])
                                            /\ ~Covered(t, r)
  <2>1. ASSUME NEW r \in Above(p)
        PROVE  r \in NodePath /\ IsDir(t[r])
    BY AboveType, TypeNames DEF Good, TreeWF, Rooted
  <2>2. \A r \in Above(p) : \A z \in Above(r) : z \in Above(p)
    BY AboveTransitive
  <2>3. QED
    BY <2>1, <2>2, TypeNames DEF Covered
<1>6. lstat_overlay(d, t, p) = t[p] /\ lstat_overlay(d, u, p) = n
  BY <1>1, <1>2, <1>3, <1>5, OverlayIs, TypeNames
<1>7. IsDir(lstat_overlay(d, u, p)) <=> IsDir(lstat_overlay(d, t, p))
  BY <1>1, <1>2, <1>6
<1>8. \A x \in NodePath : x \in Reaches(d, u) <=> x \in Reaches(d, t)
  BY <1>4, <1>7 DEF Reaches
<1>9. ASSUME NEW x \in NodePath
      PROVE  Above(x) \subseteq Reaches(d, u) <=> Above(x) \subseteq Reaches(d, t)
  BY <1>8, AboveType
<1>10. \A r \in Above(p) : r \in Reaches(d, t)
  BY <1>5, OverlayIs, TypeNames DEF Reaches
<1>11. Merged(d, t)[p] = t[p] /\ Merged(d, u)[p] = n
  BY <1>6, <1>9, <1>10, MergedIs
<1>12. ASSUME NEW x \in NodePath, x \notin {p}
       PROVE  Merged(d, u)[x] = Merged(d, t)[x]
  BY <1>4, <1>9, <1>12, MergedIs
<1>13. \A r \in Above(p) : IsDir(Merged(d, t)[r])
  BY <1>6, <1>11, MergedRooted, TypeNames
<1>14. QED
  BY <1>11, <1>12, <1>13 DEF Replaced, KeptOutside, u

\* A leaf replaced by a leaf is a leaf put.
LEMMA ReplacedLeaf ==
  ASSUME NEW d, NEW M, NEW N, NEW p \in NodePath, NEW m, NEW n,
         Replaced(M, N, p, m, n), IsLeaf(m), IsLeaf(n)
  PROVE  Puts(d, M, N, p, n)
<1>1. UpTo(p) = Above(p) \cup {p} /\ p \notin Above(p)
  BY UpToIsAboveAndSelf, AboveType, NodePathType
<1>2. \A r \in Above(p) : r \in NodePath /\ r # p
  BY <1>1, AboveType
<1>3. ~IsDir(m)
  BY TypeNames
<1>4. QED
  BY <1>1, <1>2, <1>3 DEF Replaced, Puts, DirsMade, GivesWay, KeptOutside

\* Adding to a file of the tree.
LEMMA AppendStep ==
  ASSUME NEW d \in Disk, NEW t, Good(t), NEW q, NEW c \in SUBSET Chunk,
         NEW r, r = append_file(t, q, c)
  PROVE  ViewStep(d, Merged(d, t), Merged(d, r.tree))
<1>1. CASE has_content(t, q) /\ IsFile(At(t, q))
  <2> DEFINE n == File(t[q].content \cup c, t[q].mode)
  <2>1. r.tree = With(t, q, n)
    BY <1>1 DEF append_file, Ok
  <2>2. q \in NodePath /\ IsFile(t[q]) /\ IsContent(t[q])
    BY <1>1, FoundIsNode
  <2>3. t[q] \in UpperNode \cup {None}
    BY <2>2, NodeOfTree
  <2>4. n \in LeafNode /\ n \in UpperNode /\ IsLeaf(n) /\ n.type = t[q].type
    BY <2>2, <2>3, NodeTypes, FileType DEF UpperNode, ContentNode, File, IsFile
  <2> HIDE DEF n
  <2>5. Replaced(Merged(d, t), Merged(d, With(t, q, n)), q, t[q], n)
    BY <2>2, <2>4, WithKindView
  <2>6. Puts(d, Merged(d, t), Merged(d, r.tree), q, n)
    BY <2>1, <2>2, <2>4, <2>5, ReplacedLeaf, TypeNames
  <2>7. QED
    BY <2>2, <2>6 DEF ViewStep, EntryStep
<1>2. CASE ~(has_content(t, q) /\ IsFile(At(t, q)))
  <2>1. r.tree = t
    BY <1>2 DEF append_file, Fail
  <2>2. QED
    BY <2>1 DEF ViewStep
<1>3. QED
  BY <1>1, <1>2

\* Changing a mode.
LEMMA SetModeStep ==
  ASSUME NEW d \in Disk, NEW t, Good(t), NEW q, NEW m \in Mode,
         NEW r, r = set_mode(t, q, m)
  PROVE  /\ ViewStep(d, Merged(d, t), Merged(d, r.tree))
         /\ r.tree = t \/ /\ q \in NodePath
                          /\ Replaced(Merged(d, t), Merged(d, r.tree), q,
                                      t[q], [t[q] EXCEPT !.mode = m])
                          /\ IsFile(t[q]) \/ IsDir(t[q])
<1>1. CASE has_content(t, q) /\ ~IsSymlink(At(t, q))
  <2> DEFINE n == [t[q] EXCEPT !.mode = m]
  <2>1. r.tree = With(t, q, n)
    BY <1>1 DEF set_mode, Ok
  <2>2. q \in NodePath /\ IsContent(t[q]) /\ ~IsSymlink(t[q])
    BY <1>1, FoundIsNode
  <2>3. t[q] \in UpperNode \cup {None} /\ (IsFile(t[q]) \/ IsDir(t[q]))
    BY <2>2, NodeOfTree, TypeNames
  <2>4. /\ n \in UpperNode /\ n.type = t[q].type
        /\ IsFile(t[q]) => n.content = t[q].content
    BY <2>3 DEF UpperNode, ContentNode, LeafNode, DirNode, IsFile, IsDir,
                Whiteout, None
  <2>5. ~IsSymlink(n) /\ (IsFile(n) => IsFile(t[q]))
    BY <2>2, <2>4 DEF IsSymlink, IsFile
  <2> HIDE DEF n
  <2>6. Replaced(Merged(d, t), Merged(d, With(t, q, n)), q, t[q], n)
    BY <2>2, <2>4, WithKindView
  <2>7. Merge!EqualButMode(n, t[q])
    BY <2>4, <2>5, EqualIs
  <2>8. Changes(Merged(d, t), Merged(d, r.tree), q)
    BY <2>1, <2>2, <2>6, <2>7, TypeNames DEF Changes, Replaced
  <2>9. ViewStep(d, Merged(d, t), Merged(d, r.tree))
    BY <2>2, <2>8 DEF ViewStep, EntryStep
  <2>10. QED
    BY <2>1, <2>2, <2>3, <2>6, <2>9 DEF n
<1>2. CASE ~(has_content(t, q) /\ ~IsSymlink(At(t, q)))
  <2>1. r.tree = t
    BY <1>2 DEF set_mode, Fail
  <2>2. QED
    BY <2>1 DEF ViewStep
<1>3. QED
  BY <1>1, <1>2

\* What the layers say of a path and what the overlay shows at it.
LEMMA LayerShows ==
  ASSUME NEW d \in Disk, NEW t, Good(t), NEW q \in Seq(Name)
  PROVE  /\ resolve_layer(d, t, q) = "Lower" =>
              /\ lstat_overlay(d, t, q) = lstat_lower(d, q)
              /\ ~IsNone(lstat_overlay(d, t, q))
         /\ resolve_layer(d, t, q) \notin {"Upper", "Lower"} =>
              lstat_overlay(d, t, q) = None
         /\ ~Occupied(d, t, q) => lstat_overlay(d, t, q) = None
<1>1. lstat_lower(d, q) \in DiskNode
  BY LowerAnswers
<1>2. /\ IsNone(lstat_lower(d, q)) => lstat_lower(d, q) = None
      /\ lower_exists(d, q) <=> ~IsNone(lstat_lower(d, q))
  BY <1>1, DiskNone DEF lower_exists
<1>3. descend(t, q) \in {"Blocked", "NotDir", "Missing", "Found"}
  BY DEF descend
<1>4. ASSUME resolve_layer(d, t, q) = "Lower"
      PROVE  /\ lstat_overlay(d, t, q) = lstat_lower(d, q)
             /\ ~IsNone(lstat_overlay(d, t, q))
  <2>1. descend(t, q) = "Missing" /\ lower_exists(d, q)
    BY <1>4 DEF resolve_layer
  <2>2. QED
    BY <1>2, <2>1 DEF lstat_overlay
<1>5. ASSUME ~has_content(t, q), descend(t, q) # "Missing" \/ ~lower_exists(d, q)
      PROVE  lstat_overlay(d, t, q) = None
  BY <1>2, <1>5 DEF lstat_overlay
<1>6. ASSUME resolve_layer(d, t, q) \notin {"Upper", "Lower"}
      PROVE  lstat_overlay(d, t, q) = None
  <2>1. ~has_content(t, q) /\ (is_whiteout(t, q) \/ descend(t, q) # "Missing"
                              \/ ~lower_exists(d, q))
    BY <1>6 DEF resolve_layer
  <2>2. is_whiteout(t, q) => descend(t, q) # "Missing"
    BY DEF is_whiteout, is_blocked_or_whiteout
  <2>3. QED
    BY <1>5, <2>1, <2>2
<1>7. ASSUME ~Occupied(d, t, q)
      PROVE  lstat_overlay(d, t, q) = None
  <2>1. is_whiteout(t, q) => ~has_content(t, q) /\ descend(t, q) # "Missing"
    BY TypeNames DEF is_whiteout, is_blocked_or_whiteout, has_content
  <2>2. is_whiteout(t, q) \/ (~has_content(t, q) /\ ~lower_exists(d, q))
    BY <1>7 DEF Occupied, upper_has_entry
  <2>3. QED
    BY <1>5, <2>1, <2>2
<1>8. QED
  BY <1>4, <1>6, <1>7

\* Directories made where directories show change nothing.
LEMMA MakesKnown ==
  ASSUME NEW d, NEW t, NEW u, NEW S, Makes(d, Merged(d, t), Merged(d, u), S),
         \A r \in S : IsDir(Merged(d, t)[r])
  PROVE  Merged(d, u) = Merged(d, t)
BY SameViews DEF Makes, DirsMade, KeptOutside

\* A file of the lower layer copied up looks as it did.
LEMMA CopyUpView ==
  ASSUME NEW d \in Disk, Rooted(d), NEW t, Good(t), NEW q, Clean(d, t, q),
         resolve_layer(d, t, q) = "Lower",
         NEW r, r = copy_up_if_needed(d, t, q)
  PROVE  /\ Good(r.tree) /\ ViewStep(d, Merged(d, t), Merged(d, r.tree))
         /\ Succeeds(r) => Merged(d, r.tree) = Merged(d, t)
<1> DEFINE n == stat_lower(d, q)
           a == EnsureParent(d, t, q)
<1>1. q \in Seq(Name) /\ Straight(d, t, q) /\ Good(r.tree)
  BY CopyUpGood DEF Clean, Straight
<1>2. /\ lstat_overlay(d, t, q) = lstat_lower(d, q)
      /\ ~IsSymlink(lstat_lower(d, q)) /\ ~IsNone(lstat_overlay(d, t, q))
  BY <1>1, LayerShows DEF Clean
<1>3. n = lstat_overlay(d, t, q)
  BY <1>1, <1>2, StatSame
<1>4. ~upper_has_entry(t, q)
  BY DEF resolve_layer, upper_has_entry
<1>5. r = IF IsFile(n) THEN AttachAfter(a, q, n) ELSE Then(a, Fail("IoError", a.tree))
  BY <1>4 DEF copy_up_if_needed
<1>6. CASE ~IsFile(n)
  <2>1. r.tree = a.tree /\ ~Succeeds(r)
    BY <1>5, <1>6 DEF Then, Fail, Succeeds
  <2>2. ViewStep(d, Merged(d, t), Merged(d, a.tree))
    <3>1. ~Succeeds(a) => a.tree = t
      BY <1>1, EnsureParentView
    <3>2. Succeeds(a) => ViewStep(d, Merged(d, t), Merged(d, a.tree))
      BY <1>1, EnsureParentView
    <3>3. QED
      BY <3>1, <3>2 DEF ViewStep
  <2>3. QED
    BY <1>1, <2>1, <2>2
<1>7. CASE IsFile(n)
  <2>1. n \in LeafNode /\ ~IsDir(lstat_overlay(d, t, q))
    <3>1. n \in DiskNode
      BY LowerAnswers
    <3>2. QED
      BY <1>3, <1>7, <3>1, DiskNodeTypes, TypeNames
  <2>2. r = AttachAfter(a, q, n)
    BY <1>5, <1>7
  <2>3. Attaches(d, t, r, q, n)
    BY <1>1, <2>1, <2>2, AttachView
  <2>4. ViewStep(d, Merged(d, t), Merged(d, r.tree))
    BY <2>3, AttachesIsStep
  <2>5. ASSUME Succeeds(r)
        PROVE  Merged(d, r.tree) = Merged(d, t)
    <3>1. q \in NodePath /\ Puts(d, Merged(d, t), Merged(d, r.tree), q, n)
      BY <2>3, <2>5 DEF Attaches
    <3>2. Merged(d, t)[q] = n
      BY <1>1, <1>3, <3>1, StraightMerged
    <3>3. \A z \in Above(q) : IsDir(Merged(d, t)[z])
      BY <1>2, <1>3, <3>1, <3>2, MergedRooted
    <3>4. UpTo(q) = Above(q) \cup {q}
      BY <3>1, UpToIsAboveAndSelf
    <3> HIDE DEF n
    <3>5. KeptOutside(Merged(d, t), Merged(d, r.tree), {})
      BY <3>1, <3>2, <3>3, <3>4 DEF Puts, DirsMade, KeptOutside
    <3>6. QED
      BY <3>5, SameViews
  <2>6. QED
    BY <1>1, <2>4, <2>5
<1>8. QED
  BY <1>6, <1>7

\* Bringing a node up for an edit of its metadata leaves the view as it was.
LEMMA BringUpView ==
  ASSUME NEW d \in Disk, Rooted(d), NEW t, Good(t), NEW q, Clean(d, t, q),
         NEW r, r = BringUp(d, t, q)
  PROVE  /\ Good(r.tree) /\ ViewStep(d, Merged(d, t), Merged(d, r.tree))
         /\ Succeeds(r) => Merged(d, r.tree) = Merged(d, t)
<1> DEFINE layer == resolve_layer(d, t, q)
           n == lstat_lower(d, q)
<1>1. q \in Seq(Name) /\ Good(r.tree)
  BY BringUpGood DEF Clean, Straight
<1>2. CASE q # Root /\ layer = "Lower" /\ IsFile(n)
  <2>1. r = copy_up_if_needed(d, t, q)
    BY <1>2, TypeNames DEF BringUp
  <2>2. QED
    BY <1>2, <2>1, CopyUpView
<1>3. CASE q # Root /\ layer = "Lower" /\ IsDir(n)
  <2>1. r = ensure_upper_dir_path(d, t, q)
    BY <1>3, TypeNames DEF BringUp
  <2>2. \/ ~Succeeds(r) /\ r.tree = t
        \/ /\ Succeeds(r) /\ q \in Path
           /\ Buildable(d, t, UpTo(q)) /\ r.tree = Ensured(d, t, UpTo(q))
    BY <2>1, EnsurePathView
  <2>3. CASE ~Succeeds(r) /\ r.tree = t
    BY <1>1, <2>3 DEF ViewStep
  <2>4. CASE /\ Succeeds(r) /\ q \in Path
             /\ Buildable(d, t, UpTo(q)) /\ r.tree = Ensured(d, t, UpTo(q))
    <3>1. q \in NodePath /\ UpTo(q) = Above(q) \cup {q}
      BY <1>3, <2>4, UpToIsAboveAndSelf DEF Path
    <3>2. IsDir(Merged(d, t)[q])
      BY <1>1, <1>3, <3>1, LayerShows, StraightMerged DEF Clean
    <3>3. \A z \in UpTo(q) : IsDir(Merged(d, t)[z])
      BY <3>1, <3>2, MergedRooted, TypeNames
    <3>4. Makes(d, Merged(d, t), Merged(d, r.tree), UpTo(q))
      BY <2>4, MakesView
    <3>5. Merged(d, r.tree) = Merged(d, t)
      BY <3>3, <3>4, MakesKnown
    <3>6. QED
      BY <1>1, <3>5 DEF ViewStep
  <2>5. QED
    BY <2>2, <2>3, <2>4
<1>4. CASE q = Root \/ layer # "Lower" \/ ~(IsFile(n) \/ IsDir(n))
  <2>1. r.tree = t
    BY <1>4 DEF BringUp, Ok, Fail
  <2>2. QED
    BY <1>1, <2>1 DEF ViewStep
<1>5. QED
  BY <1>2, <1>3, <1>4

(***************************************************************************)
(* resolve_path, one component at a time: a link on the way is resolved by *)
(* a call with one traversal less, and the rest of the path goes on from   *)
(* where that call ended.                                                  *)
(***************************************************************************)
Legs  == Seq(Name) \X Seq(Name) \X BOOLEAN
Trips == Seq(Name) \X Seq(Name) \X BOOLEAN \X (0..MaxHops)

Sought(r) == Append(r[1], Head(r[2]))
Led(d, t, r) == LinkTarget(r[1], lstat_overlay(d, t, Sought(r)).target)
Detours(d, t, r) ==
  IsSymlink(lstat_overlay(d, t, Sought(r))) /\ (r[3] \/ Tail(r[2]) # <<>>)
Barred(t, r) == is_whiteout(t, Sought(r)) \/ descend(t, Sought(r)) = "NotDir"
Bar(t, r) == IF is_whiteout(t, Sought(r)) THEN Unresolved("NotFound")
             ELSE Unresolved("NotADirectory")

\* What one call of resolve_path_depth answers, R answering its calls.
Answers(d, t, R, r) ==
  IF r[4] = 0 THEN Unresolved("SymlinkLoop")
  ELSE IF r[2] = <<>> THEN Resolved(r[1])
  ELSE IF is_whiteout(t, Sought(r)) THEN Unresolved("NotFound")
  ELSE IF descend(t, Sought(r)) = "NotDir" THEN Unresolved("NotADirectory")
  ELSE IF Detours(d, t, r)
  THEN IF R[<<Root, Led(d, t, r), TRUE, r[4] - 1>>].err # "ok"
       THEN R[<<Root, Led(d, t, r), TRUE, r[4] - 1>>]
       ELSE R[<<R[<<Root, Led(d, t, r), TRUE, r[4] - 1>>].path, Tail(r[2]), r[3], r[4]>>]
  ELSE R[<<Sought(r), Tail(r[2]), r[3], r[4]>>]

Resolves(d, t, R) == \A r \in Trips : R[r] = Answers(d, t, R, r)

\* The cases of resolve_path, the two refusals as one.
LEMMA AnswersBarred ==
  ASSUME NEW d, NEW t, NEW R, NEW r
  PROVE  Answers(d, t, R, r) =
    IF r[4] = 0 THEN Unresolved("SymlinkLoop")
    ELSE IF r[2] = <<>> THEN Resolved(r[1])
    ELSE IF Barred(t, r) THEN Bar(t, r)
    ELSE IF Detours(d, t, r)
    THEN IF R[<<Root, Led(d, t, r), TRUE, r[4] - 1>>].err # "ok"
         THEN R[<<Root, Led(d, t, r), TRUE, r[4] - 1>>]
         ELSE R[<<R[<<Root, Led(d, t, r), TRUE, r[4] - 1>>].path, Tail(r[2]), r[3], r[4]>>]
    ELSE R[<<Sought(r), Tail(r[2]), r[3], r[4]>>]
BY DEF Answers, Barred, Bar

\* A leg and a trip are known by their parts.
LEMMA LegIs ==
  /\ \A x \in Legs : x[1] \in Seq(Name) /\ x[2] \in Seq(Name) /\ x[3] \in BOOLEAN
                     /\ x = <<x[1], x[2], x[3]>>
  /\ \A a \in Seq(Name), b \in Seq(Name), c \in BOOLEAN :
       /\ <<a, b, c>> \in Legs /\ <<a, b, c>>[1] = a
       /\ <<a, b, c>>[2] = b /\ <<a, b, c>>[3] = c
BY DEF Legs

\* What a call of resolve_path_depth consists of.
LEMMA TripIs ==
  /\ \A x \in Trips : x[1] \in Seq(Name) /\ x[2] \in Seq(Name) /\ x[3] \in BOOLEAN
                      /\ x[4] \in 0..MaxHops /\ x = <<x[1], x[2], x[3], x[4]>>
  /\ \A a \in Seq(Name), b \in Seq(Name), c \in BOOLEAN, k \in 0..MaxHops :
       /\ <<a, b, c, k>> \in Trips /\ <<a, b, c, k>>[1] = a
       /\ <<a, b, c, k>>[2] = b /\ <<a, b, c, k>>[3] = c /\ <<a, b, c, k>>[4] = k
BY DEF Trips

\* The text of a link that shows, taken from where the link is, is a path.
LEMMA LedType ==
  ASSUME NEW d \in Disk, NEW t, Good(t), NEW r, r[1] \in Seq(Name),
         IsSymlink(lstat_overlay(d, t, Sought(r)))
  PROVE  Led(d, t, r) \in Seq(Name)
<1> DEFINE n == lstat_overlay(d, t, Sought(r))
<1>1. n \in DiskNode
  BY OverlayAnswers
<1>2. n.target \in Link
  BY <1>1 DEF DiskNode, ContentNode, LeafNode, DirNode, None, IsSymlink
<1>3. n.target.to \in Seq(Name)
  BY <1>2, NodeAssumption
<1> HIDE DEF n
<1>4. LinkTarget(r[1], n.target) \in Seq(Name)
  BY <1>3, Concat DEF LinkTarget
<1>5. QED
  BY <1>4 DEF Led, n

\* One level of the recursion, the one below it given by g.
Ends(d, t, g, x) ==
  \/ x[2] = <<>> \/ Barred(t, x)
  \/ Detours(d, t, x) /\ g[<<Root, Led(d, t, x), TRUE>>].err # "ok"
Ending(d, t, g, x) ==
  IF x[2] = <<>> THEN Resolved(x[1])
  ELSE IF Barred(t, x) THEN Bar(t, x)
  ELSE g[<<Root, Led(d, t, x), TRUE>>]
Going(d, t, g, x) ==
  IF Detours(d, t, x) THEN <<g[<<Root, Led(d, t, x), TRUE>>].path, Tail(x[2]), x[3]>>
  ELSE <<Sought(x), Tail(x[2]), x[3]>>
Level(d, t, f, g) ==
  \A x \in Legs : f[x] = IF Ends(d, t, g, x) THEN Ending(d, t, g, x)
                         ELSE f[Going(d, t, g, x)]

\* A refusal is a failure.
LEMMA BarType ==
  ASSUME NEW t, NEW r
  PROVE  Bar(t, r) \in Result /\ Bar(t, r).err # "ok"
BY ResultTypes DEF Bar, Answer

\* A call either ends with a result or goes on to another call of its level.
LEMMA LevelTypes ==
  ASSUME NEW d \in Disk, NEW t, Good(t), NEW g \in [Legs -> Result],
         NEW x \in Legs
  PROVE  /\ Ends(d, t, g, x) => Ending(d, t, g, x) \in Result
         /\ ~Ends(d, t, g, x) => Going(d, t, g, x) \in Legs
<1>1. /\ x[1] \in Seq(Name) /\ x[2] \in Seq(Name) /\ x[3] \in BOOLEAN
      /\ Root \in Seq(Name) /\ TRUE \in BOOLEAN
  BY LegIs, EmptyPath
<1>2. ASSUME Detours(d, t, x)
      PROVE  g[<<Root, Led(d, t, x), TRUE>>] \in Result
  <2>1. Led(d, t, x) \in Seq(Name)
    BY <1>1, <1>2, LedType DEF Detours
  <2>2. <<Root, Led(d, t, x), TRUE>> \in Legs
    BY <1>1, <2>1, LegIs
  <2>3. QED
    BY <2>2
<1>3. ASSUME Ends(d, t, g, x)
      PROVE  Ending(d, t, g, x) \in Result
  BY <1>1, <1>2, <1>3, BarType, ResultTypes DEF Ends, Ending
<1>4. ASSUME ~Ends(d, t, g, x)
      PROVE  Going(d, t, g, x) \in Legs
  <2>1. x[2] # <<>>
    BY <1>4 DEF Ends
  <2>2. Sought(x) \in Seq(Name) /\ Tail(x[2]) \in Seq(Name)
    BY <1>1, <2>1, PathSteps DEF Sought
  <2>3. CASE Detours(d, t, x)
    <3>1. g[<<Root, Led(d, t, x), TRUE>>].path \in Seq(Name)
      BY <1>2, <2>3 DEF Result
    <3>2. QED
      BY <1>1, <2>2, <2>3, <3>1, LegIs DEF Going
  <2>4. CASE ~Detours(d, t, x)
    BY <1>1, <2>2, <2>4, LegIs DEF Going
  <2>5. QED
    BY <2>3, <2>4
<1>5. QED
  BY <1>3, <1>4

\* The calls of one recursion depth have answers, given those of the depth below.
LEMMA LevelExists ==
  ASSUME NEW d \in Disk, NEW t, Good(t), NEW g \in [Legs -> Result]
  PROVE  \E f \in [Legs -> Result] : Level(d, t, f, g)
<1> DEFINE done == {x \in Legs : Ends(d, t, g, x)}
           nxt == [x \in Legs |-> IF Ends(d, t, g, x) THEN x ELSE Going(d, t, g, x)]
           val == [x \in Legs |-> IF Ends(d, t, g, x) THEN Ending(d, t, g, x)
                                  ELSE Unresolved("SymlinkLoop")]
<1>1. nxt \in [Legs -> Legs] /\ val \in [Legs -> Result] /\ done \in SUBSET Legs
  BY LevelTypes, ResultTypes
<1>2. PICK f : TailRecurs(f, Legs, Result, done, nxt, val)
  <2> HIDE DEF done, nxt, val
  <2> QED BY <1>1, TailRecursionExists
<1>3. f \in [Legs -> Result]
  <2> HIDE DEF done, nxt, val
  <2> QED BY <1>2 DEF TailRecurs
<1>4. \A x \in Legs : f[x] = IF Ends(d, t, g, x) THEN Ending(d, t, g, x)
                              ELSE f[Going(d, t, g, x)]
  BY <1>2 DEF TailRecurs
<1>5. QED
  BY <1>3, <1>4 DEF Level

\* The levels from none to all of the traversals allowed.
LEMMA LevelsExist ==
  ASSUME NEW d \in Disk, NEW t, Good(t)
  PROVE  \E F : /\ F \in [0..MaxHops -> [Legs -> Result]]
                /\ \A x \in Legs : F[0][x] = Unresolved("SymlinkLoop")
                /\ \A k \in 1..MaxHops : Level(d, t, F[k], F[k - 1])
<1> DEFINE D == [Legs -> Result]
           b == [x \in Legs |-> Unresolved("SymlinkLoop")]
           G == [z \in (1..MaxHops) \X D |->
                   CHOOSE f \in D : Level(d, t, f, z[2])]
<1>1. b \in D
  BY ResultTypes
<1>2. \A g \in D : /\ (CHOOSE f \in D : Level(d, t, f, g)) \in D
                   /\ Level(d, t, CHOOSE f \in D : Level(d, t, f, g), g)
  BY LevelExists
<1> HIDE DEF D
<1>3. G \in [(1..MaxHops) \X D -> D]
  BY <1>2
<1>4. MaxHops \in Nat
  BY HopAssumption
<1>5. PICK F : Recurs(F, D, b, G, MaxHops)
  <2> HIDE DEF G, b
  <2> QED BY <1>1, <1>3, <1>4, RecursionExists
<1>6. F \in [0..MaxHops -> D] /\ F[0] = b
      /\ \A i \in 1..MaxHops : F[i] = G[<<i, F[i - 1]>>]
  <2> HIDE DEF G, b
  <2> QED BY <1>5 DEF Recurs
<1>7. ASSUME NEW k \in 1..MaxHops
      PROVE  Level(d, t, F[k], F[k - 1])
  <2>1. k - 1 \in 0..MaxHops
    BY <1>4
  <2>2. F[k - 1] \in D
    BY <1>6, <2>1
  <2>3. F[k] = CHOOSE f \in D : Level(d, t, f, F[k - 1])
    BY <1>6, <2>2
  <2>4. QED
    BY <1>2, <2>2, <2>3
<1>8. \A x \in Legs : F[0][x] = Unresolved("SymlinkLoop")
  BY <1>6
<1>9. QED
  BY <1>6, <1>7, <1>8 DEF D

\* resolve_path does what its body says: the recursive function it is defined by
\* exists.
LEMMA ResolverIs ==
  ASSUME NEW d \in Disk, NEW t, Good(t)
  PROVE  \E R : /\ Resolves(d, t, R)
                /\ \A p, follow : resolve_path(d, t, p, follow) =
                                    R[<<Root, p, follow, MaxHops>>]
<1> DEFINE P(R) == R = [r \in Trips |-> Answers(d, t, R, r)]
           R == CHOOSE f : P(f)
<1>1. PICK F : /\ F \in [0..MaxHops -> [Legs -> Result]]
               /\ \A x \in Legs : F[0][x] = Unresolved("SymlinkLoop")
               /\ \A k \in 1..MaxHops : Level(d, t, F[k], F[k - 1])
  BY LevelsExist
<1> DEFINE f == [r \in Trips |-> F[r[4]][<<r[1], r[2], r[3]>>]]
<1>2. \A a \in Seq(Name), b \in Seq(Name), c \in BOOLEAN, k \in 0..MaxHops :
        f[<<a, b, c, k>>] = F[k][<<a, b, c>>]
  BY TripIs
<1>3. ASSUME NEW r \in Trips
      PROVE  f[r] = Answers(d, t, f, r)
  <2> DEFINE a == r[1]
             b == r[2]
             c == r[3]
             k == r[4]
             x == <<a, b, c>>
  <2>1. /\ a \in Seq(Name) /\ b \in Seq(Name) /\ c \in BOOLEAN /\ k \in 0..MaxHops
        /\ r = <<a, b, c, k>> /\ x \in Legs /\ x[1] = a /\ x[2] = b /\ x[3] = c
    BY TripIs, LegIs
  <2>2. f[r] = F[k][x]
    OBVIOUS
  <2>3. CASE k = 0
    BY <1>1, <2>1, <2>2, <2>3 DEF Answers
  <2>4. CASE k # 0
    <3>1. k \in 1..MaxHops /\ k - 1 \in 0..MaxHops
      BY <2>1, <2>4, HopAssumption
    <3> DEFINE g == F[k - 1]
    <3>2. g \in [Legs -> Result] /\ Level(d, t, F[k], g)
      BY <1>1, <3>1
    <3>3. /\ Sought(x) = Sought(r) /\ Led(d, t, x) = Led(d, t, r)
          /\ Detours(d, t, x) <=> Detours(d, t, r)
          /\ Barred(t, x) <=> Barred(t, r)
          /\ Bar(t, x) = Bar(t, r)
      BY <2>1 DEF Sought, Led, Detours, Barred, Bar
    <3>4. ASSUME Detours(d, t, r)
          PROVE  f[<<Root, Led(d, t, r), TRUE, k - 1>>] = g[<<Root, Led(d, t, x), TRUE>>]
      <4>1. Led(d, t, r) \in Seq(Name)
        BY <2>1, <3>4, LedType DEF Detours
      <4>2. TRUE \in BOOLEAN /\ Root \in Seq(Name)
        BY EmptyPath
      <4> HIDE DEF f
      <4>3. f[<<Root, Led(d, t, r), TRUE, k - 1>>] = F[k - 1][<<Root, Led(d, t, r), TRUE>>]
        BY <1>2, <3>1, <4>1, <4>2
      <4>4. QED
        BY <3>3, <4>3
    <3>5. F[k][x] = IF Ends(d, t, g, x) THEN Ending(d, t, g, x)
                    ELSE F[k][Going(d, t, g, x)]
      BY <2>1, <3>2 DEF Level
    <3>6. ASSUME ~Ends(d, t, g, x)
          PROVE  F[k][Going(d, t, g, x)] =
                   f[<<Going(d, t, g, x)[1], Tail(b), c, k>>]
                 /\ Going(d, t, g, x) = <<Going(d, t, g, x)[1], Tail(b), c>>
      <4>1. Going(d, t, g, x) \in Legs
        BY <2>1, <3>2, <3>6, LevelTypes
      <4>2. /\ Going(d, t, g, x)[1] \in Seq(Name)
            /\ Going(d, t, g, x) = <<Going(d, t, g, x)[1], Tail(b), c>>
        BY <2>1, <4>1, LegIs DEF Going
      <4>3. Tail(b) \in Seq(Name)
        BY <2>1, <3>6, PathSteps DEF Ends
      <4> DEFINE z == Going(d, t, g, x)
      <4> HIDE DEF f, g, z
      <4>4. f[<<z[1], Tail(b), c, k>>] = F[k][<<z[1], Tail(b), c>>]
        <5>1. z[1] \in Seq(Name)
          BY <4>2 DEF z
        <5>2. QED
          BY <1>2, <2>1, <4>3, <5>1
      <4>5. QED
        BY <4>2, <4>4 DEF z
    <3> HIDE DEF f, g
    <3>7. CASE Ends(d, t, g, x)
      <4>1. f[r] = Ending(d, t, g, x)
        BY <2>2, <3>5, <3>7
      <4>2. QED
        BY <2>1, <2>4, <3>3, <3>4, <3>7, <4>1, AnswersBarred DEF Ends, Ending
    <3>8. CASE ~Ends(d, t, g, x)
      <4>1. f[r] = f[<<Going(d, t, g, x)[1], Tail(b), c, k>>]
        BY <2>2, <3>5, <3>6, <3>8
      <4>2. b # <<>> /\ ~Barred(t, r)
        BY <2>1, <3>3, <3>8 DEF Ends
      <4>3. CASE Detours(d, t, r)
        <5>1. Going(d, t, g, x)[1] = g[<<Root, Led(d, t, x), TRUE>>].path
          BY <3>3, <4>3 DEF Going
        <5>2. g[<<Root, Led(d, t, x), TRUE>>].err = "ok"
          BY <3>3, <3>8, <4>3 DEF Ends
        <5>3. QED
          BY <2>4, <3>4, <4>1, <4>2, <4>3, <5>1, <5>2, AnswersBarred
      <4>4. CASE ~Detours(d, t, r)
        <5>1. Going(d, t, g, x)[1] = Sought(r)
          BY <3>3, <4>4 DEF Going
        <5>2. QED
          BY <2>4, <4>1, <4>2, <4>4, <5>1, AnswersBarred
      <4>5. QED
        BY <4>3, <4>4
    <3>9. QED
      BY <3>7, <3>8
  <2>5. QED
    BY <2>3, <2>4
<1>4. P(f)
  <2>1. f = [r \in Trips |-> f[r]]
    OBVIOUS
  <2> HIDE DEF f
  <2>2. QED
    BY <1>3, <2>1
<1>5. P(R)
  <2> HIDE DEF P
  <2> QED BY <1>4
<1>6. \A p, follow : resolve_path(d, t, p, follow) = R[<<Root, p, follow, MaxHops>>]
  <2>1. ASSUME NEW p, NEW follow
        PROVE  resolve_path(d, t, p, follow) = R[<<Root, p, follow, MaxHops>>]
    BY DEF resolve_path, Trips, Answers, Detours, Barred, Bar, Led, Sought
  <2>2. QED
    BY <2>1
<1>7. Resolves(d, t, R)
  <2> HIDE DEF R
  <2> QED BY <1>5 DEF Resolves
<1>8. QED
  BY <1>6, <1>7

(***************************************************************************)
(* Induction over resolve_path: fewer traversals left, or less of the path.*)
(***************************************************************************)
Sooner(x, r) == x[4] < r[4] \/ (x[4] = r[4] /\ Len(x[2]) < Len(r[2]))

\* Among any calls there is one none of them comes sooner than.
LEMMA LeastTrip ==
  ASSUME NEW B, B \subseteq Trips, B # {}
  PROVE  \E w \in B : \A x \in B : ~Sooner(x, w)
<1> DEFINE m(w) == <<w[4], Len(w[2])>>
           S == {m(w) : w \in B}
<1>1. \A w \in B : w[4] \in Nat /\ Len(w[2]) \in Nat
  <2>1. \A w \in B : w[4] \in 0..MaxHops /\ w[2] \in Seq(Name)
    BY TripIs
  <2>2. \A k \in 0..MaxHops : k \in Nat
    BY HopAssumption
  <2>3. QED
    BY <2>1, <2>2
<1>2. S \subseteq Nat \X Nat /\ S # {}
  <2>1. \A w \in B : m(w) \in Nat \X Nat
    BY <1>1
  <2> HIDE DEF m
  <2>2. QED
    BY <2>1
<1>3. PICK k \in S :
             \A l \in S : k[1] <= l[1] /\ (k[1] = l[1] => k[2] <= l[2])
  <2> HIDE DEF S
  <2> QED BY ONLY <1>2, LeastPair
<1>4. PICK w \in B : k = m(w)
  OBVIOUS
<1>5. ASSUME NEW x \in B
      PROVE  ~Sooner(x, w)
  <2>1. m(x) \in S
    OBVIOUS
  <2>2. ASSUME NEW l \in S PROVE k[1] <= l[1] /\ (k[1] = l[1] => k[2] <= l[2])
    <3> HIDE DEF S
    <3> QED BY <1>3
  <2>3. k[1] = w[4] /\ k[2] = Len(w[2])
    BY <1>4
  <2>4. k[1] <= m(x)[1] /\ (k[1] = m(x)[1] => k[2] <= m(x)[2])
    <3> HIDE DEF S, m
    <3> QED BY ONLY <2>1, <2>2
  <2>5. m(x)[1] = x[4] /\ m(x)[2] = Len(x[2])
    OBVIOUS
  <2>6. x[4] \in Nat /\ Len(x[2]) \in Nat /\ w[4] \in Nat /\ Len(w[2]) \in Nat
    BY <1>1
  <2> HIDE DEF m, S
  <2>7. QED
    BY ONLY <2>3, <2>4, <2>5, <2>6 DEF Sooner
<1>6. QED
  BY <1>5

\* The trips a trip makes, where it is not at its end: it goes on from x, or
\* goes to where a link leads and on from there.
GoesOn(R, r, x) ==
  \E y \in Trips : /\ y[1] = x /\ y[2] = Tail(r[2]) /\ y[3] = r[3]
                  /\ Sooner(y, r) /\ R[r] = R[y]
Around(d, t, R, r, l) ==
  /\ l[1] = Root /\ l[2] = Led(d, t, r) /\ l[3] = TRUE /\ Sooner(l, r)
  /\ R[l].err # "ok" => R[r] = R[l]
  /\ R[l].err = "ok" /\ R[l].path \in Seq(Name) => GoesOn(R, r, R[l].path)
GoesAround(d, t, R, r) == \E l \in Trips : Around(d, t, R, r, l)

\* A call that is not refused goes on, directly or around by the text of a link.
LEMMA TripGoes ==
  ASSUME NEW d \in Disk, NEW t, Good(t), NEW R, Resolves(d, t, R),
         NEW r \in Trips, r[4] # 0, r[2] # <<>>, ~Barred(t, r)
  PROVE  /\ Sought(r) \in Seq(Name) /\ Tail(r[2]) \in Seq(Name)
         /\ ~Detours(d, t, r) => GoesOn(R, r, Sought(r))
         /\ Detours(d, t, r) => Led(d, t, r) \in Seq(Name) /\ GoesAround(d, t, R, r)
<1>1. /\ r[1] \in Seq(Name) /\ r[2] \in Seq(Name) /\ r[3] \in BOOLEAN
      /\ r[4] \in 0..MaxHops
  BY TripIs
<1>2. r[4] - 1 \in 0..MaxHops /\ r[4] \in Nat /\ r[4] - 1 < r[4]
  BY <1>1, HopAssumption
<1>3. /\ Sought(r) \in Seq(Name) /\ Tail(r[2]) \in Seq(Name)
      /\ Len(Tail(r[2])) < Len(r[2])
  BY <1>1, PathSteps DEF Sought
<1>4. ASSUME NEW a \in Seq(Name)
      PROVE  \E y \in Trips : /\ y = <<a, Tail(r[2]), r[3], r[4]>>
                              /\ y[1] = a /\ y[2] = Tail(r[2])
                              /\ y[3] = r[3] /\ Sooner(y, r)
  <2> DEFINE y == <<a, Tail(r[2]), r[3], r[4]>>
  <2>1. /\ y \in Trips /\ y[1] = a /\ y[2] = Tail(r[2]) /\ y[3] = r[3]
        /\ y[4] = r[4]
    <3> DEFINE b == Tail(r[2])
               c == r[3]
               k == r[4]
    <3>1. b \in Seq(Name) /\ c \in BOOLEAN /\ k \in 0..MaxHops
      BY <1>1, <1>3
    <3> HIDE DEF b, c, k
    <3>2. <<a, b, c, k>> \in Trips
      BY ONLY <3>1, a \in Seq(Name) DEF Trips
    <3>3. QED
      BY <3>2 DEF b, c, k
  <2>2. Sooner(y, r)
    <3> HIDE DEF y
    <3> QED BY <1>3, <2>1 DEF Sooner
  <2>3. QED
    BY <2>1, <2>2
<1>5. R[r] = Answers(d, t, R, r)
  BY DEF Resolves
<1>6. ASSUME ~Detours(d, t, r)
      PROVE  R[r] = R[<<Sought(r), Tail(r[2]), r[3], r[4]>>]
  BY <1>5, <1>6, AnswersBarred
<1>7. ASSUME Detours(d, t, r)
      PROVE  Led(d, t, r) \in Seq(Name) /\ GoesAround(d, t, R, r)
  <2> DEFINE l == <<Root, Led(d, t, r), TRUE, r[4] - 1>>
  <2>1. Led(d, t, r) \in Seq(Name)
    BY <1>1, <1>7, LedType DEF Detours
  <2>2. /\ l \in Trips /\ l[1] = Root /\ l[2] = Led(d, t, r) /\ l[3] = TRUE
        /\ l[4] = r[4] - 1
    <3>1. Root \in Seq(Name) /\ TRUE \in BOOLEAN
      BY EmptyPath
    <3>2. QED
      BY <1>2, <2>1, <3>1, TripIs
  <2>3. R[r] = IF R[l].err # "ok" THEN R[l]
               ELSE R[<<R[l].path, Tail(r[2]), r[3], r[4]>>]
    BY <1>5, <1>7, AnswersBarred
  <2> HIDE DEF l
  <2>4. Sooner(l, r)
    BY <1>2, <2>2 DEF Sooner
  <2>5. ASSUME R[l].err = "ok", R[l].path \in Seq(Name)
        PROVE  GoesOn(R, r, R[l].path)
    <3>1. PICK y \in Trips : /\ y = <<R[l].path, Tail(r[2]), r[3], r[4]>>
                             /\ y[1] = R[l].path /\ y[2] = Tail(r[2])
                             /\ y[3] = r[3] /\ Sooner(y, r)
      BY <1>4, <2>5
    <3>2. R[r] = R[y]
      BY <2>3, <2>5, <3>1
    <3>3. QED
      BY <3>1, <3>2 DEF GoesOn
  <2>6. QED
    BY <2>1, <2>2, <2>3, <2>4, <2>5 DEF GoesAround, Around
<1>8. ASSUME ~Detours(d, t, r)
      PROVE  GoesOn(R, r, Sought(r))
  BY <1>3, <1>4, <1>6, <1>8 DEF GoesOn
<1>9. QED
  BY <1>3, <1>7, <1>8

\* Where resolve_path arrives no link is left on the way.
LEMMA TripArrives ==
  ASSUME NEW d \in Disk, NEW t, Good(t), NEW R, Resolves(d, t, R),
         NEW w \in Trips
  PROVE  /\ R[w] \in Result
         /\ R[w].err = "ok" /\ Begins(d, t, w[3], w) =>
              Arrived(d, t, w[3], R[w].path)
<1> DEFINE Q(x) == /\ R[x] \in Result
                   /\ R[x].err = "ok" /\ Begins(d, t, x[3], x) =>
                        Arrived(d, t, x[3], R[x].path)
           B == {x \in Trips : ~Q(x)}
<1>1. SUFFICES B = {}
  OBVIOUS
<1>2. SUFFICES ASSUME NEW r \in B, \A y \in B : ~Sooner(y, r) PROVE FALSE
  <2>1. B \subseteq Trips
    OBVIOUS
  <2> HIDE DEF B
  <2>2. QED
    BY <1>2, <2>1, LeastTrip
<1>3. r \in Trips /\ ~Q(r)
  OBVIOUS
<1>4. /\ r[1] \in Seq(Name) /\ r[2] \in Seq(Name) /\ r[3] \in BOOLEAN
  BY <1>3, TripIs
<1>5. \A y \in Trips : Sooner(y, r) => Q(y)
  BY <1>2
<1>6. R[r] = Answers(d, t, R, r)
  BY <1>3 DEF Resolves
<1> HIDE DEF B
<1>7. CASE r[4] = 0
  <2>1. R[r] = Unresolved("SymlinkLoop")
    BY <1>6, <1>7 DEF Answers
  <2>2. QED
    BY <1>3, <2>1, ResultTypes DEF Answer
<1>8. CASE r[4] # 0 /\ r[2] = <<>>
  <2>1. R[r] = Resolved(r[1])
    BY <1>6, <1>8 DEF Answers
  <2>2. QED
    BY <1>3, <1>4, <1>8, <2>1, ResultTypes DEF Begins
<1>9. CASE r[4] # 0 /\ r[2] # <<>> /\ Barred(t, r)
  <2>1. R[r] = Bar(t, r)
    BY <1>6, <1>9, AnswersBarred
  <2>2. QED
    BY <1>3, <2>1, BarType
<1>10. CASE r[4] # 0 /\ r[2] # <<>> /\ ~Barred(t, r) /\ Detours(d, t, r)
  <2>0. GoesAround(d, t, R, r)
    BY <1>3, <1>10, TripGoes
  <2>a. PICK l \in Trips : Around(d, t, R, r, l)
    BY <2>0 DEF GoesAround
  <2>1. /\ l[1] = Root /\ l[2] = Led(d, t, r) /\ l[3] = TRUE /\ Sooner(l, r)
        /\ R[l].err # "ok" => R[r] = R[l]
        /\ R[l].err = "ok" /\ R[l].path \in Seq(Name) => GoesOn(R, r, R[l].path)
    BY <2>a DEF Around
  <2>2. Q(l) /\ R[l] \in Result /\ (R[l].err = "ok" => R[l].path \in Seq(Name))
    BY <1>5, <2>1 DEF Result
  <2>3. Begins(d, t, TRUE, l)
    BY <2>1, RootClean DEF Begins, Arrived, Clean
  <2>4. CASE R[l].err # "ok"
    BY <1>3, <2>1, <2>2, <2>4
  <2>5. CASE R[l].err = "ok"
    <3>1. Clean(d, t, R[l].path)
      BY <2>1, <2>2, <2>3, <2>5 DEF Arrived
    <3>2. PICK y \in Trips : /\ y[1] = R[l].path /\ y[2] = Tail(r[2])
                             /\ y[3] = r[3] /\ Sooner(y, r) /\ R[r] = R[y]
      BY <2>1, <2>2, <2>5 DEF GoesOn
    <3>3. Q(y)
      BY <1>5, <3>2
    <3>4. Begins(d, t, y[3], y)
      BY <3>1, <3>2 DEF Begins, Arrived, Clean
    <3>5. QED
      BY <1>3, <3>2, <3>3, <3>4
  <2>6. QED
    BY <2>4, <2>5
<1>11. CASE r[4] # 0 /\ r[2] # <<>> /\ ~Barred(t, r) /\ ~Detours(d, t, r)
  <2>1. PICK y \in Trips : /\ y[1] = Sought(r) /\ y[2] = Tail(r[2])
                           /\ y[3] = r[3] /\ Sooner(y, r) /\ R[r] = R[y]
    BY <1>3, <1>11, TripGoes DEF GoesOn
  <2>2. Q(y)
    BY <1>5, <2>1
  <2>3. ASSUME Begins(d, t, r[3], r)
        PROVE  Begins(d, t, y[3], y)
    <3>1. Clean(d, t, r[1]) /\ Head(r[2]) \in Name
      BY <1>4, <1>11, <2>3, PathSteps DEF Begins
    <3>2. Straight(d, t, Sought(r))
      BY <1>4, <3>1, NextArrives DEF Sought
    <3>3. (r[3] \/ Tail(r[2]) # <<>>) => Clean(d, t, Sought(r))
      BY <1>11, <3>2 DEF Detours, Clean
    <3>4. QED
      BY <2>1, <3>2, <3>3 DEF Begins, Arrived
  <2>4. QED
    BY <1>3, <2>1, <2>2, <2>3
<1>12. QED
  BY <1>7, <1>8, <1>9, <1>10, <1>11

\* What resolve_path answers for a path of a script.
LEMMA PathResolves ==
  ASSUME NEW d \in Disk, NEW t, Good(t), NEW p \in Seq(Name),
         NEW follow \in BOOLEAN
  PROVE  /\ resolve_path(d, t, p, follow) \in Result
         /\ resolve_path(d, t, p, follow).err = "ok" =>
              Arrived(d, t, follow, resolve_path(d, t, p, follow).path)
<1>1. PICK R : /\ Resolves(d, t, R)
               /\ \A q, g : resolve_path(d, t, q, g) = R[<<Root, q, g, MaxHops>>]
  BY ResolverIs
<1> DEFINE w == <<Root, p, follow, MaxHops>>
<1>2. MaxHops \in 0..MaxHops
  BY HopAssumption
<1>3. w \in Trips /\ w[1] = Root /\ w[2] = p /\ w[3] = follow
  BY <1>2, EmptyPath, TripIs
<1>4. resolve_path(d, t, p, follow) = R[w]
  BY <1>1
<1> HIDE DEF w
<1>5. Begins(d, t, follow, w)
  BY <1>3, RootClean DEF Begins, Arrived, Clean
<1>6. QED
  BY <1>1, <1>3, <1>4, <1>5, TripArrives

(***************************************************************************)
(* The methods of the overlay, each one step of the one tree.              *)
(***************************************************************************)
\* What a method leaves, from the tree t.
Steps(d, t, r) == Good(r.tree) /\ ViewStep(d, Merged(d, t), Merged(d, r.tree))

\* A method that leaves the tree as it was is a stutter.
LEMMA NoStep ==
  ASSUME NEW d, NEW t, Good(t), NEW r, r.tree = t
  PROVE  Steps(d, t, r)
BY DEF Steps, ViewStep

\* The paths scripts pass are sequences of names.
LEMMA ScriptPaths ==
  /\ \A p \in Path : p \in Seq(Name)
  /\ TRUE \in BOOLEAN /\ FALSE \in BOOLEAN
BY NodePathType, EmptyPath DEF Path

\* The directory made at the place a path leads to, with those above it.
LEMMA EnsuresStep ==
  ASSUME NEW d \in Disk, Rooted(d), NEW t, Good(t), NEW q, Clean(d, t, q),
         NEW r, Good(r.tree),
         \/ ~Succeeds(r) /\ r.tree = t
         \/ /\ Succeeds(r) /\ q \in Path /\ UpTo(q) \subseteq NodePath
            /\ Buildable(d, t, UpTo(q)) /\ r.tree = Ensured(d, t, UpTo(q))
  PROVE  Steps(d, t, r)
<1>1. CASE r.tree = t
  BY <1>1, NoStep
<1>2. CASE /\ q \in Path /\ Buildable(d, t, UpTo(q))
           /\ r.tree = Ensured(d, t, UpTo(q))
  <2>1. Makes(d, Merged(d, t), Merged(d, r.tree), UpTo(q))
    BY <1>2, MakesView
  <2>2. ASSUME NEW z \in Above(q), IsDir(Merged(d, t)[q])
        PROVE  IsDir(Merged(d, t)[z])
    <3>1. q \in NodePath
      BY <1>2, RootClean DEF Path
    <3>2. QED
      BY <2>2, <3>1, MergedRooted, TypeNames
  <2>3. QED
    BY <1>2, <2>1, <2>2, MakesIsStep DEF Steps
<1>3. QED
  BY <1>1, <1>2

\* write_file puts a file where the links of its path lead.
LEMMA WriteFileView ==
  ASSUME NEW d \in Disk, Rooted(d), NEW t, Good(t), NEW p \in Seq(Name),
         NEW c \in SUBSET Chunk, NEW r, r = write_file(d, t, p, c)
  PROVE  /\ Steps(d, t, r)
         /\ Succeeds(r) =>
              \E q \in NodePath, m \in Mode :
                /\ resolve_write_target(d, t, p, TRUE) = Resolved(q)
                /\ Clean(d, t, q)
                /\ Puts(d, Merged(d, t), Merged(d, r.tree), q, File(c, m))
<1> DEFINE w == resolve_write_target(d, t, p, TRUE)
           q == w.path
           a == EnsureParent(d, t, q)
           m == WriteMode(d, a.tree, q)
<1>1. w \in Result /\ (w.err = "ok" => Clean(d, t, q))
  BY WriteTarget DEF Arrived
<1>2. Good(r.tree)
  BY WriteFileGood
<1>3. CASE \/ w.err # "ok" \/ IsDir(lstat_overlay(d, t, q)) \/ IsLowerDir(d, t, q)
  <2>1. r.tree = t /\ ~Succeeds(r)
    <3>1. CASE w.err # "ok"
      BY <3>1 DEF write_file, Fail, Succeeds
    <3>2. CASE w.err = "ok"
      BY <1>3, <3>2 DEF write_file, Fail, Succeeds
    <3>3. QED
      BY <3>1, <3>2
  <2>2. QED
    BY <2>1, NoStep
<1>4. CASE ~(\/ w.err # "ok" \/ IsDir(lstat_overlay(d, t, q)) \/ IsLowerDir(d, t, q))
  <2>1. r = AttachAfter(a, q, File(c, m))
    BY <1>4 DEF write_file
  <2>2. Straight(d, t, q) /\ Clean(d, t, q) /\ ~IsDir(lstat_overlay(d, t, q))
    BY <1>1, <1>4 DEF Clean
  <2>3. m \in Mode
    BY EnsureGood, WriteModeType
  <2>4. File(c, m) \in LeafNode
    BY <2>3, FileType
  <2> HIDE DEF m
  <2>5. Attaches(d, t, r, q, File(c, m))
    BY <2>1, <2>2, <2>4, AttachView
  <2>6. ViewStep(d, Merged(d, t), Merged(d, r.tree))
    BY <2>5, AttachesIsStep
  <2>7. w = Resolved(q)
    BY <1>1, <1>4, ResultTypes
  <2>8. Succeeds(r) => q \in NodePath /\ Puts(d, Merged(d, t), Merged(d, r.tree), q, File(c, m))
    BY <2>5 DEF Attaches
  <2>9. QED
    BY <1>2, <2>2, <2>3, <2>6, <2>7, <2>8 DEF Steps
<1>5. QED
  BY <1>3, <1>4

\* A removal hides what shows where the links on the way lead.
LEMMA RemoveWhereView ==
  ASSUME NEW d \in Disk, Rooted(d), NEW t, Good(t), NEW p \in Seq(Name),
         NEW fits, fits \subseteq {"File", "Symlink", "Dir"},
         NEW r, r = RemoveWhere(d, t, p, fits)
  PROVE  Steps(d, t, r)
<1> DEFINE w == resolve_path(d, t, p, FALSE)
           q == w.path
<1>1. Good(r.tree)
  BY RemoveWhereGood
<1>2. CASE r.tree = t
  BY <1>2, NoStep
<1>3. CASE r.tree # t
  <2>1. /\ ~is_whiteout(t, p) /\ w.err = "ok"
        /\ lstat_overlay(d, t, q).type \in fits /\ r = Ok(Hide(d, t, q))
    BY <1>3 DEF RemoveWhere, Fail
  <2>2. Straight(d, t, q) /\ ~IsNone(lstat_overlay(d, t, q))
    <3>1. FALSE \in BOOLEAN
      OBVIOUS
    <3>2. Straight(d, t, q)
      BY <2>1, <3>1, PathResolves DEF Arrived
    <3>3. QED
      BY <2>1, <3>2 DEF IsNone
  <2>3. r.tree = Hide(d, t, q)
    BY <2>1 DEF Ok
  <2>4. q \in NodePath
    BY <1>3, <2>3 DEF Hide, put_whiteout, detach
  <2>5. ~IsNone(Merged(d, t)[q])
    BY <2>2, <2>4, StraightMerged
  <2>6. Removes(Merged(d, t), Merged(d, r.tree), q)
    BY <2>3, <2>4, <2>5, HideView
  <2>7. QED
    BY <1>1, <2>4, <2>6 DEF Steps, ViewStep, EntryStep
<1>4. QED
  BY <1>2, <1>3

\* remove_file, remove_dir and remove_dir_all are steps of the one tree.
LEMMA RemovalsView ==
  ASSUME NEW d \in Disk, Rooted(d), NEW t, Good(t), NEW p \in Seq(Name)
  PROVE  /\ Steps(d, t, remove_file(d, t, p))
         /\ Steps(d, t, remove_dir(d, t, p))
         /\ Steps(d, t, remove_dir_all(d, t, p))
<1> DEFINE f == RemoveWhere(d, t, p, {"File", "Symlink"})
           e == RemoveWhere(d, t, p, {"Dir"})
           a == RemoveWhere(d, t, p, {"Dir", "Symlink"})
<1>1. Steps(d, t, f) /\ Steps(d, t, e) /\ Steps(d, t, a)
  BY RemoveWhereView
<1>2. /\ remove_file(d, t, p) = f
      /\ remove_dir(d, t, p) = e \/ remove_dir(d, t, p).tree = t
      /\ remove_dir_all(d, t, p) = a \/ remove_dir_all(d, t, p).tree = t
  BY DEF remove_file, remove_dir, remove_dir_all, Fail
<1>3. QED
  BY <1>1, <1>2, NoStep

\* mkdir and mkdir_p make directories down to where the links lead.
LEMMA MkdirView ==
  ASSUME NEW d \in Disk, Rooted(d), NEW t, Good(t), NEW p \in Seq(Name)
  PROVE  Steps(d, t, mkdir(d, t, p)) /\ Steps(d, t, mkdir_p(d, t, p))
<1>1. ASSUME NEW r, r = mkdir(d, t, p)
      PROVE  Steps(d, t, r)
  <2> DEFINE w == resolve_write_target(d, t, p, FALSE)
             q == w.path
  <2>1. w.err = "ok" => Straight(d, t, q)
    BY WriteTarget DEF Arrived
  <2>2. Good(r.tree)
    BY <1>1, MkdirGood
  <2>3. CASE w.err # "ok" \/ Occupied(d, t, q)
    <3>1. r.tree = t
      BY <1>1, <2>3 DEF mkdir, Fail
    <3>2. QED
      BY <3>1, NoStep
  <2>4. CASE w.err = "ok" /\ ~Occupied(d, t, q)
    <3>1. r = ensure_upper_dir_path(d, t, q)
      BY <1>1, <2>4 DEF mkdir
    <3>2. q \in Seq(Name)
      BY <2>1, <2>4 DEF Straight
    <3>3. Clean(d, t, q)
      BY <2>1, <2>4, <3>2, LayerShows, TypeNames DEF Clean
    <3> HIDE DEF q
    <3>4. QED
      BY <2>2, <3>1, <3>3, EnsurePathView, EnsuresStep
  <2>5. QED
    BY <2>3, <2>4
<1>2. ASSUME NEW r, r = mkdir_p(d, t, p)
      PROVE  Steps(d, t, r)
  <2> DEFINE w == resolve_write_target(d, t, p, TRUE)
             q == w.path
             e == ensure_dirs(t, q, lower_mode_of(d), lower_entries_of(d))
  <2>1. w.err = "ok" => Clean(d, t, q)
    BY WriteTarget DEF Arrived
  <2>2. Good(r.tree)
    BY <1>2, MkdirGood
  <2>3. r.tree = t \/ (w.err = "ok" /\ r = e)
    BY <1>2 DEF mkdir_p, Fail, Ok
  <2>4. CASE r.tree = t
    BY <2>4, NoStep
  <2>5. CASE w.err = "ok" /\ r = e
    <3>1. Clean(d, t, q)
      BY <2>1, <2>5
    <3>2. r = ensure_dirs(t, q, lower_mode_of(d), lower_entries_of(d))
      BY <2>5
    <3> HIDE DEF q, e
    <3>3. QED
      BY <2>2, <3>1, <3>2, EnsureDirsView, EnsuresStep
  <2>6. QED
    BY <2>3, <2>4, <2>5
<1>3. QED
  BY <1>1, <1>2

\* chmod and utimes change at most a mode, at the place the links lead to.
LEMMA ChmodView ==
  ASSUME NEW d \in Disk, Rooted(d), NEW t, Good(t), NEW p \in Seq(Name),
         NEW m \in Mode
  PROVE  Steps(d, t, chmod(d, t, p, m)) /\ Steps(d, t, utimes(d, t, p))
<1> DEFINE w == resolve_path(d, t, p, TRUE)
           q == w.path
           b == BringUp(d, t, q)
           e == set_mode(b.tree, q, m)
<1>1. w.err = "ok" => Clean(d, t, q)
  <2>1. TRUE \in BOOLEAN
    OBVIOUS
  <2>2. QED
    BY <2>1, PathResolves DEF Arrived
<1>2. CASE w.err # "ok"
  <2>1. chmod(d, t, p, m).tree = t /\ utimes(d, t, p).tree = t
    BY <1>2 DEF chmod, utimes, Fail
  <2>2. QED
    BY <2>1, NoStep
<1>3. CASE w.err = "ok"
  <2>1. chmod(d, t, p, m) = Then(b, e) /\ utimes(d, t, p) = b
    BY <1>3 DEF chmod, utimes
  <2>2. /\ Good(b.tree) /\ ViewStep(d, Merged(d, t), Merged(d, b.tree))
        /\ Succeeds(b) => Merged(d, b.tree) = Merged(d, t)
    BY <1>1, <1>3, BringUpView
  <2>3. ViewStep(d, Merged(d, b.tree), Merged(d, e.tree))
    BY <2>2, SetModeStep
  <2>4. Good(chmod(d, t, p, m).tree)
    BY ChmodGood
  <2> HIDE DEF b, e
  <2>5. CASE Succeeds(b)
    BY <2>1, <2>2, <2>3, <2>4, <2>5 DEF Then, Steps
  <2>6. CASE ~Succeeds(b)
    BY <2>1, <2>2, <2>4, <2>6 DEF Then, Steps
  <2>7. QED
    BY <2>5, <2>6
<1>4. QED
  BY <1>2, <1>3

\* symlink and hardlink put an entry where none shows.
LEMMA AttachNewView ==
  ASSUME NEW d \in Disk, Rooted(d), NEW t, Good(t), NEW p \in Seq(Name),
         NEW n \in LeafNode, NEW r, r = AttachNew(d, t, p, n)
  PROVE  Steps(d, t, r)
<1> DEFINE w == resolve_write_target(d, t, p, FALSE)
           q == w.path
<1>1. w.err = "ok" => Straight(d, t, q)
  BY WriteTarget DEF Arrived
<1>2. Good(r.tree)
  BY AttachNewGood
<1>3. CASE w.err # "ok" \/ Occupied(d, t, q) \/ Occupied(d, t, p)
  <2>1. r.tree = t
    BY <1>3 DEF AttachNew, Fail
  <2>2. QED
    BY <2>1, NoStep
<1>4. CASE w.err = "ok" /\ ~Occupied(d, t, q) /\ ~Occupied(d, t, p)
  <2>1. r = AttachAfter(EnsureParent(d, t, q), q, n)
    BY <1>4 DEF AttachNew, AttachBelow
  <2>2. q \in Seq(Name)
    BY <1>1, <1>4 DEF Straight
  <2>3. Straight(d, t, q) /\ ~IsDir(lstat_overlay(d, t, q))
    BY <1>1, <1>4, <2>2, LayerShows, TypeNames
  <2>4. Attaches(d, t, r, q, n)
    BY <2>1, <2>3, AttachView
  <2>5. QED
    BY <1>2, <2>4, AttachesIsStep DEF Steps
<1>5. QED
  BY <1>3, <1>4

\* symlink and hardlink are steps of the one tree.
LEMMA LinksView ==
  ASSUME NEW d \in Disk, Rooted(d), NEW t, Good(t), NEW p \in Seq(Name)
  PROVE  /\ \A l \in Link : Steps(d, t, symlink(d, t, l, p))
         /\ \A q : Steps(d, t, hardlink(d, t, q, p))
<1>1. ASSUME NEW l \in Link
      PROVE  Steps(d, t, symlink(d, t, l, p))
  <2>1. Symlink(l) \in LeafNode
    BY DEF Symlink, LeafNode
  <2>2. symlink(d, t, l, p) = AttachNew(d, t, p, Symlink(l))
    BY DEF symlink
  <2>3. QED
    BY <2>1, <2>2, AttachNewView
<1>2. ASSUME NEW q, NEW r, r = hardlink(d, t, q, p)
      PROVE  Steps(d, t, r)
  <2> DEFINE n == read_file(d, t, q)
  <2>1. CASE IsFile(n)
    <3>1. n \in LeafNode
      BY <2>1, FileRead
    <3>2. r = AttachNew(d, t, p, n)
      BY <1>2, <2>1 DEF hardlink
    <3> HIDE DEF n
    <3>3. QED
      BY <3>1, <3>2, AttachNewView
  <2>2. CASE ~IsFile(n)
    <3>1. r.tree = t
      BY <1>2, <2>2 DEF hardlink, Fail
    <3>2. QED
      BY <3>1, NoStep
  <2>3. QED
    BY <2>1, <2>2
<1>3. QED
  BY <1>1, <1>2

\* A deleted path has no link on the way to it and shows nothing.
LEMMA DeletedIsStraight ==
  ASSUME NEW d \in Disk, NEW t, Good(t), NEW p \in Seq(Name), is_whiteout(t, p)
  PROVE  Straight(d, t, p) /\ lstat_overlay(d, t, p) = None
<1>1. PICK r : (r = p \/ r \in Above(p)) /\ IsWhiteout(At(t, r)) /\ r # Root
  <2>1. CASE descend(t, p) = "Blocked"
    <3>1. PICK r \in Above(p) : IsWhiteout(At(t, r))
      BY <2>1 DEF descend, Hidden
    <3>2. QED
      BY <3>1, PrefixType
  <2>2. CASE descend(t, p) = "Found" /\ IsWhiteout(At(t, p))
    BY <2>2 DEF descend
  <2>3. QED
    BY <2>1, <2>2 DEF is_whiteout, is_blocked_or_whiteout
<1>2. r \in Seq(Name)
  BY <1>1, PrefixType
<1>3. lstat_overlay(d, t, p) = None
  BY <1>1, AnyOverlay DEF CoveredAt
<1>4. ASSUME NEW y \in Above(p)
      PROVE  ~IsSymlink(lstat_overlay(d, t, y))
  <2>1. y \in Seq(Name)
    BY PrefixType
  <2>2. y = r \/ y \in Above(r) \/ r \in Above(y)
    <3>1. /\ Len(y) \in Nat /\ Len(y) >= 1 /\ Len(y) < Len(p) /\ y = SubSeq(p, 1, Len(y))
      BY PrefixType
    <3>2. CASE r = p
      BY <3>2
    <3>3. CASE r \in Above(p)
      <4>1. /\ Len(r) \in Nat /\ Len(r) >= 1 /\ Len(r) < Len(p) /\ r = SubSeq(p, 1, Len(r))
        BY <3>3, PrefixType
      <4>2. Len(p) \in Nat
        BY LenProperties
      <4>3. CASE Len(y) = Len(r)
        BY <3>1, <4>1, <4>3
      <4>4. CASE Len(y) < Len(r)
        <5>1. SubSeq(r, 1, Len(y)) = y
          BY <3>1, <4>1, <4>2, <4>4, PrefixOfPrefix
        <5>2. QED
          BY <1>2, <3>1, <4>4, <5>1, PrefixIntro
      <4>5. CASE Len(r) < Len(y)
        <5>1. SubSeq(y, 1, Len(r)) = r
          BY <3>1, <4>1, <4>2, <4>5, PrefixOfPrefix
        <5>2. QED
          BY <2>1, <4>1, <4>5, <5>1, PrefixIntro
      <4>6. Len(y) = Len(r) \/ Len(y) < Len(r) \/ Len(r) < Len(y)
        <5>1. Len(y) \in Nat /\ Len(r) \in Nat
          BY <3>1, <4>1
        <5>2. QED
          BY ONLY <5>1
      <4>7. QED
        BY <4>3, <4>4, <4>5, <4>6
    <3>4. QED
      BY <1>1, <3>2, <3>3
  <2>3. CASE y = r
    BY <1>1, <2>1, <2>3, AnyOverlay, TypeNames
  <2>4. CASE r \in Above(y)
    BY <1>1, <2>1, <2>4, AnyOverlay, TypeNames DEF CoveredAt
  <2>5. CASE y \in Above(r)
    <3>1. IsDir(At(t, y))
      BY <1>1, <1>2, <2>5, TreeAbove, TypeNames
    <3>2. QED
      BY <2>1, <3>1, AnyOverlay, TypeNames
  <2>6. QED
    BY <2>2, <2>3, <2>4, <2>5
<1>5. QED
  BY <1>3, <1>4 DEF Straight

\* append_file adds to the file at the place the links lead to, or puts one.
LEMMA AppendInView ==
  ASSUME NEW d \in Disk, Rooted(d), NEW t, Good(t), NEW q, Clean(d, t, q),
         NEW c \in SUBSET Chunk,
         NEW r, r = AppendIn(d, t, q, c, resolve_layer(d, t, q))
  PROVE  Steps(d, t, r)
<1> DEFINE layer == resolve_layer(d, t, q)
           up == copy_up_if_needed(d, t, q)
           e == append_file(up.tree, q, c)
<1>1. Good(r.tree) /\ q \in Seq(Name)
  BY AppendInGood DEF Clean, Straight
<1>2. CASE layer = "Upper"
  <2>1. r = append_file(t, q, c)
    BY <1>2 DEF AppendIn
  <2>2. QED
    BY <1>1, <2>1, AppendStep DEF Steps
<1>3. CASE layer = "Lower"
  <2>1. r = Then(up, e)
    BY <1>3 DEF AppendIn
  <2>2. /\ Good(up.tree) /\ ViewStep(d, Merged(d, t), Merged(d, up.tree))
        /\ Succeeds(up) => Merged(d, up.tree) = Merged(d, t)
    BY <1>3, CopyUpView
  <2>3. ViewStep(d, Merged(d, up.tree), Merged(d, e.tree))
    BY <2>2, AppendStep
  <2> HIDE DEF up, e
  <2>4. QED
    BY <1>1, <2>1, <2>2, <2>3 DEF Then, Steps
<1>4. CASE layer \notin {"Upper", "Lower"}
  <2>1. r = AttachAfter(EnsureParent(d, t, q), q, File(c, FileMode))
    BY <1>4 DEF AppendIn, AttachBelow
  <2>2. lstat_overlay(d, t, q) = None
    BY <1>1, <1>4, LayerShows
  <2>3. Straight(d, t, q) /\ ~IsDir(lstat_overlay(d, t, q))
    BY <2>2, TypeNames DEF Clean
  <2>4. File(c, FileMode) \in LeafNode
    BY FileType, NodeAssumption
  <2>5. Attaches(d, t, r, q, File(c, FileMode))
    BY <2>1, <2>3, <2>4, AttachView
  <2>6. QED
    BY <1>1, <2>5, AttachesIsStep DEF Steps
<1>5. QED
  BY <1>2, <1>3, <1>4

\* append_file is a step of the one tree.
LEMMA AppendView ==
  ASSUME NEW d \in Disk, Rooted(d), NEW t, Good(t), NEW p \in Seq(Name),
         NEW c \in SUBSET Chunk, NEW r, r = overlay_append(d, t, p, c)
  PROVE  Steps(d, t, r)
<1> DEFINE w == resolve_write_target(d, t, p, TRUE)
           z == resolve_path(d, t, w.path, TRUE)
           q == ResolvedOr(z, w.path)
<1>1. CASE is_whiteout(t, p)
  <2>1. r = AttachAfter(EnsureParent(d, t, p), p, File(c, FileMode))
    BY <1>1 DEF overlay_append, AttachBelow
  <2>2. Straight(d, t, p) /\ ~IsDir(lstat_overlay(d, t, p))
    BY <1>1, DeletedIsStraight, TypeNames
  <2>3. File(c, FileMode) \in LeafNode
    BY FileType, NodeAssumption
  <2>4. Attaches(d, t, r, p, File(c, FileMode))
    BY <2>1, <2>2, <2>3, AttachView
  <2>5. Good(r.tree)
    BY AppendGood
  <2>6. QED
    BY <2>4, <2>5, AttachesIsStep DEF Steps
<1>2. CASE ~is_whiteout(t, p) /\ (w.err # "ok" \/ z.err \notin {"ok", "NotFound"})
  <2>1. r.tree = t
    BY <1>2 DEF overlay_append, Fail
  <2>2. QED
    BY <2>1, NoStep
<1>3. CASE ~is_whiteout(t, p) /\ w.err = "ok" /\ z.err \in {"ok", "NotFound"}
  <2>1. r = AppendIn(d, t, q, c, resolve_layer(d, t, q))
    BY <1>3 DEF overlay_append
  <2>2. w.path \in Seq(Name) /\ Clean(d, t, w.path)
    BY <1>3, WriteTarget DEF Arrived, Clean, Straight
  <2>3. z.err = "ok" => Clean(d, t, z.path)
    <3>1. TRUE \in BOOLEAN
      OBVIOUS
    <3>2. QED
      BY <2>2, <3>1, PathResolves DEF Arrived
  <2>4. Clean(d, t, q)
    BY <2>2, <2>3 DEF ResolvedOr
  <2> HIDE DEF q
  <2>5. QED
    BY <2>1, <2>4, AppendInView
<1>4. QED
  BY <1>1, <1>2, <1>3

(***************************************************************************)
(* A file written, and what its path leads to afterwards.                  *)
(***************************************************************************)
\* Two trees show the same links at every path without links on the way that
\* a resolver comes by in the first.
SameLinkAt(d, t, u, x) ==
  /\ IsSymlink(lstat_overlay(d, u, x)) <=> IsSymlink(lstat_overlay(d, t, x))
  /\ IsSymlink(lstat_overlay(d, t, x)) =>
       lstat_overlay(d, u, x) = lstat_overlay(d, t, x)
Known(d, t, x) == x \in Path \/ ~IsNone(lstat_overlay(d, t, x))
SameLinks(d, t, u) ==
  \A x \in Seq(Name) :
    Straight(d, t, x) /\ Known(d, t, x) => SameLinkAt(d, t, u, x)

\* Attaching a file changes no link that was known.
LEMMA AttachLinks ==
  ASSUME NEW d \in Disk, Rooted(d), NEW t, Good(t), NEW q, Clean(d, t, q),
         NEW n \in LeafNode, IsFile(n), ~IsDir(lstat_overlay(d, t, q)),
         NEW a, a = EnsureParent(d, t, q), NEW r, r = AttachAfter(a, q, n),
         Succeeds(r)
  PROVE  /\ SameLinks(d, t, r.tree) /\ Good(r.tree) /\ r.tree[q] = n
         /\ q \in NodePath
<1> DEFINE v == a.tree
           u == With(v, q, n)
<1>1. Straight(d, t, q) /\ q \in Seq(Name)
  BY DEF Clean, Straight
<1>2. Succeeds(a)
  BY DEF AttachAfter, Then
<1>3. /\ Good(v) /\ Makes(d, Merged(d, t), Merged(d, v), Above(q))
      /\ \A x \in Seq(Name) :
           x \notin Above(q) /\ (x \in NodePath \/ ~IsNone(lstat_overlay(d, t, x)))
           => lstat_overlay(d, v, x) = lstat_overlay(d, t, x)
  BY <1>1, <1>2, EnsureParentView
<1>4. r = attach(v, q, n)
  BY <1>2 DEF AttachAfter, Then
<1>5. /\ q \in NodePath /\ (\A z \in Above(q) : IsContent(v[z]))
      /\ (\A z \in Above(q) : ~IsLeaf(v[z])) /\ ~IsDir(v[q])
  BY <1>4 DEF attach, Fail, Succeeds
<1>6. r.tree = u
  BY <1>4, <1>5 DEF attach, Ok
<1> HIDE DEF v
<1>7. \A z \in Above(q) : IsDir(v[z])
  BY <1>5, TypeNames
<1>8. Good(u)
  BY <1>3, <1>5, <1>7, WithLeafGood
<1>9. u[q] = n
  BY <1>5 DEF With
<1>10. q \notin Above(q)
  BY <1>5, AboveType, NodePathType
<1>11. ~IsDir(lstat_overlay(d, v, q))
  BY <1>1, <1>3, <1>5, <1>10
<1>12. \A x \in NodePath : x # q /\ q \notin Above(x) =>
         lstat_overlay(d, u, x) = lstat_overlay(d, v, x)
  BY <1>3, <1>5, <1>7, <1>11, WithLeafView
<1> HIDE DEF u
<1>13. ASSUME NEW x \in Seq(Name), Straight(d, t, x), Known(d, t, x)
       PROVE  SameLinkAt(d, t, u, x)
  <2>1. CASE x = Root
    BY <1>3, <1>8, <2>1, RootClean DEF SameLinkAt
  <2>2. CASE x \in Above(q)
    <3>1. x \in NodePath /\ x # q /\ q \notin Above(x)
      <4>1. x \in NodePath /\ Len(x) < Len(q)
        BY <1>5, <2>2, AboveType
      <4>2. q \notin Above(x)
        BY <1>5, <1>10, <2>2, <4>1, AboveTransitive
      <4>3. QED
        BY <1>10, <2>2, <4>1, <4>2
    <3>2. IsDir(Merged(d, v)[x])
      BY <1>3, <2>2 DEF Makes, DirsMade
    <3>3. IsDir(lstat_overlay(d, v, x))
      BY <3>1, <3>2, MergedRooted, TypeNames
    <3>4. ~IsSymlink(lstat_overlay(d, u, x))
      BY <1>12, <3>1, <3>3, TypeNames
    <3>5. ~IsSymlink(lstat_overlay(d, t, x))
      BY <1>1, <2>2 DEF Straight
    <3>6. QED
      BY <3>4, <3>5 DEF SameLinkAt
  <2>3. CASE x = q
    <3>1. lstat_overlay(d, u, q) = n
      <4>1. /\ u[q] = n /\ IsContent(n) /\ ~IsNone(n) /\ ~IsWhiteout(n)
        BY <1>9, NodeTypes, TypeNames
      <4>2. ~Covered(u, q)
        <5>1. \A z \in Above(q) : IsDir(u[z])
          BY <1>5, <1>8, <4>1 DEF Good, TreeWF, Rooted
        <5>2. QED
          BY <5>1, TypeNames DEF Covered
      <4>3. QED
        BY <1>5, <1>8, <4>1, <4>2, OverlayIs
    <3>2. QED
      BY <2>3, <3>1, TypeNames DEF SameLinkAt, Clean
  <2>4. CASE q \in Above(x)
    <3>1. lstat_overlay(d, u, x) = None
      <4>1. At(u, q) = n /\ IsLeaf(n)
        BY <1>5, <1>8, <1>9, NodeOfTree, NodeTypes
      <4>2. CoveredAt(u, x)
        BY <2>4, <4>1 DEF CoveredAt
      <4>3. QED
        BY <1>8, <4>2, AnyOverlay
    <3>2. lstat_overlay(d, t, x) = None
      <4>1. IsNone(lstat_overlay(d, t, x))
        BY <1>13, <2>4, ShownBelowDirs
      <4>2. QED
        BY <4>1, OverlayAnswers, DiskNone
    <3>3. QED
      BY <3>1, <3>2, TypeNames DEF SameLinkAt
  <2>5. CASE x # Root /\ x \notin Above(q) /\ x # q /\ q \notin Above(x)
    <3>1. lstat_overlay(d, v, x) = lstat_overlay(d, t, x)
      BY <1>3, <1>13, <2>5 DEF Known, Path
    <3>2. lstat_overlay(d, u, x) = lstat_overlay(d, v, x)
      <4>1. \A z : z # q => At(u, z) = At(v, z)
        BY DEF At, With, u
      <4>2. At(u, x) = At(v, x) /\ (CoveredAt(u, x) <=> CoveredAt(v, x))
        BY <2>5, <4>1 DEF CoveredAt
      <4>3. QED
        BY <1>3, <1>8, <4>2, AnyOverlay
    <3>3. QED
      BY <3>1, <3>2 DEF SameLinkAt
  <2>6. QED
    BY <2>1, <2>2, <2>3, <2>4, <2>5
<1>14. QED
  BY <1>5, <1>6, <1>8, <1>9, <1>13 DEF SameLinks

\* A path lies above what is appended to it.
LEMMA AppendAbove ==
  ASSUME NEW u \in Seq(Name), NEW n \in Name
  PROVE  u = Root \/ u \in Above(Append(u, n))
<1>1. /\ Append(u, n) \in Seq(Name) /\ Len(Append(u, n)) = Len(u) + 1
      /\ SubSeq(Append(u, n), 1, Len(u)) = u /\ Len(u) \in Nat
  BY AppendOne, LenProperties
<1>2. CASE Len(u) = 0
  BY <1>2 DEF Root
<1>3. CASE Len(u) # 0
  <2>1. Len(u) >= 1 /\ Len(u) < Len(Append(u, n))
    BY <1>1, <1>3
  <2>2. SubSeq(Append(u, n), 1, Len(u)) \in Above(Append(u, n))
    BY <1>1, <2>1, PrefixIntro
  <2>3. QED
    BY <1>1, <2>2
<1>4. QED
  BY <1>2, <1>3

\* A resolver on its way to a place comes by known paths only.
LEMMA ComesByKnown ==
  ASSUME NEW d \in Disk, Rooted(d), NEW t, Good(t), NEW W,
         Targets(d, t, TRUE, W), NEW q \in NodePath, NEW w \in Places,
         Begins(d, t, TRUE, w), W[w] = Resolved(q)
  PROVE  Known(d, t, w[1])
<1> DEFINE Q(x) == Begins(d, t, TRUE, x) /\ W[x] = Resolved(q) => Known(d, t, x[1])
           B == {x \in Places : ~Q(x)}
<1>1. SUFFICES B = {}
  OBVIOUS
<1>2. SUFFICES ASSUME NEW x \in B, \A y \in B : ~Closer(y, x) PROVE FALSE
  <2>1. B \subseteq Places
    OBVIOUS
  <2> HIDE DEF B
  <2>2. QED
    BY <1>2, <2>1, LeastPlace
<1>3. /\ x \in Places /\ Begins(d, t, TRUE, x) /\ W[x] = Resolved(q)
      /\ ~Known(d, t, x[1])
  OBVIOUS
<1>4. x[1] \in Seq(Name) /\ x[2] \in Seq(Name)
  BY <1>3, PlaceIs
<1>5. \A y \in Places : Closer(y, x) => Q(y)
  BY <1>2
<1> HIDE DEF B
<1>6. q \in Seq(Name) /\ Resolved(q).err = "ok" /\ Resolved(q).path = q
  BY NodePathType, ResultTypes
<1>7. x[2] # <<>>
  <2>1. ASSUME x[2] = <<>> PROVE FALSE
    <3>1. W[x] = Resolved(x[1])
      BY <1>3, <2>1 DEF Targets
    <3>2. x[1] = q
      BY <1>3, <1>4, <1>6, <3>1, ResultTypes
    <3>3. QED
      BY <1>3, <3>2 DEF Known, Path
  <2>2. QED
    BY <2>1
<1>8. ~WLoops(d, t, TRUE, x)
  <2>1. ASSUME WLoops(d, t, TRUE, x) PROVE FALSE
    <3>1. W[x] = Unresolved("SymlinkLoop")
      BY <1>3, <1>7, <2>1 DEF Targets
    <3>2. "SymlinkLoop" \in Answer
      BY DEF Answer
    <3>3. QED
      BY <1>3, <1>6, <3>1, <3>2, ResultTypes
  <2>2. QED
    BY <2>1
<1>9. /\ Head(x[2]) \in Name /\ Clean(d, t, x[1]) /\ Next1(x) \in Seq(Name)
      /\ Next1(x) = Append(x[1], Head(x[2]))
  BY <1>3, <1>4, <1>7, PathSteps DEF Begins, Next1
<1>10. Straight(d, t, Next1(x))
  BY <1>4, <1>9, NextArrives
<1>11. x[1] # Root /\ x[1] \in Above(Next1(x))
  <2>1. x[1] # Root
    BY <1>3 DEF Known, Path
  <2>2. QED
    BY <1>4, <1>9, <2>1, AppendAbove
<1>12. lstat_overlay(d, t, Next1(x)) = None
  <2>1. IsNone(lstat_overlay(d, t, Next1(x)))
    BY <1>3, <1>10, <1>11, ShownBelowDirs, TypeNames DEF Known
  <2>2. QED
    BY <2>1, OverlayAnswers, DiskNone
<1>13. ~WFollows(d, t, TRUE, x)
  BY <1>12, TypeNames DEF WFollows, LinkAt
<1> DEFINE y == WOnward(d, t, TRUE, x)
<1>14. /\ W[x] = W[y] /\ y \in Places /\ Closer(y, x)
       /\ y[1] = Next1(x) /\ y[2] = Tail(x[2])
  BY <1>3, <1>7, <1>8, <1>13, WOnwardIs DEF Targets
<1> HIDE DEF y
<1>15. Begins(d, t, TRUE, y)
  <2>1. ~IsSymlink(lstat_overlay(d, t, Next1(x)))
    BY <1>12, TypeNames
  <2>2. Clean(d, t, y[1])
    BY <1>10, <1>14, <2>1 DEF Clean
  <2>3. Straight(d, t, y[1])
    BY <1>10, <1>14
  <2>4. QED
    BY <2>2, <2>3, Zenon DEF Begins, Arrived
<1>16. Known(d, t, Next1(x))
  BY <1>3, <1>5, <1>14, <1>15
<1>17. Next1(x) \in NodePath
  <2>1. Next1(x) # Root
    <3> DEFINE a == x[1]
               n == Head(x[2])
    <3>1. a \in Seq(Name) /\ n \in Name
      BY <1>4, <1>9
    <3>2. Next1(x) = Append(a, n)
      BY <1>9
    <3> HIDE DEF a, n
    <3>3. Append(a, n) # Root
      BY <3>1, AppendOne, Zenon
    <3>4. QED
      BY <3>2, <3>3, Zenon
  <2>2. QED
    BY <1>12, <1>16, <2>1, TypeNames DEF Known, Path
<1>18. x[1] \in NodePath
  BY <1>11, <1>17, AboveType
<1>19. QED
  BY <1>3, <1>18 DEF Known, Path

\* Where the same links show, a path leads to the same place.
Leads(W, w, q) == W[w] = Resolved(q)

\* Where two trees have the same links, resolve_write_target leads to the same path.
LEMMA SameTarget ==
  ASSUME NEW d \in Disk, Rooted(d), NEW t, Good(t), NEW u, Good(u),
         SameLinks(d, t, u), NEW W, Targets(d, t, TRUE, W), NEW U,
         Targets(d, u, TRUE, U), NEW q \in NodePath, NEW w \in Places,
         Begins(d, t, TRUE, w), Leads(W, w, q)
  PROVE  Leads(U, w, q)
<1> DEFINE Q(x) == Begins(d, t, TRUE, x) /\ W[x] = Resolved(q) => U[x] = Resolved(q)
           B == {x \in Places : ~Q(x)}
<1>1. SUFFICES B = {}
  BY DEF Leads
<1>2. SUFFICES ASSUME NEW x \in B, \A y \in B : ~Closer(y, x) PROVE FALSE
  <2>1. B \subseteq Places
    OBVIOUS
  <2> HIDE DEF B
  <2>2. QED
    BY <1>2, <2>1, LeastPlace
<1>3. /\ x \in Places /\ Begins(d, t, TRUE, x) /\ W[x] = Resolved(q)
      /\ U[x] # Resolved(q)
  OBVIOUS
<1>4. x[1] \in Seq(Name) /\ x[2] \in Seq(Name)
  BY <1>3, PlaceIs
<1>5. \A y \in Places : Closer(y, x) => Q(y)
  BY <1>2
<1> HIDE DEF B
<1>6. q \in Seq(Name) /\ Resolved(q).err = "ok" /\ Resolved(q).path = q
  BY NodePathType, ResultTypes
<1>7. x[2] # <<>>
  <2>1. ASSUME x[2] = <<>> PROVE FALSE
    <3>1. W[x] = Resolved(x[1]) /\ U[x] = Resolved(x[1])
      BY <1>3, <2>1 DEF Targets
    <3>2. QED
      BY <1>3, <3>1
  <2>2. QED
    BY <2>1
<1>8. ~WLoops(d, t, TRUE, x)
  <2>1. ASSUME WLoops(d, t, TRUE, x) PROVE FALSE
    <3>1. W[x] = Unresolved("SymlinkLoop")
      BY <1>3, <1>7, <2>1 DEF Targets
    <3>2. "SymlinkLoop" \in Answer
      BY DEF Answer
    <3>3. QED
      BY <1>3, <1>6, <3>1, <3>2, ResultTypes
  <2>2. QED
    BY <2>1
<1>9. /\ Head(x[2]) \in Name /\ Clean(d, t, x[1]) /\ Next1(x) \in Seq(Name)
      /\ Next1(x) = Append(x[1], Head(x[2]))
  BY <1>3, <1>4, <1>7, PathSteps DEF Begins, Next1
<1>10. Straight(d, t, Next1(x))
  BY <1>4, <1>9, NextArrives
<1> DEFINE y == WOnward(d, t, TRUE, x)
           z == WOnward(d, u, TRUE, x)
<1>11. W[x] = W[y] /\ y \in Places /\ Closer(y, x)
  BY <1>3, <1>7, <1>8, WOnwardIs DEF Targets
<1>12. Begins(d, t, TRUE, y)
  <2>1. CASE WFollows(d, t, TRUE, x)
    <3>1. y[1] = Root
      BY <1>3, <1>7, <1>8, <2>1, WOnwardIs
    <3> HIDE DEF y
    <3>2. QED
      BY <3>1, RootClean DEF Begins, Arrived, Clean
  <2>2. CASE ~WFollows(d, t, TRUE, x)
    <3>1. y[1] = Next1(x) /\ y[2] = Tail(x[2])
      BY <1>3, <1>7, <1>8, <2>2, WOnwardIs
    <3> HIDE DEF y
    <3>2. QED
      BY <1>10, <2>2, <3>1 DEF Begins, Arrived, Clean, WFollows, LinkAt
  <2>3. QED
    BY <2>1, <2>2
<1>13. U[y] = Resolved(q) /\ W[y] = Resolved(q)
  <2> HIDE DEF y
  <2> QED BY <1>3, <1>5, <1>11, <1>12
<1>14. Known(d, t, Next1(x))
  <2>1. CASE WFollows(d, t, TRUE, x)
    BY <2>1, TypeNames DEF Known, WFollows, LinkAt
  <2>2. CASE ~WFollows(d, t, TRUE, x)
    <3>1. y[1] = Next1(x)
      BY <1>3, <1>7, <1>8, <2>2, WOnwardIs
    <3> HIDE DEF y
    <3>2. Known(d, t, y[1])
      BY <1>11, <1>12, <1>13, ComesByKnown
    <3>3. QED
      BY <3>1, <3>2
  <2>3. QED
    BY <2>1, <2>2
<1>15. SameLinkAt(d, t, u, Next1(x))
  BY <1>9, <1>10, <1>14 DEF SameLinks
<1>16. /\ WFollows(d, u, TRUE, x) <=> WFollows(d, t, TRUE, x)
       /\ WFollows(d, t, TRUE, x) => Spliced(d, u, x) = Spliced(d, t, x)
  BY <1>15 DEF SameLinkAt, WFollows, LinkAt, Spliced
<1>17. ~WLoops(d, u, TRUE, x) /\ z = y
  BY <1>8, <1>16 DEF WLoops, WOnward
<1>18. U[x] = U[z]
  BY <1>3, <1>7, <1>17 DEF Targets
<1>19. QED
  BY <1>3, <1>13, <1>17, <1>18

\* From w the writers' resolver runs out of traversals, or gets to a with v
\* before it.
Meets(W, w, a, v) ==
  \/ W[w] = Unresolved("SymlinkLoop")
  \/ \E k \in 0..MaxHops : W[w] = W[<<a, v, k>>]
\* What is left makes both of them follow links at the end, or neither.
AsOne(follow, r, v) == r[3] <=> (follow \/ v # <<>>)
MeetsAlways(W, R, follow, r) ==
  \A v \in Seq(Name), h \in 0..MaxHops :
    AsOne(follow, r, v) => Meets(W, <<r[1], r[2] \o v, h>>, R[r].path, v)

\* What is joined is empty where both parts are.
LEMMA JoinedEmpty ==
  ASSUME NEW u \in Seq(Name), NEW v \in Seq(Name)
  PROVE  u \o v = <<>> <=> u = <<>> /\ v = <<>>
<1>1. u = <<>> => u \o v = v
  BY Concat
<1>2. u # <<>> => u \o v # <<>>
  BY Concat
<1>3. QED
  BY <1>1, <1>2

\* Where resolve_path arrives, resolve_write_target does, if anywhere.
LEMMA ResolversMeet ==
  ASSUME NEW d \in Disk, NEW t, Good(t), NEW R, Resolves(d, t, R),
         NEW follow \in BOOLEAN, NEW W, Targets(d, t, follow, W),
         NEW w \in Trips, R[w].err = "ok"
  PROVE  MeetsAlways(W, R, follow, w)
<1> DEFINE Q(x) == R[x].err = "ok" => MeetsAlways(W, R, follow, x)
           B == {x \in Trips : ~Q(x)}
<1>1. SUFFICES B = {}
  OBVIOUS
<1>2. SUFFICES ASSUME NEW r \in B, \A y \in B : ~Sooner(y, r) PROVE FALSE
  <2>1. B \subseteq Trips
    OBVIOUS
  <2> HIDE DEF B
  <2>2. QED
    BY <1>2, <2>1, LeastTrip
<1>3. r \in Trips /\ R[r].err = "ok" /\ ~MeetsAlways(W, R, follow, r)
  OBVIOUS
<1>4. \A y \in Trips : Sooner(y, r) => Q(y)
  BY <1>2
<1> HIDE DEF B
<1>5. /\ r[1] \in Seq(Name) /\ r[2] \in Seq(Name) /\ r[4] \in 0..MaxHops
      /\ r[3] \in BOOLEAN
  BY <1>3, TripIs
<1>6. SUFFICES ASSUME NEW v \in Seq(Name), NEW h \in 0..MaxHops, AsOne(follow, r, v)
               PROVE  Meets(W, <<r[1], r[2] \o v, h>>, R[r].path, v)
  BY <1>3 DEF MeetsAlways
<1>7. R[r] = Answers(d, t, R, r)
  BY <1>3 DEF Resolves
<1>8. /\ Unresolved("SymlinkLoop").err # "ok"
      /\ Bar(t, r).err # "ok"
  BY BarType DEF Unresolved
<1>9. r[4] # 0 /\ (r[2] # <<>> => ~Barred(t, r))
  BY <1>3, <1>7, <1>8, AnswersBarred
<1>10. CASE r[2] = <<>>
  <2>1. R[r] = Resolved(r[1]) /\ R[r].path = r[1]
    BY <1>5, <1>7, <1>9, <1>10, ResultTypes DEF Answers
  <2>2. r[2] \o v = v
    BY <1>5, <1>10, Concat
  <2>3. QED
    BY <2>1, <2>2 DEF Meets
<1>11. CASE r[2] # <<>>
  <2> DEFINE x == <<r[1], r[2] \o v, h>>
             s == Tail(r[2]) \o v
  <2>1. /\ r[2] \o v \in Seq(Name) /\ r[2] \o v # <<>>
        /\ Head(r[2] \o v) = Head(r[2]) /\ Tail(r[2] \o v) = s
        /\ Tail(r[2]) \in Seq(Name) /\ s \in Seq(Name)
    BY <1>5, <1>11, Concat, PathSteps
  <2>2. /\ x \in Places /\ x[1] = r[1] /\ x[2] = r[2] \o v /\ x[3] = h
    BY <1>5, <2>1, PlaceIntro
  <2> HIDE DEF x, s
  <2>3. /\ Next1(x) = Sought(r) /\ Tail(x[2]) = s /\ x[2] # <<>>
    BY <2>1, <2>2 DEF Next1, Sought
  <2>4. /\ LinkAt(d, t, x) <=> IsSymlink(lstat_overlay(d, t, Sought(r)))
        /\ WFollows(d, t, follow, x) <=> Detours(d, t, r)
        /\ Spliced(d, t, x) = Led(d, t, r)
        /\ Detours(d, t, r) => follow \/ s # <<>>
    <3>1. s # <<>> <=> v # <<>> \/ Tail(r[2]) # <<>>
      BY <2>1, JoinedEmpty DEF s
    <3>2. r[3] \/ Tail(r[2]) # <<>> <=> follow \/ s # <<>>
      BY <1>5, <1>6, <3>1 DEF AsOne
    <3>3. QED
      BY <2>2, <2>3, <3>2 DEF LinkAt, WFollows, Detours, Spliced, Led
  <2>5. CASE ~Detours(d, t, r)
    <3>1. GoesOn(R, r, Sought(r))
      BY <1>3, <1>9, <1>11, <2>5, TripGoes
    <3>2. PICK y \in Trips : /\ y[1] = Sought(r) /\ y[2] = Tail(r[2])
                             /\ y[3] = r[3] /\ Sooner(y, r) /\ R[r] = R[y]
      BY <3>1 DEF GoesOn
    <3>3. MeetsAlways(W, R, follow, y) /\ AsOne(follow, y, v)
      BY <1>3, <1>4, <1>6, <3>2 DEF AsOne
    <3>4. Meets(W, <<Sought(r), s, h>>, R[r].path, v)
      BY <3>2, <3>3 DEF MeetsAlways, s
    <3>5. ~WFollows(d, t, follow, x) /\ ~WLoops(d, t, follow, x)
      BY <2>4, <2>5 DEF WLoops
    <3>6. W[x] = W[<<Sought(r), s, h>>]
      BY <2>2, <2>3, <3>5 DEF Targets, WOnward
    <3>7. QED
      BY <3>4, <3>6 DEF Meets, x
  <2>6. CASE Detours(d, t, r)
    <3>1. WFollows(d, t, follow, x)
      BY <2>4, <2>6
    <3>2. CASE h = 0
      <4>1. W[x] = Unresolved("SymlinkLoop")
        BY <2>2, <2>3, <3>1, <3>2 DEF Targets, WLoops
      <4>2. QED
        BY <4>1 DEF Meets, x
    <3>3. CASE h # 0
      <4>1. GoesAround(d, t, R, r)
        BY <1>3, <1>9, <1>11, <2>6, TripGoes
      <4>2. PICK l \in Trips : Around(d, t, R, r, l)
        BY <4>1 DEF GoesAround
      <4>3. /\ l[1] = Root /\ l[2] = Led(d, t, r) /\ l[3] = TRUE /\ Sooner(l, r)
            /\ R[l].err # "ok" => R[r] = R[l]
            /\ R[l].err = "ok" /\ R[l].path \in Seq(Name) => GoesOn(R, r, R[l].path)
        BY <4>2 DEF Around
      <4>4. R[l].err = "ok" /\ R[l].path \in Seq(Name)
        BY <1>3, <4>3, TripArrives DEF Result
      <4>5. PICK y \in Trips : /\ y[1] = R[l].path /\ y[2] = Tail(r[2])
                               /\ y[3] = r[3] /\ Sooner(y, r) /\ R[r] = R[y]
        BY <4>3, <4>4 DEF GoesOn
      <4>6. /\ MeetsAlways(W, R, follow, l) /\ MeetsAlways(W, R, follow, y)
            /\ AsOne(follow, l, s) /\ AsOne(follow, y, v)
        BY <1>3, <1>4, <1>6, <2>4, <2>6, <4>3, <4>4, <4>5 DEF AsOne
      <4>7. h - 1 \in 0..MaxHops
        BY <3>3, HopAssumption
      <4>8. Meets(W, <<Root, Led(d, t, r) \o s, h - 1>>, R[l].path, s)
        BY <2>1, <4>3, <4>6, <4>7 DEF MeetsAlways
      <4>9. \A k \in 0..MaxHops : Meets(W, <<R[l].path, s, k>>, R[r].path, v)
        BY <4>5, <4>6 DEF MeetsAlways, s
      <4>10. ~WLoops(d, t, follow, x)
        BY <2>2, <3>3 DEF WLoops
      <4>11. W[x] = W[<<Root, Led(d, t, r) \o s, h - 1>>]
        BY <2>2, <2>3, <2>4, <3>1, <4>10 DEF Targets, WOnward
      <4>12. Meets(W, x, R[l].path, s)
        BY <4>8, <4>11 DEF Meets
      <4>13. Meets(W, x, R[r].path, v)
        BY <4>9, <4>12 DEF Meets
      <4>14. QED
        BY <4>13 DEF x
    <3>4. QED
      BY <3>2, <3>3
  <2>7. QED
    BY <2>5, <2>6
<1>12. QED
  BY <1>10, <1>11

\* resolve_write_target where it follows a link at the end as well.
LEMMA TargetIsFollowing ==
  ASSUME NEW d \in Disk, NEW t, Good(t)
  PROVE  \E W : /\ Targets(d, t, TRUE, W)
                /\ \A q : resolve_write_target(d, t, q, TRUE) =
                            W[<<Root, q, MaxHops>>]
<1>1. \A g : \E V : /\ Targets(d, t, g, V)
                    /\ \A q : resolve_write_target(d, t, q, g) = V[<<Root, q, MaxHops>>]
  BY TargetIs
<1>2. QED
  BY ONLY <1>1, Zenon

\* Where both of the resolvers arrive they arrive at the same path.
LEMMA SamePlace ==
  ASSUME NEW d \in Disk, NEW t, Good(t), NEW p \in Seq(Name),
         NEW follow \in BOOLEAN,
         resolve_path(d, t, p, follow).err = "ok",
         resolve_write_target(d, t, p, follow).err = "ok"
  PROVE  resolve_write_target(d, t, p, follow) = resolve_path(d, t, p, follow)
<1>1. PICK R : /\ Resolves(d, t, R)
               /\ \A q, g : resolve_path(d, t, q, g) = R[<<Root, q, g, MaxHops>>]
  BY ResolverIs
<1>2. PICK W : /\ Targets(d, t, follow, W)
               /\ \A q : resolve_write_target(d, t, q, follow) = W[<<Root, q, MaxHops>>]
  BY TargetIs
<1> DEFINE r == <<Root, p, follow, MaxHops>>
<1>3. MaxHops \in 0..MaxHops /\ Root \in Seq(Name)
  BY HopAssumption, EmptyPath
<1>4. r \in Trips /\ r[1] = Root /\ r[2] = p /\ r[3] = follow
  BY <1>3, TripIs
<1>5. resolve_path(d, t, p, follow) = R[r]
  BY <1>1
<1> HIDE DEF r
<1>6. R[r] \in Result /\ R[r].err = "ok"
  BY <1>5, <1>1, <1>4, TripArrives
<1>7. MeetsAlways(W, R, follow, r) /\ AsOne(follow, r, <<>>)
  BY <1>1, <1>2, <1>4, <1>6, ResolversMeet DEF AsOne
<1>8. Meets(W, <<Root, p \o <<>>, MaxHops>>, R[r].path, <<>>)
  BY <1>3, <1>4, <1>7, EmptyPath DEF MeetsAlways
<1>9. p \o <<>> = p
  BY EmptyPath, Concat
<1>10. W[<<Root, p, MaxHops>>] # Unresolved("SymlinkLoop")
  <2>1. W[<<Root, p, MaxHops>>].err = "ok"
    BY <1>2
  <2>2. Unresolved("SymlinkLoop").err # "ok"
    BY DEF Unresolved
  <2>3. QED
    BY <2>1, <2>2
<1>11. PICK k \in 0..MaxHops : W[<<Root, p, MaxHops>>] = W[<<R[r].path, <<>>, k>>]
  BY <1>8, <1>9, <1>10 DEF Meets
<1>12. /\ <<R[r].path, <<>>, k>> \in Places
       /\ <<R[r].path, <<>>, k>>[1] = R[r].path
       /\ <<R[r].path, <<>>, k>>[2] = <<>>
  BY <1>6, EmptyPath, PlaceIntro DEF Result
<1>13. W[<<R[r].path, <<>>, k>>] = Resolved(R[r].path)
  BY <1>2, <1>12 DEF Targets
<1>14. R[r] = Resolved(R[r].path)
  BY <1>6, ResultTypes
<1>15. QED
  BY <1>2, <1>5, <1>11, <1>13, <1>14

\* What write_file leaves where it succeeds.
LEMMA WriteFileLinks ==
  ASSUME NEW d \in Disk, Rooted(d), NEW t, Good(t), NEW p \in Seq(Name),
         NEW c \in SUBSET Chunk, NEW r, r = write_file(d, t, p, c), Succeeds(r),
         NEW q, resolve_write_target(d, t, p, TRUE) = Resolved(q),
         Clean(d, t, q)
  PROVE  SameLinks(d, t, r.tree) /\ Good(r.tree) /\ IsFile(r.tree[q])
<1> DEFINE a == EnsureParent(d, t, q)
           m == WriteMode(d, a.tree, q)
<1>1. Resolved(q).err = "ok" /\ Resolved(q).path = q
  BY DEF Resolved
<1>2. /\ ~IsDir(lstat_overlay(d, t, q))
      /\ r = AttachAfter(a, q, File(c, m))
  BY <1>1 DEF write_file, Fail, Succeeds
<1>3. File(c, m) \in LeafNode
  BY EnsureGood, WriteModeType, FileType
<1>4. IsFile(File(c, m))
  BY DEF IsFile, File
<1> HIDE DEF m
<1>5. QED
  BY <1>2, <1>3, <1>4, AttachLinks

\* What a writer put is where a reader of the same path is led.
LEMMA WrittenIsThere ==
  ASSUME NEW d \in Disk, Rooted(d), NEW t, Good(t), NEW p \in Seq(Name),
         NEW u, Good(u), SameLinks(d, t, u), NEW q \in NodePath,
         resolve_write_target(d, t, p, TRUE) = Resolved(q),
         resolve_path(d, u, p, TRUE).err = "ok"
  PROVE  resolve_path(d, u, p, TRUE).path = q
<1>2. PICK W : /\ Targets(d, t, TRUE, W)
               /\ \A x : resolve_write_target(d, t, x, TRUE) = W[<<Root, x, MaxHops>>]
  BY TargetIsFollowing
<1>3. PICK U : /\ Targets(d, u, TRUE, U)
               /\ \A x : resolve_write_target(d, u, x, TRUE) = U[<<Root, x, MaxHops>>]
  BY TargetIsFollowing
<1> DEFINE w == <<Root, p, MaxHops>>
<1>4. w \in Places /\ w[1] = Root
  BY StartPlace
<1>5. W[w] = Resolved(q)
  BY <1>2
<1>6. resolve_write_target(d, u, p, TRUE) = U[w]
  BY <1>3
<1> HIDE DEF w
<1>7. Begins(d, t, TRUE, w)
  BY <1>4, RootClean DEF Begins, Arrived, Clean
<1>8. U[w] = Resolved(q)
  <2>1. Targets(d, t, TRUE, W) /\ Targets(d, u, TRUE, U)
    BY <1>2, <1>3
  <2>2. Leads(W, w, q)
    BY <1>5 DEF Leads
  <2>3. Leads(U, w, q)
    BY <1>4, <1>7, <2>1, <2>2, SameTarget
  <2>4. QED
    BY <2>3 DEF Leads
<1>9. Resolved(q).err = "ok" /\ Resolved(q).path = q
  BY DEF Resolved
<1>10. resolve_write_target(d, u, p, TRUE) = resolve_path(d, u, p, TRUE)
  BY <1>6, <1>8, <1>9, SamePlace
<1>11. QED
  BY <1>6, <1>8, <1>9, <1>10

\* copy puts one file: the mode it sets afterwards is set where it wrote.
LEMMA CopyView ==
  ASSUME NEW d \in Disk, Rooted(d), NEW t, Good(t), NEW src, NEW dst \in Seq(Name),
         NEW r, r = copy(d, t, src, dst)
  PROVE  Steps(d, t, r)
<1> DEFINE n == read_file(d, t, src)
           w == write_file(d, t, dst, n.content)
           u == w.tree
           z == resolve_path(d, u, dst, TRUE)
<1>1. Good(r.tree)
  BY CopyGood
<1>2. CASE ~IsFile(n)
  <2>1. r.tree = t
    BY <1>2 DEF copy, Fail
  <2>2. QED
    BY <2>1, NoStep
<1>3. CASE IsFile(n)
  <2>1. n.content \in SUBSET Chunk /\ n.mode \in Mode
    BY <1>3, FileRead
  <2>2. r = Then(w, chmod(d, u, dst, n.mode))
    BY <1>3 DEF copy
  <2> HIDE DEF n
  <2>3. /\ Steps(d, t, w)
        /\ Succeeds(w) =>
             \E q \in NodePath, m \in Mode :
               /\ resolve_write_target(d, t, dst, TRUE) = Resolved(q)
               /\ Clean(d, t, q)
               /\ Puts(d, Merged(d, t), Merged(d, u), q, File(n.content, m))
    BY <2>1, WriteFileView
  <2>4. CASE ~Succeeds(w)
    BY <2>2, <2>3, <2>4 DEF Then
  <2>5. CASE Succeeds(w)
    <3>1. r = chmod(d, u, dst, n.mode)
      BY <2>2, <2>5 DEF Then
    <3>2. PICK q \in NodePath, m \in Mode :
               /\ resolve_write_target(d, t, dst, TRUE) = Resolved(q)
               /\ Clean(d, t, q)
               /\ Puts(d, Merged(d, t), Merged(d, u), q, File(n.content, m))
      BY <2>3, <2>5
    <3>3. SameLinks(d, t, u) /\ Good(u) /\ IsFile(u[q])
      BY <2>1, <2>5, <3>2, WriteFileLinks
    <3>4. CASE z.err # "ok"
      <4>1. r.tree = u
        BY <3>1, <3>4 DEF chmod, Fail
      <4>2. QED
        BY <1>1, <2>3, <4>1 DEF Steps
    <3>5. CASE z.err = "ok"
      <4> HIDE DEF w
      <4>1. z.path = q
        BY <3>2, <3>3, <3>5, WrittenIsThere
      <4>2. resolve_layer(d, u, q) = "Upper" /\ q # Root
        <5>1. q # Root
          BY NodePathType, EmptyPath
        <5>2. At(u, q) = u[q] /\ IsContent(u[q]) /\ ~IsNone(u[q])
          BY <3>3, NodeOfTree, TypeNames
        <5>3. \A x \in Above(q) : IsDir(At(u, x))
          BY <3>3, <5>2, AboveType, NodeOfTree DEF Good, TreeWF, Rooted
        <5>4. descend(u, q) = "Found"
          BY <5>1, <5>2, <5>3, TypeNames DEF descend, Hidden
        <5>5. QED
          BY <5>1, <5>2, <5>4 DEF resolve_layer, has_content
      <4>3. BringUp(d, u, q) = Ok(u)
        BY <4>2 DEF BringUp
      <4>4. r = set_mode(u, q, n.mode)
        <5>1. r = Then(BringUp(d, u, z.path), set_mode(BringUp(d, u, z.path).tree, z.path, n.mode))
          BY <3>1, <3>5 DEF chmod
        <5>2. Succeeds(Ok(u)) /\ Ok(u).tree = u
          BY DEF Ok, Succeeds
        <5> HIDE DEF z, u
        <5>3. QED
          BY <4>1, <4>3, <5>1, <5>2 DEF Then
      <4>5. \/ r.tree = u
            \/ Replaced(Merged(d, u), Merged(d, r.tree), q, u[q],
                        [u[q] EXCEPT !.mode = n.mode])
        BY <2>1, <3>3, <4>4, SetModeStep
      <4>6. CASE r.tree = u
        BY <1>1, <2>3, <4>6 DEF Steps
      <4>7. CASE Replaced(Merged(d, u), Merged(d, r.tree), q, u[q],
                          [u[q] EXCEPT !.mode = n.mode])
        <5> DEFINE e == [u[q] EXCEPT !.mode = n.mode]
        <5>1. IsLeaf(e)
          <6>1. u[q] \in LeafNode
            BY <3>3, NodeOfTree, DiskNodeTypes, TypeNames
          <6>2. QED
            BY <3>3, <6>1 DEF IsLeaf, IsFile, LeafNode
        <5> HIDE DEF e, u
        <5>2. Replaced(Merged(d, u), Merged(d, r.tree), q, u[q], e)
          BY <4>7 DEF e
        <5>3. UpTo(q) = Above(q) \cup {q}
          BY UpToIsAboveAndSelf
        <5>4. \A x \in Above(q) : x \in NodePath /\ x # q
          BY AboveType, NodePathType
        <5>5. Puts(d, Merged(d, t), Merged(d, r.tree), q, e)
          BY <3>2, <5>1, <5>2, <5>3, <5>4
             DEF Replaced, Puts, DirsMade, KeptOutside
        <5>6. QED
          BY <1>1, <5>5 DEF Steps, ViewStep, EntryStep
      <4>8. QED
        BY <4>5, <4>6, <4>7
    <3>6. QED
      BY <3>4, <3>5
  <2>6. QED
    BY <2>4, <2>5
<1>4. QED
  BY <1>2, <1>3

(***************************************************************************)
(* rename of a file or a link: put at the destination, hidden at the       *)
(* source.                                                                 *)
(***************************************************************************)
LEMMA MoveLeafView ==
  ASSUME NEW d \in Disk, Rooted(d), NEW t, Good(t), NEW q, Straight(d, t, q),
         NEW n \in LeafNode, NEW r, r = MoveLeaf(d, t, q, n)
  PROVE  Attaches(d, t, r, q, n)
<1> DEFINE a == EnsureParent(d, t, q)
<1>1. CASE IsLowerDir(d, t, q)
  <2>1. r.tree = t /\ ~Succeeds(r)
    BY <1>1 DEF MoveLeaf, Fail, Succeeds
  <2>2. QED
    BY <2>1 DEF Attaches, ViewStep
<1>2. CASE ~IsLowerDir(d, t, q) /\ ~IsDir(lstat_overlay(d, t, q))
  <2>1. r = AttachAfter(a, q, n)
    BY <1>2 DEF MoveLeaf, AttachBelow
  <2>2. QED
    BY <1>2, <2>1, AttachView
<1>3. CASE ~IsLowerDir(d, t, q) /\ IsDir(lstat_overlay(d, t, q))
  <2>1. q \in Seq(Name)
    BY DEF Straight
  <2>2. /\ Good(a.tree)
        /\ ~Succeeds(a) => a.tree = t
    BY EnsureParentView
  <2>3. /\ Succeeds(a) => /\ ViewStep(d, Merged(d, t), Merged(d, a.tree))
                          /\ lstat_overlay(d, a.tree, q) = lstat_overlay(d, t, q)
    <3>1. ~IsNone(lstat_overlay(d, t, q)) /\ q \notin Above(q)
      BY <1>3, <2>1, PrefixType, TypeNames
    <3>2. QED
      BY <2>1, <3>1, EnsureParentView
  <2>4. r = AttachAfter(a, q, n)
    BY <1>3 DEF MoveLeaf, AttachBelow
  <2>5. ~is_whiteout(t, q)
    BY <1>3, <2>1, DeletedIsStraight, TypeNames
  <2>6. has_content(t, q)
    <3>1. ~upper_has_entry(t, q) => lstat_overlay(d, t, q) = lstat_lower(d, q)
      BY <1>3, TypeNames DEF lstat_overlay, upper_has_entry
    <3>2. QED
      BY <1>3, <2>5, <3>1 DEF IsLowerDir, upper_has_entry
  <2>7. ~IsNone(a.tree[q])
    <3>1. q \in NodePath /\ ~IsNone(t[q]) /\ q \notin Above(q)
      BY <2>1, <2>6, FoundIsNode, PrefixType
    <3>2. CASE ~Succeeds(a) \/ Len(q) <= 1
      BY <2>2, <3>1, <3>2 DEF EnsureParent, Ok
    <3>3. CASE Succeeds(a) /\ Len(q) > 1
      <4>1. /\ Clean(d, t, Parent(q)) /\ UpTo(Parent(q)) = Above(q)
            /\ a = ensure_upper_dir_path(d, t, Parent(q))
        BY <2>1, <3>3, ParentPath, StraightAbove DEF EnsureParent
      <4>2. Makeable(t, Above(q)) /\ a.tree = Ensured(d, t, Above(q))
        BY <3>3, <4>1, EnsurePathView DEF Buildable
      <4>3. a.tree[q] = t[q] \/ a.tree[q] = Whiteout
        BY <3>1, <4>2, EnsuredGood
      <4>4. QED
        BY <3>1, <4>3, NodeTypes
    <3>4. Len(q) \in Nat
      BY <2>1, LenProperties
    <3>5. Len(q) <= 1 \/ Len(q) > 1
      BY ONLY <3>4
    <3>6. QED
      BY <3>2, <3>3, <3>5
  <2>8. ~Succeeds(r) /\ r.tree = a.tree
    <3>1. CASE ~Succeeds(a)
      BY <2>4, <3>1 DEF AttachAfter, Then
    <3>2. CASE Succeeds(a)
      <4>1. q \in NodePath /\ IsDir(a.tree[q])
        BY <1>3, <2>2, <2>3, <2>6, <2>7, <3>2, FoundIsNode, DirCovers
      <4>2. r = attach(a.tree, q, n)
        BY <2>4, <3>2 DEF AttachAfter, Then
      <4>3. QED
        BY <4>1, <4>2 DEF attach, Fail, Succeeds
    <3>3. QED
      BY <3>1, <3>2
  <2>9. QED
    BY <2>2, <2>3, <2>8 DEF Attaches, ViewStep
<1>4. QED
  BY <1>1, <1>2, <1>3

\* Trees like those a script sees: whatever is there lies in directories.
Seen(M) == M \in Disk /\ Rooted(M)

\* What an overlay shows is such a tree.
LEMMA MergedSeen ==
  ASSUME NEW d \in Disk, NEW t, Good(t)
  PROVE  Seen(Merged(d, t))
<1>1. Merged(d, t) \in Disk
  BY MergedType
<1>2. Rooted(Merged(d, t))
  BY MergedRooted DEF Rooted
<1>3. QED
  BY <1>1, <1>2 DEF Seen

\* Nothing shows below what is not a directory.
LEMMA SeenUnder ==
  ASSUME NEW M, Seen(M), NEW q \in NodePath, ~IsDir(M[q]), NEW r \in Below(q)
  PROVE  M[r] = None
<1>1. r \in NodePath /\ q \in Above(r)
  BY BelowIsAbove DEF Below
<1>2. IsNone(M[r])
  BY <1>1 DEF Seen, Rooted
<1>3. QED
  BY <1>1, <1>2, DiskNone DEF Seen, Disk

\* The root of a subtree moves to the root of the other.
LEMMA RebaseSelf ==
  ASSUME NEW s \in NodePath, NEW q \in NodePath
  PROVE  Rebase(q, q, s) = s
<1>1. /\ q \in Seq(Name) /\ s \in Seq(Name) /\ Len(q) \in Nat
  BY NodePathType
<1>2. Len(q) + 1 > Len(q)
  BY ONLY <1>1
<1>3. SubSeq(q, Len(q) + 1, Len(q)) = <<>>
  BY <1>1, <1>2
<1>4. s \o <<>> = s
  BY <1>1, EmptyPath, Concat
<1>5. QED
  BY <1>3, <1>4 DEF Rebase

\* A path of the subtree of q, moved to the subtree of s.
LEMMA RebaseOf ==
  ASSUME NEW s \in NodePath, NEW q \in NodePath, NEW r \in Below(q)
  PROVE  /\ Rebase(r, q, s) \in Seq(Name) /\ Rebase(r, q, s) # Root
         /\ Rebase(r, q, s) \in NodePath => Rebase(r, q, s) \in Below(s)
<1>1. /\ r \in NodePath /\ r \in Seq(Name) /\ q \in Seq(Name) /\ s \in Seq(Name)
      /\ Len(q) \in Nat /\ Len(s) \in Nat /\ Len(s) >= 1 /\ Len(r) \in Nat
      /\ Len(q) <= Len(r)
  BY NodePathType DEF Below
<1>2. /\ Rebase(r, q, s) \in Seq(Name)
      /\ Len(Rebase(r, q, s)) = Len(s) + Len(r) - Len(q)
  BY <1>1, RebasePoints DEF Shifted
<1>3. Rebase(r, q, s) # Root
  <2>1. Len(s) + Len(r) - Len(q) # 0
    BY <1>1
  <2>2. QED
    BY <1>2, <2>1, EmptyPath
<1>4. Rebase(r, q, s) \in NodePath => Rebase(r, q, s) \in Below(s)
  BY RebaseBelow
<1>5. QED
  BY <1>2, <1>3, <1>4

(***************************************************************************)
(* The two halves of a rename of a leaf together: what was at the source   *)
(* is at the destination.  (A source that made way as a parent of the      *)
(* destination, or is the destination, is gone.)                           *)
(***************************************************************************)
\* A leaf put at q and what is then at s, q or a parent of q, removed: as if s
\* alone were removed.
LEMMA PutAndRemoved ==
  ASSUME NEW d, NEW M, Seen(M), NEW L, NEW N, NEW q \in NodePath, NEW n,
         Puts(d, M, L, q, n), NEW s \in UpTo(q), ~IsNone(M[s]), Removes(L, N, s)
  PROVE  Removes(M, N, s)
<1>1. UpTo(q) = Above(q) \cup {q} /\ s \in NodePath
  BY UpToIsAboveAndSelf, AboveType
<1>2. ASSUME NEW x \in NodePath, x \notin Subtree(s)
      PROVE  N[x] = M[x]
  <2>1. N[x] = L[x]
    BY <1>2 DEF Removes, KeptOutside
  <2>2. CASE x \notin UpTo(q)
    BY <2>1, <2>2 DEF Puts, KeptOutside
  <2>3. CASE x \in UpTo(q)
    <3>1. x = s \/ x \in Above(s) \/ s \in Above(x)
      BY <2>3, PrefixesOrder
    <3>2. x \in Above(s)
      BY <1>1, <1>2, <3>1, SubtreeIsSelfAndBelow, BelowIsAbove
    <3>3. IsDir(M[x])
      BY <1>1, <3>2 DEF Seen, Rooted
    <3>4. x \in Above(q)
      BY <1>1, <3>2, AboveTransitive
    <3>5. QED
      BY <2>1, <3>3, <3>4 DEF Puts, DirsMade
  <2>4. QED
    BY <2>2, <2>3
<1>3. QED
  BY <1>2 DEF Removes, KeptOutside

\* A leaf put at q, with what was at s then removed elsewhere, is a move.
LEMMA PutAndMoved ==
  ASSUME NEW d, NEW M, Seen(M), NEW L, Seen(L), NEW N, Seen(N),
         NEW q \in NodePath, NEW n,
         Puts(d, M, L, q, n), NEW s \in NodePath, s \notin UpTo(q), M[s] = n,
         Removes(L, N, s)
  PROVE  Moves(d, M, N, s, q)
<1>1. UpTo(q) = Above(q) \cup {q} /\ q \notin Subtree(s)
  BY UpToIsAboveAndSelf, SubtreeIsSelfAndBelow, BelowIsAbove
<1>2. ~StartsWith(q, s)
  BY <1>1 DEF Subtree
<1>3. \A r \in Above(q) : r \notin Subtree(s) /\ r \in NodePath
  BY <1>1, OutsideSubtree, AboveType
<1>4. DirsMade(d, M, N, Above(q))
  BY <1>3 DEF Puts, Removes, DirsMade, KeptOutside
<1>5. L[q] = n /\ ~IsNone(n) /\ ~IsDir(n) /\ N[q] = n
  BY <1>1, TypeNames DEF Puts, Removes, KeptOutside
<1>6. ASSUME NEW r \in Below(q)
      PROVE  N[r] = None
  <2>1. r \in NodePath /\ L[r] = None
    BY <1>5, <1>6, SeenUnder DEF Below
  <2>2. IsNone(N[r])
    BY <2>1, TypeNames DEF Removes, KeptOutside
  <2>3. QED
    BY <2>1, <2>2, DiskNone DEF Seen, Disk
<1>7. ASSUME NEW r \in Below(q)
      PROVE  At(M, Rebase(r, q, s)) = None
  <2>1. /\ Rebase(r, q, s) # Root
        /\ Rebase(r, q, s) \in NodePath => Rebase(r, q, s) \in Below(s)
    BY <1>7, RebaseOf
  <2>2. Rebase(r, q, s) \in NodePath => M[Rebase(r, q, s)] = None
    BY <1>5, <2>1, SeenUnder
  <2>3. QED
    BY <2>1, <2>2 DEF At
<1>8. At(M, Rebase(q, q, s)) = n
  <2>1. s # Root
    BY NodePathType, EmptyPath
  <2>2. QED
    BY <2>1, RebaseSelf DEF At
<1>9. \A r \in Subtree(q) : N[r] = At(M, Rebase(r, q, s))
  BY <1>5, <1>6, <1>7, <1>8, SubtreeIsSelfAndBelow
<1>10. \A r \in Subtree(q) : Merge!EqualButDirMode(N[r], At(M, Rebase(r, q, s)))
  BY <1>9 DEF Merge!EqualButDirMode
<1>11. KeptOutside(M, N, UpTo(q) \cup Subtree(q) \cup Subtree(s))
  BY DEF Puts, Removes, KeptOutside
<1>12. QED
  BY <1>2, <1>4, <1>5, <1>10, <1>11 DEF Moves, Puts, Removes

\* Every path starts with the root, and with itself.
LEMMA StartsWithRoot ==
  ASSUME NEW p \in Seq(Name)
  PROVE  StartsWith(p, Root)
BY EmptyPath, FirstPart DEF StartsWith, Root

LEMMA StartsWithSelf ==
  ASSUME NEW p \in Seq(Name)
  PROVE  StartsWith(p, p)
BY PrefixWhole DEF StartsWith

\* A path starts with the paths on the way to it.
LEMMA UpToStarts ==
  ASSUME NEW q \in NodePath, NEW s \in UpTo(q)
  PROVE  StartsWith(q, s)
<1>1. q \in Seq(Name) /\ Len(q) \in Nat
  BY NodePathType
<1>2. PICK n \in 1..Len(q) : s = SubSeq(q, 1, n)
  BY DEF UpTo
<1>3. Len(s) = n
  BY <1>1, <1>2
<1>4. QED
  BY <1>1, <1>2, <1>3 DEF StartsWith

\* The rename of a leaf: what succeeds is a move, but for a source that the
\* directories of the destination replace.
LEMMA LeafMoved ==
  ASSUME NEW d \in Disk, Rooted(d), NEW t, Good(t),
         NEW s, Straight(d, t, s), NEW n \in LeafNode, lstat_overlay(d, t, s) = n,
         NEW q, Straight(d, t, q), NEW made, made = MoveLeaf(d, t, q, n),
         NEW r, r = Then(made, Ok(Hide(d, made.tree, s)))
  PROVE  /\ ViewStep(d, Merged(d, t), Merged(d, r.tree))
         /\ Succeeds(r) /\ s \in NodePath /\ ~StartsWith(q, s) =>
              q \in NodePath /\ Moves(d, Merged(d, t), Merged(d, r.tree), s, q)
<1> DEFINE M == Merged(d, t)
           L == Merged(d, made.tree)
           N == Merged(d, r.tree)
<1>1. Attaches(d, t, made, q, n)
  BY MoveLeafView
<1>2. CASE ~Succeeds(made)
  <2>1. r = made
    BY <1>2 DEF Then
  <2>2. QED
    BY <1>1, <1>2, <2>1, AttachesIsStep
<1>3. CASE Succeeds(made)
  <2>1. r.tree = Hide(d, made.tree, s)
    BY <1>3 DEF Then, Ok
  <2>2. q \in NodePath /\ Good(made.tree) /\ Puts(d, M, L, q, n)
    BY <1>1, <1>3 DEF Attaches
  <2>3. CASE s \notin NodePath
    <3>1. r.tree = made.tree
      BY <2>1, <2>3 DEF Hide, put_whiteout, detach
    <3>2. QED
      BY <2>2, <2>3, <3>1 DEF ViewStep, EntryStep
  <2>4. CASE s \in NodePath
    <3>1. M[s] = n /\ ~IsNone(n) /\ IsLeaf(n)
      BY <2>4, StraightMerged, NodeTypes
    <3>2. Seen(M) /\ Seen(L)
      BY <2>2, MergedSeen
    <3>3. UpTo(q) = Above(q) \cup {q}
      BY <2>2, UpToIsAboveAndSelf
    <3>4. ~IsNone(L[s])
      <4>1. s \in Above(q) => IsDir(L[s])
        BY <2>2 DEF Puts, DirsMade
      <4>2. s = q => L[s] = n
        BY <2>2 DEF Puts
      <4>3. s \notin UpTo(q) => L[s] = M[s]
        BY <2>2, <2>4 DEF Puts, KeptOutside
      <4>4. QED
        BY <3>1, <3>3, <4>1, <4>2, <4>3, TypeNames
    <3>5. Removes(L, N, s) /\ Good(r.tree)
      BY <2>1, <2>2, <2>4, <3>4, HideView, HideGood
    <3>6. Seen(N)
      BY <3>5, MergedSeen
    <3>7. CASE s \in UpTo(q)
      <4>1. Removes(M, N, s)
        <5> HIDE DEF M, L, N
        <5> QED
          BY <2>2, <3>1, <3>2, <3>5, <3>7, PutAndRemoved
      <4>2. StartsWith(q, s)
        BY <2>2, <2>4, <3>7, UpToStarts
      <4>3. QED
        BY <2>4, <4>1, <4>2 DEF ViewStep, EntryStep
    <3>8. CASE s \notin UpTo(q)
      <4>1. Moves(d, M, N, s, q)
        <5> HIDE DEF M, L, N
        <5> QED
          BY <2>2, <2>4, <3>1, <3>2, <3>5, <3>6, <3>8, PutAndMoved
      <4>2. QED
        BY <2>2, <2>4, <4>1 DEF ViewStep, MoveStep
    <3>9. QED
      BY <3>7, <3>8
  <2>5. QED
    BY <2>3, <2>4
<1>4. QED
  BY <1>2, <1>3

(***************************************************************************)
(* A directory that lists no entry is empty in the view.                   *)
(***************************************************************************)
\* On the way to a path that shows, with no link on it, nothing stops
\* resolve_path and nothing leads it away.
LEMMA ShownResolves ==
  ASSUME NEW d \in Disk, Rooted(d), NEW t, Good(t), NEW q, Clean(d, t, q),
         ~IsNone(lstat_overlay(d, t, q))
  PROVE  resolve_path(d, t, q, TRUE) = Resolved(q)
<1>1. PICK R : /\ Resolves(d, t, R)
               /\ \A p, follow : resolve_path(d, t, p, follow) =
                                   R[<<Root, p, follow, MaxHops>>]
  BY ResolverIs
<1>2. q \in Seq(Name)
  BY DEF Clean, Straight
<1> DEFINE Q(x) == x[3] = TRUE /\ x[4] # 0 /\ x[1] \o x[2] = q => R[x] = Resolved(q)
           B == {x \in Trips : ~Q(x)}
<1>3. ASSUME NEW w \in B, \A y \in B : ~Sooner(y, w)
      PROVE  FALSE
  <2>1. /\ w \in Trips /\ w[3] = TRUE /\ w[4] # 0 /\ w[1] \o w[2] = q
        /\ R[w] # Resolved(q)
    OBVIOUS
  <2>2. \A y \in Trips : Sooner(y, w) => Q(y)
    BY <1>3
  <2> HIDE DEF B
  <2>3. /\ w[1] \in Seq(Name) /\ w[2] \in Seq(Name) /\ w[4] \in 0..MaxHops
        /\ w[3] \in BOOLEAN
    BY <2>1, TripIs
  <2>4. R[w] = Answers(d, t, R, w)
    BY <1>1, <2>1 DEF Resolves
  <2>5. CASE w[2] = <<>>
    <3>1. w[1] = q
      BY <2>1, <2>3, <2>5, Concat
    <3>2. R[w] = Resolved(w[1])
      BY <2>1, <2>4, <2>5, AnswersBarred
    <3>3. QED
      BY <2>1, <3>1, <3>2
  <2>6. CASE w[2] # <<>>
    <3> DEFINE x == Sought(w)
               y == <<x, Tail(w[2]), w[3], w[4]>>
    <3>1. /\ x \in Seq(Name) /\ Tail(w[2]) \in Seq(Name)
          /\ Len(Tail(w[2])) < Len(w[2])
      BY <2>3, <2>6, PathSteps DEF Sought
    <3>2. /\ x \o Tail(w[2]) = q
          /\ x \in Above(q) \/ x = q
      BY <2>1, <2>3, <2>6, PathMoves DEF Sought
    <3>3. ~IsNone(lstat_overlay(d, t, x)) /\ ~IsSymlink(lstat_overlay(d, t, x))
      <4>1. CASE x = q
        BY <4>1 DEF Clean
      <4>2. CASE x \in Above(q)
        <5>1. IsDir(lstat_overlay(d, t, x))
          BY <4>2, ShownBelowDirs DEF Clean
        <5>2. QED
          BY <5>1, TypeNames
      <4>3. QED
        BY <3>2, <4>1, <4>2
    <3> HIDE DEF x
    <3>4. ~is_whiteout(t, x)
      BY <3>1, <3>3, DeletedIsStraight, TypeNames
    <3>5. descend(t, x) # "NotDir"
      BY <3>3, TypeNames DEF lstat_overlay, has_content
    <3>6. ~Barred(t, w) /\ ~Detours(d, t, w)
      BY <3>3, <3>4, <3>5 DEF x, Barred, Detours
    <3>7. R[w] = R[y]
      BY <2>1, <2>4, <2>6, <3>6, AnswersBarred DEF x
    <3>8. /\ y \in Trips /\ y[1] = x /\ y[2] = Tail(w[2]) /\ y[3] = TRUE
          /\ y[4] = w[4]
      BY <2>1, <2>3, <3>1, TripIs
    <3> HIDE DEF y
    <3>9. Sooner(y, w)
      BY <3>1, <3>8 DEF Sooner
    <3>10. R[y] = Resolved(q)
      BY <2>1, <2>2, <3>2, <3>8, <3>9
    <3>11. QED
      BY <2>1, <3>7, <3>10
  <2>7. QED
    BY <2>5, <2>6
<1>4. B = {}
  <2>1. B \subseteq Trips
    OBVIOUS
  <2> HIDE DEF B
  <2>2. QED
    BY <1>3, <2>1, LeastTrip
<1>5. \A x \in Trips : Q(x)
  BY <1>4
<1> DEFINE z == <<Root, q, TRUE, MaxHops>>
<1>6. z \in Trips /\ z[1] = Root /\ z[2] = q /\ z[3] = TRUE /\ z[4] = MaxHops
  <2>1. Root \in Seq(Name) /\ TRUE \in BOOLEAN /\ MaxHops \in 0..MaxHops
    BY EmptyPath, HopAssumption
  <2>2. QED
    BY <1>2, <2>1, TripIs
<1>7. resolve_path(d, t, q, TRUE) = R[z]
  BY <1>1
<1> HIDE DEF z
<1>8. Root \o q = q /\ MaxHops # 0
  BY <1>2, EmptyPath, Concat, HopAssumption DEF Root
<1>9. QED
  BY <1>5, <1>6, <1>7, <1>8

\* An entry at which the overlay shows something is listed.
LEMMA ShownIsListed ==
  ASSUME NEW d \in Disk, Rooted(d), NEW t, Good(t), NEW q \in Path,
         Clean(d, t, q), ~IsNone(lstat_overlay(d, t, q)), NEW n \in Name,
         Append(q, n) \in NodePath, ~IsNone(lstat_overlay(d, t, Append(q, n)))
  PROVE  n \in readdir_merged(d, t, q)
<1> DEFINE x == Append(q, n)
<1>1. /\ q \in Seq(Name) /\ x \in Seq(Name) /\ Len(x) = Len(q) + 1
      /\ x[Len(x)] = n /\ SubSeq(x, 1, Len(q)) = q /\ Len(q) \in Nat
  BY ScriptPaths, LenProperties, AppendOne
<1>2. x \in Children(q)
  <2>1. x \in NodePath
    OBVIOUS
  <2> HIDE DEF x
  <2>2. Len(q) <= Len(x)
    BY ONLY <1>1
  <2>3. QED
    BY <1>1, <2>1, <2>2 DEF Children, StartsWith
<1>3. ResolvedOr(resolve_path(d, t, q, TRUE), q) = q
  <2>1. resolve_path(d, t, q, TRUE) = Resolved(q)
    BY ShownResolves
  <2>2. /\ Resolved(q).err = "ok" /\ Resolved(q).path = q
    BY <1>1, ResultTypes
  <2>3. QED
    BY <2>1, <2>2 DEF ResolvedOr
<1>4. ~is_whiteout(t, x)
  BY <1>1, DeletedIsStraight, TypeNames
<1>5. n \notin whiteout_children(t, q)
  <2>1. ASSUME NEW c \in Children(q), IsWhiteout(t[c]), c[Len(c)] = n
        PROVE  FALSE
    <3>1. c \in NodePath /\ c \in Seq(Name) /\ Len(c) = Len(q) + 1
          /\ SubSeq(c, 1, Len(q)) = q
      BY <2>1, NodePathType DEF Children, StartsWith
    <3>2. c = x
      BY <1>1, <2>1, <3>1, SameLast
    <3>3. lstat_overlay(d, t, x) = None
      BY <2>1, <3>1, <3>2, OverlayIs
    <3>4. QED
      BY <3>3, TypeNames
  <2>2. QED
    BY <2>1 DEF whiteout_children
<1>6. n \in readdir_lower(d, q) \/ n \in dir_entries(t, q)
  <2>1. CASE IsNone(t[x])
    <3>1. lstat_overlay(d, t, x) = lstat_lower(d, x)
      BY <2>1, OverlayIs, TypeNames
    <3>2. QED
      BY <1>1, <3>1, ReaddirIs
  <2>2. CASE ~IsNone(t[x])
    <3>1. IsContent(t[x])
      BY <2>2, NodeOfTree, OverlayIs, TypeNames
    <3>2. QED
      BY <1>1, <1>2, <3>1 DEF dir_entries
  <2>3. QED
    BY <2>1, <2>2
<1> HIDE DEF x
<1>7. QED
  BY <1>3, <1>4, <1>5, <1>6 DEF readdir_merged, x

\* Nothing shows below a directory that lists nothing.
LEMMA EmptyListing ==
  ASSUME NEW d \in Disk, Rooted(d), NEW t, Good(t), NEW q \in NodePath,
         Straight(d, t, q), IsDir(Merged(d, t)[q]), readdir_merged(d, t, q) = {},
         NEW r \in Below(q)
  PROVE  IsNone(Merged(d, t)[r])
<1> DEFINE M == Merged(d, t)
           x == SubSeq(r, 1, Len(q) + 1)
<1>1. Clean(d, t, q) /\ ~IsNone(lstat_overlay(d, t, q))
  BY StraightMerged, TypeNames DEF Clean
<1>2. /\ r \in NodePath /\ r \in Seq(Name) /\ q \in Seq(Name)
      /\ Len(q) \in Nat /\ Len(r) \in Nat /\ Len(q) + 1 <= Len(r)
      /\ SubSeq(r, 1, Len(q)) = q
  BY NodePathType DEF Below, StartsWith
<1>3. x \in NodePath /\ (x = r \/ x \in Above(r))
  <2>1. CASE Len(q) + 1 = Len(r)
    BY <1>2, <2>1, PrefixWhole
  <2>2. CASE Len(q) + 1 < Len(r)
    BY <1>2, <2>2, AboveIntro, AboveType
  <2>3. QED
    BY <1>2, <2>1, <2>2
<1>4. \E n \in Name : x = Append(q, n)
  <2>1. Len(q) + 1 \in Nat /\ Len(q) + 1 >= 1 /\ Len(q) + 1 - 1 = Len(q)
    BY ONLY <1>2
  <2>2. /\ r[Len(q) + 1] \in Name
        /\ x = Append(SubSeq(r, 1, Len(q) + 1 - 1), r[Len(q) + 1])
    BY <1>2, <2>1, PrefixStep
  <2>3. QED
    BY <1>2, <2>1, <2>2
<1> HIDE DEF x
<1>5. PICK n \in Name : x = Append(q, n)
  BY <1>4
<1>6. IsNone(lstat_overlay(d, t, x))
  BY <1>1, <1>3, <1>5, ShownIsListed DEF Path
<1>7. IsNone(M[x])
  BY <1>3, <1>6, MergedRooted
<1>8. CASE x = r
  BY <1>7, <1>8
<1>9. CASE x \in Above(r)
  BY <1>2, <1>7, <1>9, MergedRooted, TypeNames
<1>10. QED
  BY <1>3, <1>8, <1>9

(***************************************************************************)
(* rename of a directory.                                                  *)
(***************************************************************************)
\* The destination of a move, unlinked where the lower layer shows something at
\* it: nothing shows below it, and nothing else changed.
LEMMA ClearedView ==
  ASSUME NEW d \in Disk, Rooted(d), NEW t, Good(t), NEW q \in NodePath,
         Straight(d, t, q), dir_entries(t, q) = {},
         NEW c, c = Cleared(d, t, q), \A r \in UpTo(q) : ~IsLeaf(c[r])
  PROVE  /\ Good(c) /\ KeptOutside(Merged(d, t), Merged(d, c), Subtree(q))
         /\ \A r \in UpTo(q) : ~IsSymlink(lstat_overlay(d, c, r))
         /\ \A x \in Below(q) : lstat_overlay(d, c, x) = None /\ ~IsContent(c[x])
<1> DEFINE M == Merged(d, t)
           C == Merged(d, c)
<1>1. /\ UpTo(q) = Above(q) \cup {q} /\ q \in Seq(Name)
      /\ \A r \in Above(q) : r \in NodePath
      /\ \A x \in Below(q) : x \in NodePath /\ x \in Seq(Name) /\ q \in Above(x)
  BY UpToIsAboveAndSelf, AboveType, NodePathType, BelowIsAbove DEF Below
<1>2. CASE Occupied(d, t, q) /\ lower_exists(d, q)
  <2>1. c = put_whiteout(t, q, lower_mode_of(d)) /\ Good(c)
    BY <1>2, ProbeType, put_whiteoutGood DEF Cleared
  <2>2. \A r \in Above(q) : IsDir(t[r]) \/ IsNone(t[r])
    <3>1. ASSUME NEW z \in Above(q), ~IsDir(t[z]), ~IsNone(t[z])
          PROVE  FALSE
      <4>1. c = t
        BY <2>1, <3>1 DEF put_whiteout
      <4>2. IsWhiteout(t[z]) /\ At(t, z) = t[z]
        BY <1>1, <3>1, <4>1, NodeOfTree, TypeNames
      <4>3. is_whiteout(t, q)
        BY <3>1, <4>2 DEF is_blocked_or_whiteout, is_whiteout, descend, Hidden
      <4>4. QED
        BY <1>2, <4>3 DEF Occupied
    <3>2. QED
      BY <3>1
  <2>3. c = [x \in NodePath |->
               IF x = q THEN Whiteout
               ELSE IF x \in Below(q) THEN None
               ELSE IF x \in Above(q) /\ IsNone(t[x])
                    THEN Dir(lower_mode_of(d)[x])
               ELSE t[x]]
    BY <2>1, <2>2 DEF put_whiteout
  <2>4. c[q] = Whiteout
    BY <2>3
  <2>5. ~IsNone(M[q])
    <3>1. ~Covered(t, q) /\ ~CoveredAt(t, q)
      BY <1>1, <2>2, NodeOfTree, TypeNames DEF Covered, CoveredAt
    <3>2. ~IsWhiteout(t[q])
      <4>1. ASSUME IsWhiteout(t[q])
            PROVE  is_whiteout(t, q)
        <5>1. At(t, q) = t[q] /\ ~IsNone(t[q])
          BY <4>1, NodeOfTree, TypeNames
        <5>2. ~(\E r \in Above(q) : IsLeaf(At(t, r))) /\ ~Hidden(t, q)
          BY <3>1 DEF CoveredAt, Hidden
        <5>3. q # Root
          BY NodePathType, EmptyPath
        <5>4. QED
          BY <4>1, <5>1, <5>2, <5>3 DEF is_blocked_or_whiteout, is_whiteout, descend
      <4>2. QED
        BY <1>2, <4>1 DEF Occupied
    <3>3. lstat_overlay(d, t, q) = IF IsNone(t[q]) THEN lstat_lower(d, q) ELSE t[q]
      BY <3>1, <3>2, OverlayIs
    <3>4. ~IsNone(lstat_overlay(d, t, q))
      BY <1>2, <3>3 DEF lower_exists
    <3>5. QED
      BY <3>4, StraightMerged
  <2>6. KeptOutside(M, C, Subtree(q))
    BY <2>1, <2>5, WhiteoutView
  <2>7. ASSUME NEW r \in UpTo(q)
        PROVE  ~IsSymlink(lstat_overlay(d, c, r))
    <3>1. CASE r = q
      <4>1. lstat_overlay(d, c, q) = None
        BY <2>1, <2>4, OverlayIs, TypeNames
      <4>2. QED
        BY <3>1, <4>1, TypeNames
    <3>2. CASE r \in Above(q)
      <4>1. r \notin Subtree(q)
        BY <1>1, <3>2, SubtreeIsSelfAndBelow, BelowIsAbove, AboveType, NodePathType
      <4>2. IsDir(M[r]) /\ C[r] = M[r]
        BY <1>1, <2>5, <2>6, <3>2, <4>1, MergedRooted DEF KeptOutside
      <4>3. IsDir(lstat_overlay(d, c, r))
        BY <1>1, <3>2, <4>2, MergedRooted, TypeNames
      <4>4. QED
        BY <4>3, TypeNames
    <3>3. QED
      BY <1>1, <3>1, <3>2
  <2>8. ASSUME NEW x \in Below(q)
        PROVE  lstat_overlay(d, c, x) = None /\ ~IsContent(c[x])
    <3>1. c[x] = None
      BY <1>1, <2>3, <2>8, NodePathType DEF Below
    <3>2. Covered(c, x)
      BY <1>1, <2>4, TypeNames DEF Covered
    <3>3. QED
      BY <1>1, <2>1, <3>1, <3>2, OverlayIs, TypeNames
  <2>9. QED
    BY <2>1, <2>6, <2>7, <2>8
<1>3. CASE ~(Occupied(d, t, q) /\ lower_exists(d, q))
  <2>1. c = t
    BY <1>3 DEF Cleared
  <2>2. KeptOutside(M, C, Subtree(q))
    BY <2>1 DEF KeptOutside
  <2>3. ASSUME NEW r \in UpTo(q)
        PROVE  ~IsSymlink(lstat_overlay(d, c, r))
    <3>1. CASE r \in Above(q)
      BY <2>1, <3>1 DEF Straight
    <3>2. CASE r = q
      <4>1. CASE Occupied(d, t, q)
        <5>1. has_content(t, q)
          BY <1>3, <4>1 DEF Occupied, upper_has_entry
        <5>2. lstat_overlay(d, t, q) = t[q]
          BY <5>1, OverlayIs, FoundIsNode, TypeNames DEF lstat_overlay, has_content
        <5>3. QED
          BY <1>1, <2>1, <3>2, <5>2, TypeNames
      <4>2. CASE ~Occupied(d, t, q)
        BY <1>1, <2>1, <3>2, <4>2, LayerShows, TypeNames
      <4>3. QED
        BY <4>1, <4>2
    <3>3. QED
      BY <1>1, <3>1, <3>2
  <2>4. ASSUME NEW x \in Below(q)
        PROVE  lstat_overlay(d, c, x) = None /\ ~IsContent(c[x])
    <3>1. ~IsContent(t[x])
      BY <2>4, NothingBelow
    <3>2. CASE lower_exists(d, q)
      <4>1. is_whiteout(t, q)
        BY <1>3, <3>2 DEF Occupied
      <4>2. Covered(t, q) \/ IsWhiteout(t[q])
        BY <1>1, <4>1, NodeOfTree
           DEF is_whiteout, is_blocked_or_whiteout, descend, Hidden, Covered
      <4>3. Covered(t, x)
        BY <1>1, <2>4, <4>2, AboveTransitive DEF Covered
      <4>4. QED
        BY <1>1, <2>1, <2>4, <3>1, <4>3, OverlayIs
    <3>3. CASE ~lower_exists(d, q)
      <4>1. lstat_lower(d, x) = None
        BY <1>1, <2>4, <3>3, NothingInLower DEF lower_exists
      <4>2. lstat_overlay(d, t, x) = None
        BY <1>1, <2>4, <3>1, <4>1, OverlayIs, NodeOfTree
      <4>3. QED
        BY <2>1, <3>1, <4>2
    <3>4. QED
      BY <3>2, <3>3
  <2>5. QED
    BY <2>1, <2>2, <2>3, <2>4
<1>4. QED
  BY <1>2, <1>3

\* What moves along with a directory is what shows below it.
LEMMA SeenIs ==
  ASSUME NEW d \in Disk, Rooted(d), NEW t, Good(t), NEW s \in NodePath,
         Straight(d, t, s), IsDir(lstat_overlay(d, t, s)), NEW v \in Below(s)
  PROVE  /\ v \in SeenBelow(d, t, s) <=> ~IsNone(Merged(d, t)[v])
         /\ v \in SeenBelow(d, t, s) => Merged(d, t)[v] = lstat_overlay(d, t, v)
<1>1. v \in NodePath /\ s \in Above(v)
  BY BelowIsAbove DEF Below
<1>2. \A r \in Above(s) : IsDir(lstat_overlay(d, t, r))
  BY ShownBelowDirs, TypeNames
<1>3. ASSUME v \in SeenBelow(d, t, s), NEW r \in Above(v)
      PROVE  IsDir(lstat_overlay(d, t, r))
  <2>1. r = s \/ r \in Above(s) \/ s \in Above(r)
    BY <1>1, <1>3, PrefixesOrder, UpToIsAboveAndSelf
  <2>2. s \in Above(r) => r \in Below(s)
    BY <1>1, <1>3, AboveType, BelowIsAbove
  <2>3. r \in Below(s) => IsDir(lstat_overlay(d, t, r))
    BY <1>3 DEF SeenBelow
  <2>4. QED
    BY <1>2, <2>1, <2>2, <2>3
<1>4. ASSUME v \in SeenBelow(d, t, s)
      PROVE  Merged(d, t)[v] = lstat_overlay(d, t, v) /\ ~IsNone(Merged(d, t)[v])
  <2>1. Above(v) \subseteq Reaches(d, t)
    BY <1>1, <1>3, <1>4, AboveType DEF Reaches
  <2>2. ~IsNone(lstat_overlay(d, t, v))
    BY <1>4 DEF SeenBelow
  <2>3. QED
    BY <1>1, <2>1, <2>2, MergedIs
<1>5. ASSUME ~IsNone(Merged(d, t)[v])
      PROVE  v \in SeenBelow(d, t, s)
  <2>1. /\ \A r \in Above(v) : IsDir(lstat_overlay(d, t, r))
        /\ ~IsNone(lstat_overlay(d, t, v))
    BY <1>1, <1>5, MergedRooted
  <2>2. QED
    BY <2>1 DEF SeenBelow
<1>6. QED
  BY <1>4, <1>5

\* The destination holds what the source shows.
Copied(d, M, R, s, q) ==
  /\ DirsMade(d, M, R, Above(q))
  /\ \A r \in Subtree(q) : Merge!EqualButDirMode(R[r], At(M, Rebase(r, q, s)))
  /\ KeptOutside(M, R, UpTo(q) \cup Subtree(q))

\* Copied, with the source then removed elsewhere, is a move.
LEMMA CopiedAndRemoved ==
  ASSUME NEW d, NEW M, NEW R, NEW N, NEW s \in NodePath, NEW q \in NodePath,
         q \notin Subtree(s), s \notin Subtree(q), ~IsNone(M[s]),
         IsDir(M[q]) => IsDir(M[s]) /\ \A r \in Below(q) : IsNone(M[r]),
         Copied(d, M, R, s, q), Removes(R, N, s)
  PROVE  Moves(d, M, N, s, q)
<1>1. ~StartsWith(q, s)
  BY DEF Subtree
<1>2. \A r \in Above(q) : r \in NodePath /\ r \notin Subtree(s)
  BY OutsideSubtree, AboveType
<1>3. DirsMade(d, M, N, Above(q))
  BY <1>2 DEF Copied, Removes, DirsMade, KeptOutside
<1>4. ASSUME NEW r \in Subtree(q)
      PROVE  r \in NodePath /\ r \notin Subtree(s)
  <2>1. r \in NodePath /\ q \in UpTo(r)
    BY <1>4, SubtreeIsSelfAndBelow, BelowIsAbove, UpToIsAboveAndSelf DEF Subtree
  <2>2. ASSUME r \in Subtree(s)
        PROVE  FALSE
    <3>1. s \in UpTo(r)
      BY <2>1, <2>2, SubtreeIsSelfAndBelow, BelowIsAbove, UpToIsAboveAndSelf
    <3>2. s = q \/ s \in Above(q) \/ q \in Above(s)
      BY <2>1, <3>1, PrefixesOrder
    <3>3. QED
      BY <3>2, SubtreeIsSelfAndBelow, BelowIsAbove
  <2>3. QED
    BY <2>1, <2>2
<1>5. \A r \in Subtree(q) : N[r] = R[r]
  BY <1>4 DEF Removes, KeptOutside
<1>6. \A r \in Subtree(q) : Merge!EqualButDirMode(N[r], At(M, Rebase(r, q, s)))
  BY <1>5 DEF Copied
<1>7. KeptOutside(M, N, UpTo(q) \cup Subtree(q) \cup Subtree(s))
  BY DEF Copied, Removes, KeptOutside
<1>8. QED
  BY <1>1, <1>3, <1>6, <1>7 DEF Moves, Removes

\* The tree a directory is moved in, before and after the leaves land: what it is
\* made of, for a proof about what it shows.
Carried(d, t, s, q, c, S, leaves, made, res) ==
  /\ Good(c) /\ Good(made) /\ Good(res) /\ Buildable(d, c, S) /\ made = Ensured(d, c, S)
  /\ \A r \in NodePath :
       res[r] = IF r \in leaves THEN lstat_overlay(d, t, Rebase(r, q, s)) ELSE made[r]
  /\ \A r \in leaves : /\ r \in Below(q) /\ r \notin S /\ Above(r) \subseteq S
                       /\ IsLeaf(res[r])

\* Directories made and leaves put in them: only what lies below the destination
\* differs from the directories alone.
LEMMA CarriedView ==
  ASSUME NEW d \in Disk, Rooted(d), NEW t, Good(t), NEW s, NEW q \in NodePath,
         NEW c, NEW S, NEW leaves, NEW made, NEW res,
         Carried(d, t, s, q, c, S, leaves, made, res)
  PROVE  /\ Makes(d, Merged(d, c), Merged(d, made), S)
         /\ KeptOutside(Merged(d, made), Merged(d, res), Below(q))
         /\ \A r \in leaves : Merged(d, res)[r] = res[r]
         /\ \A r \in S : IsDir(Merged(d, res)[r])
         /\ \A r \in NodePath \ (S \cup leaves) :
              lstat_overlay(d, c, r) = None => Merged(d, res)[r] = None
<1>1. /\ Good(c) /\ Good(made) /\ Good(res) /\ Buildable(d, c, S)
      /\ made = Ensured(d, c, S) /\ Makeable(c, S) /\ S \subseteq NodePath
      /\ \A r \in S : Above(r) \subseteq S
  BY DEF Carried, Buildable, Makeable
<1>2. Makes(d, Merged(d, c), Merged(d, made), S)
  BY <1>1, MakesView
<1>3. \A r \in NodePath : r \notin leaves => res[r] = made[r]
  BY DEF Carried
<1>4. ASSUME NEW x \in NodePath, x \notin Below(q)
      PROVE  /\ lstat_overlay(d, res, x) = lstat_overlay(d, made, x)
             /\ \A r \in Above(x) : r \notin Below(q)
  <2>1. \A r \in Above(x) : r \in NodePath /\ r \notin Below(q)
    BY <1>4, AboveType, BelowIsAbove, AboveTransitive
  <2>2. res[x] = made[x] /\ \A r \in Above(x) : res[r] = made[r]
    BY <1>3, <1>4, <2>1 DEF Carried
  <2>3. Covered(res, x) <=> Covered(made, x)
    BY <2>2 DEF Covered
  <2>4. QED
    BY <1>1, <1>4, <2>1, <2>2, <2>3, OverlayIs
<1>5. KeptOutside(Merged(d, made), Merged(d, res), Below(q))
  BY <1>4, SameOutside
<1>6. ASSUME NEW r \in S
      PROVE  /\ r \in NodePath /\ res[r] = made[r] /\ IsDir(res[r])
             /\ IsDir(lstat_overlay(d, res, r))
  <2>1. r \in NodePath /\ \A z \in Above(r) \cup {r} : z \in S /\ z \notin leaves
    BY <1>1, <1>6 DEF Carried
  <2>2. \A z \in Above(r) \cup {r} : z \in NodePath /\ res[z] = made[z] /\ IsDir(made[z])
    BY <1>1, <1>3, <2>1, EnsuredGood
  <2>3. ~Covered(res, r)
    BY <2>2, TypeNames DEF Covered
  <2>4. lstat_overlay(d, res, r) = res[r]
    BY <1>1, <2>1, <2>2, <2>3, OverlayIs, TypeNames
  <2>5. QED
    BY <2>1, <2>2, <2>4
<1>7. ASSUME NEW r \in S
      PROVE  IsDir(Merged(d, res)[r])
  <2>1. Above(r) \subseteq Reaches(d, res)
    BY <1>1, <1>6, <1>7 DEF Reaches
  <2>2. QED
    BY <1>6, <1>7, <2>1, MergedIs
<1>8. ASSUME NEW r \in leaves
      PROVE  Merged(d, res)[r] = res[r]
  <2>1. r \in NodePath /\ Above(r) \subseteq S /\ IsLeaf(res[r])
    BY <1>8 DEF Carried, Below
  <2>2. Above(r) \subseteq Reaches(d, res) /\ ~Covered(res, r)
    <3>1. \A z \in Above(r) : z \in NodePath /\ IsDir(res[z])
                              /\ IsDir(lstat_overlay(d, res, z))
      BY <1>6, <2>1
    <3>2. QED
      BY <3>1, TypeNames DEF Reaches, Covered
  <2>3. lstat_overlay(d, res, r) = res[r]
    BY <1>1, <2>1, <2>2, OverlayIs, TypeNames
  <2>4. QED
    BY <2>1, <2>2, <2>3, MergedIs
<1>9. ASSUME NEW r \in NodePath, r \notin S, r \notin leaves,
             lstat_overlay(d, c, r) = None
      PROVE  Merged(d, res)[r] = None
  <2>1. lstat_overlay(d, made, r) = None /\ r \in Seq(Name)
    BY <1>1, <1>9, EnsuredElsewhere, NodePathType
  <2>2. res[r] = made[r]
    BY <1>3, <1>9
  <2>3. Covered(made, r) => Covered(res, r)
    <3>1. ASSUME NEW z \in Above(r), IsLeaf(made[z]) \/ IsWhiteout(made[z])
          PROVE  IsLeaf(res[z]) \/ IsWhiteout(res[z])
      BY <1>3, <3>1, AboveType DEF Carried
    <3>2. QED
      BY <3>1 DEF Covered
  <2>4. lstat_overlay(d, res, r) = None
    BY <1>1, <2>1, <2>2, <2>3, OverlayIs
  <2>5. QED
    BY <2>4, MergedIs
<1>10. QED
  BY <1>2, <1>5, <1>7, <1>8, <1>9

\* Either nothing is moved and nothing is changed, or what the source shows is
\* copied below a destination that showed nothing below.
LEMMA MoveDirView ==
  ASSUME NEW d \in Disk, Rooted(d), NEW t, Good(t),
         NEW s, Straight(d, t, s), IsDir(lstat_overlay(d, t, s)),
         NEW q, Straight(d, t, q), NEW a, a = MoveDir(d, t, s, q)
  PROVE  \/ ~Succeeds(a) /\ a.tree = t
         \/ /\ Succeeds(a) /\ s \in NodePath /\ q \in NodePath
            /\ \A r \in Below(q) : IsDir(Merged(d, t)[q]) => IsNone(Merged(d, t)[r])
            /\ Copied(d, Merged(d, t), Merged(d, a.tree), s, q)
<1> DEFINE seen    == SeenBelow(d, t, s)
           dirs    == DirsOf(d, t, seen)
           moved   == Rebased(seen, s, q)
           newdirs == Rebased(dirs, s, q)
           c       == Cleared(d, t, q)
           S       == UpTo(q) \cup newdirs
           made    == EnsureAll(c, S, lower_mode_of(d), lower_entries_of(d))
           leaves  == moved \ newdirs
           res     == Landed(d, t, s, q, made, leaves)
           refused == \/ Occupied(d, t, q) /\ readdir_merged(d, t, q) # {}
                      \/ dir_entries(t, q) # {}
           M       == Merged(d, t)
           R       == Merged(d, res)
<1>1. a = IF refused THEN Fail("DirectoryNotEmpty", t)
          ELSE IF ~({s, q} \cup moved \subseteq NodePath) THEN Fail("TooDeep", t)
          ELSE IF \E r \in UpTo(q) : IsLeaf(c[r])
          THEN Fail("NotADirectory", c)
          ELSE Ok(res)
  BY DEF MoveDir, MoveSeen
<1>2. CASE refused \/ ~({s, q} \cup moved \subseteq NodePath)
  <2> HIDE DEF refused, moved
  <2>1. a = Fail("DirectoryNotEmpty", t) \/ a = Fail("TooDeep", t)
    BY <1>1, <1>2
  <2>2. QED
    BY <2>1 DEF Fail, Succeeds
<1>3. CASE /\ ~(refused \/ ~({s, q} \cup moved \subseteq NodePath))
           /\ \E r \in UpTo(q) : IsLeaf(c[r])
  <2>1. q \in NodePath
    BY <1>3
  <2>2. a = Fail("NotADirectory", c)
    <3> HIDE DEF refused, moved
    <3> QED BY <1>1, <1>3
  <2>3. c = t
    <3>1. PICK r \in UpTo(q) : IsLeaf(c[r])
      BY <1>3
    <3>2. r \in NodePath /\ (r = q \/ r \in Above(q)) /\ r \notin Below(q)
      BY <2>1, UpToIsAboveAndSelf, AboveType, BelowIsAbove, NodePathType
    <3>3. c = t \/ c = put_whiteout(t, q, lower_mode_of(d))
      BY DEF Cleared
    <3>4. CASE \E z \in Above(q) : ~IsDir(t[z]) /\ ~IsNone(t[z])
      BY <3>3, <3>4 DEF put_whiteout
    <3>5. CASE /\ ~\E z \in Above(q) : ~IsDir(t[z]) /\ ~IsNone(t[z])
               /\ c = put_whiteout(t, q, lower_mode_of(d))
      <4>1. c = [x \in NodePath |->
               IF x = q THEN Whiteout
               ELSE IF x \in Below(q) THEN None
               ELSE IF x \in Above(q) /\ IsNone(t[x])
                    THEN Dir(lower_mode_of(d)[x])
               ELSE t[x]]
        BY <2>1, <3>5 DEF put_whiteout
      <4> HIDE DEF c
      <4>2. \/ c[r] = Whiteout
            \/ c[r] = Dir(lower_mode_of(d)[r])
            \/ IsDir(t[r]) /\ c[r] = t[r]
        <5>1. r \in Above(q) => IsDir(t[r]) \/ IsNone(t[r])
          BY <3>5
        <5>2. r = q => c[r] = Whiteout
          BY <3>2, <4>1
        <5>3. r \in Above(q) /\ r # q =>
                c[r] = IF IsNone(t[r]) THEN Dir(lower_mode_of(d)[r]) ELSE t[r]
          BY <3>2, <4>1
        <5>4. QED
          BY <3>2, <5>1, <5>2, <5>3
      <4>3. \A m : IsDir(Dir(m))
        BY DEF IsDir, Dir
      <4>4. QED
        BY <3>1, <4>2, <4>3, TypeNames
    <3>6. QED
      BY <3>3, <3>4, <3>5
  <2>4. QED
    BY <2>2, <2>3 DEF Fail, Succeeds
<1>4. CASE /\ ~(refused \/ ~({s, q} \cup moved \subseteq NodePath))
           /\ ~\E r \in UpTo(q) : IsLeaf(c[r])
  <2>1. /\ s \in NodePath /\ q \in NodePath /\ dir_entries(t, q) = {}
        /\ moved \subseteq NodePath /\ \A r \in UpTo(q) : ~IsLeaf(c[r])
        /\ Occupied(d, t, q) => readdir_merged(d, t, q) = {}
    BY <1>4
  <2>2. a = Ok(res)
    <3> HIDE DEF refused, moved, res, c
    <3> QED BY <1>1, <1>4
  <2>3. /\ Good(c) /\ KeptOutside(M, Merged(d, c), Subtree(q))
        /\ \A r \in UpTo(q) : ~IsSymlink(lstat_overlay(d, c, r))
        /\ \A x \in Below(q) : lstat_overlay(d, c, x) = None /\ ~IsContent(c[x])
    BY <2>1, ClearedView
  <2>4. Good(res)
    <3>1. Good(MoveDir(d, t, s, q).tree)
      BY MoveDirGood
    <3> HIDE DEF res
    <3> QED BY <2>2, <3>1 DEF Ok
  <2> HIDE DEF refused, c
  <2>5. \A v \in seen : /\ v \in Below(s) /\ v \in NodePath /\ Rebase(v, s, q) \in moved
                        /\ Rebase(v, s, q) \in NodePath
                        /\ Rebase(v, s, q) \in Below(q)
                        /\ Rebase(Rebase(v, s, q), q, s) = v
                        /\ ~IsNone(M[v]) /\ M[v] = lstat_overlay(d, t, v)
    <3>1. ASSUME NEW v \in seen
          PROVE  v \in Below(s) /\ v \in NodePath /\ Rebase(v, s, q) \in moved
                 /\ Rebase(v, s, q) \in NodePath
      BY <2>1 DEF SeenBelow, Rebased, Below
    <3>2. QED
      BY <2>1, <3>1, RebaseBack, RebaseBelow, SeenIs
  <2>6. ASSUME NEW v \in seen, NEW x \in Above(Rebase(v, s, q))
        PROVE  x \in S
    <3>1. CASE x \in UpTo(q)
      BY <3>1
    <3>2. CASE x \notin UpTo(q)
      <4>1. PICK y \in Above(v) \cap Below(s) : x = Rebase(y, s, q)
        BY <2>1, <2>5, <3>2, RebaseAbove
      <4>2. v \in NodePath /\ y \in NodePath /\ IsDir(lstat_overlay(d, t, y))
        BY <2>5, <2>6, <4>1 DEF SeenBelow, Below
      <4>3. \A z \in Above(y) \cap Below(s) : IsDir(lstat_overlay(d, t, z))
        BY <2>6, <4>1, <4>2, AboveTransitive DEF SeenBelow
      <4>4. y \in dirs
        BY <4>1, <4>2, <4>3, TypeNames DEF SeenBelow, DirsOf
      <4>5. QED
        BY <4>1, <4>4 DEF Rebased
    <3>3. QED
      BY <3>1, <3>2
  <2>7. /\ newdirs \subseteq moved
        /\ \A x \in newdirs : x \in Below(q) /\ x \in NodePath
    BY <2>5 DEF DirsOf, Rebased
  <2>8. S \subseteq NodePath
    BY <2>1, <2>7, UpToIsAboveAndSelf, AboveType
  <2>9. ASSUME NEW x \in S
        PROVE  Above(x) \subseteq S /\ ~IsLeaf(c[x]) /\ ~IsSymlink(lstat_overlay(d, c, x))
    <3>1. CASE x \in UpTo(q)
      BY <2>1, <2>3, <3>1, UpToIsAboveAndSelf, AboveTransitive
    <3>2. CASE x \in newdirs
      <4>1. ~IsLeaf(c[x]) /\ ~IsSymlink(lstat_overlay(d, c, x))
        BY <2>3, <2>7, <3>2, TypeNames
      <4>2. Above(x) \subseteq S
        BY <2>6, <3>2 DEF DirsOf, Rebased
      <4>3. QED
        BY <4>1, <4>2
    <3>3. QED
      BY <3>1, <3>2
  <2>10. Buildable(d, c, S)
    BY <2>8, <2>9 DEF Buildable, Makeable
  <2>11. Good(made) /\ made = Ensured(d, c, S)
    BY <2>3, <2>10, EnsuredGood DEF Ensured, Buildable
  <2> HIDE DEF made
  <2>12. \A r \in NodePath :
           res[r] = IF r \in leaves THEN lstat_overlay(d, t, Rebase(r, q, s))
                    ELSE made[r]
    BY DEF Landed
  <2>13. ASSUME NEW r \in leaves
         PROVE  /\ r \in Below(q) /\ r \notin S /\ Above(r) \subseteq S
                /\ IsLeaf(res[r]) /\ res[r] = M[Rebase(r, q, s)]
    <3>1. PICK v \in seen : r = Rebase(v, s, q)
      BY DEF Rebased
    <3>2. r \in NodePath /\ r \in Below(q) /\ v = Rebase(r, q, s) /\ v \notin dirs
      BY <2>5, <2>13, <3>1 DEF Rebased
    <3>3. r \notin UpTo(q)
      BY <2>1, <3>2, UpToIsAboveAndSelf, AboveType, NodePathType DEF Below
    <3>4. lstat_overlay(d, t, v) \in LeafNode /\ IsLeaf(lstat_overlay(d, t, v))
      BY <3>1, <3>2, OverlayAnswers, DiskNodeTypes, NodeTypes DEF SeenBelow, DirsOf
    <3>5. Above(r) \subseteq S
      BY <2>6, <3>1
    <3>6. res[r] = lstat_overlay(d, t, v)
      BY <2>12, <2>13, <3>2
    <3> HIDE DEF res
    <3>7. QED
      BY <2>5, <2>13, <3>1, <3>2, <3>3, <3>4, <3>5, <3>6
  <2>14. \A r \in Below(q) : r \notin moved => At(M, Rebase(r, q, s)) = None
    <3>1. ASSUME NEW r \in Below(q), r \notin moved
          PROVE  At(M, Rebase(r, q, s)) = None
      <4> DEFINE v == Rebase(r, q, s)
      <4>1. v # Root /\ (v \in NodePath => v \in Below(s))
        BY <2>1, <3>1, RebaseOf
      <4>2. Rebase(v, s, q) = r
        BY <2>1, <3>1, RebaseBack
      <4> HIDE DEF v
      <4>3. v \in NodePath => v \notin seen
        BY <3>1, <4>2 DEF Rebased
      <4>4. v \in NodePath => IsNone(M[v])
        <5> HIDE DEF M, seen
        <5> QED BY <2>1, <4>1, <4>3, SeenIs DEF M, seen
      <4>5. v \in NodePath => M[v] = None
        BY <4>4, MergedType, DiskNone
      <4>6. QED
        BY <4>1, <4>5 DEF At, v
    <3>2. QED
      BY <3>1
  <2> HIDE DEF res, leaves, S, moved, newdirs, dirs, seen
  <2>15. Carried(d, t, s, q, c, S, leaves, made, res)
    BY <2>3, <2>4, <2>10, <2>11, <2>12, <2>13 DEF Carried
  <2>16. /\ Makes(d, Merged(d, c), Merged(d, made), S)
         /\ KeptOutside(Merged(d, made), R, Below(q))
         /\ \A r \in leaves : R[r] = res[r]
         /\ \A r \in S : IsDir(R[r])
         /\ \A r \in NodePath \ (S \cup leaves) :
              lstat_overlay(d, c, r) = None => R[r] = None
    BY <2>1, <2>15, CarriedView
  <2> DEFINE C == Merged(d, c)
             E == Merged(d, made)
  <2>17. /\ UpTo(q) = Above(q) \cup {q} /\ Subtree(q) = {q} \cup Below(q)
         /\ S = UpTo(q) \cup newdirs /\ leaves = moved \ newdirs
    BY <2>1, UpToIsAboveAndSelf, SubtreeIsSelfAndBelow DEF S, leaves
  <2>18. IsDir(M[s]) /\ At(M, Rebase(q, q, s)) = M[s]
    <3>1. s # Root
      BY <2>1, NodePathType, EmptyPath
    <3>2. QED
      BY <2>1, <3>1, StraightMerged, RebaseSelf DEF At
  <2> HIDE DEF M, R, C, E
  <2>19. DirsMade(d, M, R, Above(q))
    <3>1. ASSUME NEW r \in Above(q)
          PROVE  /\ IsDir(R[r]) /\ (IsDir(M[r]) => R[r] = M[r])
                 /\ GivesWay(d, M[r])
      <4>1. r \in NodePath /\ r \in S /\ r \notin Subtree(q) /\ r \notin Below(q)
        BY <2>1, <2>17, <3>1, AboveType, BelowIsAbove, NodePathType DEF Below
      <4>2. R[r] = E[r] /\ C[r] = M[r]
        BY <2>3, <2>16, <4>1 DEF KeptOutside, C, E
      <4>3. (IsDir(C[r]) => E[r] = C[r]) /\ GivesWay(d, C[r])
        BY <2>16, <4>1 DEF Makes, DirsMade, C, E
      <4>4. QED
        BY <2>16, <4>1, <4>2, <4>3
    <3>2. QED
      BY <3>1 DEF DirsMade
  <2>20. ASSUME NEW r \in Subtree(q)
         PROVE  Merge!EqualButDirMode(R[r], At(M, Rebase(r, q, s)))
    <3>1. CASE r = q
      <4>1. IsDir(R[r])
        BY <2>16, <2>17, <3>1
      <4>2. QED
        BY <2>18, <3>1, <4>1 DEF Merge!EqualButDirMode, Merge!IsDir, IsDir
    <3>2. CASE r \in leaves
      <4>1. R[r] = M[Rebase(r, q, s)] /\ IsLeaf(R[r])
        BY <2>13, <2>16, <3>2
      <4>2. At(M, Rebase(r, q, s)) = R[r]
        <5>1. r \in Below(q)
          BY <2>13, <3>2
        <5>2. Rebase(r, q, s) \in NodePath
          <6>1. PICK v \in seen : r = Rebase(v, s, q)
            BY <2>17, <3>2 DEF moved, Rebased
          <6>2. QED
            BY <2>5, <6>1
        <5>3. Rebase(r, q, s) # Root
          BY <2>1, <5>1, RebaseOf
        <5>4. QED
          BY <4>1, <5>2, <5>3 DEF At
      <4>3. QED
        BY <4>2 DEF Merge!EqualButDirMode
    <3>3. CASE r \in newdirs
      <4>1. PICK v \in dirs : r = Rebase(v, s, q)
        BY <3>3 DEF newdirs, Rebased
      <4>2. v \in seen /\ IsDir(lstat_overlay(d, t, v))
        BY <4>1 DEF dirs, DirsOf
      <4>3. v = Rebase(r, q, s) /\ v \in NodePath /\ IsDir(M[v]) /\ r \in Below(q)
        BY <2>5, <4>1, <4>2
      <4>4. At(M, v) = M[v]
        BY <2>1, <4>3, RebaseOf DEF At
      <4>5. IsDir(R[r])
        BY <2>16, <2>17, <3>3
      <4>6. QED
        BY <4>3, <4>4, <4>5 DEF Merge!EqualButDirMode, Merge!IsDir, IsDir
    <3>4. CASE r \in Below(q) /\ r \notin moved
      <4>1. r \in NodePath /\ r \notin S /\ r \notin leaves
        BY <2>1, <2>7, <2>17, <3>4, AboveType, NodePathType DEF Below
      <4>2. R[r] = None
        BY <2>3, <2>16, <3>4, <4>1
      <4>3. QED
        BY <2>14, <3>4, <4>2 DEF Merge!EqualButDirMode
    <3>5. QED
      BY <2>17, <3>1, <3>2, <3>3, <3>4
  <2>21. KeptOutside(M, R, UpTo(q) \cup Subtree(q))
    <3>1. ASSUME NEW x \in NodePath, x \notin UpTo(q) \cup Subtree(q)
          PROVE  R[x] = M[x]
      <4>1. x \notin S /\ x \notin Below(q) /\ x \notin Subtree(q)
        BY <2>7, <2>17, <3>1
      <4>2. QED
        BY <2>3, <2>16, <3>1, <4>1 DEF Makes, KeptOutside, C, E
    <3>2. QED
      BY <3>1 DEF KeptOutside
  <2>22. ASSUME NEW r \in Below(q), IsDir(M[q])
         PROVE  IsNone(M[r])
    <3>1. Occupied(d, t, q)
      <4>1. ~IsNone(lstat_overlay(d, t, q)) /\ q \in Seq(Name)
        BY <2>1, <2>22, MergedRooted, TypeNames, NodePathType DEF M
      <4>2. QED
        BY <4>1, LayerShows, TypeNames
    <3>2. QED
      BY <2>1, <2>22, <3>1, EmptyListing DEF M
  <2>23. Copied(d, M, R, s, q)
    BY <2>19, <2>20, <2>21 DEF Copied
  <2>24. QED
    BY <2>1, <2>2, <2>22, <2>23 DEF Ok, Succeeds, M, R
<1>5. QED
  BY <1>2, <1>3, <1>4

\* The rename of a directory.
LEMMA DirMoved ==
  ASSUME NEW d \in Disk, Rooted(d), NEW t, Good(t),
         NEW s, Straight(d, t, s), IsDir(lstat_overlay(d, t, s)),
         NEW q, Straight(d, t, q), ~StartsWith(q, s),
         NEW made, made = MoveDir(d, t, s, q),
         NEW r, r = Then(made, Ok(Hide(d, made.tree, s)))
  PROVE  /\ ViewStep(d, Merged(d, t), Merged(d, r.tree))
         /\ Succeeds(r) =>
              /\ s \in NodePath /\ q \in NodePath
              /\ Moves(d, Merged(d, t), Merged(d, r.tree), s, q)
<1> DEFINE M == Merged(d, t)
           R == Merged(d, made.tree)
           N == Merged(d, r.tree)
<1>1. CASE ~Succeeds(made) /\ made.tree = t
  BY <1>1 DEF Then, ViewStep
<1>2. CASE /\ Succeeds(made) /\ s \in NodePath /\ q \in NodePath
           /\ \A x \in Below(q) : IsDir(M[q]) => IsNone(M[x])
           /\ Copied(d, M, R, s, q)
  <2>1. r.tree = Hide(d, made.tree, s)
    BY <1>2 DEF Then, Ok
  <2>2. Good(made.tree)
    BY MoveDirGood
  <2>3. IsDir(M[s]) /\ ~IsNone(M[s])
    BY <1>2, StraightMerged, TypeNames
  <2>4. q \notin Subtree(s)
    BY DEF Subtree
  <2>5. s \notin Subtree(q)
    <3>1. ASSUME s \in Subtree(q)
          PROVE  FALSE
      <4>1. q # s
        BY <1>2, <2>4, SubtreeIsSelfAndBelow
      <4>2. s \in Below(q) /\ q \in Above(s)
        BY <1>2, <3>1, <4>1, SubtreeIsSelfAndBelow, BelowIsAbove
      <4>3. IsDir(M[q])
        BY <1>2, <2>3, <4>2, MergedRooted
      <4>4. QED
        BY <1>2, <2>3, <4>2, <4>3
    <3>2. QED
      BY <3>1
  <2>6. s \notin UpTo(q)
    BY <1>2, <2>4, UpToIsAboveAndSelf, SubtreeIsSelfAndBelow, BelowIsAbove
  <2>7. ~IsNone(R[s])
    BY <1>2, <2>3, <2>5, <2>6 DEF Copied, KeptOutside
  <2>8. Removes(R, N, s)
    BY <1>2, <2>1, <2>2, <2>7, HideView
  <2>9. Moves(d, M, N, s, q)
    <3> HIDE DEF M, R, N
    <3> QED
      BY <1>2, <2>3, <2>4, <2>5, <2>8, CopiedAndRemoved
  <2>10. QED
    BY <1>2, <2>9 DEF ViewStep, MoveStep
<1>3. QED
  BY <1>1, <1>2, MoveDirView

\* rename is a step of the one tree.
LEMMA RenameView ==
  ASSUME NEW d \in Disk, Rooted(d), NEW t, Good(t), NEW src \in Seq(Name),
         NEW dst \in Seq(Name), NEW r, r = rename(d, t, src, dst)
  PROVE  Steps(d, t, r)
<1> DEFINE from == resolve_path(d, t, src, FALSE)
           to   == resolve_write_target(d, t, dst, FALSE)
           node == lstat_overlay(d, t, from.path)
           made == MoveNode(d, t, from.path, to.path, node)
           last == Then(made, Ok(Hide(d, made.tree, from.path)))
<1>1. Good(r.tree)
  BY RenameGood
<1>2. CASE /\ src # dst /\ ~is_whiteout(t, src) /\ from.err = "ok" /\ ~IsNone(node)
           /\ to.err = "ok" /\ ~(StartsWith(to.path, from.path) /\ IsDir(node))
  <2>1. r = last
    <3> HIDE DEF made
    <3> QED BY <1>2 DEF rename, made
  <2>2. Straight(d, t, from.path) /\ Straight(d, t, to.path)
    <3>1. FALSE \in BOOLEAN
      OBVIOUS
    <3>2. Straight(d, t, from.path)
      BY <1>2, <3>1, PathResolves DEF Arrived
    <3>3. Straight(d, t, to.path)
      BY <1>2, WriteTarget DEF Arrived
    <3>4. QED
      BY <3>2, <3>3
  <2> DEFINE s == from.path
             q == to.path
  <2> HIDE DEF s, q
  <2>3. CASE IsDir(node)
    <3>1. made = MoveDir(d, t, s, q) /\ IsDir(lstat_overlay(d, t, s))
      BY <2>3 DEF MoveNode, s, q
    <3>2. ~StartsWith(q, s) /\ Straight(d, t, s) /\ Straight(d, t, q)
      BY <1>2, <2>2, <2>3 DEF s, q
    <3>3. r = Then(made, Ok(Hide(d, made.tree, s)))
      BY <2>1 DEF s
    <3> HIDE DEF made
    <3>4. ViewStep(d, Merged(d, t), Merged(d, r.tree))
      BY <3>1, <3>2, <3>3, DirMoved
    <3>5. QED
      BY <1>1, <3>4 DEF Steps
  <2>4. CASE ~IsDir(node)
    <3>1. made = MoveLeaf(d, t, q, node) /\ node = lstat_overlay(d, t, s)
      BY <2>4 DEF MoveNode, s, q
    <3>2. node \in LeafNode /\ Straight(d, t, s) /\ Straight(d, t, q)
      BY <1>2, <2>2, <2>4, OverlayAnswers, DiskNodeTypes DEF s, q
    <3>3. r = Then(made, Ok(Hide(d, made.tree, s)))
      BY <2>1 DEF s
    <3> HIDE DEF made, node
    <3>4. ViewStep(d, Merged(d, t), Merged(d, r.tree))
      BY <3>1, <3>2, <3>3, LeafMoved
    <3>5. QED
      BY <1>1, <3>4 DEF Steps
  <2>5. QED
    BY <2>3, <2>4
<1>3. CASE ~(/\ src # dst /\ ~is_whiteout(t, src) /\ from.err = "ok" /\ ~IsNone(node)
             /\ to.err = "ok" /\ ~(StartsWith(to.path, from.path) /\ IsDir(node)))
  <2>1. r.tree = t
    <3> HIDE DEF made, node
    <3> QED BY <1>3 DEF rename, Ok, Fail, node
  <2>2. QED
    BY <2>1, NoStep
<1>4. QED
  BY <1>2, <1>3

\* A successful rename moved what its two paths lead to: that a source is its own
\* destination, or one of them lies in the other, is for the properties to say.
LEMMA RenamedIsMoved ==
  ASSUME NEW d \in Disk, Rooted(d), NEW t, Good(t), NEW src \in Seq(Name),
         NEW dst \in Seq(Name), NEW r, r = rename(d, t, src, dst), Succeeds(r),
         NEW s \in NodePath, s = resolve_path(d, t, src, FALSE).path,
         NEW q, q = resolve_write_target(d, t, dst, FALSE).path,
         ~StartsWith(s, q), ~StartsWith(q, s)
  PROVE  q \in NodePath /\ Moves(d, Merged(d, t), Merged(d, r.tree), s, q)
<1> DEFINE from == resolve_path(d, t, src, FALSE)
           to   == resolve_write_target(d, t, dst, FALSE)
           node == lstat_overlay(d, t, s)
           made == MoveNode(d, t, s, q, node)
<1>1. s \in Seq(Name) /\ Len(s) \in Nat /\ StartsWith(s, Root)
  BY NodePathType, StartsWithRoot
<1>2. FALSE \in BOOLEAN
  OBVIOUS
<1>3. /\ to \in Result
      /\ to.err = "ok" => Straight(d, t, q)
  BY WriteTarget DEF Arrived
<1>4. from \in Result /\ (from.err = "ok" => Straight(d, t, s))
  BY <1>2, PathResolves DEF Arrived
<1>5. CASE src = dst
  <2>1. q \in Seq(Name)
    BY <1>3 DEF Result
  <2>2. from.err # "ok" \/ to.err # "ok"
    <3>1. ASSUME from.err = "ok", to.err = "ok" PROVE s = q
      BY <1>2, <1>5, <3>1, SamePlace
    <3>2. QED
      BY <1>1, <3>1, StartsWithSelf
  <2>3. s = Root \/ q = Root
    BY <1>3, <1>4, <2>2 DEF Result
  <2>4. QED
    BY <1>1, <2>1, <2>3, StartsWithRoot
<1>6. CASE src # dst
  <2>1. /\ from.err = "ok" /\ to.err = "ok" /\ ~IsNone(node)
        /\ r = Then(made, Ok(Hide(d, made.tree, s)))
    <3>1. ~Succeeds(Fail("NotFound", t)) /\ ~Succeeds(Fail("InvalidPath", t))
          /\ (from.err # "ok" => ~Succeeds(Fail(from.err, t)))
          /\ (to.err # "ok" => ~Succeeds(Fail(to.err, t)))
      BY DEF Fail, Succeeds
    <3> HIDE DEF made, node, from, to
    <3>2. QED
      BY <1>6, <3>1 DEF rename, made, node, from, to
  <2>2. Straight(d, t, s) /\ Straight(d, t, q)
    BY <1>3, <1>4, <2>1
  <2>3. CASE IsDir(node)
    <3>1. made = MoveDir(d, t, s, q)
      BY <2>3 DEF MoveNode
    <3> HIDE DEF made
    <3>2. QED
      BY <2>1, <2>2, <2>3, <3>1, DirMoved
  <2>4. CASE ~IsDir(node)
    <3>1. made = MoveLeaf(d, t, q, node) /\ node \in LeafNode
      BY <2>1, <2>4, OverlayAnswers, DiskNodeTypes DEF MoveNode
    <3> HIDE DEF made
    <3>2. QED
      BY <2>1, <2>2, <3>1, LeafMoved
  <2>5. QED
    BY <2>3, <2>4
<1>7. QED
  BY <1>5, <1>6

\* What RenameMoves says of the places its two arguments lead to.
MovesWhatItSays(s, q, r) ==
  Succeeds(r) /\ s \in NodePath /\ ~StartsWith(s, q) /\ ~StartsWith(q, s) =>
    /\ \A p \in Subtree(s) : IsNone(Merged(lower, r.tree)[p])
    /\ \A p \in Subtree(q) :
         Merge!EqualButDirMode(Merged(lower, r.tree)[p],
                               At(Merged(lower, tree), Rebase(p, q, s)))

\* Whatever the arguments, a rename moves what it says.
LEMMA RenameAlwaysMovesIt ==
  ASSUME IInv
  PROVE  RenameMoves
<1>1. lower \in Disk /\ Rooted(lower) /\ Good(tree)
  BY ArgAssumption DEF IInv
<1>2. \A p \in Arg : p \in Seq(Name)
  BY ArgAssumption, ScriptPaths
<1>3. ASSUME NEW src \in Arg, NEW dst \in Arg,
             NEW s, s = resolve_path(lower, tree, src, FALSE).path,
             NEW q, q = resolve_write_target(lower, tree, dst, FALSE).path,
             NEW r, r = rename(lower, tree, src, dst)
      PROVE  MovesWhatItSays(s, q, r)
  <2>1. SUFFICES ASSUME Succeeds(r), s \in NodePath, ~StartsWith(s, q), ~StartsWith(q, s)
                 PROVE  Moves(lower, Merged(lower, tree), Merged(lower, r.tree), s, q)
    BY DEF MovesWhatItSays, Moves
  <2>2. QED
    BY <1>1, <1>2, <1>3, <2>1, RenamedIsMoved
<1>4. \A src, dst \in Arg :
        MovesWhatItSays(resolve_path(lower, tree, src, FALSE).path,
                        resolve_write_target(lower, tree, dst, FALSE).path,
                        rename(lower, tree, src, dst))
  BY ONLY <1>3
<1>5. QED
  BY ONLY <1>4 DEF RenameMoves, MovesWhatItSays

\* A rename that reports success moved the whole source and nothing is left where
\* it was, in every state, for every two arguments neither of which leads into the
\* other (overlay.rs, rename).
THEOREM RenameAlwaysMoves == Spec => []RenameMoves
<1>1. IInv /\ [Next]_vars => IInv'
  BY StepGood
<1> QED
  BY <1>1, InitGood, RenameAlwaysMovesIt, PTL DEF Spec

(***************************************************************************)
(* The refinement.                                                         *)
(***************************************************************************)
LEMMA SyncStep ==
  ASSUME NEW d \in Disk, NEW t, Good(t)
  PROVE  ViewStep(d, Merged(d, t), Merged(d, sync(d, t)))
BY SyncKeeps DEF ViewStep, ModeStep

\* A step that runs a method.
LEMMA RunIsStep ==
  ASSUME IInv, NEW r, Steps(lower, tree, r), Run(r)
  PROVE  [Merge!MergedNext]_<<lower, Merged(lower, tree)>>
<1>1. UNCHANGED lower /\ tree' = r.tree /\ lower' = lower
  BY DEF Run
<1>2. ViewStep(lower, Merged(lower, tree), Merged(lower', tree'))
  BY <1>1 DEF Steps
<1>3. QED
  BY <1>1, <1>2, ViewStepIsMerged

\* Every method of the overlay is a step of the one tree.
LEMMA MethodIsStep ==
  ASSUME IInv, Method
  PROVE  [Merge!MergedNext]_<<lower, Merged(lower, tree)>>
<1>1. lower \in Disk /\ Rooted(lower) /\ Good(tree)
  BY ArgAssumption DEF IInv
<1>2. \A p \in Arg : p \in Seq(Name)
  BY ArgAssumption, ScriptPaths
<1>3. /\ \A c \in Written : c \in SUBSET Chunk
      /\ \A m \in NewMode : m \in Mode
      /\ \A l \in NewLink : l \in Link
  BY ArgAssumption
<1>4. SUFFICES \E r : Steps(lower, tree, r) /\ Run(r)
  BY RunIsStep
<1>5. CASE WriteFile
  BY <1>1, <1>2, <1>3, <1>5, WriteFileView DEF WriteFile
<1>6. CASE AppendFile
  BY <1>1, <1>2, <1>3, <1>6, AppendView DEF AppendFile
<1>7. CASE RemoveFile
  BY <1>1, <1>2, <1>7, RemovalsView DEF RemoveFile
<1>8. CASE Mkdir
  BY <1>1, <1>2, <1>8, MkdirView DEF Mkdir
<1>9. CASE MkdirP
  BY <1>1, <1>2, <1>9, MkdirView DEF MkdirP
<1>10. CASE RemoveDir
  BY <1>1, <1>2, <1>10, RemovalsView DEF RemoveDir
<1>11. CASE RemoveDirAll
  BY <1>1, <1>2, <1>11, RemovalsView DEF RemoveDirAll
<1>12. CASE Chmod
  BY <1>1, <1>2, <1>3, <1>12, ChmodView DEF Chmod
<1>13. CASE Utimes
  BY <1>1, <1>2, <1>13, ChmodView, NodeAssumption DEF Utimes
<1>14. CASE MakeSymlink
  BY <1>1, <1>2, <1>3, <1>14, LinksView DEF MakeSymlink
<1>15. CASE MakeHardlink
  BY <1>1, <1>2, <1>15, LinksView DEF MakeHardlink
<1>16. CASE Copy
  BY <1>1, <1>2, <1>16, CopyView DEF Copy
<1>17. CASE Rename
  BY <1>1, <1>2, <1>17, RenameView DEF Rename
<1>18. QED
  BY <1>5, <1>6, <1>7, <1>8, <1>9, <1>10, <1>11, <1>12, <1>13, <1>14, <1>15,
     <1>16, <1>17 DEF Method

\* What a script sees of an overlay is one tree, for every disk, every set of
\* arguments and every depth: each method, sync and reset is a step of MergedFs,
\* or leaves the tree as it was (overlay.rs, overlay_tree.rs).
THEOREM OverlayIsOneTree == Spec => ImplementsMergedFs
<1>1. Init => Merge!MergedInit
  <2>1. SUFFICES ASSUME Init PROVE Merged(lower, tree) = lower
    BY DEF Merge!MergedInit
  <2>2. lower \in Disk /\ Rooted(lower) /\ tree = EmptyTree
    BY <2>1, ArgAssumption DEF Init
  <2>3. QED
    BY <2>2, EmptyShowsLower
<1>2. IInv /\ [Next]_vars => [Merge!MergedNext]_<<lower, Merged(lower, tree)>>
  <2>1. SUFFICES ASSUME IInv, [Next]_vars
                 PROVE  [Merge!MergedNext]_<<lower, Merged(lower, tree)>>
    OBVIOUS
  <2>2. lower \in Disk /\ Rooted(lower) /\ Good(tree)
    BY <2>1, ArgAssumption DEF IInv
  <2>3. CASE Method
    BY <2>1, <2>3, MethodIsStep
  <2>4. CASE Sync
    <3>1. UNCHANGED lower /\ lower' = lower /\ tree' = sync(lower, tree)
      BY <2>4 DEF Sync, Run, Ok
    <3>2. ViewStep(lower, Merged(lower, tree), Merged(lower', tree'))
      BY <2>2, <3>1, SyncStep
    <3>3. QED
      BY <3>1, <3>2, ViewStepIsMerged
  <2>5. CASE Reset
    <3>1. UNCHANGED lower /\ lower' = lower /\ tree' = EmptyTree
      BY <2>5 DEF Reset, Run, Ok
    <3>2. Merged(lower', tree') = lower
      BY <2>2, <3>1, EmptyShowsLower
    <3>3. QED
      BY <3>1, <3>2 DEF Merge!MergedNext, Merge!Discard
  <2>6. CASE UNCHANGED vars
    BY <2>6 DEF vars
  <2>7. QED
    BY <2>1, <2>3, <2>4, <2>5, <2>6 DEF Next
<1>3. IInv /\ [Next]_vars => IInv'
  BY StepGood
<1>4. QED
  BY <1>1, <1>2, <1>3, InitGood, PTL DEF Spec, ImplementsMergedFs, Merge!MergedSpec

(***************************************************************************)
(* readdir, against the view.                                              *)
(***************************************************************************)
\* A directory lists names.
LEMMA ListedAreNames ==
  ASSUME NEW d, NEW t, NEW q
  PROVE  readdir_lower(d, q) \subseteq Name /\ dir_entries(t, q) \subseteq Name
<1>1. \A c \in NodePath : c[Len(c)] \in Name
  BY NodePathType, PrefixStep
<1>2. \A u : \A c \in Children(u) : c \in NodePath
  BY DEF Children
<1>3. QED
  BY <1>1, <1>2 DEF readdir_lower, Entries, dir_entries

\* What stands in a directory that shows is covered by nothing.
LEMMA ChildUncovered ==
  ASSUME NEW d \in Disk, NEW t, Good(t), NEW q \in Path, NEW n \in Name,
         Append(q, n) \in NodePath, IsDir(lstat_overlay(d, t, q))
  PROVE  ~Covered(t, Append(q, n))
<1>1. q \in Seq(Name)
  BY ScriptPaths
<1>2. SUFFICES ASSUME NEW r \in Above(Append(q, n)), IsLeaf(t[r]) \/ IsWhiteout(t[r])
               PROVE  FALSE
  BY DEF Covered
<1>3. r \in Above(q) \/ (r = q /\ q # Root)
  BY <1>1, AboveAppend
<1>4. CASE q \in NodePath
  BY <1>2, <1>3, <1>4, OverlayIs, TypeNames DEF Covered
<1>5. CASE q = Root
  BY <1>3, <1>5, RootClean
<1>6. QED
  BY <1>4, <1>5 DEF Path

\* What a directory lists, the overlay shows.
LEMMA ListedIsShown ==
  ASSUME NEW d \in Disk, Rooted(d), NEW t, Good(t), NEW q \in Path,
         Clean(d, t, q), IsDir(lstat_overlay(d, t, q)), NEW n \in Name,
         Append(q, n) \in NodePath, n \in readdir_merged(d, t, q)
  PROVE  ~IsNone(lstat_overlay(d, t, Append(q, n)))
<1> DEFINE x == Append(q, n)
<1>1. /\ q \in Seq(Name) /\ x \in Seq(Name) /\ Len(x) = Len(q) + 1
      /\ x[Len(x)] = n /\ SubSeq(x, 1, Len(q)) = q /\ Len(q) \in Nat
  BY ScriptPaths, LenProperties, AppendOne
<1>2. x \in NodePath /\ ~Covered(t, x)
  BY ChildUncovered
<1> HIDE DEF x
<1>3. x \in Children(q)
  <2>1. Len(q) <= Len(x)
    BY ONLY <1>1
  <2>2. QED
    BY <1>1, <1>2, <2>1 DEF Children, StartsWith
<1>4. ResolvedOr(resolve_path(d, t, q, TRUE), q) = q
  <2>1. resolve_path(d, t, q, TRUE) = Resolved(q)
    BY ShownResolves, TypeNames
  <2>2. /\ Resolved(q).err = "ok" /\ Resolved(q).path = q
    BY <1>1, ResultTypes
  <2>3. QED
    BY <2>1, <2>2 DEF ResolvedOr
<1>5. /\ n \in readdir_lower(d, q) \/ n \in dir_entries(t, q)
      /\ n \notin whiteout_children(t, q)
  BY <1>4 DEF readdir_merged
<1>6. ~IsWhiteout(t[x])
  BY <1>1, <1>3, <1>5 DEF whiteout_children
<1>7. CASE n \in readdir_lower(d, q)
  <2>1. ~IsNone(lstat_lower(d, x))
    BY <1>1, <1>7, ReaddirIs DEF x
  <2>2. QED
    BY <1>2, <1>6, <2>1, OverlayIs DEF x
<1>8. CASE n \in dir_entries(t, q)
  <2>1. PICK c \in Children(q) : IsContent(t[c]) /\ c[Len(c)] = n
    BY <1>8 DEF dir_entries
  <2>2. c \in NodePath /\ c \in Seq(Name) /\ Len(c) = Len(q) + 1
        /\ SubSeq(c, 1, Len(q)) = q
    BY <2>1, NodePathType DEF Children, StartsWith
  <2>3. c = x
    BY <1>1, <2>1, <2>2, SameLast DEF x
  <2>4. QED
    BY <1>2, <1>6, <2>1, <2>3, OverlayIs, TypeNames DEF x
<1>9. QED
  BY <1>5, <1>7, <1>8

\* A directory of the view lists the names of the entries the view has in it.
LEMMA ListingIsOfTheView ==
  ASSUME NEW d \in Disk, Rooted(d), NEW t, Good(t), NEW p \in Path,
         Len(p) < MaxDepth, IsDir(At(Merged(d, t), p))
  PROVE  readdir_merged(d, t, p) =
           {q[Len(q)] : q \in {c \in Children(p) : ~IsNone(Merged(d, t)[c])}}
<1> DEFINE M == Merged(d, t)
<1>1. /\ p \in Seq(Name) /\ Len(p) \in Nat
      /\ Clean(d, t, p) /\ IsDir(lstat_overlay(d, t, p))
      /\ \A r \in Above(p) : r \in NodePath /\ IsDir(lstat_overlay(d, t, r))
  <2>1. CASE p = Root
    BY <2>1, ScriptPaths, EmptyPath, RootClean
  <2>2. CASE p \in NodePath
    <3>1. IsDir(M[p]) /\ p \in Seq(Name) /\ Len(p) \in Nat
      BY <2>2, NodePathType, EmptyPath DEF At
    <3>2. /\ \A r \in Above(p) : r \in NodePath /\ IsDir(lstat_overlay(d, t, r))
          /\ M[p] = lstat_overlay(d, t, p)
      BY <2>2, <3>1, MergedRooted, TypeNames
    <3>3. QED
      BY <3>1, <3>2, TypeNames DEF Clean, Straight
  <2>3. QED
    BY <2>1, <2>2 DEF Path
<1>2. ASSUME NEW n \in Name
      PROVE  /\ Append(p, n) \in NodePath /\ Append(p, n) \in Children(p)
             /\ Append(p, n)[Len(Append(p, n))] = n
             /\ M[Append(p, n)] = lstat_overlay(d, t, Append(p, n))
  <2> DEFINE x == Append(p, n)
  <2>1. /\ x \in Seq(Name) /\ Len(x) = Len(p) + 1 /\ x[Len(p) + 1] = n
        /\ SubSeq(x, 1, Len(p)) = p
    BY <1>1, AppendOne
  <2>2. \A r \in Above(x) : IsDir(lstat_overlay(d, t, r))
    BY <1>1, AboveAppend
  <2> HIDE DEF x
  <2>3. Len(x) >= 1 /\ Len(x) <= MaxDepth /\ Len(p) <= Len(x)
    BY <1>1, <2>1, PathAssumption
  <2>4. x \in NodePath
    BY <2>1, <2>3, NodePathIntro
  <2>5. x \in Children(p)
    BY <2>1, <2>3, <2>4 DEF Children, StartsWith
  <2>6. M[x] = lstat_overlay(d, t, x)
    BY <2>2, <2>4 DEF Merged
  <2>7. QED
    BY <2>1, <2>4, <2>5, <2>6 DEF x
<1> DEFINE L == readdir_merged(d, t, p)
           S == {q[Len(q)] : q \in {c \in Children(p) : ~IsNone(M[c])}}
<1>3. L \subseteq Name
  BY ListedAreNames DEF readdir_merged
<1>4. ASSUME NEW n \in L PROVE n \in S
  <2>1. n \in Name
    BY <1>3
  <2>2. ~IsNone(lstat_overlay(d, t, Append(p, n)))
    BY <1>1, <1>2, <2>1, ListedIsShown
  <2>3. QED
    BY <1>2, <2>1, <2>2
<1>5. ASSUME NEW n \in S PROVE n \in L
  <2>1. PICK c \in Children(p) : ~IsNone(M[c]) /\ n = c[Len(c)]
    OBVIOUS
  <2>2. c \in NodePath /\ c \in Seq(Name) /\ Len(c) = Len(p) + 1
        /\ SubSeq(c, 1, Len(p)) = p /\ n \in Name
    BY <1>1, <2>1, NodePathType, PrefixStep DEF Children, StartsWith
  <2>3. c = Append(p, n)
    BY <1>1, <2>1, <2>2, SameLast
  <2>4. QED
    BY <1>1, <1>2, <2>1, <2>2, <2>3, ShownIsListed, TypeNames
<1> HIDE DEF L, S
<1>6. L = S
  BY <1>4, <1>5
<1>7. QED
  BY <1>6 DEF L, S, M

\* In every state a sequence of calls reaches, readdir names an entry of a
\* directory exactly where lstat finds one: the half of LookupsAgree that is
\* about listings, for every directory that the model's MaxDepth leaves room in.
THEOREM ListingAlwaysAgrees ==
  Spec => [](\A p \in Path :
               Len(p) < MaxDepth => ListingAgreesAt(Merged(lower, tree), p))
<1>1. IInv => \A p \in Path :
                Len(p) < MaxDepth => ListingAgreesAt(Merged(lower, tree), p)
  BY ArgAssumption, ListingIsOfTheView DEF IInv, ListingAgreesAt
<1>2. IInv /\ [Next]_vars => IInv'
  BY StepGood
<1>3. QED
  BY <1>1, <1>2, InitGood, PTL DEF Spec

(***************************************************************************)
(* Every whiteout of the tree has an entry of the disk to hide.            *)
(***************************************************************************)
Hides(d, t) == \A p \in NodePath : IsWhiteout(t[p]) => lower_exists(d, p)

\* A tree that differs in nodes that are no whiteouts.
LEMMA NoNewWhiteouts ==
  ASSUME NEW d, NEW t, Hides(d, t), NEW u,
         \A p \in NodePath : u[p] = t[p] \/ ~IsWhiteout(u[p])
  PROVE  Hides(d, u)
BY DEF Hides

LEMMA WithHides ==
  ASSUME NEW d, NEW t, Hides(d, t), NEW p, NEW n, ~IsWhiteout(n)
  PROVE  Hides(d, With(t, p, n))
BY DEF Hides, With

LEMMA AttachHides ==
  ASSUME NEW d, NEW t, Hides(d, t), NEW p, NEW n, ~IsWhiteout(n)
  PROVE  Hides(d, attach(t, p, n).tree)
BY WithHides DEF attach, Ok, Fail

\* What is hidden is hidden because the disk has it.
LEMMA HideHides ==
  ASSUME NEW d, NEW t, Hides(d, t), NEW p
  PROVE  /\ Hides(d, Hide(d, t, p))
         /\ lower_exists(d, p) => Hides(d, put_whiteout(t, p, lower_mode_of(d)))
<1>1. ASSUME lower_exists(d, p)
      PROVE  Hides(d, put_whiteout(t, p, lower_mode_of(d)))
  <2> DEFINE u == put_whiteout(t, p, lower_mode_of(d))
  <2>1. CASE u = t
    BY <2>1
  <2>2. CASE u # t
    <3> DEFINE m == lower_mode_of(d)
    <3>0. u = [q \in NodePath |->
                 IF q = p THEN Whiteout
                 ELSE IF q \in Below(p) THEN None
                 ELSE IF q \in Above(p) /\ IsNone(t[q]) THEN Dir(m[q])
                 ELSE t[q]]
      BY <2>2 DEF put_whiteout
    <3> HIDE DEF u, m
    <3>1. \A q \in NodePath : q = p \/ u[q] = t[q] \/ ~IsWhiteout(u[q])
      BY <3>0 DEF Dir, None, IsWhiteout
    <3>2. Hides(d, u)
      BY <1>1, <3>1 DEF Hides
    <3>3. QED
      BY <3>2 DEF u, m
  <2>3. QED
    BY <2>1, <2>2
<1>2. Hides(d, detach(t, p))
  BY TypeNames DEF Hides, detach
<1>3. QED
  BY <1>1, <1>2 DEF Hide

\* A directory that comes back hides what the disk has in it.
LEMMA EnsuredHides ==
  ASSUME NEW d \in Disk, Rooted(d), NEW t, Hides(d, t), NEW S \in SUBSET NodePath
  PROVE  Hides(d, EnsureAll(t, S, lower_mode_of(d), lower_entries_of(d)))
<1> DEFINE u == EnsureAll(t, S, lower_mode_of(d), lower_entries_of(d))
<1>1. ASSUME NEW q \in NodePath, IsWhiteout(u[q]), u[q] # t[q]
      PROVE  lower_exists(d, q)
  <2>1. /\ Parent(q) \in S /\ Parent(q) \in NodePath
        /\ q[Len(q)] \in lower_entries_of(d)[Parent(q)]
    BY <1>1 DEF EnsureAll, Dir, IsWhiteout
  <2>2. q[Len(q)] \in readdir_lower(d, Parent(q))
    BY <2>1 DEF lower_entries_of
  <2>3. /\ Parent(q) \in Seq(Name) /\ q[Len(q)] \in Name
        /\ Append(Parent(q), q[Len(q)]) = q
    <3>1. q \in Seq(Name) /\ Len(q) \in Nat /\ Len(q) >= 1
      BY NodePathType
    <3>2. QED
      BY <3>1, PrefixStep, PrefixWhole DEF Parent
  <2>4. QED
    BY <2>2, <2>3, ReaddirIs DEF lower_exists
<1> HIDE DEF u
<1>2. Hides(d, u)
  BY <1>1 DEF Hides
<1>3. QED
  BY <1>2 DEF u

LEMMA EnsureHides ==
  ASSUME NEW d \in Disk, Rooted(d), NEW t, Hides(d, t)
  PROVE  /\ \A p : Hides(d, ensure_dirs(t, p, lower_mode_of(d), lower_entries_of(d)).tree)
         /\ \A p : Hides(d, ensure_upper_dir_path(d, t, p).tree)
         /\ \A p : Hides(d, EnsureParent(d, t, p).tree)
<1>1. ASSUME NEW p
      PROVE  Hides(d, ensure_dirs(t, p, lower_mode_of(d), lower_entries_of(d)).tree)
  <2>1. p \in Path => UpTo(p) \in SUBSET NodePath
    <3>1. UpTo(Root) = {}
      BY EmptyPath DEF UpTo
    <3>2. QED
      BY <3>1, UpToIsAboveAndSelf, AboveType DEF Path
  <2>2. QED
    BY <2>1, EnsuredHides DEF ensure_dirs, Ok, Fail
<1>2. \A p : Hides(d, ensure_upper_dir_path(d, t, p).tree)
  BY <1>1 DEF ensure_upper_dir_path, Fail
<1>3. QED
  BY <1>1, <1>2 DEF EnsureParent, Ok

LEMMA ThenHides ==
  ASSUME NEW d, NEW first, NEW second, Hides(d, first.tree),
         Succeeds(first) => Hides(d, second.tree)
  PROVE  Hides(d, Then(first, second).tree)
BY DEF Then

LEMMA StillHides ==
  ASSUME NEW d, NEW t, Hides(d, t), NEW e
  PROVE  Hides(d, Fail(e, t).tree) /\ Hides(d, Ok(t).tree)
BY DEF Fail, Ok

LEMMA AttachAfterHides ==
  ASSUME NEW d, NEW a, Hides(d, a.tree), NEW p, NEW n, ~IsWhiteout(n)
  PROVE  Hides(d, AttachAfter(a, p, n).tree)
BY AttachHides, ThenHides DEF AttachAfter

LEMMA AttachBelowHides ==
  ASSUME NEW d \in Disk, Rooted(d), NEW t, Hides(d, t), NEW p, NEW n, ~IsWhiteout(n)
  PROVE  Hides(d, AttachBelow(d, t, p, n).tree)
BY EnsureHides, AttachAfterHides DEF AttachBelow

\* The edits in place.
LEMMA EditHides ==
  ASSUME NEW d, NEW t, Good(t), Hides(d, t), NEW p
  PROVE  /\ \A c : Hides(d, append_file(t, p, c).tree)
         /\ \A m \in Mode : Hides(d, set_mode(t, p, m).tree)
<1>1. \A c, m : ~IsWhiteout(File(c, m))
  BY DEF File, IsWhiteout
<1>2. \A c : Hides(d, append_file(t, p, c).tree)
  BY <1>1, WithHides, StillHides DEF append_file, Ok, Fail
<1>3. ASSUME NEW m \in Mode
      PROVE  Hides(d, set_mode(t, p, m).tree)
  <2>1. CASE has_content(t, p) /\ ~IsSymlink(At(t, p))
    <3> DEFINE n == [t[p] EXCEPT !.mode = m]
    <3>1. p \in NodePath /\ IsContent(t[p]) /\ ~IsSymlink(t[p])
      BY <2>1, FoundIsNode
    <3>2. t[p] \in ContentNode
      BY <3>1 DEF Good, Tree, UpperNode, IsContent, None, Whiteout
    <3>3. n.type = t[p].type
      BY <3>1, <3>2 DEF ContentNode, LeafNode, DirNode, IsSymlink
    <3>4. ~IsWhiteout(n)
      BY <3>1, <3>3 DEF IsContent, IsWhiteout
    <3> HIDE DEF n
    <3>5. Hides(d, With(t, p, n))
      BY <3>4, WithHides
    <3>6. QED
      BY <2>1, <3>5 DEF set_mode, Ok, n
  <2>2. CASE ~(has_content(t, p) /\ ~IsSymlink(At(t, p)))
    BY <2>2 DEF set_mode, Fail
  <2>3. QED
    BY <2>1, <2>2
<1>4. QED
  BY <1>2, <1>3

LEMMA CopyUpHides ==
  ASSUME NEW d \in Disk, Rooted(d), NEW t, Hides(d, t), NEW p
  PROVE  /\ Hides(d, copy_up_if_needed(d, t, p).tree)
         /\ Hides(d, BringUp(d, t, p).tree)
<1> DEFINE a == EnsureParent(d, t, p)
           n == stat_lower(d, p)
<1>1. Hides(d, a.tree)
  BY EnsureHides
<1>2. IsFile(n) => Hides(d, AttachAfter(a, p, n).tree)
  BY <1>1, AttachAfterHides, TypeNames
<1>3. Hides(d, Then(a, Fail("IoError", a.tree)).tree)
  BY <1>1, StillHides, ThenHides
<1>4. Hides(d, copy_up_if_needed(d, t, p).tree)
  BY <1>2, <1>3, StillHides DEF copy_up_if_needed
<1>5. QED
  BY <1>4, EnsureHides, StillHides DEF BringUp

(***************************************************************************)
(* The methods.                                                            *)
(***************************************************************************)
LEMMA MethodsHide ==
  ASSUME NEW d \in Disk, Rooted(d), NEW t, Good(t), Hides(d, t), NEW p
  PROVE  /\ \A c \in SUBSET Chunk : /\ Hides(d, write_file(d, t, p, c).tree)
                                    /\ Hides(d, overlay_append(d, t, p, c).tree)
         /\ \A r \in {remove_file(d, t, p), remove_dir(d, t, p), remove_dir_all(d, t, p),
                      mkdir(d, t, p), mkdir_p(d, t, p), utimes(d, t, p)} :
              Hides(d, r.tree)
         /\ \A m \in Mode : Hides(d, chmod(d, t, p, m).tree)
         /\ \A l \in Link : Hides(d, symlink(d, t, l, p).tree)
         /\ \A q : Hides(d, hardlink(d, t, q, p).tree)
<1>1. \A c, m : ~IsWhiteout(File(c, m))
  BY DEF File, IsWhiteout
<1>2. ASSUME NEW c \in SUBSET Chunk
      PROVE  Hides(d, write_file(d, t, p, c).tree)
  <2> DEFINE w == resolve_write_target(d, t, p, TRUE)
             q == w.path
             a == EnsureParent(d, t, q)
             f == File(c, WriteMode(d, a.tree, q))
  <2>1. Hides(d, a.tree) /\ ~IsWhiteout(f)
    BY <1>1, EnsureHides
  <2>2. Hides(d, AttachAfter(a, q, f).tree)
    BY <2>1, AttachAfterHides
  <2>3. Hides(d, Fail(w.err, t).tree) /\ Hides(d, Fail("IsADirectory", t).tree)
    BY StillHides
  <2> HIDE DEF f
  <2>4. write_file(d, t, p, c).tree \in
          {Fail(w.err, t).tree, Fail("IsADirectory", t).tree, AttachAfter(a, q, f).tree}
    BY DEF write_file, f
  <2>5. QED
    BY <2>2, <2>3, <2>4
<1>3. ASSUME NEW c \in SUBSET Chunk
      PROVE  Hides(d, overlay_append(d, t, p, c).tree)
  <2>1. \A q : Hides(d, AttachBelow(d, t, q, File(c, FileMode)).tree)
    BY <1>1, AttachBelowHides
  <2>2. ASSUME NEW q, NEW layer
        PROVE  Hides(d, AppendIn(d, t, q, c, layer).tree)
    <3> DEFINE up == copy_up_if_needed(d, t, q)
    <3>1. Hides(d, append_file(t, q, c).tree)
      BY EditHides
    <3>2. Hides(d, Then(up, append_file(up.tree, q, c)).tree)
      BY CopyUpHides, CopyUpGood, EditHides, ThenHides
    <3>3. CASE layer = "Upper"
      BY <3>1, <3>3 DEF AppendIn
    <3>4. CASE layer = "Lower"
      BY <3>2, <3>4 DEF AppendIn
    <3>5. CASE layer \notin {"Upper", "Lower"}
      BY <2>1, <3>5 DEF AppendIn
    <3>6. QED
      BY <3>3, <3>4, <3>5
  <2>3. QED
    BY <2>1, <2>2, StillHides DEF overlay_append
<1>4. \A fits : Hides(d, RemoveWhere(d, t, p, fits).tree)
  BY HideHides, StillHides DEF RemoveWhere
<1>5. /\ Hides(d, remove_file(d, t, p).tree)
      /\ Hides(d, remove_dir(d, t, p).tree)
      /\ Hides(d, remove_dir_all(d, t, p).tree)
  BY <1>4, StillHides DEF remove_file, remove_dir, remove_dir_all
<1>6. Hides(d, mkdir(d, t, p).tree)
  BY EnsureHides, StillHides DEF mkdir
<1>7. Hides(d, mkdir_p(d, t, p).tree)
  BY EnsureHides, StillHides DEF mkdir_p
<1>8. \A m \in Mode : Hides(d, chmod(d, t, p, m).tree)
  BY BringUpGood, CopyUpHides, EditHides, ThenHides, StillHides DEF chmod
<1>9. Hides(d, utimes(d, t, p).tree)
  BY CopyUpHides, StillHides DEF utimes
<1>10. \A n : ~IsWhiteout(n) => Hides(d, AttachNew(d, t, p, n).tree)
  BY AttachBelowHides, StillHides DEF AttachNew
<1>11. \A l \in Link : Hides(d, symlink(d, t, l, p).tree)
  BY <1>10 DEF symlink, Symlink, IsWhiteout
<1>12. \A q : Hides(d, hardlink(d, t, q, p).tree)
  BY <1>10, StillHides, TypeNames DEF hardlink
<1>13. QED
  BY <1>2, <1>3, <1>5, <1>6, <1>7, <1>8, <1>9, <1>11, <1>12

LEMMA CopyHides ==
  ASSUME NEW d \in Disk, Rooted(d), NEW t, Good(t), Hides(d, t), NEW src, NEW dst
  PROVE  Hides(d, copy(d, t, src, dst).tree)
<1> DEFINE n == read_file(d, t, src)
           w == write_file(d, t, dst, n.content)
           r == Then(w, chmod(d, w.tree, dst, n.mode))
<1>1. IsFile(n) => Hides(d, r.tree)
  <2>1. ASSUME IsFile(n) PROVE n.content \in SUBSET Chunk /\ n.mode \in Mode
    BY <2>1, FileRead
  <2>2. ASSUME IsFile(n) PROVE Good(w.tree) /\ Hides(d, w.tree)
    BY <2>1, <2>2, WriteFileGood, MethodsHide
  <2> HIDE DEF w, n
  <2>3. IsFile(n) => Hides(d, chmod(d, w.tree, dst, n.mode).tree)
    BY <2>1, <2>2, MethodsHide
  <2>4. QED
    BY <2>2, <2>3, ThenHides
<1>2. Hides(d, Fail("NotFound", t).tree)
  BY StillHides
<1>3. copy(d, t, src, dst) = IF IsFile(n) THEN r ELSE Fail("NotFound", t)
  BY DEF copy
<1> HIDE DEF n, r
<1>4. QED
  BY <1>1, <1>2, <1>3

LEMMA RenameHides ==
  ASSUME NEW d \in Disk, Rooted(d), NEW t, Good(t), Hides(d, t), NEW src, NEW dst
  PROVE  Hides(d, rename(d, t, src, dst).tree)
<1>1. \A v : ~IsWhiteout(lstat_overlay(d, t, v))
  BY OverlayAnswers DEF DiskNode, ContentNode, LeafNode, DirNode, None, IsWhiteout
<1>2. ASSUME NEW s, NEW q
      PROVE  Hides(d, MoveDir(d, t, s, q).tree)
  <2> DEFINE seen    == SeenBelow(d, t, s)
             moved   == Rebased(seen, s, q)
             newdirs == Rebased(DirsOf(d, t, seen), s, q)
             c       == Cleared(d, t, q)
             S       == UpTo(q) \cup newdirs
             made    == EnsureAll(c, S, lower_mode_of(d), lower_entries_of(d))
             leaves  == moved \ newdirs
             res     == Landed(d, t, s, q, made, leaves)
             refused == \/ Occupied(d, t, q) /\ readdir_merged(d, t, q) # {}
                        \/ dir_entries(t, q) # {}
  <2>1. MoveDir(d, t, s, q) =
          IF refused THEN Fail("DirectoryNotEmpty", t)
          ELSE IF ~({s, q} \cup moved \subseteq NodePath) THEN Fail("TooDeep", t)
          ELSE IF \E r \in UpTo(q) : IsLeaf(c[r])
          THEN Fail("NotADirectory", c)
          ELSE Ok(res)
    BY DEF MoveDir, MoveSeen
  <2>2. Hides(d, c)
    BY HideHides DEF Cleared
  <2>3. ASSUME {s, q} \cup moved \subseteq NodePath
        PROVE  Hides(d, res)
    <3>1. newdirs \subseteq moved /\ q \in NodePath
      BY <2>3 DEF DirsOf, Rebased
    <3>2. S \in SUBSET NodePath
      BY <2>3, <3>1, UpToIsAboveAndSelf, AboveType
    <3> HIDE DEF S, c
    <3>3. Hides(d, made)
      BY <2>2, <3>2, EnsuredHides
    <3> HIDE DEF made, leaves
    <3>4. \A r \in NodePath : res[r] = made[r] \/ ~IsWhiteout(res[r])
      BY <1>1 DEF Landed
    <3> HIDE DEF res
    <3>5. QED
      BY <3>3, <3>4, NoNewWhiteouts
  <2> HIDE DEF refused, moved, c, res
  <2>4. QED
    BY <2>1, <2>2, <2>3, StillHides
<1>3. ASSUME NEW s, NEW q, NEW n, ~IsWhiteout(n)
      PROVE  Hides(d, MoveNode(d, t, s, q, n).tree)
  BY <1>2, <1>3, AttachBelowHides, StillHides DEF MoveNode, MoveLeaf
<1>4. ASSUME NEW s, NEW q, NEW n, ~IsWhiteout(n), NEW made, made = MoveNode(d, t, s, q, n)
      PROVE  Hides(d, Then(made, Ok(Hide(d, made.tree, s))).tree)
  BY <1>3, <1>4, HideHides, StillHides, ThenHides
<1>5. QED
  <2> DEFINE from == resolve_path(d, t, src, FALSE)
             to   == resolve_write_target(d, t, dst, FALSE)
             node == lstat_overlay(d, t, from.path)
             made == MoveNode(d, t, from.path, to.path, node)
  <2>1. Hides(d, Then(made, Ok(Hide(d, made.tree, from.path))).tree)
    BY <1>1, <1>4
  <2> HIDE DEF made, node
  <2>2. QED
    BY <2>1, StillHides DEF rename, made, node

(***************************************************************************)
(* diff, and the host that performs it.                                    *)
(***************************************************************************)
\* Where no link of the disk is on the way, the kernel finds what the disk holds.
LEMMA StraightEntry ==
  ASSUME NEW d \in Disk, Rooted(d), NEW p \in NodePath,
         \A r \in Above(p) : ~IsSymlink(d[r])
  PROVE  lstat_lower(d, p) = d[p]
<1>1. CASE \A r \in Above(p) : IsDir(d[r])
  BY <1>1, PlainEntry
<1>2. CASE ~\A r \in Above(p) : IsDir(d[r])
  <2> DEFINE B == {r \in NodePath : ~IsDir(d[r])}
  <2>1. PICK x \in Above(p) : x \in B
    BY <1>2, AboveType
  <2>2. PICK r \in Above(p) : r \in B /\ \A y \in Above(r) : y \notin B
    <3> HIDE DEF B
    <3> QED BY <2>1, HighestAbove
  <2>3. r \in NodePath /\ ~IsDir(d[r]) /\ \A y \in Above(r) : IsDir(d[y])
    BY <2>2, AboveType
  <2>4. lstat_lower(d, r) = d[r] /\ d[r] \in DiskNode
    BY <2>3, PlainEntry DEF Disk
  <2>5. IsNone(d[r]) \/ IsFile(d[r])
    BY <2>2, <2>3, <2>4, DiskKinds
  <2>6. lstat_lower(d, p) = None
    BY <2>2, <2>4, <2>5, NodePathType, NothingInLower
  <2>7. d[p] = None
    <3>1. IsNone(d[p]) /\ d[p] \in DiskNode
      BY <2>2, <2>3 DEF Rooted, Disk
    <3>2. QED
      BY <3>1, DiskNone
  <2>8. QED
    BY <2>6, <2>7
<1>3. QED
  BY <1>1, <1>2

\* What the tree holds is what the view shows.
LEMMA HeldShows ==
  ASSUME NEW d \in Disk, NEW t, Good(t), NEW p \in NodePath, ~IsNone(t[p])
  PROVE  /\ Merged(d, t)[p] = IF IsWhiteout(t[p]) THEN None ELSE t[p]
         /\ \A r \in Above(p) : r \in NodePath /\ IsDir(t[r])
<1>1. \A r \in Above(p) : r \in NodePath /\ IsDir(t[r])
  BY AboveType DEF Good, TreeWF, Rooted
<1>2. ASSUME NEW r \in NodePath, ~IsNone(t[r])
      PROVE  lstat_overlay(d, t, r) = IF IsWhiteout(t[r]) THEN None ELSE t[r]
  <2>1. ~Covered(t, r)
    BY <1>2, TypeNames DEF Covered, Good, TreeWF, Rooted
  <2>2. QED
    BY <1>2, <2>1, OverlayIs
<1>3. Above(p) \subseteq Reaches(d, t)
  BY <1>1, <1>2, TypeNames DEF Reaches
<1>4. QED
  BY <1>1, <1>2, <1>3, MergedIs

LEMMA DiffIs ==
  ASSUME NEW d, NEW t, NEW p
  PROVE  /\ p \in diff(d, t).writes <=>
              p \in NodePath /\ (IsLeaf(t[p]) \/ (IsDir(t[p]) /\ ~IsScaffold(t, p)))
         /\ p \in diff(d, t).deletions <=>
              p \in NodePath /\ IsWhiteout(t[p]) /\ lower_exists(d, p)
BY DEF diff

\* Among paths there is a deepest one.
LEMMA DeepestPath ==
  ASSUME NEW D \in SUBSET NodePath, D # {}
  PROVE  \E q \in D : \A r \in D : Len(r) <= Len(q)
<1> DEFINE S == {MaxDepth - Len(q) : q \in D}
<1>1. \A q \in D : Len(q) \in Nat /\ Len(q) <= MaxDepth /\ MaxDepth \in Nat
  BY NodePathType, PathAssumption
<1>2. S \subseteq Nat /\ S # {}
  BY <1>1
<1>3. PICK m \in S : \A k \in S : m <= k
  <2> HIDE DEF S
  <2> QED BY <1>2, LeastNatural
<1>4. PICK q \in D : m = MaxDepth - Len(q)
  OBVIOUS
<1>5. ASSUME NEW r \in D PROVE Len(r) <= Len(q)
  <2>1. m <= MaxDepth - Len(r)
    BY <1>3
  <2>2. QED
    BY <1>1, <1>4, <2>1
<1>6. QED
  BY <1>5

\* A directory that nothing written needs is there only to carry deletions, and
\* the disk has it.
LEMMA ScaffoldRests ==
  ASSUME NEW d \in Disk, Rooted(d), NEW t, Good(t), Hides(d, t), NoDirOverLink(d, t),
         NEW p \in NodePath, IsDir(t[p]), \A q \in diff(d, t).writes : p \notin UpTo(q)
  PROVE  IsDir(d[p])
<1> DEFINE D == {q \in Subtree(p) : IsDir(t[q])}
<1>1. D \in SUBSET NodePath /\ p \in D
  BY SubtreeIsSelfAndBelow DEF Subtree
<1>2. PICK q \in D : \A r \in D : Len(r) <= Len(q)
  <2> HIDE DEF D
  <2> QED BY <1>1, DeepestPath
<1>3. q \in NodePath /\ IsDir(t[q]) /\ q \in Subtree(p)
  BY <1>1
<1>4. p \in UpTo(q)
  BY <1>3, SubtreeIsSelfAndBelow, BelowIsAbove, UpToIsAboveAndSelf
<1>5. IsScaffold(t, q)
  BY <1>3, <1>4, DiffIs
<1>6. PICK c \in Children(q) : ~IsNone(t[c])
  BY <1>5 DEF IsScaffold
<1>7. /\ c \in NodePath /\ Len(c) = Len(q) + 1 /\ Len(q) \in Nat /\ Len(c) > Len(q)
      /\ StartsWith(c, q) /\ c \in Below(q)
  BY <1>3, <1>6, NodePathType DEF Children, Below
<1>8. q \in Above(c) /\ p \in Above(c)
  BY <1>3, <1>4, <1>7, BelowIsAbove, UpToIsAboveAndSelf, AboveTransitive
<1>9. ~IsLeaf(t[c])
  BY <1>5, <1>7 DEF IsScaffold, subtree_has_content
<1>10. ~IsDir(t[c])
  <2>1. c \in Subtree(p)
    BY <1>7, <1>8, SubtreeIsSelfAndBelow, BelowIsAbove
  <2>2. c \in D => Len(c) <= Len(q)
    BY <1>2
  <2>3. QED
    BY <1>7, <2>1, <2>2
<1> HIDE DEF D
<1>11. IsWhiteout(t[c])
  BY <1>6, <1>7, <1>9, <1>10, NodeOfTree, TypeNames
<1>12. ~IsNone(lstat_lower(d, c))
  BY <1>7, <1>11 DEF Hides, lower_exists
<1>13. \A r \in Above(c) : r \in NodePath /\ ~IsSymlink(d[r])
  BY <1>6, <1>7, HeldShows DEF NoDirOverLink
<1>14. d[c] = lstat_lower(d, c)
  BY <1>7, <1>13, StraightEntry
<1>15. QED
  BY <1>7, <1>8, <1>12, <1>14 DEF Rooted

\* Equal but for a directory's mode, as the module of the one tree says it.
LEMMA EqualDirs ==
  ASSUME NEW m, NEW n
  PROVE  /\ Merge!EqualButDirMode(m, n) <=> m = n \/ (IsDir(m) /\ IsDir(n))
         /\ Merge!EqualButDirMode(m, n) =>
              (IsDir(m) <=> IsDir(n)) /\ (IsNone(m) <=> IsNone(n))
BY TypeNames DEF Merge!EqualButDirMode, Merge!IsDir, IsDir

\* What a host that performs the diff removes, and the directories it makes.
RemovedBy(d, t) == diff(d, t).deletions
                     \cup {p \in diff(d, t).writes : IsLeaf(t[p]) \/ ~IsDir(d[p])}
MadeFor(d, t) == {p \in NodePath : \E q \in diff(d, t).writes : p \in UpTo(q)}

LEMMA PatchedIs ==
  ASSUME NEW d, NEW t, NEW p \in NodePath
  PROVE  Patched(d, t)[p] =
           IF IsLeaf(t[p]) THEN t[p]
           ELSE IF p \in MadeFor(d, t) THEN (IF IsDir(d[p]) THEN d[p] ELSE t[p])
           ELSE IF UpTo(p) \cap RemovedBy(d, t) # {} THEN None
           ELSE d[p]
<1>1. p \in diff(d, t).writes /\ IsLeaf(t[p]) <=> IsLeaf(t[p])
  BY DiffIs
<1>2. QED
  BY <1>1 DEF Patched, RemovedBy, MadeFor

\* What is written lies in directories of the tree.
LEMMA MadeIsDir ==
  ASSUME NEW d, NEW t, Good(t), NEW p \in MadeFor(d, t), ~IsLeaf(t[p])
  PROVE  IsDir(t[p])
<1>1. PICK q \in diff(d, t).writes : p \in UpTo(q)
  BY DEF MadeFor
<1>2. q \in NodePath /\ (IsLeaf(t[q]) \/ IsDir(t[q]))
  BY DiffIs
<1>3. CASE p = q
  BY <1>2, <1>3
<1>4. CASE p \in Above(q)
  BY <1>2, <1>4, TypeNames DEF Good, TreeWF, Rooted
<1>5. QED
  BY <1>1, <1>2, <1>3, <1>4, UpToIsAboveAndSelf

\* Nothing shows below a leaf or a whiteout of the tree, nor where neither the
\* tree nor the disk has anything.
LEMMA CoveredShows ==
  ASSUME NEW d \in Disk, NEW t, Good(t), NEW p \in NodePath
  PROVE  /\ Covered(t, p) => Merged(d, t)[p] = None
         /\ IsNone(t[p]) /\ IsNone(lstat_lower(d, p)) => Merged(d, t)[p] = None
<1>1. Covered(t, p) => Merged(d, t)[p] = None
  BY ReachUncovered, MergedIs
<1>2. IsNone(lstat_lower(d, p)) => lstat_lower(d, p) = None
  BY LowerAnswers, DiskNone
<1>3. IsNone(t[p]) /\ IsNone(lstat_lower(d, p)) => Merged(d, t)[p] = None
  BY <1>2, OverlayIs, MergedIs
<1>4. QED
  BY <1>1, <1>3

\* Where a host has removed what stood at a path or above it, nothing shows.
LEMMA RemovedShows ==
  ASSUME NEW d \in Disk, Rooted(d), NEW t, Good(t), Hides(d, t), NoDirOverLink(d, t),
         NEW p \in NodePath, ~IsLeaf(t[p]), p \notin MadeFor(d, t),
         NEW r \in UpTo(p), r \in RemovedBy(d, t)
  PROVE  Merged(d, t)[p] = None
<1>1. \A q \in diff(d, t).writes : p \notin UpTo(q)
  BY DEF MadeFor
<1>2. p \notin diff(d, t).writes
  BY <1>1, UpToIsAboveAndSelf
<1>3. r = p \/ r \in Above(p)
  BY UpToIsAboveAndSelf
<1>4. r \in NodePath
  BY <1>3, AboveType
<1>5. CASE IsWhiteout(t[p])
  BY <1>5, HeldShows, TypeNames
<1>6. CASE r \in Above(p) /\ (IsWhiteout(t[r]) \/ IsLeaf(t[r]))
  BY <1>6, CoveredShows DEF Covered
<1>7. CASE r \in Above(p) /\ IsDir(t[r]) /\ ~IsDir(d[r]) /\ ~IsWhiteout(t[p])
  <2>1. ~IsDir(t[p])
    <3>1. IsDir(t[p]) => IsDir(d[p])
      BY <1>1, ScaffoldRests
    <3>2. IsDir(d[p]) => IsDir(d[r])
      BY <1>7, TypeNames DEF Rooted
    <3>3. QED
      BY <1>7, <3>1, <3>2
  <2>2. IsNone(t[p])
    BY <1>7, <2>1, NodeOfTree, TypeNames
  <2>3. \A y \in Above(r) : y \in NodePath /\ IsDir(t[y])
    BY <1>4, <1>7, HeldShows, TypeNames
  <2>4. ~IsSymlink(d[r]) /\ \A y \in Above(r) : ~IsSymlink(d[y])
    BY <1>4, <1>7, <2>3 DEF NoDirOverLink
  <2>5. lstat_lower(d, r) = d[r] /\ d[r] \in DiskNode
    BY <1>4, <2>4, StraightEntry DEF Disk
  <2>6. IsNone(d[r]) \/ IsFile(d[r])
    BY <1>7, <2>4, <2>5, DiskKinds
  <2>7. lstat_lower(d, p) = None
    BY <1>7, <2>5, <2>6, NodePathType, NothingInLower
  <2>8. QED
    BY <2>2, <2>7, CoveredShows, TypeNames
<1>8. r \in diff(d, t).deletions => IsWhiteout(t[r])
  BY DiffIs
<1>9. r \in diff(d, t).writes => r \in Above(p) /\ (IsLeaf(t[r]) \/ IsDir(t[r]))
  BY <1>2, <1>3, DiffIs
<1>10. QED
  BY <1>3, <1>5, <1>6, <1>7, <1>8, <1>9 DEF RemovedBy

\* Where a host has touched nothing, the disk shows as it is.
LEMMA UntouchedShows ==
  ASSUME NEW d \in Disk, Rooted(d), NEW t, Good(t), Hides(d, t), NoDirOverLink(d, t),
         NEW p \in NodePath, ~IsLeaf(t[p]), p \notin MadeFor(d, t),
         UpTo(p) \cap RemovedBy(d, t) = {}
  PROVE  Merge!EqualButDirMode(d[p], Merged(d, t)[p])
<1>1. UpTo(p) = Above(p) \cup {p} /\ \A r \in UpTo(p) : r \in NodePath
  BY UpToIsAboveAndSelf, AboveType
<1>2. ASSUME NEW r \in UpTo(p) PROVE IsDir(t[r]) \/ IsNone(t[r])
  <2>1. ~IsWhiteout(t[r])
    BY <1>1, DiffIs DEF Hides, RemovedBy
  <2>2. ~IsLeaf(t[r])
    BY <1>1, DiffIs DEF RemovedBy
  <2>3. QED
    BY <1>1, <2>1, <2>2, NodeOfTree, TypeNames
<1>3. ASSUME NEW r \in UpTo(p), IsNone(t[r])
      PROVE  lstat_overlay(d, t, r) = lstat_lower(d, r)
  <2>1. ~Covered(t, r)
    BY <1>1, <1>2, AboveTransitive, TypeNames DEF Covered
  <2>2. QED
    BY <1>1, <1>3, <2>1, OverlayIs, TypeNames
<1>4. CASE IsDir(t[p])
  <2>1. IsDir(d[p])
    BY <1>4, ScaffoldRests DEF MadeFor
  <2>2. Merged(d, t)[p] = t[p]
    BY <1>4, HeldShows, TypeNames
  <2>3. QED
    BY <1>4, <2>1, <2>2, EqualDirs
<1>5. CASE IsNone(t[p]) /\ ~IsNone(d[p])
  <2>1. \A r \in Above(p) : r \in NodePath /\ IsDir(d[r])
    BY <1>5, AboveType DEF Rooted
  <2>2. ASSUME NEW r \in Above(p) PROVE IsDir(lstat_overlay(d, t, r))
    <3>1. lstat_lower(d, r) = d[r]
      BY <2>1, AboveTransitive, PlainEntry
    <3>2. CASE IsNone(t[r])
      BY <1>1, <1>3, <2>1, <3>1, <3>2
    <3>3. CASE IsDir(t[r])
      <4>1. ~Covered(t, r)
        BY <1>1, <1>2, AboveTransitive, TypeNames DEF Covered
      <4>2. QED
        BY <2>1, <3>3, <4>1, OverlayIs, TypeNames
    <3>4. QED
      BY <1>1, <1>2, <3>2, <3>3
  <2>3. Merged(d, t)[p] = lstat_overlay(d, t, p)
    BY <2>1, <2>2, MergedIs DEF Reaches
  <2>4. lstat_lower(d, p) = d[p]
    BY <2>1, PlainEntry
  <2>5. QED
    BY <1>1, <1>3, <1>5, <2>3, <2>4, EqualDirs
<1>6. CASE IsNone(t[p]) /\ IsNone(d[p])
  <2>1. d[p] = None
    BY <1>6, DiskNone DEF Disk
  <2>2. CASE \A r \in Above(p) : ~IsSymlink(d[r])
    <3>1. lstat_lower(d, p) = None
      BY <2>1, <2>2, StraightEntry
    <3>2. QED
      BY <1>6, <2>1, <3>1, CoveredShows, EqualDirs, TypeNames
  <2>3. CASE \E r \in Above(p) : IsSymlink(d[r])
    <3>1. PICK r \in Above(p) : IsSymlink(d[r])
      BY <2>3
    <3>2. r \in NodePath /\ IsNone(t[r])
      BY <1>1, <1>2, <3>1 DEF NoDirOverLink
    <3>3. \A y \in Above(r) : IsDir(d[y])
      BY <3>1, <3>2, TypeNames DEF Rooted
    <3>4. lstat_overlay(d, t, r) = d[r]
      BY <1>1, <1>3, <3>2, <3>3, PlainEntry
    <3>5. r \notin Reaches(d, t)
      BY <3>1, <3>4, TypeNames DEF Reaches
    <3>6. QED
      BY <2>1, <3>5, MergedIs, EqualDirs
  <2>4. QED
    BY <2>2, <2>3
<1>7. QED
  BY <1>1, <1>2, <1>4, <1>5, <1>6

\* A host that performs the diff gets what the script saw.
LEMMA PatchShows ==
  ASSUME NEW d \in Disk, Rooted(d), NEW t, Good(t), Hides(d, t), NoDirOverLink(d, t),
         NEW p \in NodePath
  PROVE  Merge!EqualButDirMode(Patched(d, t)[p], Merged(d, t)[p])
<1>1. CASE IsLeaf(t[p])
  BY <1>1, HeldShows, PatchedIs, EqualDirs, TypeNames
<1>2. CASE ~IsLeaf(t[p]) /\ p \in MadeFor(d, t)
  <2>1. IsDir(t[p])
    BY <1>2, MadeIsDir
  <2>2. Merged(d, t)[p] = t[p]
    BY <2>1, HeldShows, TypeNames
  <2>3. QED
    BY <1>2, <2>1, <2>2, PatchedIs, EqualDirs
<1>3. CASE ~IsLeaf(t[p]) /\ p \notin MadeFor(d, t) /\ UpTo(p) \cap RemovedBy(d, t) # {}
  <2>1. PICK r \in UpTo(p) : r \in RemovedBy(d, t)
    BY <1>3
  <2>2. Merged(d, t)[p] = None
    BY <1>3, <2>1, RemovedShows
  <2>3. QED
    BY <1>3, <2>2, PatchedIs, EqualDirs
<1>4. CASE ~IsLeaf(t[p]) /\ p \notin MadeFor(d, t) /\ UpTo(p) \cap RemovedBy(d, t) = {}
  <2>1. Patched(d, t)[p] = d[p]
    BY <1>4, PatchedIs
  <2>2. QED
    BY <1>4, <2>1, UntouchedShows
<1>5. QED
  BY <1>1, <1>2, <1>3, <1>4

\* What the host leaves behind is a disk, on which no link is in the way of
\* anything the tree holds.
LEMMA PatchIsDisk ==
  ASSUME NEW d \in Disk, Rooted(d), NEW t, Good(t), Hides(d, t), NoDirOverLink(d, t)
  PROVE  Patched(d, t) \in Disk /\ Rooted(Patched(d, t))
<1> DEFINE P == Patched(d, t)
<1>1. ASSUME NEW p \in NodePath PROVE P[p] \in DiskNode
  <2>1. d[p] \in DiskNode /\ None \in DiskNode
    BY DEF Disk, DiskNode
  <2>2. IsLeaf(t[p]) \/ IsDir(t[p]) => t[p] \in DiskNode
    BY NodeOfTree, TypeNames
  <2>3. p \in MadeFor(d, t) /\ ~IsLeaf(t[p]) => IsDir(t[p])
    BY MadeIsDir
  <2>4. QED
    BY <2>1, <2>2, <2>3, PatchedIs
<1>2. P \in Disk
  <2>1. P = [p \in NodePath |-> P[p]]
    BY DEF Patched
  <2>2. QED
    BY <1>1, <2>1 DEF Disk
<1>3. ASSUME NEW p \in NodePath, ~IsNone(P[p]), NEW r \in Above(p)
      PROVE  IsDir(P[r])
  <2>1. ~IsNone(Merged(d, t)[p])
    BY <1>3, PatchShows, EqualDirs
  <2>2. r \in NodePath /\ IsDir(Merged(d, t)[r])
    BY <1>3, <2>1, MergedRooted
  <2>3. QED
    BY <2>2, PatchShows, EqualDirs
<1>4. QED
  BY <1>2, <1>3 DEF Rooted

\* The kernel finds on that disk what the tree holds, or nothing where the tree
\* holds a deletion: sync keeps no node.
LEMMA PatchMatches ==
  ASSUME NEW d \in Disk, Rooted(d), NEW t, Good(t), Hides(d, t), NoDirOverLink(d, t),
         NEW q \in NodePath, ~IsNone(t[q])
  PROVE  matches_disk(Patched(d, t), q, t[q])
<1> DEFINE P == Patched(d, t)
<1>1. P \in Disk /\ Rooted(P)
  BY PatchIsDisk
<1>2. \A r \in Above(q) : r \in NodePath /\ IsDir(t[r])
  BY HeldShows
<1>3. ASSUME NEW r \in Above(q) PROVE IsDir(P[r])
  <2>1. IsDir(Merged(d, t)[r])
    BY <1>2, HeldShows, TypeNames
  <2>2. QED
    BY <1>2, <2>1, PatchShows, EqualDirs
<1>4. Merge!EqualButDirMode(P[q], IF IsWhiteout(t[q]) THEN None ELSE t[q])
  BY PatchShows, HeldShows
<1> HIDE DEF P
<1>5. lstat_lower(P, q) = P[q]
  BY <1>1, <1>3, PlainEntry
<1>6. IsWhiteout(t[q]) => IsNone(P[q])
  BY <1>4, EqualDirs, TypeNames
<1>7. ~IsWhiteout(t[q]) => P[q] = t[q] \/ (IsDir(P[q]) /\ IsDir(t[q]))
  BY <1>4, EqualDirs
<1>8. IsWhiteout(t[q]) \/ IsContent(t[q])
  BY NodeOfTree
<1>9. matches_disk(P, q, t[q])
  BY <1>5, <1>6, <1>7, <1>8
  DEF matches_disk, IsFile, IsDir, IsSymlink, IsWhiteout, IsContent, IsNone
<1>10. QED
  BY <1>9 DEF P

\* One turn of the harness, for a disk and a tree.
LEMMA TurnIsExact ==
  ASSUME lower \in Disk, Rooted(lower), Good(tree), Hides(lower, tree)
  PROVE  HarnessIsExact
<1>1. DiffIsThePatch
  BY PatchShows DEF DiffIsThePatch
<1>2. ASSUME NoDirOverLink(lower, tree)
      PROVE  sync(Patched(lower, tree), tree) = EmptyTree
  <2>1. \A q \in NodePath :
           ~IsNone(tree[q]) => matches_disk(Patched(lower, tree), q, tree[q])
    BY <1>2, PatchMatches
  <2>2. QED
    BY <2>1 DEF sync, EmptyTree, Subtree
<1>3. QED
  BY <1>1, <1>2 DEF ApplyThenSyncIsClean, HarnessIsExact

(***************************************************************************)
(* The invariant of a session on one disk.                                 *)
(***************************************************************************)
HInv == IInv /\ Hides(lower, tree)

LEMMA InitHides == Init => HInv
BY InitGood, TypeNames DEF Init, HInv, Hides, EmptyTree

LEMMA RunHides ==
  ASSUME NEW r, Hides(lower, r.tree), Run(r)
  PROVE  Hides(lower, tree)'
BY DEF Run, Hides

LEMMA MethodHides == HInv /\ Method => Hides(lower, tree)'
<1> SUFFICES ASSUME HInv, Method PROVE Hides(lower, tree)'
  OBVIOUS
<1>1. /\ lower \in Disk /\ Rooted(lower) /\ Good(tree) /\ Hides(lower, tree)
      /\ lower \in Disks
  BY ArgAssumption DEF HInv, IInv
<1>2. CASE WriteFile
  BY <1>1, <1>2, ArgAssumption, MethodsHide, RunHides DEF WriteFile
<1>3. CASE AppendFile
  BY <1>1, <1>3, ArgAssumption, MethodsHide, RunHides DEF AppendFile
<1>4. CASE RemoveFile
  BY <1>1, <1>4, MethodsHide, RunHides DEF RemoveFile
<1>5. CASE Mkdir
  BY <1>1, <1>5, MethodsHide, RunHides DEF Mkdir
<1>6. CASE MkdirP
  BY <1>1, <1>6, MethodsHide, RunHides DEF MkdirP
<1>7. CASE RemoveDir
  BY <1>1, <1>7, MethodsHide, RunHides DEF RemoveDir
<1>8. CASE RemoveDirAll
  BY <1>1, <1>8, MethodsHide, RunHides DEF RemoveDirAll
<1>9. CASE Chmod
  BY <1>1, <1>9, ArgAssumption, MethodsHide, RunHides DEF Chmod
<1>10. CASE Utimes
  BY <1>1, <1>10, MethodsHide, RunHides DEF Utimes
<1>11. CASE MakeSymlink
  BY <1>1, <1>11, ArgAssumption, MethodsHide, RunHides DEF MakeSymlink
<1>12. CASE MakeHardlink
  BY <1>1, <1>12, MethodsHide, RunHides DEF MakeHardlink
<1>13. CASE Copy
  BY <1>1, <1>13, CopyHides, RunHides DEF Copy
<1>14. CASE Rename
  BY <1>1, <1>14, RenameHides, RunHides DEF Rename
<1>15. QED
  BY <1>2, <1>3, <1>4, <1>5, <1>6, <1>7, <1>8, <1>9, <1>10, <1>11, <1>12,
     <1>13, <1>14 DEF Method

LEMMA StepHides == HInv /\ [Next]_vars => HInv'
<1> SUFFICES ASSUME HInv, [Next]_vars PROVE Hides(lower, tree)'
  BY StepGood DEF HInv
<1>1. CASE Method
  BY <1>1, MethodHides
<1>2. CASE Sync
  <2>1. Hides(lower, sync(lower, tree))
    BY NoNewWhiteouts, TypeNames DEF HInv, sync
  <2>2. QED
    BY <1>2, <2>1, RunHides DEF Sync, Ok
<1>3. CASE Reset
  <2>1. Hides(lower, EmptyTree)
    BY TypeNames DEF Hides, EmptyTree
  <2>2. QED
    BY <1>3, <2>1, RunHides DEF Reset, Ok
<1>4. CASE UNCHANGED vars
  BY <1>4 DEF vars, HInv, Hides
<1>5. QED
  BY <1>1, <1>2, <1>3, <1>4 DEF Next

\* In every state a sequence of calls reaches on a disk nobody else changes, a
\* host that performs diff() gets the files, links and directories the script
\* saw, and sync() then leaves nothing pending.
THEOREM HarnessAlwaysExact == Spec => []HarnessIsExact
<1>1. HInv => HarnessIsExact
  BY ArgAssumption, TurnIsExact DEF HInv, IInv
<1>2. QED
  BY <1>1, InitHides, StepHides, PTL DEF Spec

\* put_whiteout and ensure_dirs only ever hide what the disk has: on a disk
\* nobody else changes, no whiteout of the tree is stale, and the test for one
\* in diff() never drops a deletion.
THEOREM WhiteoutsAlwaysHide == Spec => []Hides(lower, tree)
<1>1. HInv => Hides(lower, tree)
  BY DEF HInv
<1>2. QED
  BY <1>1, InitHides, StepHides, PTL DEF Spec
============================================================================
