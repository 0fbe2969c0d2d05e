----------------------------- MODULE MountProofs ----------------------------
(***************************************************************************)
(* What MountProps promises of mounted in-memory file systems, proved for  *)
(* every mount table, set of names and depth, and for any number of        *)
(* threads: however their steps interleave, every backend stays a tree.    *)
(***************************************************************************)
EXTENDS MountProps, VfsPathProofs

(***************************************************************************)
(* Walking, one component at a time: the walk halts with an answer, or     *)
(* goes on at the next component or at the start of a link's text.         *)
(***************************************************************************)
Kinds   == {"ok", "NotADirectory", "NotFound", "InvalidPath", "SymlinkLoop"}
Answers == [err : Kinds, path : Seq(Name)]

Ahead(w) == Append(w[1], Head(w[2]))

Turns(t, follow, w) ==
  IsSymlink(At(t, Ahead(w))) /\ (follow \/ Tail(w[2]) # <<>>)
Barred(t, follow, w) ==
  \/ ~IsDir(At(t, w[1])) \/ IsNone(At(t, Ahead(w)))
  \/ Turns(t, follow, w) /\ (~At(t, Ahead(w)).target.abs \/ w[3] = 0)
Halts(t, follow, w) == w[2] = <<>> \/ Barred(t, follow, w)
Refusal(t, w) ==
  IF ~IsDir(At(t, w[1])) THEN "NotADirectory"
  ELSE IF IsNone(At(t, Ahead(w))) THEN "NotFound"
  ELSE IF ~At(t, Ahead(w)).target.abs THEN "InvalidPath" ELSE "SymlinkLoop"
Answer(t, w) == IF w[2] = <<>> THEN At_(w[1]) ELSE Stuck(Refusal(t, w))
Goes(t, follow, w) ==
  IF Turns(t, follow, w)
  THEN <<Root, At(t, Ahead(w)).target.to \o Tail(w[2]), w[3] - 1>>
  ELSE <<Ahead(w), Tail(w[2]), w[3]>>

Walks(t, follow, W) ==
  /\ \A w \in WalkPlace : Halts(t, follow, w) => W[w] = Answer(t, w)
  /\ \A w \in WalkPlace : ~Halts(t, follow, w) => W[w] = W[Goes(t, follow, w)]

\* A backend's tree, whatever it holds.
Memory == [NodePath -> MemNode]

\* A node found on the way, and a link's text.
LEMMA NodeType ==
  ASSUME NEW t \in Memory, NEW p
  PROVE  /\ At(t, p) \in MemNode
         /\ IsSymlink(At(t, p)) => /\ At(t, p).target \in Link
                                   /\ At(t, p).target.to \in Seq(Name)
         /\ ~IsNone(At(t, p)) => p = Root \/ p \in NodePath
<1>1. At(t, p) \in MemNode
  BY NodeAssumption DEF Memory, At, MemNode, DirNode, Dir, None
<1>2. IsSymlink(At(t, p)) => At(t, p).target \in Link
  BY <1>1 DEF MemNode, DirNode, IsSymlink, None
<1>3. ~IsNone(At(t, p)) => p = Root \/ p \in NodePath
  BY DEF At, IsNone, None
<1>4. QED
  BY <1>1, <1>2, <1>3, NodeAssumption

\* What a place of a walk consists of.
LEMMA PlaceIs ==
  ASSUME NEW w \in WalkPlace
  PROVE  /\ w[1] \in Seq(Name) /\ w[2] \in Seq(Name) /\ w[3] \in 0..MaxHops
         /\ w[3] \in Nat /\ w = <<w[1], w[2], w[3]>>
BY HopAssumption DEF WalkPlace

\* A place put together.
LEMMA PlaceIntro ==
  ASSUME NEW a \in Seq(Name), NEW b \in Seq(Name), NEW h \in 0..MaxHops
  PROVE  /\ <<a, b, h>> \in WalkPlace /\ <<a, b, h>>[1] = a
         /\ <<a, b, h>>[2] = b /\ <<a, b, h>>[3] = h
BY DEF WalkPlace

LEMMA StartPlace ==
  ASSUME NEW p \in Seq(Name)
  PROVE  /\ <<Root, p, MaxHops>> \in WalkPlace /\ <<Root, p, MaxHops>>[1] = Root
         /\ <<Root, p, MaxHops>>[2] = p /\ <<Root, p, MaxHops>>[3] = MaxHops
<1>1. MaxHops \in 0..MaxHops
  BY HopAssumption
<1>2. QED
  BY <1>1, EmptyPath, PlaceIntro

\* A walk that goes on stands at a place, closer to its end.
LEMMA GoesOn ==
  ASSUME NEW t \in Memory, NEW follow, NEW w \in WalkPlace, ~Halts(t, follow, w)
  PROVE  /\ Goes(t, follow, w) \in WalkPlace /\ Closer(Goes(t, follow, w), w)
         /\ w[2] # <<>> /\ IsDir(At(t, w[1])) /\ ~IsNone(At(t, Ahead(w)))
         /\ Ahead(w) \in Seq(Name) /\ Tail(w[2]) \in Seq(Name)
<1>1. /\ w[1] \in Seq(Name) /\ w[3] \in 0..MaxHops /\ w[3] \in Nat
      /\ w[2] # <<>> /\ IsDir(At(t, w[1])) /\ ~IsNone(At(t, Ahead(w)))
      /\ Tail(w[2]) \in Seq(Name) /\ Ahead(w) \in Seq(Name)
      /\ Len(Tail(w[2])) < Len(w[2])
  <2>1. w[2] # <<>> /\ IsDir(At(t, w[1])) /\ ~IsNone(At(t, Ahead(w)))
    BY DEF Halts, Barred
  <2>2. QED
    BY <2>1, PlaceIs, PathSteps DEF Ahead
<1>2. CASE Turns(t, follow, w)
  <2> DEFINE u == At(t, Ahead(w)).target.to \o Tail(w[2])
  <2>1. At(t, Ahead(w)).target.to \in Seq(Name)
    <3>1. IsSymlink(At(t, Ahead(w)))
      BY <1>2, Zenon DEF Turns
    <3>2. QED
      BY <3>1, NodeType, Zenon
  <2>2. w[3] - 1 \in 0..MaxHops
    <3>1. w[3] # 0
      BY <1>1, <1>2, Zenon DEF Halts, Barred
    <3>2. w[3] \in 0..MaxHops /\ MaxHops \in Nat
      BY <1>1, HopAssumption
    <3>3. QED
      BY ONLY <3>1, <3>2
  <2>3. u \in Seq(Name)
    BY <1>1, <2>1
  <2>4. Goes(t, follow, w) = <<Root, u, w[3] - 1>>
    BY <1>2 DEF Goes
  <2> HIDE DEF u
  <2>5. Goes(t, follow, w) \in WalkPlace
    <3>1. Root \in Seq(Name)
      BY EmptyPath
    <3>2. QED
      BY <2>2, <2>3, <2>4, <3>1 DEF WalkPlace
  <2>6. Closer(Goes(t, follow, w), w)
    BY <1>1, <2>4 DEF Closer
  <2>7. QED
    BY <1>1, <2>5, <2>6
<1>3. CASE ~Turns(t, follow, w)
  <2>1. Goes(t, follow, w) = <<Ahead(w), Tail(w[2]), w[3]>>
    BY <1>3 DEF Goes
  <2>2. Goes(t, follow, w) \in WalkPlace
    <3> DEFINE a == Ahead(w)
               b == Tail(w[2])
               h == w[3]
    <3>1. a \in Seq(Name) /\ b \in Seq(Name) /\ h \in 0..MaxHops
      BY <1>1
    <3>2. Goes(t, follow, w) = <<a, b, h>>
      BY <2>1
    <3> HIDE DEF a, b, h
    <3>3. QED
      BY <3>1, <3>2, PlaceIntro
  <2>3. Closer(Goes(t, follow, w), w)
    BY <1>1, <2>1 DEF Closer
  <2>4. QED
    BY <1>1, <2>2, <2>3
<1>4. QED
  BY <1>2, <1>3

\* Of any places of a walk, one is the closest to its end.
LEMMA LeastPlace ==
  ASSUME NEW B, B \subseteq WalkPlace, B # {}
  PROVE  \E w \in B : \A x \in B : ~Closer(x, w)
<1>1. B \subseteq Spots(MaxHops)
  BY DEF WalkPlace, Spots
<1>2. QED
  BY <1>1, LeastSpot, HopAssumption

\* An answer is an error kind and a path.
LEMMA AnswerType ==
  ASSUME NEW t, NEW w \in WalkPlace
  PROVE  Answer(t, w) \in Answers
<1> DEFINE e == Refusal(t, w)
<1>2. e \in Kinds
  BY DEF Refusal, Kinds
<1> HIDE DEF e
<1>3. Stuck(e) \in Answers
  BY <1>2, EmptyPath DEF Stuck, Answers
<1>4. w[1] \in Seq(Name)
  BY PlaceIs
<1>5. At_(w[1]) \in Answers
  BY <1>4 DEF At_, Answers, Kinds
<1>6. QED
  BY <1>3, <1>5 DEF Answer, e

\* navigate does what its body says: the recursive function it is defined by
\* exists.
LEMMA NavigateIs ==
  ASSUME NEW t \in Memory, NEW follow
  PROVE  \E W : /\ Walks(t, follow, W)
                /\ \A p : navigate(t, p, follow) = W[<<Root, p, MaxHops>>]
<1> DEFINE stop(w) == Halts(t, follow, w)
           end(w) == Answer(t, w)
           done == {w \in WalkPlace : stop(w)}
           nxt == [w \in WalkPlace |-> IF stop(w) THEN w ELSE Goes(t, follow, w)]
           val == [w \in WalkPlace |-> end(w)]
           P(W) == W = [w \in WalkPlace |->
                          IF w[2] = <<>> THEN At_(w[1])
                          ELSE IF ~IsDir(At(t, w[1])) THEN Stuck("NotADirectory")
                          ELSE IF IsNone(At(t, Ahead(w))) THEN Stuck("NotFound")
                          ELSE IF ~(IsSymlink(At(t, Ahead(w)))
                                     /\ (follow \/ Tail(w[2]) # <<>>))
                          THEN W[<<Ahead(w), Tail(w[2]), w[3]>>]
                          ELSE IF ~At(t, Ahead(w)).target.abs THEN Stuck("InvalidPath")
                          ELSE IF w[3] = 0 THEN Stuck("SymlinkLoop")
                          ELSE W[<<Root, At(t, Ahead(w)).target.to \o Tail(w[2]),
                                   w[3] - 1>>]]
           W == CHOOSE f : P(f)
<1>1. \A w \in WalkPlace : ~stop(w) => Goes(t, follow, w) \in WalkPlace
  BY GoesOn
<1>2. nxt \in [WalkPlace -> WalkPlace] /\ val \in [WalkPlace -> Answers]
  <2>1. ASSUME NEW w \in WalkPlace PROVE end(w) \in Answers
    BY AnswerType
  <2> HIDE DEF end, stop
  <2>2. QED
    BY <1>1, <2>1
<1>3. PICK f : TailRecurs(f, WalkPlace, Answers, done, nxt, val)
  <2>1. done \in SUBSET WalkPlace
    OBVIOUS
  <2> HIDE DEF done, nxt, val
  <2>2. QED
    BY <1>2, <2>1, TailRecursionExists
<1>4. P(f)
  <2>1. \A w \in WalkPlace : f[w] = IF stop(w) THEN end(w) ELSE f[Goes(t, follow, w)]
    <3> HIDE DEF stop, end
    <3> QED BY <1>3 DEF TailRecurs
  <2>2. ASSUME NEW w \in WalkPlace
        PROVE  f[w] = IF w[2] = <<>> THEN At_(w[1])
                      ELSE IF ~IsDir(At(t, w[1])) THEN Stuck("NotADirectory")
                      ELSE IF IsNone(At(t, Ahead(w))) THEN Stuck("NotFound")
                      ELSE IF ~(IsSymlink(At(t, Ahead(w)))
                                 /\ (follow \/ Tail(w[2]) # <<>>))
                      THEN f[<<Ahead(w), Tail(w[2]), w[3]>>]
                      ELSE IF ~At(t, Ahead(w)).target.abs THEN Stuck("InvalidPath")
                      ELSE IF w[3] = 0 THEN Stuck("SymlinkLoop")
                      ELSE f[<<Root, At(t, Ahead(w)).target.to \o Tail(w[2]),
                               w[3] - 1>>]
    BY <2>1, Zenon DEF Halts, Barred, Turns, Answer, Refusal, Goes
  <2>3. f = [w \in WalkPlace |-> f[w]]
    <3> HIDE DEF done, nxt, val
    <3> QED BY <1>3 DEF TailRecurs
  <2>4. QED
    BY <2>2, <2>3
<1>5. P(W)
  <2> HIDE DEF P
  <2> QED BY <1>4
<1>6. \A p : navigate(t, p, follow) = W[<<Root, p, MaxHops>>]
  <2>1. ASSUME NEW p PROVE navigate(t, p, follow) = W[<<Root, p, MaxHops>>]
    BY DEF navigate, Ahead
  <2>2. QED
    BY <2>1
<1>7. Walks(t, follow, W)
  <2>1. \A w \in WalkPlace :
          W[w] = IF w[2] = <<>> THEN At_(w[1])
                 ELSE IF ~IsDir(At(t, w[1])) THEN Stuck("NotADirectory")
                 ELSE IF IsNone(At(t, Ahead(w))) THEN Stuck("NotFound")
                 ELSE IF ~(IsSymlink(At(t, Ahead(w)))
                            /\ (follow \/ Tail(w[2]) # <<>>))
                 THEN W[<<Ahead(w), Tail(w[2]), w[3]>>]
                 ELSE IF ~At(t, Ahead(w)).target.abs THEN Stuck("InvalidPath")
                 ELSE IF w[3] = 0 THEN Stuck("SymlinkLoop")
                 ELSE W[<<Root, At(t, Ahead(w)).target.to \o Tail(w[2]), w[3] - 1>>]
    <3> HIDE DEF W
    <3> QED BY <1>5
  <2> HIDE DEF W, P
  <2>2. QED
    BY <2>1 DEF Walks, Halts, Barred, Turns, Answer, Refusal, Goes
<1>8. QED
  BY <1>6, <1>7

(***************************************************************************)
(* Where a walk stands and what it finds.                                  *)
(***************************************************************************)
Stands(t, follow, w) ==
  /\ ~IsNone(At(t, w[1]))
  /\ follow \/ w[2] # <<>> => ~IsSymlink(At(t, w[1]))
Finds(t, follow, r) ==
  /\ r \in Answers
  /\ r.err = "ok" => /\ ~IsNone(At(t, r.path))
                     /\ follow => ~IsSymlink(At(t, r.path))

LEMMA RootIsDir ==
  ASSUME NEW t
  PROVE  IsDir(At(t, Root)) /\ ~IsNone(At(t, Root)) /\ ~IsSymlink(At(t, Root))
BY DEF At, Dir, IsDir, IsNone, IsSymlink

LEMMA StartStands ==
  ASSUME NEW t, NEW follow, NEW p
  PROVE  Stands(t, follow, <<Root, p, MaxHops>>)
BY RootIsDir DEF Stands

\* Each step leads to a node that is there, and never beyond a link that it
\* should have followed.
LEMMA GoesStands ==
  ASSUME NEW t \in Memory, NEW follow, NEW w \in WalkPlace, ~Halts(t, follow, w)
  PROVE  Stands(t, follow, Goes(t, follow, w))
<1>1. ~IsNone(At(t, Ahead(w)))
  BY GoesOn
<1>2. CASE Turns(t, follow, w)
  <2>1. Goes(t, follow, w)[1] = Root
    BY <1>2 DEF Goes
  <2>2. QED
    BY <2>1, RootIsDir DEF Stands
<1>3. CASE ~Turns(t, follow, w)
  <2>1. Goes(t, follow, w)[1] = Ahead(w) /\ Goes(t, follow, w)[2] = Tail(w[2])
    BY <1>3 DEF Goes
  <2>2. QED
    BY <1>1, <1>3, <2>1 DEF Stands, Turns
<1>4. QED
  BY <1>2, <1>3

LEMMA WalkFinds ==
  ASSUME NEW t \in Memory, NEW follow, NEW W, Walks(t, follow, W),
         NEW w \in WalkPlace, Stands(t, follow, w)
  PROVE  Finds(t, follow, W[w])
<1> DEFINE B == {x \in WalkPlace : Stands(t, follow, x) /\ ~Finds(t, follow, W[x])}
<1>1. SUFFICES B = {}
  OBVIOUS
<1>2. SUFFICES ASSUME NEW x \in B, \A y \in B : ~Closer(y, x) PROVE FALSE
  <2>1. B \subseteq WalkPlace
    OBVIOUS
  <2> HIDE DEF B
  <2>2. QED
    BY <1>2, <2>1, LeastPlace
<1>3. x \in WalkPlace /\ Stands(t, follow, x) /\ ~Finds(t, follow, W[x])
  OBVIOUS
<1>4. \A y \in WalkPlace : Closer(y, x) /\ Stands(t, follow, y) => Finds(t, follow, W[y])
  BY <1>2
<1> HIDE DEF B
<1>5. CASE ~Halts(t, follow, x)
  <2>1. W[x] = W[Goes(t, follow, x)]
    BY <1>3, <1>5 DEF Walks
  <2>2. QED
    BY <1>3, <1>4, <1>5, <2>1, GoesOn, GoesStands
<1>6. CASE Halts(t, follow, x)
  <2>1. W[x] = Answer(t, x) /\ Answer(t, x) \in Answers
    BY <1>3, <1>6, AnswerType DEF Walks
  <2>2. CASE x[2] = <<>>
    <3>1. Answer(t, x) = At_(x[1]) /\ At_(x[1]).path = x[1]
      BY <2>2 DEF Answer, At_
    <3>2. QED
      BY <1>3, <2>1, <3>1 DEF Finds, Stands
  <2>3. CASE x[2] # <<>>
    <3>1. Answer(t, x).err # "ok"
      BY <2>3 DEF Answer, Stuck, Refusal
    <3>2. QED
      BY <1>3, <2>1, <3>1 DEF Finds
  <2>4. QED
    BY <2>2, <2>3
<1>7. QED
  BY <1>5, <1>6

\* What navigate answers.
LEMMA NavigateFinds ==
  ASSUME NEW t \in Memory, NEW follow, NEW p \in Seq(Name)
  PROVE  Finds(t, follow, navigate(t, p, follow))
<1>1. PICK W : /\ Walks(t, follow, W)
               /\ \A q : navigate(t, q, follow) = W[<<Root, q, MaxHops>>]
  BY NavigateIs
<1> DEFINE w == <<Root, p, MaxHops>>
<1>2. w \in WalkPlace /\ Stands(t, follow, w)
  BY StartPlace, StartStands
<1>3. navigate(t, p, follow) = W[w]
  BY <1>1
<1> HIDE DEF w
<1>4. QED
  BY <1>1, <1>2, <1>3, WalkFinds

(***************************************************************************)
(* The walk of a path in two parts: it is refused in the first, or goes on *)
(* with the second from where the first leads.                             *)
(***************************************************************************)
Longer(w, v) == <<w[1], w[2] \o v, w[3]>>
Split(T, W, w, v) ==
  \/ T[w].err # "ok" /\ W[Longer(w, v)] = T[w]
  \/ T[w].err = "ok" /\ \E h \in 0..MaxHops : W[Longer(w, v)] = W[<<T[w].path, v, h>>]

\* A step does the same whatever follows.
LEMMA SameStep ==
  ASSUME NEW t \in Memory, NEW follow, NEW w \in WalkPlace, w[2] # <<>>,
         NEW v \in Seq(Name), v # <<>>, NEW x, x = Longer(w, v)
  PROVE  /\ x \in WalkPlace /\ Ahead(x) = Ahead(w)
         /\ Halts(t, follow, x) <=> Halts(t, TRUE, w)
         /\ Halts(t, follow, x) => Answer(t, x) = Answer(t, w)
         /\ ~Halts(t, follow, x) => Goes(t, follow, x) = Longer(Goes(t, TRUE, w), v)
<1>1. /\ w[1] \in Seq(Name) /\ w[2] \in Seq(Name) /\ w[3] \in 0..MaxHops
      /\ Tail(w[2]) \in Seq(Name)
  BY PlaceIs, PathSteps
<1>2. /\ w[2] \o v \in Seq(Name) /\ w[2] \o v # <<>>
      /\ Head(w[2] \o v) = Head(w[2]) /\ Tail(w[2] \o v) = Tail(w[2]) \o v
      /\ Tail(w[2]) \o v # <<>>
  BY <1>1, Concat
<1> DEFINE z == w[2] \o v
<1>3. x[1] = w[1] /\ x[2] = z /\ x[3] = w[3] /\ x \in WalkPlace
  <2>1. z \in Seq(Name) /\ x = <<w[1], z, w[3]>>
    BY <1>2 DEF Longer
  <2> HIDE DEF z
  <2>2. QED
    BY <1>1, <2>1, PlaceIntro
<1>4. Head(x[2]) = Head(w[2]) /\ Tail(x[2]) = Tail(w[2]) \o v /\ x[2] # <<>>
  BY <1>2, <1>3
<1> HIDE DEF z
<1>5. Ahead(x) = Ahead(w)
  BY <1>3, <1>4 DEF Ahead
<1>6. Turns(t, follow, x) <=> Turns(t, TRUE, w)
  BY <1>2, <1>4, <1>5 DEF Turns
<1>7. Halts(t, follow, x) <=> Halts(t, TRUE, w)
  BY <1>3, <1>4, <1>5, <1>6 DEF Halts, Barred
<1>8. Answer(t, x) = Answer(t, w)
  BY <1>3, <1>4, <1>5 DEF Answer, Refusal
<1>9. ASSUME ~Halts(t, follow, x)
      PROVE  Goes(t, follow, x) = Longer(Goes(t, TRUE, w), v)
  <2>1. CASE Turns(t, TRUE, w)
    <3> DEFINE a == At(t, Ahead(w)).target.to
               b == Tail(w[2])
               h == w[3] - 1
               g == Goes(t, TRUE, w)
    <3>1. a \in Seq(Name) /\ b \in Seq(Name)
      BY <1>1, <2>1, NodeType DEF Turns
    <3>2. g = <<Root, a \o b, h>>
      BY <2>1 DEF Goes
    <3>3. Goes(t, follow, x) = <<Root, a \o (b \o v), h>>
      BY <1>3, <1>4, <1>5, <1>6, <2>1 DEF Goes
    <3> HIDE DEF a, b, h, g
    <3>4. (a \o b) \o v = a \o (b \o v)
      BY <3>1, ConcatThree
    <3>5. g[1] = Root /\ g[2] = a \o b /\ g[3] = h
      BY <3>2
    <3>6. Longer(g, v) = <<Root, a \o (b \o v), h>>
      BY <3>4, <3>5 DEF Longer
    <3>7. Goes(t, follow, x) = Longer(g, v)
      BY <3>3, <3>6
    <3>8. QED
      BY <3>7 DEF g
  <2>2. CASE ~Turns(t, TRUE, w)
    <3> DEFINE a == Ahead(w)
               b == Tail(w[2])
               h == w[3]
               g == Goes(t, TRUE, w)
    <3>1. g = <<a, b, h>>
      BY <2>2 DEF Goes
    <3>2. ~Turns(t, follow, x)
      BY <1>6, <2>2
    <3>3. Goes(t, follow, x) = <<Ahead(x), Tail(x[2]), x[3]>>
      BY <3>2 DEF Goes
    <3>4. Ahead(x) = a /\ Tail(x[2]) = b \o v /\ x[3] = h
      BY <1>3, <1>4, <1>5
    <3> HIDE DEF a, b, h, g
    <3>5. g[1] = a /\ g[2] = b /\ g[3] = h
      BY <3>1
    <3>6. Longer(g, v) = <<a, b \o v, h>>
      BY <3>5 DEF Longer
    <3>7. Goes(t, follow, x) = Longer(g, v)
      BY <3>3, <3>4, <3>6
    <3>8. QED
      BY <3>7 DEF g
  <2>3. QED
    BY <2>1, <2>2
<1>10. QED
  BY <1>3, <1>5, <1>7, <1>8, <1>9

LEMMA WalkSplit ==
  ASSUME NEW t \in Memory, NEW follow, NEW W, Walks(t, follow, W),
         NEW T, Walks(t, TRUE, T), NEW v \in Seq(Name), v # <<>>,
         NEW w \in WalkPlace
  PROVE  Split(T, W, w, v)
<1> DEFINE B == {x \in WalkPlace : ~Split(T, W, x, v)}
<1>1. SUFFICES B = {}
  OBVIOUS
<1>2. SUFFICES ASSUME NEW x \in B, \A y \in B : ~Closer(y, x) PROVE FALSE
  <2>1. B \subseteq WalkPlace
    OBVIOUS
  <2> HIDE DEF B
  <2>2. QED
    BY <1>2, <2>1, LeastPlace
<1>3. x \in WalkPlace /\ ~Split(T, W, x, v)
  OBVIOUS
<1>4. \A y \in WalkPlace : Closer(y, x) => Split(T, W, y, v)
  BY <1>2
<1> HIDE DEF B
<1>5. CASE x[2] = <<>>
  <2>1. T[x] = At_(x[1])
    BY <1>3, <1>5 DEF Walks, Halts, Answer
  <2>2. T[x].err = "ok" /\ T[x].path = x[1]
    BY <2>1 DEF At_
  <2>3. <<>> \o v = v
    BY EmptyPath, Concat
  <2>4. Longer(x, v) = <<x[1], v, x[3]>>
    BY <1>5, <2>3 DEF Longer
  <2>5. x[3] \in 0..MaxHops
    BY <1>3, PlaceIs
  <2>6. QED
    BY <1>3, <2>2, <2>4, <2>5 DEF Split
<1>6. CASE x[2] # <<>>
  <2> DEFINE y == Longer(x, v)
             z == Goes(t, TRUE, x)
  <2>1. /\ y \in WalkPlace
        /\ Halts(t, follow, y) <=> Halts(t, TRUE, x)
        /\ Halts(t, follow, y) => Answer(t, y) = Answer(t, x)
        /\ ~Halts(t, follow, y) => Goes(t, follow, y) = Longer(z, v)
    BY <1>3, <1>6, SameStep
  <2>2. CASE Halts(t, TRUE, x)
    <3>1. T[x] = Answer(t, x) /\ W[y] = Answer(t, x)
      BY <1>3, <2>1, <2>2 DEF Walks
    <3>2. Answer(t, x).err # "ok"
      BY <1>6 DEF Answer, Stuck, Refusal
    <3>3. QED
      BY <1>3, <3>1, <3>2 DEF Split
  <2>3. CASE ~Halts(t, TRUE, x)
    <3>1. z \in WalkPlace /\ Closer(z, x)
      BY <1>3, <2>3, GoesOn
    <3>2. Split(T, W, z, v)
      BY <1>4, <3>1
    <3>3. T[x] = T[z] /\ W[y] = W[Longer(z, v)]
      BY <1>3, <2>1, <2>3 DEF Walks
    <3>4. QED
      BY <1>3, <3>2, <3>3 DEF Split
  <2>4. QED
    BY <2>2, <2>3
<1>7. QED
  BY <1>5, <1>6

(***************************************************************************)
(* Listings of one backend.                                                *)
(***************************************************************************)
\* Where a path leads, with and without a link at its own end.
Leads(t, p)   == navigate(t, p, TRUE)
Plainly(t, p) == navigate(t, p, FALSE)

\* A walk that ends at the node n: it does not follow links, or n is none.
Stops(follow, n) == follow => ~IsSymlink(n)

LEMMA PlainStops ==
  ASSUME NEW n
  PROVE  Stops(FALSE, n)
BY DEF Stops

\* What one more name leads to, where the rest of the path has led to r.
Entry(t, r, n) ==
  IF r.err # "ok" THEN r
  ELSE IF ~IsDir(At(t, r.path)) THEN Stuck("NotADirectory")
  ELSE IF IsNone(At(t, Append(r.path, n))) THEN Stuck("NotFound") ELSE At_(Append(r.path, n))

\* One more name: the walk is refused where it was refused without it, or it
\* asks for that name where the rest has led.
LEMMA NavigateEntry ==
  ASSUME NEW t \in Memory, NEW follow, NEW p \in Seq(Name), NEW n \in Name,
         Stops(follow, At(t, Append(Leads(t, p).path, n)))
  PROVE  navigate(t, Append(p, n), follow) = Entry(t, Leads(t, p), n)
<1> DEFINE r == Leads(t, p)
           q == Append(r.path, n)
<1> SUFFICES navigate(t, Append(p, n), follow) =
               IF r.err # "ok" THEN r
               ELSE IF ~IsDir(At(t, r.path)) THEN Stuck("NotADirectory")
               ELSE IF IsNone(At(t, q)) THEN Stuck("NotFound") ELSE At_(q)
  BY DEF Entry
<1>0. r = Leads(t, p) /\ q = Append(r.path, n) /\ Stops(follow, At(t, q))
  OBVIOUS
<1> HIDE DEF r, q
<1>1. PICK W : /\ Walks(t, follow, W)
               /\ \A x : navigate(t, x, follow) = W[<<Root, x, MaxHops>>]
  BY NavigateIs
<1>2. PICK T : /\ Walks(t, TRUE, T)
               /\ \A x : navigate(t, x, TRUE) = T[<<Root, x, MaxHops>>]
  BY NavigateIs
<1> DEFINE w == <<Root, p, MaxHops>>
           v == <<n>>
<1>3. /\ v \in Seq(Name) /\ v # <<>> /\ Append(p, n) = p \o v
      /\ Head(v) = n /\ Tail(v) = <<>>
  BY AppendOne
<1>4. w \in WalkPlace /\ w[1] = Root /\ w[2] = p /\ w[3] = MaxHops
  BY StartPlace
<1>5. r = T[w] /\ navigate(t, Append(p, n), follow) = W[<<Root, Append(p, n), MaxHops>>]
  BY <1>0, <1>1, <1>2 DEF Leads
<1> HIDE DEF w
<1>6. navigate(t, Append(p, n), follow) = W[Longer(w, v)]
  <2> HIDE DEF v
  <2> QED BY <1>3, <1>4, <1>5 DEF Longer
<1> HIDE DEF v
<1>7. Split(T, W, w, v)
  BY <1>1, <1>2, <1>3, <1>4, WalkSplit
<1>8. CASE r.err # "ok"
  BY <1>5, <1>6, <1>7, <1>8 DEF Split
<1>9. CASE r.err = "ok"
  <2>1. PICK h \in 0..MaxHops : W[Longer(w, v)] = W[<<r.path, v, h>>]
    BY <1>5, <1>7, <1>9 DEF Split
  <2>2. r.path \in Seq(Name)
    BY <1>0, NavigateFinds DEF Finds, Answers, Leads
  <2> DEFINE y == <<r.path, v, h>>
  <2>3. /\ y \in WalkPlace /\ y[1] = r.path /\ y[2] = v /\ y[3] = h
    BY <1>3, <2>2, PlaceIntro
  <2>4. W[Longer(w, v)] = W[y]
    BY <2>1
  <2> HIDE DEF y
  <2>5. Ahead(y) = q /\ y[2] # <<>> /\ Tail(y[2]) = <<>>
    BY <1>0, <1>3, <2>3 DEF Ahead
  <2>6. ~Turns(t, follow, y)
    BY <1>0, <2>5 DEF Turns, Stops
  <2>7. CASE ~IsDir(At(t, r.path))
    <3>1. W[y] = Stuck("NotADirectory")
      BY <1>1, <2>3, <2>5, <2>7 DEF Walks, Halts, Barred, Answer, Refusal
    <3>2. QED
      BY <1>6, <1>9, <2>4, <2>7, <3>1
  <2>8. CASE IsDir(At(t, r.path)) /\ IsNone(At(t, q))
    <3>1. W[y] = Stuck("NotFound")
      BY <1>1, <2>3, <2>5, <2>8 DEF Walks, Halts, Barred, Answer, Refusal
    <3>2. QED
      BY <1>6, <1>9, <2>4, <2>8, <3>1
  <2>9. CASE IsDir(At(t, r.path)) /\ ~IsNone(At(t, q))
    <3>1. ~Halts(t, follow, y)
      BY <2>3, <2>5, <2>6, <2>9 DEF Halts, Barred
    <3> DEFINE z == Goes(t, follow, y)
    <3>2. z = <<q, <<>>, h>>
      BY <2>3, <2>5, <2>6 DEF Goes
    <3>3. z \in WalkPlace /\ W[y] = W[z]
      BY <1>1, <2>3, <3>1, GoesOn DEF Walks
    <3> HIDE DEF z
    <3>4. z[1] = q /\ z[2] = <<>>
      BY <3>2
    <3>5. W[z] = At_(q)
      BY <1>1, <3>3, <3>4 DEF Walks, Halts, Answer
    <3>6. QED
      BY <1>6, <1>9, <2>4, <2>9, <3>3, <3>5
  <2>10. QED
    BY <2>7, <2>8, <2>9
<1>10. QED
  BY <1>8, <1>9

LEMMA PlainEntry ==
  ASSUME NEW t \in Memory, NEW p \in Seq(Name), NEW n \in Name, NEW r, Leads(t, p) = r
  PROVE  Plainly(t, Append(p, n)) =
           IF r.err # "ok" THEN r
           ELSE IF ~IsDir(At(t, r.path)) THEN Stuck("NotADirectory")
           ELSE IF IsNone(At(t, Append(r.path, n))) THEN Stuck("NotFound")
           ELSE At_(Append(r.path, n))
<1> DEFINE no == FALSE
           a == At(t, Append(Leads(t, p).path, n))
<1>1. Stops(no, a)
  BY PlainStops
<1>2. Plainly(t, Append(p, n)) = navigate(t, Append(p, n), no)
  BY DEF Plainly
<1>3. a = At(t, Append(Leads(t, p).path, n))
  OBVIOUS
<1> HIDE DEF no, a
<1>4. navigate(t, Append(p, n), no) = Entry(t, Leads(t, p), n)
  BY ONLY <1>1, <1>3, NavigateEntry, t \in Memory, p \in Seq(Name), n \in Name
<1>5. QED
  BY <1>2, <1>4 DEF Entry

\* The children of a path are its one name longer paths.
LEMMA ChildIs ==
  ASSUME NEW q \in Seq(Name), NEW c \in NodePath
  PROVE  /\ c \in Children(q) => c[Len(c)] \in Name /\ c = Append(q, c[Len(c)])
         /\ \A n \in Name : c = Append(q, n) => c \in Children(q) /\ c[Len(c)] = n
<1>1. c \in Seq(Name) /\ Len(c) \in Nat /\ Len(c) >= 1
  BY NodePathType
<1>2. c[Len(c)] \in Name
  BY <1>1
<1>3. c \in Children(q) => c = Append(q, c[Len(c)])
  BY <1>1, <1>2, SameLast DEF Children, StartsWith
<1>4. ASSUME NEW n \in Name, c = Append(q, n) PROVE c \in Children(q) /\ c[Len(c)] = n
  <2>1. /\ Len(c) = Len(q) + 1 /\ c[Len(q) + 1] = n /\ SubSeq(c, 1, Len(q)) = q
    BY <1>4, AppendOne
  <2>2. QED
    BY <2>1 DEF Children, StartsWith
<1>5. QED
  BY <1>2, <1>3, <1>4

\* A listing of a backend names what a lookup finds, link by link.
LEMMA MemoryLists ==
  ASSUME NEW t \in Memory, NEW p \in Seq(Name)
  PROVE  mem_readdir(t, p) = {n \in Name : ~IsNone(mem_lstat(t, Append(p, n)))}
<1> DEFINE r == Leads(t, p)
           q(n) == Append(r.path, n)
<1>1. r.path \in Seq(Name)
  BY NavigateFinds DEF Finds, Answers, Leads
<1>2. ASSUME NEW n \in Name
      PROVE  ~IsNone(mem_lstat(t, Append(p, n))) <=>
               IsDir(NodeOf(t, r)) /\ ~IsNone(At(t, q(n)))
  <2> DEFINE a == Plainly(t, Append(p, n))
  <2>1. a = IF r.err # "ok" THEN r
            ELSE IF ~IsDir(At(t, r.path)) THEN Stuck("NotADirectory")
            ELSE IF IsNone(At(t, q(n))) THEN Stuck("NotFound") ELSE At_(q(n))
    BY PlainEntry
  <2>2. mem_lstat(t, Append(p, n)) = NodeOf(t, a)
    BY DEF mem_lstat, Plainly
  <2>3. IsNone(None) /\ ~IsDir(None)
    BY TypeNames
  <2>4. r.err = "ok" => NodeOf(t, r) = At(t, r.path)
    BY DEF NodeOf
  <2>5. r.err # "ok" => NodeOf(t, r) = None
    BY DEF NodeOf
  <2> HIDE DEF a, q, r
  <2>6. CASE a = Stuck("NotADirectory") \/ a = Stuck("NotFound") \/ (a = r /\ r.err # "ok")
    <3>1. a.err # "ok"
      BY <2>6 DEF Stuck
    <3>2. NodeOf(t, a) = None
      BY <3>1 DEF NodeOf
    <3>3. ~(IsDir(NodeOf(t, r)) /\ ~IsNone(At(t, q(n))))
      <4>1. CASE r.err # "ok"
        BY <2>3, <2>5, <4>1
      <4>2. CASE r.err = "ok"
        <5>1. a # At_(q(n))
          BY <3>1 DEF At_
        <5>2. QED
          BY <2>1, <2>4, <4>2, <5>1
      <4>3. QED
        BY <4>1, <4>2
    <3>4. QED
      BY <2>2, <2>3, <3>2, <3>3
  <2>7. CASE /\ r.err = "ok" /\ IsDir(At(t, r.path)) /\ ~IsNone(At(t, q(n)))
             /\ a = At_(q(n))
    <3>1. NodeOf(t, a) = At(t, q(n))
      BY <2>7 DEF NodeOf, At_
    <3>2. QED
      BY <2>2, <2>4, <2>7, <3>1
  <2>8. QED
    BY <2>1, <2>6, <2>7
<1>3. CASE ~IsDir(NodeOf(t, r))
  <2>1. mem_readdir(t, p) = {}
    BY <1>3 DEF mem_readdir, Leads
  <2>2. QED
    BY <1>2, <1>3, <2>1
<1>4. CASE IsDir(NodeOf(t, r))
  <2> DEFINE S == {c \in Children(r.path) : ~IsNone(t[c])}
  <2>1. mem_readdir(t, p) = {c[Len(c)] : c \in S}
    BY <1>4 DEF mem_readdir, Leads
  <2>2. ASSUME NEW c \in S PROVE c[Len(c)] \in Name /\ ~IsNone(At(t, q(c[Len(c)])))
    <3>1. c \in NodePath /\ c \in Children(r.path) /\ ~IsNone(t[c])
      BY DEF Children
    <3>2. c = q(c[Len(c)]) /\ c[Len(c)] \in Name
      BY <1>1, <3>1, ChildIs
    <3>3. c # Root
      BY <3>1, NodePathType, EmptyPath
    <3>4. At(t, c) = t[c]
      BY <3>1, <3>3 DEF At
    <3>5. QED
      BY <3>1, <3>2, <3>4
  <2>3. ASSUME NEW n \in Name, ~IsNone(At(t, q(n))) PROVE \E c \in S : n = c[Len(c)]
    <3>1. q(n) # Root /\ q(n) \in Seq(Name)
      BY <1>1, AppendOne
    <3>2. q(n) \in NodePath /\ At(t, q(n)) = t[q(n)]
      BY <2>3, <3>1, NodeType DEF At
    <3>3. q(n) \in Children(r.path) /\ q(n)[Len(q(n))] = n
      BY <1>1, <3>2, ChildIs
    <3>4. QED
      BY <2>3, <3>2, <3>3
  <2> HIDE DEF S, r
  <2>4. QED
    BY <1>2, <1>4, <2>1, <2>2, <2>3
<1>5. QED
  BY <1>3, <1>4

(***************************************************************************)
(* Listings across the mount points.                                       *)
(***************************************************************************)
\* The backends, whatever they hold.
Backends == UNION {[T -> Memory] : T \in SUBSET Path}

LEMMA PathType ==
  ASSUME NEW p \in Path
  PROVE  p \in Seq(Name) /\ Len(p) \in Nat /\ Len(p) <= MaxDepth
<1>1. CASE p = Root
  BY <1>1, EmptyPath, PathAssumption
<1>2. CASE p \in NodePath
  BY <1>2, NodePathType
<1>3. QED
  BY <1>1, <1>2 DEF Path

Longest(S) == IF S = {} THEN Nobody
              ELSE CHOOSE m \in S : \A o \in S : Len(o) <= Len(m)

\* Every path has an owner, or none of the mount points leads to it.
LEMMA OwnerIs ==
  ASSUME NEW mounts, mounts \subseteq Path, NEW p \in Seq(Name)
  PROVE  LET m == resolve_mount(mounts, p)
         IN  /\ Owners(mounts, p) = {} <=> m = Nobody
             /\ m # Nobody => m \in Owners(mounts, p) /\ m \in mounts /\ m \in Path
                              /\ Rel(p, m) \in Seq(Name)
<1> DEFINE S == Owners(mounts, p)
           m == resolve_mount(mounts, p)
           L == {Len(o) : o \in S}
<1>1. \A o \in S : o \in Path /\ Len(o) \in Nat /\ Len(o) <= Len(p)
  BY PathType DEF Owners, StartsWith
<1>2. CASE S = {}
  BY <1>2 DEF resolve_mount
<1>3. CASE S # {}
  <2>1. L # {} /\ L \subseteq 0..Len(p) /\ Len(p) \in Nat
    <3> HIDE DEF S
    <3>1. Len(p) \in Nat
      OBVIOUS
    <3>2. \A o \in S : Len(o) \in 0..Len(p)
      BY <1>1, <3>1
    <3>3. QED
      BY <1>3, <3>1, <3>2
  <2>2. PICK k \in L : \A j \in L : j <= k
    <3> HIDE DEF L
    <3> QED BY <2>1, GreatestNatural
  <2>3. \E n \in S : \A o \in S : Len(o) <= Len(n)
    BY <2>2
  <2>4. m = CHOOSE n \in S : \A o \in S : Len(o) <= Len(n)
    BY <1>3 DEF resolve_mount
  <2> HIDE DEF m, S
  <2>5. m \in S
    BY <2>3, <2>4
  <2>6. m \in Path /\ m # Nobody /\ m \in mounts
    BY <2>5, <1>1, NobodyAssumption DEF S, Owners
  <2>7. Len(m) \in Nat /\ Len(m) <= Len(p)
    BY <1>1, <2>5
  <2>8. Rel(p, m) \in Seq(Name)
    BY <2>7, CutInTwo DEF Rel
  <2>9. QED
    BY <1>3, <2>5, <2>6, <2>8 DEF S, m
<1>4. QED
  BY <1>2, <1>3

\* One name more is one name more behind the mount point.
LEMMA RelChild ==
  ASSUME NEW p \in Seq(Name), NEW m \in Seq(Name), Len(m) <= Len(p), NEW n \in Name
  PROVE  Rel(Append(p, n), m) = Append(Rel(p, m), n)
<1> DEFINE q == Append(p, n)
           l == Len(m)
           u == SubSeq(q, l + 1, Len(q))
           r == SubSeq(p, l + 1, Len(p))
           v == Append(r, n)
<1>1. /\ q \in Seq(Name) /\ Len(q) = Len(p) + 1 /\ q[Len(p) + 1] = n
      /\ l \in Nat /\ Len(p) \in Nat /\ l <= Len(q)
      /\ \A i \in 1..Len(p) : q[i] = p[i]
  OBVIOUS
<1> HIDE DEF q, l
<1>2. u \in Seq(Name) /\ Len(u) = Len(q) - l /\ r \in Seq(Name) /\ Len(r) = Len(p) - l
  BY <1>1, CutInTwo DEF l
<1>3. /\ \A i \in 1..(Len(q) - l) : u[i] = q[l + i]
      /\ \A i \in 1..(Len(p) - l) : r[i] = p[l + i]
  BY <1>1
<1> HIDE DEF u, r
<1>4. v \in Seq(Name) /\ Len(v) = Len(r) + 1 /\ v[Len(r) + 1] = n
      /\ \A i \in 1..Len(r) : v[i] = r[i]
  BY <1>2
<1> HIDE DEF v
<1>5. Len(u) = Len(v)
  BY <1>1, <1>2, <1>4
<1>6. ASSUME NEW i \in 1..Len(u) PROVE u[i] = v[i]
  <2>1. CASE i <= Len(r)
    <3>1. i \in 1..Len(r) /\ l + i \in 1..Len(p)
      BY <1>1, <1>2, <2>1
    <3>2. QED
      BY <1>1, <1>2, <1>3, <1>4, <3>1
  <2>2. CASE i > Len(r)
    <3>1. i = Len(r) + 1 /\ l + i = Len(p) + 1 /\ i \in 1..(Len(q) - l)
      BY <1>1, <1>2, <2>2
    <3>2. QED
      BY <1>1, <1>3, <1>4, <3>1
  <2>3. QED
    BY <1>2, <2>1, <2>2
<1>7. u = v
  BY <1>2, <1>4, <1>5, <1>6
<1>8. QED
  BY <1>7 DEF u, v, r, q, l, Rel

\* What leads to p with one more name leads to p or is the whole of it.
LEMMA OwnersOfChild ==
  ASSUME NEW mounts, mounts \subseteq Path, NEW p \in Seq(Name), NEW n \in Name,
         Append(p, n) \notin mounts
  PROVE  Owners(mounts, Append(p, n)) = Owners(mounts, p)
<1> DEFINE q == Append(p, n)
<1>1. q \in Seq(Name) /\ Len(q) = Len(p) + 1 /\ SubSeq(q, 1, Len(p)) = p
  BY AppendOne
<1>2. ASSUME NEW m \in mounts PROVE StartsWith(q, m) <=> StartsWith(p, m)
  <2>1. m \in Seq(Name) /\ Len(m) \in Nat
    BY PathType
  <2>2. CASE Len(m) <= Len(p)
    <3>1. SubSeq(p, 1, Len(m)) = SubSeq(q, 1, Len(m))
      BY <1>1, <2>1, <2>2, PrefixOfPrefix
    <3>2. Len(m) <= Len(q)
      BY <1>1, <2>1, <2>2
    <3>3. QED
      BY <2>2, <3>1, <3>2 DEF StartsWith
  <2>3. CASE Len(m) > Len(p)
    <3>1. ASSUME StartsWith(q, m) PROVE FALSE
      <4>1. Len(m) = Len(q) /\ SubSeq(q, 1, Len(q)) = m
        <5> HIDE DEF q
        <5>1. Len(m) <= Len(q) /\ SubSeq(q, 1, Len(m)) = m
          BY <3>1 DEF StartsWith
        <5>2. /\ Len(p) \in Nat /\ Len(m) \in Nat /\ Len(q) = Len(p) + 1
              /\ Len(m) > Len(p) /\ Len(m) <= Len(q)
          BY <1>1, <2>1, <2>3, <5>1
        <5>4. Len(m) = Len(q)
          <6> DEFINE a == Len(p)
                     b == Len(m)
                     c == Len(q)
          <6>1. a \in Nat /\ b \in Nat /\ c = a + 1 /\ b > a /\ b <= c
            BY <5>2
          <6> HIDE DEF a, b, c
          <6>2. b = c
            BY <6>1
          <6>3. QED
            BY <6>2 DEF b, c
        <5>3. QED
          BY <5>1, <5>4
      <4>2. m = q
        BY <1>1, <4>1, PrefixWhole
      <4>3. QED
        BY <4>2
    <3>2. ~StartsWith(p, m)
      BY <2>1, <2>3 DEF StartsWith
    <3>3. QED
      BY <3>1, <3>2
  <2>4. QED
    BY <2>1, <2>2, <2>3
<1>3. QED
  BY <1>2 DEF Owners

\* The names that mount points add are those that lead to one.
LEMMA SyntheticNames ==
  ASSUME NEW mounts, mounts \subseteq Path, NEW p \in Seq(Name)
  PROVE  synthetic_mount_entries(mounts, p)
           = {n \in Name : is_mount_point_or_ancestor(mounts, Append(p, n))}
<1> DEFINE K == {k \in mounts : StartsWith(k, p) /\ k # p}
           name(k) == k[Len(p) + 1]
<1>1. ASSUME NEW k \in K PROVE name(k) \in Name /\ StartsWith(k, Append(p, name(k)))
  <2>1. k \in Seq(Name) /\ Len(k) \in Nat /\ Len(p) \in Nat /\ Len(p) <= Len(k)
    BY PathType DEF StartsWith
  <2>2. Len(p) # Len(k)
    BY <2>1, PrefixWhole DEF StartsWith
  <2> DEFINE j == Len(p) + 1
  <2>3. j \in Nat /\ j >= 1 /\ j <= Len(k) /\ j - 1 = Len(p)
    BY <2>1, <2>2
  <2>4. k[j] \in Name /\ SubSeq(k, 1, j) = Append(SubSeq(k, 1, j - 1), k[j])
    BY <2>1, <2>3, PrefixStep
  <2>5. SubSeq(k, 1, j - 1) = p
    BY <2>3 DEF StartsWith
  <2>6. Len(Append(p, k[j])) = j
    BY <2>4, AppendOne
  <2>7. QED
    BY <2>3, <2>4, <2>5, <2>6 DEF StartsWith
<1>2. ASSUME NEW n \in Name, NEW k \in mounts, StartsWith(k, Append(p, n))
      PROVE  k \in K /\ n = name(k)
  <2> DEFINE q == Append(p, n)
  <2>1. q \in Seq(Name) /\ Len(q) = Len(p) + 1 /\ q[Len(p) + 1] = n
        /\ SubSeq(q, 1, Len(p)) = p /\ Len(p) \in Nat
    BY AppendOne
  <2>2. k \in Seq(Name) /\ Len(k) \in Nat /\ Len(q) <= Len(k) /\ SubSeq(k, 1, Len(q)) = q
    BY <1>2, PathType DEF StartsWith
  <2> HIDE DEF q
  <2>3. SubSeq(k, 1, Len(p)) = p
    <3>1. SubSeq(SubSeq(k, 1, Len(q)), 1, Len(p)) = SubSeq(k, 1, Len(p))
      BY <2>1, <2>2, PrefixOfPrefix
    <3>2. QED
      BY <2>1, <2>2, <3>1
  <2>4. k[Len(p) + 1] = n
    <3>1. \A i \in 1..Len(q) : SubSeq(k, 1, Len(q))[i] = k[i]
      BY <2>1, <2>2, Prefixes
    <3>2. Len(p) + 1 \in 1..Len(q)
      BY <2>1
    <3>3. QED
      BY <2>1, <2>2, <3>1, <3>2
  <2>5. k # p
    BY <2>1, <2>2
  <2>6. QED
    BY <2>1, <2>2, <2>3, <2>4, <2>5 DEF StartsWith
<1>3. synthetic_mount_entries(mounts, p) = {name(k) : k \in K}
  BY DEF synthetic_mount_entries
<1> HIDE DEF K, name
<1>4. \A k \in K : k \in mounts
  BY DEF K
<1>5. QED
  BY <1>1, <1>2, <1>3, <1>4 DEF is_mount_point_or_ancestor

\* Of any path, with or without mount points above and below it.
LEMMA ListingIsOfLookups ==
  ASSUME NEW F, NEW mounts, mounts = DOMAIN F, mounts \subseteq Path,
         \A m \in mounts : F[m] \in Memory, NEW p \in Seq(Name)
  PROVE  readdir(F, p) = {n \in Name : ~IsNone(lstat(F, Append(p, n)))}
<1> DEFINE m == resolve_mount(mounts, p)
           own == IF m = Nobody THEN {} ELSE mem_readdir(F[m], Rel(p, m))
<1>1. readdir(F, p) = {n \in Name : is_mount_point_or_ancestor(mounts, Append(p, n))} \cup own
  BY SyntheticNames DEF readdir
<1>2. /\ m = Nobody => own = {}
      /\ m # Nobody => own = {n \in Name : ~IsNone(mem_lstat(F[m], Append(Rel(p, m), n)))}
  <2>1. ASSUME m # Nobody PROVE F[m] \in Memory /\ Rel(p, m) \in Seq(Name)
    BY <2>1, OwnerIs
  <2> HIDE DEF m
  <2>2. QED
    BY <2>1, MemoryLists
<1> HIDE DEF own
<1>3. ASSUME NEW n \in Name
      PROVE  ~IsNone(lstat(F, Append(p, n))) <=>
               is_mount_point_or_ancestor(mounts, Append(p, n)) \/ n \in own
  <2> DEFINE q == Append(p, n)
             k == resolve_mount(mounts, q)
             deep == is_mount_point_or_ancestor(mounts, q)
             found == mem_lstat(F[k], Rel(q, k))
  <2>1. ~IsNone(Synthetic(mounts, q)) <=> deep
    BY DEF Synthetic, Dir, None, IsNone
  <2>2. lstat(F, q) = IF k = Nobody THEN Synthetic(mounts, q)
                      ELSE IF IsNone(found) THEN Synthetic(mounts, q) ELSE found
    BY DEF lstat, Probe
  <2>3. ~IsNone(lstat(F, q)) <=> deep \/ (k # Nobody /\ ~IsNone(found))
    <3> HIDE DEF q, k, found, deep
    <3> QED BY <2>1, <2>2
  <2>4. CASE q \in mounts
    <3>1. q \in Seq(Name) /\ StartsWith(q, q)
      BY AppendOne, PrefixWhole DEF StartsWith
    <3>2. deep
      BY <2>4, <3>1 DEF is_mount_point_or_ancestor
    <3>3. QED
      BY <2>3, <3>2
  <2>5. CASE q \notin mounts
    <3>1. Owners(mounts, q) = Owners(mounts, p)
      BY <2>5, OwnersOfChild
    <3>2. k = m
      <4>1. k = Longest(Owners(mounts, q)) /\ m = Longest(Owners(mounts, p))
        BY Zenon DEF resolve_mount, Longest
      <4>2. QED
        BY <3>1, <4>1
    <3>3. ASSUME m # Nobody PROVE Rel(q, m) = Append(Rel(p, m), n)
      <4>1. m \in Path /\ Len(m) <= Len(p)
        BY <3>3, OwnerIs DEF Owners, StartsWith
      <4> HIDE DEF m
      <4>2. QED
        BY <4>1, PathType, RelChild
    <3>4. m # Nobody => (n \in own <=> ~IsNone(found))
      BY <1>2, <3>2, <3>3
    <3> HIDE DEF q, k, m, found, deep
    <3>5. QED
      BY <1>2, <2>3, <3>2, <3>4 DEF deep, q
  <2>6. QED
    BY <2>4, <2>5
<1>4. own \subseteq Name
  BY <1>2
<1>5. QED
  BY <1>1, <1>3, <1>4

(***************************************************************************)
(* One backend stays a tree, whatever is done to it: what exists lies in   *)
(* directories, and the numbers of its files have an upper bound.          *)
(***************************************************************************)
Numbers(t, b) == \A p \in NodePath : IsFile(t[p]) => t[p].id <= b
Sound(t) == t \in Memory /\ Rooted(t) /\ \E b \in Nat : Numbers(t, b)

LEMMA MemoryNode ==
  ASSUME NEW n \in MemNode
  PROVE  /\ IsNone(n) <=> n = None
         /\ IsFile(n) => n.id \in Nat /\ n.content \in SUBSET Chunk /\ n.mode \in Mode
         /\ IsDir(n) => n.mode \in Mode
         /\ IsNone(n) \/ IsFile(n) \/ IsDir(n) \/ IsSymlink(n)
         /\ n.type \in {"None", "File", "Dir", "Symlink"}
BY DEF MemNode, DirNode, None, IsNone, IsFile, IsDir, IsSymlink

LEMMA SoundType ==
  ASSUME NEW t, Sound(t)
  PROVE  /\ t \in Memory /\ Rooted(t)
         /\ \A p \in NodePath : t[p] \in MemNode /\ At(t, p) = t[p]
<1>1. \A p \in NodePath : p # Root
  BY NodePathType, EmptyPath
<1>2. QED
  BY <1>1 DEF Sound, Memory, At

LEMMA EmptyIsSound == Sound(EmptyMemory)
<1>1. EmptyMemory \in Memory
  BY DEF EmptyMemory, Memory, MemNode
<1>2. \A p \in NodePath : IsNone(EmptyMemory[p]) /\ ~IsFile(EmptyMemory[p])
  BY DEF EmptyMemory, IsNone, IsFile, None
<1>3. Numbers(EmptyMemory, 0)
  BY <1>2 DEF Numbers
<1>4. QED
  BY <1>1, <1>2, <1>3 DEF Sound, Rooted

\* The next number is one.
LEMMA NextNumber ==
  ASSUME NEW t, Sound(t)
  PROVE  next_file_id(t) \in Nat
<1> DEFINE S == {0} \cup {t[p].id : p \in {q \in NodePath : IsFile(t[q])}}
<1>1. PICK b \in Nat : Numbers(t, b)
  BY DEF Sound
<1>2. ASSUME NEW p \in NodePath, IsFile(t[p]) PROVE t[p].id \in Nat /\ t[p].id <= b
  BY <1>1, <1>2, SoundType, MemoryNode DEF Numbers
<1>3. S \subseteq 0..b /\ S # {} /\ 0 \in S
  BY <1>1, <1>2
<1>4. next_file_id(t) = 1 + Max(S)
  BY DEF next_file_id
<1> HIDE DEF S
<1>5. PICK m \in S : \A k \in S : k <= m
  BY <1>3, GreatestNatural
<1>6. \A x \in S : x \in Nat
  BY <1>1, <1>3
<1>7. \E x \in S : \A y \in S : x >= y
  BY <1>5, <1>6
<1>8. Max(S) \in S
  BY <1>7 DEF Max
<1>9. QED
  BY <1>4, <1>6, <1>8

\* A node put where there are directories all the way up; it may replace a
\* directory only if it is one.
LEMMA PutIsSound ==
  ASSUME NEW t, Sound(t), NEW p \in NodePath, \A r \in Above(p) : IsDir(t[r]),
         NEW node \in MemNode \ {None}, IsDir(t[p]) => IsDir(node)
  PROVE  Sound(With(t, p, node))
<1> DEFINE u == With(t, p, node)
<1>1. u \in Memory /\ u[p] = node /\ \A q \in NodePath : q # p => u[q] = t[q]
  BY SoundType DEF With, Memory
<1> HIDE DEF u
<1>2. ~IsNone(node) /\ (IsFile(node) => node.id \in Nat)
  BY MemoryNode
<1>3. Rooted(u)
  <2>1. SUFFICES ASSUME NEW q \in NodePath, ~IsNone(u[q]), NEW r \in Above(q)
                 PROVE  IsDir(u[r])
    BY DEF Rooted
  <2>2. r \in NodePath /\ r # q
    BY AboveType, NodePathType
  <2>3. IsDir(t[r])
    BY <1>1, <2>1, <2>2, SoundType DEF Rooted
  <2>4. QED
    BY <1>1, <2>2, <2>3
<1>4. \E b \in Nat : Numbers(u, b)
  <2>1. PICK b \in Nat : Numbers(t, b)
    BY DEF Sound
  <2>2. ASSUME NEW q \in NodePath, IsFile(t[q]) PROVE t[q].id \in Nat /\ t[q].id <= b
    BY <2>1, <2>2, SoundType, MemoryNode DEF Numbers
  <2>3. CASE IsFile(node)
    <3>1. b + node.id \in Nat /\ node.id <= b + node.id /\ b <= b + node.id
      BY <1>2, <2>1, <2>3
    <3>2. ASSUME NEW q \in NodePath, IsFile(u[q]) PROVE u[q].id <= b + node.id
      <4>1. CASE q = p
        BY <1>1, <3>1, <4>1
      <4>2. CASE q # p
        <5>1. u[q] = t[q] /\ t[q].id \in Nat /\ t[q].id <= b
          BY <1>1, <2>2, <3>2, <4>2
        <5>2. QED
          BY <1>2, <2>3, <3>1, <5>1
      <4>3. QED
        BY <4>1, <4>2
    <3>3. Numbers(u, b + node.id)
      BY <3>2 DEF Numbers
    <3>4. QED
      BY <3>1, <3>3
  <2>4. CASE ~IsFile(node)
    <3>1. Numbers(u, b)
      BY <1>1, <2>2, <2>4 DEF Numbers
    <3>2. QED
      BY <3>1
  <2>5. QED
    BY <2>3, <2>4
<1>5. QED
  BY <1>1, <1>3, <1>4 DEF Sound, u

LEMMA CutIsSound ==
  ASSUME NEW t, Sound(t), NEW p \in NodePath
  PROVE  /\ Sound(Without(t, p)) /\ Without(t, p)[p] = None
         /\ \A r \in NodePath : IsDir(t[r]) /\ ~StartsWith(r, p) => IsDir(Without(t, p)[r])
<1> DEFINE u == Without(t, p)
<1>1. /\ \A q \in NodePath : u[q] = IF q \in Subtree(p) THEN None ELSE t[q]
      /\ u = [q \in NodePath |-> u[q]]
  BY DEF Without, Subtree
<1> HIDE DEF u
<1>2. None \in MemNode /\ IsNone(None) /\ ~IsFile(None)
  BY DEF MemNode, IsNone, IsFile, None
<1>3. u \in Memory
  BY <1>1, <1>2, SoundType DEF Memory
<1>4. Rooted(u)
  <2>1. SUFFICES ASSUME NEW q \in NodePath, ~IsNone(u[q]), NEW r \in Above(q)
                 PROVE  IsDir(u[r])
    BY DEF Rooted
  <2>2. q \notin Subtree(p) /\ ~IsNone(t[q])
    BY <1>1, <1>2, <2>1
  <2>3. r \in NodePath /\ IsDir(t[r]) /\ r \notin Subtree(p)
    BY <2>2, AboveType, OutsideSubtree, SoundType DEF Rooted
  <2>4. QED
    BY <1>1, <2>3
<1>5. \E b \in Nat : Numbers(u, b)
  <2>1. PICK b \in Nat : Numbers(t, b)
    BY DEF Sound
  <2>2. Numbers(u, b)
    BY <1>1, <1>2, <2>1 DEF Numbers
  <2>3. QED
    BY <2>2
<1>6. p \in Subtree(p)
  BY SubtreeIsSelfAndBelow
<1>7. QED
  BY <1>1, <1>3, <1>4, <1>5, <1>6 DEF Sound, u, Subtree

\* The entry that a path names lies in a directory.
LEMMA EntryIs ==
  ASSUME NEW t, Sound(t), NEW p \in Seq(Name), NEW r, r = with_parent_mut(t, p),
         r.err = "ok"
  PROVE  /\ p # Root /\ r.path \in NodePath /\ \A x \in Above(r.path) : IsDir(t[x])
         /\ LET a == navigate(t, Parent(p), TRUE)
            IN  a.err = "ok" /\ IsDir(At(t, a.path)) /\ r.path = Append(a.path, p[Len(p)])
<1> DEFINE a == navigate(t, Parent(p), TRUE)
           q == Append(a.path, p[Len(p)])
<1>1. p # Root
  BY DEF with_parent_mut, Stuck
<1>2. Parent(p) \in Seq(Name) /\ p[Len(p)] \in Name
  BY <1>1, PrefixStep DEF Parent, Root
<1>3. r = IF a.err # "ok" THEN a
          ELSE IF ~IsDir(At(t, a.path)) THEN Stuck("NotADirectory")
          ELSE IF Len(a.path) >= MaxDepth THEN Stuck("TooDeep") ELSE At_(q)
  BY <1>1 DEF with_parent_mut
<1>4. Finds(t, TRUE, a)
  BY <1>2, NavigateFinds, SoundType
<1>5. a.path \in Seq(Name)
  BY <1>4 DEF Finds, Answers
<1> HIDE DEF a
<1>6. a.err = "ok" /\ IsDir(At(t, a.path)) /\ ~(Len(a.path) >= MaxDepth) /\ r = At_(q)
  <2>1. a.err = "ok"
    BY <1>3
  <2>2. IsDir(At(t, a.path)) /\ ~(Len(a.path) >= MaxDepth)
    BY <1>3, <2>1 DEF Stuck
  <2>3. QED
    BY <1>3, <2>1, <2>2
<1>7. q \in NodePath
  <2>1. q \in Seq(Name) /\ Len(q) = Len(a.path) + 1 /\ Len(a.path) \in Nat
    BY <1>2, <1>5, AppendOne
  <2>2. Len(q) >= 1 /\ Len(q) <= MaxDepth
    BY <1>6, <2>1, PathAssumption
  <2>3. QED
    BY <2>1, <2>2, NodePathIntro
<1>8. r.path = q
  BY <1>6 DEF At_
<1>9. ASSUME NEW x \in Above(q) PROVE IsDir(t[x])
  <2>1. /\ x \in NodePath /\ Len(x) \in Nat /\ Len(x) >= 1 /\ Len(x) < Len(q)
        /\ x = SubSeq(q, 1, Len(x))
    BY <1>7, AboveType, NodePathType
  <2>2. Len(q) = Len(a.path) + 1 /\ Len(a.path) \in Nat /\ SubSeq(q, 1, Len(a.path)) = a.path
    BY <1>2, <1>5, AppendOne
  <2>3. q \in Seq(Name)
    BY <1>7, NodePathType
  <2> HIDE DEF q
  <2>4. x = SubSeq(a.path, 1, Len(x)) /\ Len(x) <= Len(a.path)
    <3> DEFINE k == Len(x)
               m == Len(a.path)
    <3>1. k \in Nat /\ m \in Nat /\ k < Len(q) /\ Len(q) = m + 1
      BY <2>1, <2>2
    <3>2. SubSeq(q, 1, m) = a.path /\ x = SubSeq(q, 1, k)
      BY <2>1, <2>2
    <3> HIDE DEF k, m
    <3>3. k <= m /\ m <= Len(q)
      BY <3>1
    <3>4. SubSeq(SubSeq(q, 1, m), 1, k) = SubSeq(q, 1, k)
      BY <2>3, <3>1, <3>3, PrefixOfPrefix
    <3>5. QED
      BY <3>2, <3>3, <3>4 DEF k, m
  <2>5. a.path # Root
    BY <2>1, <2>4, EmptyPath
  <2>6. a.path \in NodePath /\ At(t, a.path) = t[a.path]
    BY <1>6, <2>5, NodeType, SoundType, TypeNames
  <2>7. CASE Len(x) = Len(a.path)
    BY <1>5, <1>6, <2>4, <2>6, <2>7, PrefixWhole
  <2>8. CASE Len(x) < Len(a.path)
    <3>1. x \in Above(a.path)
      BY <2>1, <2>4, <2>6, <2>8, AboveIntro
    <3>2. QED
      BY <1>6, <2>6, <3>1, SoundType, TypeNames DEF Rooted
  <2>9. QED
    BY <2>1, <2>2, <2>4, <2>7, <2>8
<1>10. QED
  BY <1>1, <1>6, <1>7, <1>8, <1>9 DEF a

\* The node that a path leads to, other than the root, is in the tree.
LEMMA FoundIs ==
  ASSUME NEW t, Sound(t), NEW p \in Seq(Name), NEW r, r = navigate(t, p, TRUE),
         r.err = "ok", r.path # Root
  PROVE  /\ r.path \in NodePath /\ t[r.path] \in MemNode \ {None}
         /\ IsFile(t[r.path]) \/ IsDir(t[r.path])
         /\ At(t, r.path) = t[r.path] /\ \A x \in Above(r.path) : IsDir(t[x])
<1>1. Finds(t, TRUE, r) /\ t \in Memory
  BY NavigateFinds, SoundType
<1>2. r.path \in NodePath
  BY <1>1, NodeType DEF Finds
<1>3. At(t, r.path) = t[r.path] /\ t[r.path] \in MemNode
  BY <1>2, SoundType
<1>4. ~IsNone(t[r.path]) /\ ~IsSymlink(t[r.path])
  BY <1>1, <1>3 DEF Finds
<1>5. QED
  BY <1>2, <1>3, <1>4, MemoryNode, SoundType DEF Rooted

\* What each method leaves is a tree.
LEMMA InsertNewIsSound ==
  ASSUME NEW t, Sound(t), NEW p \in Seq(Name), NEW node \in MemNode \ {None}
  PROVE  Sound(InsertNew(t, p, node).tree)
<1> DEFINE r == with_parent_mut(t, p)
           u == InsertNew(t, p, node)
<1>1. u = IF r.err # "ok" THEN Fail(r.err, t)
          ELSE IF ~IsNone(t[r.path]) THEN Fail("AlreadyExists", t)
          ELSE Ok(With(t, r.path, node))
  BY DEF InsertNew
<1> HIDE DEF u
<1>2. CASE r.err = "ok" /\ IsNone(t[r.path])
  <2>1. r.path \in NodePath /\ \A x \in Above(r.path) : IsDir(t[x])
    BY <1>2, EntryIs
  <2>2. ~IsDir(t[r.path])
    BY <1>2, TypeNames
  <2> HIDE DEF r
  <2>3. Sound(With(t, r.path, node))
    BY <2>1, <2>2, PutIsSound
  <2>4. u = Ok(With(t, r.path, node))
    BY <1>1, <1>2
  <2>5. u.tree = With(t, r.path, node)
    BY <2>3, <2>4 DEF Ok
  <2>6. QED
    BY <2>5, <2>3 DEF u
<1>3. CASE ~(r.err = "ok" /\ IsNone(t[r.path]))
  <2>1. u.tree = t
    BY <1>1, <1>3 DEF Fail
  <2>2. QED
    BY <2>1 DEF u
<1>4. QED
  BY <1>2, <1>3

LEMMA InsertNodeIsSound ==
  ASSUME NEW t, Sound(t), NEW p \in Seq(Name), NEW c \in SUBSET Chunk, NEW i \in Nat
  PROVE  Sound(InsertNode(t, p, c, i).tree)
<1> DEFINE r == with_parent_mut(t, p)
           node == MemFile(c, FileMode, i)
           cut == Without(t, r.path)
           u == InsertNode(t, p, c, i)
<1>1. u = IF r.err # "ok" THEN Fail(r.err, t) ELSE Ok(With(cut, r.path, node))
  BY DEF InsertNode
<1>2. node \in MemNode \ {None}
  BY NodeAssumption DEF MemNode, MemFile, None
<1> HIDE DEF u, node
<1>3. CASE r.err = "ok"
  <2>1. r.path \in NodePath /\ \A x \in Above(r.path) : IsDir(t[x])
    BY <1>3, EntryIs
  <2>2. \A x \in Above(r.path) : x \in NodePath /\ ~StartsWith(x, r.path)
    <3>1. ASSUME NEW x \in Above(r.path) PROVE x \in NodePath /\ ~StartsWith(x, r.path)
      <4>1. x \in NodePath /\ Len(x) < Len(r.path) /\ Len(x) \in Nat /\ Len(r.path) \in Nat
        BY <2>1, AboveType, NodePathType
      <4>2. QED
        BY <4>1 DEF StartsWith
    <3>2. QED
      BY <3>1
  <2> HIDE DEF r, cut
  <2>3. /\ Sound(cut) /\ cut[r.path] = None
        /\ \A x \in NodePath : IsDir(t[x]) /\ ~StartsWith(x, r.path) => IsDir(cut[x])
    BY <2>1, CutIsSound DEF cut
  <2>4. \A x \in Above(r.path) : IsDir(cut[x])
    BY <2>1, <2>2, <2>3
  <2>5. ~IsDir(cut[r.path])
    BY <2>3, TypeNames
  <2>6. Sound(With(cut, r.path, node))
    BY <1>2, <2>1, <2>3, <2>4, <2>5, PutIsSound
  <2>7. u = Ok(With(cut, r.path, node))
    BY <1>1, <1>3
  <2>8. u.tree = With(cut, r.path, node)
    BY <2>6, <2>7 DEF Ok
  <2>9. QED
    BY <2>8, <2>6 DEF u
<1>4. CASE r.err # "ok"
  <2>1. u.tree = t
    BY <1>1, <1>4 DEF Fail
  <2>2. QED
    BY <2>1 DEF u
<1>5. QED
  BY <1>3, <1>4

LEMMA RemoveIsSound ==
  ASSUME NEW t, Sound(t), NEW p \in Seq(Name), NEW types, NEW full
  PROVE  Sound(RemoveEntry(t, p, types, full).tree)
<1> DEFINE r == with_parent_mut(t, p)
           u == RemoveEntry(t, p, types, full)
<1>1. u.tree = t \/ (r.err = "ok" /\ u = Ok(Without(t, r.path)))
  BY DEF RemoveEntry, Fail
<1> HIDE DEF u
<1>2. CASE r.err = "ok" /\ u = Ok(Without(t, r.path))
  <2>1. r.path \in NodePath
    BY <1>2, EntryIs
  <2> HIDE DEF r
  <2>2. Sound(Without(t, r.path))
    BY <2>1, CutIsSound
  <2>3. u.tree = Without(t, r.path)
    BY <1>2, <2>2 DEF Ok
  <2>4. QED
    BY <2>3, <2>2 DEF u
<1>3. QED
  BY <1>1, <1>2 DEF u

LEMMA MkdirIsSound ==
  ASSUME NEW t, Sound(t), NEW p \in Seq(Name)
  PROVE  Sound(mem_mkdir_p(t, p).tree)
<1> DEFINE made == [q \in NodePath |-> IF q \in UpTo(p) /\ IsNone(t[q])
                                       THEN Dir(DirMode) ELSE t[q]]
           u == mem_mkdir_p(t, p)
<1>1. \/ u.tree = t
      \/ p \in Path /\ (\A r \in UpTo(p) : ~IsLeaf(t[r])) /\ u = Ok(made)
  BY DEF mem_mkdir_p, Fail
<1>2. \A q \in NodePath : made[q] = IF q \in UpTo(p) /\ IsNone(t[q])
                                    THEN Dir(DirMode) ELSE t[q]
  OBVIOUS
<1>3. Dir(DirMode) \in MemNode /\ IsDir(Dir(DirMode)) /\ ~IsFile(Dir(DirMode))
  BY NodeAssumption DEF MemNode, DirNode, Dir, IsDir, IsFile
<1>4. made \in Memory
  BY <1>3, SoundType DEF Memory
<1> HIDE DEF u, made
<1>5. \E b \in Nat : Numbers(made, b)
  <2>1. PICK b \in Nat : Numbers(t, b)
    BY DEF Sound
  <2>2. Numbers(made, b)
    BY <1>2, <1>3, <2>1 DEF Numbers
  <2>3. QED
    BY <2>2
<1>6. ASSUME p \in Path, \A r \in UpTo(p) : ~IsLeaf(t[r])
      PROVE  Rooted(made)
  <2>1. SUFFICES ASSUME NEW q \in NodePath, ~IsNone(made[q]), NEW r \in Above(q)
                 PROVE  IsDir(made[r])
    BY DEF Rooted
  <2>2. r \in NodePath
    BY AboveType
  <2>3. CASE q \in UpTo(p)
    <3>1. p \in NodePath
      <4>1. UpTo(Root) = {}
        BY EmptyPath DEF UpTo
      <4>2. QED
        BY <1>6, <2>3, <4>1 DEF Path
    <3>2. r \in UpTo(p)
      <4>1. UpTo(p) = Above(p) \cup {p}
        BY <3>1, UpToIsAboveAndSelf
      <4>2. q \in Above(p) => r \in Above(p)
        BY <3>1, AboveTransitive
      <4>3. QED
        BY <2>3, <4>1, <4>2
    <3>3. ~IsLeaf(t[r]) /\ t[r] \in MemNode
      BY <1>6, <2>2, <3>2, SoundType
    <3>4. IsNone(t[r]) \/ IsDir(t[r])
      BY <3>3, MemoryNode, TypeNames
    <3>5. QED
      BY <1>2, <1>3, <2>2, <3>2, <3>4
  <2>4. CASE q \notin UpTo(p)
    <3>1. ~IsNone(t[q])
      BY <1>2, <2>1, <2>4
    <3>2. IsDir(t[r])
      BY <3>1, SoundType DEF Rooted
    <3>3. QED
      BY <1>2, <1>3, <2>2, <3>2
  <2>5. QED
    BY <2>3, <2>4
<1>7. CASE p \in Path /\ (\A r \in UpTo(p) : ~IsLeaf(t[r])) /\ u = Ok(made)
  <2>1. Sound(made)
    BY <1>4, <1>5, <1>6, <1>7 DEF Sound
  <2>2. u.tree = made
    BY <1>7, <2>1 DEF Ok
  <2>3. QED
    BY <2>2, <2>1 DEF u
<1>8. QED
  BY <1>1, <1>7 DEF u

\* An edit of a node that is there, which keeps its type.
LEMMA EditIsSound ==
  ASSUME NEW t, Sound(t), NEW p \in Seq(Name), NEW r, r = navigate(t, p, TRUE),
         r.err = "ok", r.path # Root, NEW n \in MemNode, n.type = t[r.path].type
  PROVE  Sound(With(t, r.path, n))
<1>1. /\ r.path \in NodePath /\ t[r.path] \in MemNode \ {None}
      /\ \A x \in Above(r.path) : IsDir(t[x])
  BY FoundIs
<1>2. n # None
  BY <1>1, MemoryNode DEF IsNone
<1>3. IsDir(t[r.path]) => IsDir(n)
  BY DEF IsDir
<1>4. QED
  BY <1>1, <1>2, <1>3, PutIsSound

LEMMA ChmodIsSound ==
  ASSUME NEW t, Sound(t), NEW p \in Seq(Name), NEW m \in Mode
  PROVE  Sound(mem_chmod(t, p, m).tree)
<1> DEFINE r == navigate(t, p, TRUE)
           n == [t[r.path] EXCEPT !.mode = m]
           u == mem_chmod(t, p, m)
<1>1. u.tree = t \/ (r.err = "ok" /\ r.path # Root /\ u = Ok(With(t, r.path, n)))
  BY DEF mem_chmod, Edit, Fail, Ok
<1> HIDE DEF u
<1>2. CASE r.err = "ok" /\ r.path # Root /\ u = Ok(With(t, r.path, n))
  <2> DEFINE old == t[r.path]
  <2>1. old \in MemNode /\ (IsFile(old) \/ IsDir(old))
    BY <1>2, FoundIs
  <2> HIDE DEF old
  <2>2. [old EXCEPT !.mode = m] \in MemNode /\ [old EXCEPT !.mode = m].type = old.type
    BY <2>1 DEF MemNode, DirNode, None, IsFile, IsDir
  <2>3. n \in MemNode /\ n.type = t[r.path].type
    BY <2>2 DEF old
  <2> HIDE DEF n
  <2>4. Sound(With(t, r.path, n))
    BY <1>2, <2>3, EditIsSound
  <2>5. u.tree = With(t, r.path, n)
    BY <1>2, <2>4 DEF Ok
  <2>6. QED
    BY <2>5, <2>4 DEF u
<1>3. QED
  BY <1>1, <1>2 DEF u

LEMMA UtimesIsSound ==
  ASSUME NEW t, Sound(t), NEW p \in Seq(Name)
  PROVE  Sound(mem_utimes(t, p).tree)
<1> DEFINE r == navigate(t, p, TRUE)
           u == mem_utimes(t, p)
<1>1. u.tree = t \/ (r.err = "ok" /\ r.path # Root /\ u = Ok(With(t, r.path, t[r.path])))
  BY DEF mem_utimes, Edit, Fail, Ok
<1> HIDE DEF u
<1>2. CASE r.err = "ok" /\ r.path # Root /\ u = Ok(With(t, r.path, t[r.path]))
  <2>1. t[r.path] \in MemNode
    BY <1>2, FoundIs
  <2>2. Sound(With(t, r.path, t[r.path]))
    BY <1>2, <2>1, EditIsSound
  <2>3. u.tree = With(t, r.path, t[r.path])
    BY <1>2, <2>2 DEF Ok
  <2>4. QED
    BY <2>3, <2>2 DEF u
<1>3. QED
  BY <1>1, <1>2 DEF u

LEMMA AppendIsSound ==
  ASSUME NEW t, Sound(t), NEW p \in Seq(Name), NEW c \in SUBSET Chunk
  PROVE  Sound(AppendNode(t, p, c).tree)
<1> DEFINE r == navigate(t, p, TRUE)
           n == [t[r.path] EXCEPT !.content = @ \cup c]
           u == AppendNode(t, p, c)
<1>1. \/ u.tree = t
      \/ r.err = "ok" /\ r.path # Root /\ ~IsDir(At(t, r.path)) /\ u = Ok(With(t, r.path, n))
  BY DEF AppendNode, Edit, Fail, Ok, mem_stat, NodeOf
<1> HIDE DEF u
<1>2. CASE r.err = "ok" /\ r.path # Root /\ ~IsDir(At(t, r.path)) /\ u = Ok(With(t, r.path, n))
  <2> DEFINE old == t[r.path]
  <2>1. old \in MemNode /\ IsFile(old)
    BY <1>2, FoundIs
  <2> HIDE DEF old
  <2>2. old.content \cup c \in SUBSET Chunk
    BY <2>1, MemoryNode
  <2>3. /\ [old EXCEPT !.content = @ \cup c] \in MemNode
        /\ [old EXCEPT !.content = @ \cup c].type = old.type
    BY <2>1, <2>2 DEF MemNode, DirNode, None, IsFile
  <2>4. n \in MemNode /\ n.type = t[r.path].type
    BY <2>3 DEF old
  <2> HIDE DEF n
  <2>5. Sound(With(t, r.path, n))
    BY <1>2, <2>4, EditIsSound
  <2>6. u.tree = With(t, r.path, n)
    BY <1>2, <2>5 DEF Ok
  <2>7. QED
    BY <2>6, <2>5 DEF u
<1>3. QED
  BY <1>1, <1>2 DEF u

LEMMA OverwriteIsSound ==
  ASSUME NEW t, Sound(t), NEW p \in Seq(Name), NEW c \in SUBSET Chunk
  PROVE  Sound(OverwriteNode(t, p, c).tree)
<1> DEFINE r == navigate(t, p, TRUE)
           n == [t[r.path] EXCEPT !.content = c]
           u == OverwriteNode(t, p, c)
<1>1. \/ u.tree = t
      \/ /\ r.err = "ok" /\ ~IsDir(At(t, r.path))
         /\ u = Ok([t EXCEPT ![r.path].content = c])
  BY DEF OverwriteNode, Fail
<1> HIDE DEF u
<1>2. CASE /\ r.err = "ok" /\ ~IsDir(At(t, r.path))
           /\ u = Ok([t EXCEPT ![r.path].content = c])
  <2>1. r.path # Root
    BY <1>2, RootIsDir
  <2> DEFINE old == t[r.path]
  <2>2. old \in MemNode /\ IsFile(old)
    BY <1>2, <2>1, FoundIs
  <2> HIDE DEF old
  <2>3. [old EXCEPT !.content = c] \in MemNode /\ [old EXCEPT !.content = c].type = old.type
    BY <2>2 DEF MemNode, DirNode, None, IsFile
  <2>4. n \in MemNode /\ n.type = t[r.path].type
    BY <2>3 DEF old
  <2>5. [t EXCEPT ![r.path].content = c] = With(t, r.path, n)
    BY DEF With
  <2> HIDE DEF n
  <2>6. Sound(With(t, r.path, n))
    BY <1>2, <2>1, <2>4, EditIsSound
  <2>7. u.tree = With(t, r.path, n)
    BY <1>2, <2>5, <2>6 DEF Ok
  <2>8. QED
    BY <2>7, <2>6 DEF u
<1>3. QED
  BY <1>1, <1>2 DEF u

\* What can be read is a file.
LEMMA ReadIsFile ==
  ASSUME NEW t, Sound(t), NEW p \in Seq(Name), NEW n, n = mem_read(t, p)
  PROVE  n = None \/ (IsFile(n) /\ n \in MemNode \ {None})
<1> DEFINE r == navigate(t, p, TRUE)
<1>1. n = None \/ (IsFile(n) /\ r.err = "ok" /\ n = At(t, r.path))
  BY TypeNames DEF mem_read, mem_stat, NodeOf
<1>2. CASE IsFile(n) /\ r.err = "ok" /\ n = At(t, r.path)
  <2>1. r.path # Root
    BY <1>2, RootIsDir, TypeNames
  <2>2. QED
    BY <1>2, <2>1, FoundIs
<1>3. QED
  BY <1>1, <1>2

(***************************************************************************)
(* rename: the subtree goes to its new place, what was there is dropped.   *)
(***************************************************************************)
\* The parent that rename looks up is a directory, and so is all above it.
LEMMA RawParentIs ==
  ASSUME NEW t, NEW p, RawParent(t, p).err = "ok"
  PROVE  \A r \in Above(p) : IsDir(t[r])
BY DEF RawParent, Stuck

\* What lies above a path in the subtree of dst lies above dst or is where
\* something above its source came to be.
LEMMA AboveMoved ==
  ASSUME NEW src \in NodePath, NEW dst \in NodePath, NEW q \in NodePath,
         StartsWith(q, dst), NEW v \in NodePath, v = Rebase(q, dst, src),
         NEW r \in Above(q)
  PROVE  \/ r \in Above(dst)
         \/ StartsWith(r, dst) /\ Rebase(r, dst, src) \in Above(v)
<1>1. /\ r \in NodePath /\ Len(r) \in Nat /\ Len(r) >= 1 /\ Len(r) < Len(q)
      /\ r = SubSeq(q, 1, Len(r)) /\ q \in Seq(Name) /\ Len(q) \in Nat
      /\ Len(dst) \in Nat /\ Len(src) \in Nat /\ Len(src) >= 1
      /\ dst \in Seq(Name) /\ src \in Seq(Name) /\ r \in Seq(Name) /\ v \in Seq(Name)
  BY AboveType, NodePathType
<1>2. Len(dst) <= Len(q) /\ SubSeq(q, 1, Len(dst)) = dst
  BY DEF StartsWith
<1>3. CASE Len(r) < Len(dst)
  <2>1. r = SubSeq(dst, 1, Len(r))
    <3>1. SubSeq(SubSeq(q, 1, Len(dst)), 1, Len(r)) = SubSeq(q, 1, Len(r))
      BY <1>1, <1>2, <1>3, PrefixOfPrefix
    <3>2. QED
      BY <1>1, <1>2, <3>1
  <2>2. SubSeq(dst, 1, Len(r)) \in Above(dst)
    BY <1>1, <1>3, AboveIntro
  <2>3. QED
    BY <2>1, <2>2
<1>4. CASE Len(dst) <= Len(r)
  <2>1. SubSeq(r, 1, Len(dst)) = dst
    <3>1. SubSeq(SubSeq(q, 1, Len(r)), 1, Len(dst)) = SubSeq(q, 1, Len(dst))
      BY <1>1, <1>2, <1>4, PrefixOfPrefix
    <3>2. QED
      BY <1>1, <1>2, <3>1
  <2>2. StartsWith(r, dst)
    BY <1>4, <2>1 DEF StartsWith
  <2> DEFINE z == Rebase(r, dst, src)
             k == Len(z)
  <2>3. /\ z \in Seq(Name) /\ k = Len(src) + Len(r) - Len(dst)
        /\ \A i \in 1..Len(src) : z[i] = src[i]
        /\ \A i \in 1..(Len(r) - Len(dst)) : z[Len(src) + i] = r[Len(dst) + i]
    <3>1. r \in Seq(Name) /\ dst \in Seq(Name) /\ src \in Seq(Name) /\ Len(dst) <= Len(r)
      BY <1>1, <1>4
    <3>2. Shifted(z, r, dst, src)
      BY <3>1, RebasePoints
    <3> HIDE DEF z
    <3>3. QED
      BY <3>2 DEF Shifted
  <2>4. /\ Len(v) = Len(src) + Len(q) - Len(dst)
        /\ \A i \in 1..Len(src) : v[i] = src[i]
        /\ \A i \in 1..(Len(q) - Len(dst)) : v[Len(src) + i] = q[Len(dst) + i]
    <3>1. q \in Seq(Name) /\ dst \in Seq(Name) /\ src \in Seq(Name) /\ Len(dst) <= Len(q)
      BY <1>1, <1>2
    <3> DEFINE y == Rebase(q, dst, src)
    <3>2. /\ Len(y) = Len(src) + Len(q) - Len(dst)
          /\ \A i \in 1..Len(src) : y[i] = src[i]
          /\ \A i \in 1..(Len(q) - Len(dst)) : y[Len(src) + i] = q[Len(dst) + i]
      <4>1. Shifted(y, q, dst, src)
        BY <3>1, RebasePoints
      <4> HIDE DEF y
      <4>2. QED
        BY <4>1 DEF Shifted
    <3>3. y = v
      OBVIOUS
    <3> HIDE DEF y
    <3>4. QED
      BY <3>2, <3>3
  <2> HIDE DEF z
  <2>5. k \in Nat /\ k >= 1 /\ k < Len(v) /\ k <= Len(v)
    BY <1>1, <1>2, <1>4, <2>3, <2>4
  <2> DEFINE w == SubSeq(v, 1, k)
  <2>6. w \in Seq(Name) /\ Len(w) = k /\ \A i \in 1..k : w[i] = v[i]
    BY <1>1, <2>5, Prefixes
  <2>7. \A i \in 1..Len(r) : r[i] = q[i]
    BY <1>1, Prefixes
  <2>8. ASSUME NEW i \in 1..k PROVE z[i] = v[i]
    <3>1. CASE i <= Len(src)
      BY <1>1, <2>3, <2>4, <3>1
    <3>2. CASE i > Len(src)
      <4> DEFINE j == i - Len(src)
      <4>1. /\ j \in 1..(Len(r) - Len(dst)) /\ i = Len(src) + j
            /\ j \in 1..(Len(q) - Len(dst)) /\ Len(dst) + j \in 1..Len(r)
        BY <1>1, <1>2, <1>4, <2>3, <3>2
      <4> HIDE DEF j
      <4>2. z[i] = r[Len(dst) + j] /\ v[i] = q[Len(dst) + j]
        BY <2>3, <2>4, <4>1
      <4>3. QED
        BY <2>7, <4>1, <4>2
    <3>3. QED
      BY <1>1, <3>1, <3>2
  <2> HIDE DEF w
  <2>9. z = w
    BY <2>3, <2>6, <2>8
  <2>10. w \in Above(v)
    BY <2>5, AboveIntro DEF w
  <2>11. QED
    BY <2>2, <2>9, <2>10 DEF z
<1>5. QED
  BY <1>1, <1>3, <1>4

LEMMA MoveIsSound ==
  ASSUME NEW t, Sound(t), NEW src \in NodePath, NEW dst \in NodePath,
         \A r \in Above(src) : IsDir(t[r]),
         \A r \in Above(dst) : IsDir(Without(t, src)[r])
  PROVE  Sound(Moved(t, src, dst))
<1> DEFINE u == Moved(t, src, dst)
           from(q) == Rebase(q, dst, src)
<1>1. \A q \in NodePath : u[q] = IF StartsWith(q, dst) THEN At(t, from(q))
                                 ELSE IF StartsWith(q, src) THEN None ELSE t[q]
  BY DEF Moved
<1>2. u = [q \in NodePath |-> u[q]]
  BY DEF Moved
<1> HIDE DEF u
<1>3. None \in MemNode /\ IsNone(None) /\ ~IsFile(None)
  BY DEF MemNode, IsNone, IsFile, None
<1>4. ASSUME NEW q \in NodePath, StartsWith(q, dst)
      PROVE  /\ u[q] \in MemNode
             /\ ~IsNone(u[q]) => from(q) \in NodePath /\ u[q] = t[from(q)]
  <2>1. u[q] = At(t, from(q)) /\ At(t, from(q)) \in MemNode
    BY <1>1, <1>4, NodeType, SoundType
  <2>2. from(q) # Root
    <3>1. /\ Len(dst) <= Len(q) /\ q \in Seq(Name) /\ dst \in Seq(Name) /\ src \in Seq(Name)
          /\ Len(src) >= 1 /\ Len(src) \in Nat /\ Len(q) \in Nat /\ Len(dst) \in Nat
      BY <1>4, NodePathType DEF StartsWith
    <3>2. Len(from(q)) = Len(src) + Len(q) - Len(dst)
      BY <3>1, RebasePoints DEF Shifted
    <3>3. Len(from(q)) # 0
      BY <3>1, <3>2
    <3>4. QED
      BY <3>3, EmptyPath
  <2>3. ASSUME ~IsNone(u[q]) PROVE from(q) \in NodePath
    BY <2>1, <2>2, <2>3, NodeType, SoundType
  <2>4. QED
    BY <2>1, <2>3, SoundType
<1>5. ASSUME NEW r \in NodePath, IsDir(Without(t, src)[r])
      PROVE  IsDir(t[r]) /\ r \notin Subtree(src) /\ ~StartsWith(r, src)
  <2>1. Without(t, src)[r] = IF StartsWith(r, src) THEN None ELSE t[r]
    BY DEF Without
  <2>2. QED
    BY <1>5, <2>1, TypeNames DEF Subtree
<1> HIDE DEF from
<1>6. u \in Memory
  <2>1. \A q \in NodePath : u[q] \in MemNode
    BY <1>1, <1>3, <1>4, SoundType
  <2>2. QED
    BY <1>2, <2>1 DEF Memory
<1>7. \E b \in Nat : Numbers(u, b)
  <2>1. PICK b \in Nat : Numbers(t, b)
    BY DEF Sound
  <2>2. ASSUME NEW q \in NodePath, IsFile(u[q]) PROVE u[q].id <= b
    <3>1. CASE StartsWith(q, dst)
      <4>1. from(q) \in NodePath /\ u[q] = t[from(q)]
        BY <1>4, <2>2, <3>1, TypeNames
      <4>2. QED
        BY <2>1, <2>2, <4>1 DEF Numbers
    <3>2. CASE ~StartsWith(q, dst)
      BY <1>1, <1>3, <2>1, <2>2, <3>2 DEF Numbers
    <3>3. QED
      BY <3>1, <3>2
  <2>3. QED
    BY <2>2 DEF Numbers
<1>8. Rooted(u)
  <2>1. SUFFICES ASSUME NEW q \in NodePath, ~IsNone(u[q]), NEW r \in Above(q)
                 PROVE  IsDir(u[r])
    BY DEF Rooted
  <2>2. r \in NodePath
    BY AboveType
  <2>3. CASE StartsWith(q, dst)
    <3>1. from(q) \in NodePath /\ u[q] = t[from(q)]
      BY <1>4, <2>1, <2>3
    <3>2. r \in Above(dst) \/ (StartsWith(r, dst) /\ from(r) \in Above(from(q)))
      BY <2>3, <3>1, AboveMoved DEF from
    <3>3. CASE r \in Above(dst)
      <4>1. IsDir(t[r]) /\ ~StartsWith(r, src)
        BY <1>5, <2>2, <3>3
      <4>2. ~StartsWith(r, dst)
        <5>1. Len(r) < Len(dst) /\ Len(r) \in Nat /\ Len(dst) \in Nat
          BY <3>3, AboveType, NodePathType
        <5>2. QED
          BY <5>1 DEF StartsWith
      <4>3. QED
        BY <1>1, <2>2, <4>1, <4>2
    <3>4. CASE StartsWith(r, dst) /\ from(r) \in Above(from(q))
      <4>1. from(r) \in NodePath /\ IsDir(t[from(r)])
        BY <2>1, <3>1, <3>4, AboveType, SoundType DEF Rooted
      <4>2. u[r] = t[from(r)]
        BY <1>1, <2>2, <3>4, <4>1, SoundType
      <4>3. QED
        BY <4>1, <4>2
    <3>5. QED
      BY <3>2, <3>3, <3>4
  <2>4. CASE ~StartsWith(q, dst)
    <3>1. q \notin Subtree(dst) /\ q \notin Subtree(src) /\ u[q] = t[q]
      BY <1>1, <1>3, <2>1, <2>4 DEF Subtree
    <3>2. r \notin Subtree(dst) /\ r \notin Subtree(src)
      BY <3>1, OutsideSubtree
    <3>3. u[r] = t[r]
      BY <1>1, <2>2, <3>2 DEF Subtree
    <3>4. IsDir(t[r])
      BY <2>1, <3>1, SoundType DEF Rooted
    <3>5. QED
      BY <3>3, <3>4
  <2>5. QED
    BY <2>3, <2>4
<1>9. QED
  BY <1>6, <1>7, <1>8 DEF Sound, u

LEMMA RenameIsSound ==
  ASSUME NEW t, Sound(t), NEW src \in Seq(Name), NEW dst \in Seq(Name)
  PROVE  Sound(mem_rename(t, src, dst).tree)
<1> DEFINE gone == Without(t, src)
           u == mem_rename(t, src, dst)
           there == src # Root /\ dst # Root /\ ~TooDeepToMove(t, src, dst)
                      /\ RawParent(t, src).err = "ok" /\ ~IsNone(At(t, src))
<1>1. \/ u.tree = t
      \/ there /\ u = Fail(RawParent(gone, dst).err, gone)
      \/ there /\ RawParent(gone, dst).err = "ok" /\ u = Ok(Moved(t, src, dst))
  BY DEF mem_rename, Fail
<1> HIDE DEF u, gone
<1>2. ASSUME there
      PROVE  src \in NodePath /\ dst \in NodePath /\ \A r \in Above(src) : IsDir(t[r])
  <2>1. src \in NodePath /\ ~IsNone(t[src])
    BY <1>2, NodeType, SoundType
  <2>2. \A r \in Above(src) : IsDir(t[r])
    BY <1>2, RawParentIs
  <2>3. src \in Subtree(src)
    BY <2>1, SubtreeIsSelfAndBelow
  <2>4. Rebase(src, src, dst) \in NodePath
    BY <1>2, <2>1, <2>3 DEF TooDeepToMove
  <2>5. Rebase(src, src, dst) = dst
    <3>1. SubSeq(src, Len(src) + 1, Len(src)) = <<>>
      OBVIOUS
    <3>2. dst \o <<>> = dst
      BY EmptyPath, Concat
    <3>3. QED
      BY <3>1, <3>2 DEF Rebase
  <2>6. QED
    BY <2>1, <2>2, <2>4, <2>5
<1>3. CASE there /\ u = Fail(RawParent(gone, dst).err, gone)
  <2>1. u.tree = gone
    BY <1>3 DEF Fail
  <2>2. Sound(gone)
    BY <1>2, <1>3, CutIsSound DEF gone
  <2>3. QED
    BY <2>1, <2>2 DEF u
<1>4. CASE there /\ RawParent(gone, dst).err = "ok" /\ u = Ok(Moved(t, src, dst))
  <2>1. \A r \in Above(dst) : IsDir(gone[r])
    BY <1>4, RawParentIs
  <2>2. Sound(Moved(t, src, dst))
    BY <1>2, <1>4, <2>1, MoveIsSound DEF gone
  <2>3. u.tree = Moved(t, src, dst)
    BY <1>4 DEF Ok
  <2>4. QED
    BY <2>2, <2>3 DEF u
<1>5. QED
  BY <1>1, <1>3, <1>4 DEF u

(***************************************************************************)
(* The steps of the methods.                                               *)
(***************************************************************************)
\* What a lookup finds is a node.
LEMMA LookupType ==
  ASSUME NEW t \in Memory, NEW p \in Seq(Name), NEW follow,
         NEW n, n = NodeOf(t, navigate(t, p, follow))
  PROVE  /\ n \in MemNode /\ (IsSymlink(n) => n.target \in Link /\ ~follow)
         /\ follow /\ ~IsNone(n) => n.mode \in Mode
<1> DEFINE r == navigate(t, p, follow)
<1>1. Finds(t, follow, r)
  BY NavigateFinds
<1> HIDE DEF r
<1>2. None \in MemNode /\ IsNone(None) /\ ~IsSymlink(None)
  BY TypeNames DEF MemNode, IsSymlink, None
<1>3. n = IF r.err = "ok" THEN At(t, r.path) ELSE None
  BY DEF NodeOf, r
<1>4. n \in MemNode /\ (IsSymlink(n) => n.target \in Link)
  BY <1>2, <1>3, NodeType
<1>5. IsSymlink(n) => ~follow
  BY <1>1, <1>2, <1>3 DEF Finds
<1>6. follow /\ ~IsNone(n) => n.mode \in Mode
  BY <1>4, <1>5, MemoryNode
<1>7. QED
  BY <1>4, <1>5, <1>6

\* A link's text, put behind its parent if it is relative.
LEMMA LinkPlaceType ==
  ASSUME NEW p \in Seq(Name), NEW l \in Link
  PROVE  LinkPlace(p, l) \in Seq(Name)
<1>1. l.to \in Seq(Name)
  BY NodeAssumption
<1>2. Parent(p) \in Seq(Name)
  <2>1. CASE p = <<>>
    <3>1. Len(p) - 1 < 1
      BY <2>1
    <3>2. Parent(p) = <<>>
      BY <2>1, <3>1 DEF Parent
    <3>3. QED
      BY <3>2, EmptyPath
  <2>2. CASE p # <<>>
    BY <2>2, PrefixStep DEF Parent
  <2>3. QED
    BY <2>1, <2>2
<1>3. Parent(p) \o l.to \in Seq(Name)
  BY <1>1, <1>2
<1>4. QED
  BY <1>1, <1>3 DEF LinkPlace

\* The place that dangling links lead to, or a loop.
LEMMA DanglingType ==
  ASSUME NEW t \in Memory, NEW p \in Seq(Name)
  PROVE  resolve_through_dangling(t, p) \in Answers
<1> DEFINE X == Seq(Name) \X (0..MaxHops)
           on(w) == IsSymlink(mem_lstat(t, w[1])) /\ ~mem_exists(t, w[1])
           to(w) == <<LinkPlace(w[1], mem_lstat(t, w[1]).target), w[2] - 1>>
           stop(w) == w[2] = 0 \/ ~on(w)
           end(w) == IF w[2] = 0 THEN Stuck("SymlinkLoop") ELSE At_(w[1])
           done == {w \in X : stop(w)}
           nxt == [w \in X |-> IF stop(w) THEN w ELSE to(w)]
           val == [w \in X |-> end(w)]
           P(W) == W = [w \in X |-> IF w[2] = 0 THEN Stuck("SymlinkLoop")
                                    ELSE IF on(w) THEN W[to(w)] ELSE At_(w[1])]
           W == CHOOSE f : P(f)
<1>1. ASSUME NEW w \in X PROVE w[1] \in Seq(Name) /\ w[2] \in 0..MaxHops
  OBVIOUS
<1>2. ASSUME NEW w \in X, ~stop(w) PROVE to(w) \in X
  <2>1. w[1] \in Seq(Name) /\ w[2] \in 0..MaxHops /\ w[2] # 0
    BY <1>1, <1>2
  <2>2. mem_lstat(t, w[1]).target \in Link
    BY <1>2, <2>1, LookupType DEF mem_lstat
  <2>3. LinkPlace(w[1], mem_lstat(t, w[1]).target) \in Seq(Name)
    BY <2>1, <2>2, LinkPlaceType
  <2>4. w[2] - 1 \in 0..MaxHops
    BY <2>1, HopAssumption
  <2>5. QED
    BY <2>3, <2>4
<1>3. ASSUME NEW w \in X PROVE end(w) \in Answers
  <2>1. w[1] \in Seq(Name)
    BY <1>1
  <2>2. QED
    BY <2>1, EmptyPath DEF Answers, Kinds, Stuck, At_
<1>4. nxt \in [X -> X] /\ val \in [X -> Answers] /\ done \in SUBSET X
  <2> HIDE DEF X, stop, to, end
  <2> QED BY <1>2, <1>3
<1>5. PICK f : TailRecurs(f, X, Answers, done, nxt, val)
  <2> HIDE DEF X, done, nxt, val
  <2> QED BY <1>4, TailRecursionExists
<1>6. P(f)
  <2>1. \A w \in X : f[w] = IF stop(w) THEN end(w) ELSE f[to(w)]
    <3> HIDE DEF X, stop, end, to
    <3> QED BY <1>5 DEF TailRecurs
  <2>2. ASSUME NEW w \in X
        PROVE  f[w] = IF w[2] = 0 THEN Stuck("SymlinkLoop")
                      ELSE IF on(w) THEN f[to(w)] ELSE At_(w[1])
    <3> HIDE DEF X, on, to
    <3> QED BY <2>1
  <2>3. f = [w \in X |-> f[w]]
    <3> HIDE DEF X, done, nxt, val
    <3> QED BY <1>5 DEF TailRecurs
  <2> HIDE DEF X, on, to
  <2>4. QED
    BY <2>2, <2>3
<1>7. P(W)
  <2> HIDE DEF P
  <2> QED BY <1>6
<1>8. resolve_through_dangling(t, p) = W[<<p, MaxHops>>]
  BY DEF resolve_through_dangling
<1> DEFINE B == {w \in X : W[w] \notin Answers}
<1>9. B = {}
  <2>1. SUFFICES ASSUME B # {} PROVE FALSE
    OBVIOUS
  <2> DEFINE S == {w[2] : w \in B}
  <2>2. S \subseteq Nat /\ S # {}
    <3>1. \A w \in B : w \in X
      OBVIOUS
    <3> HIDE DEF B, X
    <3>2. \A w \in B : w[2] \in Nat
      BY <1>1, <3>1, HopAssumption
    <3>3. QED
      BY <2>1, <3>2
  <2>3. PICK k \in S : \A j \in S : k <= j
    <3> HIDE DEF S
    <3> QED BY <2>2, LeastNatural
  <2>4. PICK w \in B : w[2] = k
    OBVIOUS
  <2>5. w \in X /\ W[w] \notin Answers /\ w[2] \in 0..MaxHops /\ k \in Nat
    BY <2>2, <2>4
  <2>6. W[w] = IF stop(w) THEN end(w) ELSE W[to(w)]
    <3>1. W[w] = IF w[2] = 0 THEN Stuck("SymlinkLoop")
                 ELSE IF on(w) THEN W[to(w)] ELSE At_(w[1])
      <4> HIDE DEF W, on, to, X
      <4> QED BY <1>7, <2>5
    <3> HIDE DEF W, on, to, X
    <3>2. QED
      BY <3>1
  <2>7. ~stop(w) /\ W[to(w)] \notin Answers
    <3> HIDE DEF W, stop, end, to, X, B
    <3> QED BY <1>3, <2>5, <2>6
  <2>8. to(w) \in X
    BY <1>2, <2>5, <2>7
  <2>9. to(w) \in B
    <3> HIDE DEF W, to, X
    <3> QED BY <2>7, <2>8
  <2>10. to(w)[2] = k - 1
    BY <2>4
  <2>11. k - 1 \in S
    <3> HIDE DEF to, B
    <3> QED BY <2>9, <2>10
  <2>12. QED
    <3> HIDE DEF S
    <3> QED BY <2>3, <2>5, <2>11
<1>10. <<p, MaxHops>> \in X
  BY HopAssumption
<1>11. QED
  <2> HIDE DEF W, X
  <2> QED BY <1>8, <1>9, <1>10

\* What a step does keeps its backend a tree and leaves steps to be done.
Good(e, mounts) == Sound(e.tree) /\ e.next \in Seq(Steps(mounts))

LEMMA LeftIs ==
  ASSUME NEW r, Sound(r.tree), NEW mounts, NEW next \in Seq(Steps(mounts))
  PROVE  Good(Left(r, next), mounts)
BY DEF Good, Left

LEMMA NoSteps ==
  ASSUME NEW mounts
  PROVE  <<>> \in Seq(Steps(mounts))
OBVIOUS

LEMMA OneStep ==
  ASSUME NEW mounts, NEW s \in Steps(mounts)
  PROVE  <<s>> \in Seq(Steps(mounts))
OBVIOUS

LEMMA Unchanged ==
  ASSUME NEW t, Sound(t), NEW mounts, NEW next \in Seq(Steps(mounts)), NEW e
  PROVE  Good(Left(Ok(t), next), mounts) /\ Good(Left(Fail(e, t), next), mounts)
BY DEF Good, Left, Ok, Fail

\* The kinds of steps, put together.
LEMMA StepIntro ==
  ASSUME NEW mounts, NEW s, NEW m \in mounts \cup {Nobody}, NEW p \in Seq(Name)
  PROVE  /\ \A do \in {"mkdir_p", "utimes", "no dir", "refuse"} :
              s = [do |-> do, m |-> m, p |-> p] => s \in Steps(mounts)
         /\ \A do \in {"write", "append", "extend", "over", "number"}, c \in SUBSET Chunk :
              s = [do |-> do, m |-> m, p |-> p, c |-> c] => s \in Steps(mounts)
         /\ \A c \in SUBSET Chunk, i \in Nat :
              s = [do |-> "insert", m |-> m, p |-> p, c |-> c, id |-> i]
                => s \in Steps(mounts)
         /\ \A n \in MemNode \ {None} :
              s = [do |-> "new", m |-> m, p |-> p, node |-> n] => s \in Steps(mounts)
         /\ \A types \in SUBSET {"File", "Symlink", "Dir"}, full \in BOOLEAN :
              s = [do |-> "remove", m |-> m, p |-> p, types |-> types, full |-> full]
                => s \in Steps(mounts)
         /\ \A mode \in Mode :
              s = [do |-> "chmod", m |-> m, p |-> p, mode |-> mode] => s \in Steps(mounts)
         /\ m = Nobody => \A do \in {"read", "write"} :
              s = [do |-> do, m |-> m, p |-> p] => s \in Steps(mounts)
<1>1. ASSUME NEW do \in {"mkdir_p", "utimes", "no dir", "refuse"},
             s = [do |-> do, m |-> m, p |-> p]
      PROVE  s \in Steps(mounts)
  <2>1. s \in PlainStep(mounts)
    BY <1>1 DEF PlainStep
  <2>2. QED
    BY <2>1 DEF Steps
<1>2. ASSUME NEW do \in {"write", "append", "extend", "over", "number"},
             NEW c \in SUBSET Chunk, s = [do |-> do, m |-> m, p |-> p, c |-> c]
      PROVE  s \in Steps(mounts)
  <2>1. s \in WriteStep(mounts)
    BY <1>2 DEF WriteStep
  <2>2. QED
    BY <2>1 DEF Steps
<1>3. ASSUME NEW c \in SUBSET Chunk, NEW i \in Nat,
             s = [do |-> "insert", m |-> m, p |-> p, c |-> c, id |-> i]
      PROVE  s \in Steps(mounts)
  <2>1. s \in InsertStep(mounts)
    BY <1>3 DEF InsertStep
  <2>2. QED
    BY <2>1 DEF Steps
<1>4. ASSUME NEW n \in MemNode \ {None}, s = [do |-> "new", m |-> m, p |-> p, node |-> n]
      PROVE  s \in Steps(mounts)
  <2>1. s \in NewStep(mounts)
    BY <1>4 DEF NewStep
  <2>2. QED
    BY <2>1 DEF Steps
<1>5. ASSUME NEW types \in SUBSET {"File", "Symlink", "Dir"}, NEW full \in BOOLEAN,
             s = [do |-> "remove", m |-> m, p |-> p, types |-> types, full |-> full]
      PROVE  s \in Steps(mounts)
  <2>1. s \in RemoveStep(mounts)
    BY <1>5 DEF RemoveStep
  <2>2. QED
    BY <2>1 DEF Steps
<1>6. ASSUME NEW mode \in Mode, s = [do |-> "chmod", m |-> m, p |-> p, mode |-> mode]
      PROVE  s \in Steps(mounts)
  <2>1. s \in ChmodStep(mounts)
    BY <1>6 DEF ChmodStep
  <2>2. QED
    BY <2>1 DEF Steps
<1>7. ASSUME m = Nobody, NEW do \in {"read", "write"}, s = [do |-> do, m |-> m, p |-> p]
      PROVE  s \in Steps(mounts)
  <2>1. s \in LostStep
    BY <1>7 DEF LostStep
  <2>2. QED
    BY <2>1 DEF Steps
<1>8. QED
  BY <1>1, <1>2, <1>3, <1>4, <1>5, <1>6, <1>7

\* Those of the calls with two paths.
LEMMA PairIntro ==
  ASSUME NEW mounts, NEW s, NEW m \in mounts, NEW p \in Seq(Name), NEW q \in Seq(Name)
  PROVE  /\ s = [do |-> "rename", m |-> m, p |-> p, dst |-> q] => s \in Steps(mounts)
         /\ \A i \in Into(mounts) :
              s = [do |-> "read", m |-> m, p |-> p, into |-> i] => s \in Steps(mounts)
         /\ \A c \in SUBSET Chunk, do \in {"mode", "meta"} :
              s = [do |-> do, m |-> m, p |-> p, dst |-> q, c |-> c]
                => s \in Steps(mounts)
         /\ s = [do |-> "write", m |-> m, p |-> p] => s \in Into(mounts)
         /\ \A do \in {"mode", "meta"} :
              s = [do |-> do, m |-> m, p |-> p, dst |-> q] => s \in Into(mounts)
<1>1. ASSUME s = [do |-> "rename", m |-> m, p |-> p, dst |-> q]
      PROVE  s \in Steps(mounts)
  <2>1. s \in PairStep(mounts)
    BY <1>1 DEF PairStep
  <2>2. QED
    BY <2>1 DEF Steps
<1>2. ASSUME NEW i \in Into(mounts), s = [do |-> "read", m |-> m, p |-> p, into |-> i]
      PROVE  s \in Steps(mounts)
  <2>1. s \in ReadStep(mounts)
    BY <1>2 DEF ReadStep
  <2>2. QED
    BY <2>1 DEF Steps
<1>3. ASSUME NEW c \in SUBSET Chunk, NEW do \in {"mode", "meta"},
             s = [do |-> do, m |-> m, p |-> p, dst |-> q, c |-> c]
      PROVE  s \in Steps(mounts)
  <2>1. s \in CopyStep(mounts)
    BY <1>3 DEF CopyStep
  <2>2. QED
    BY <2>1 DEF Steps
<1>4. s = [do |-> "write", m |-> m, p |-> p] => s \in Into(mounts)
  BY DEF Into
<1>5. ASSUME NEW do \in {"mode", "meta"}, s = [do |-> do, m |-> m, p |-> p, dst |-> q]
      PROVE  s \in Into(mounts)
  BY <1>5 DEF Into
<1>6. QED
  BY <1>1, <1>2, <1>3, <1>4, <1>5

\* A step with its parts, and one more.
LEMMA AlsoIs ==
  ASSUME NEW do, NEW m, NEW p, NEW v, NEW s
  PROVE  /\ s = [do |-> do, m |-> m, p |-> p] =>
              /\ Also(s, "c", v) = [do |-> do, m |-> m, p |-> p, c |-> v]
              /\ Also(s, "node", v) = [do |-> do, m |-> m, p |-> p, node |-> v]
              /\ Also(s, "mode", v) = [do |-> do, m |-> m, p |-> p, mode |-> v]
              /\ Also(s, "dst", v) = [do |-> do, m |-> m, p |-> p, dst |-> v]
              /\ Also(s, "into", v) = [do |-> do, m |-> m, p |-> p, into |-> v]
              /\ Also(s, "types", v) = [do |-> do, m |-> m, p |-> p, types |-> v]
         /\ \A x : s = [do |-> do, m |-> m, p |-> p, types |-> x] =>
              Also(s, "full", v) = [do |-> do, m |-> m, p |-> p, types |-> x, full |-> v]
         /\ \A x : s = [do |-> do, m |-> m, p |-> p, c |-> x] =>
              Also(s, "id", v) = [do |-> do, m |-> m, p |-> p, c |-> x, id |-> v]
         /\ \A x : s = [do |-> do, m |-> m, p |-> p, dst |-> x] =>
              Also(s, "c", v) = [do |-> do, m |-> m, p |-> p, dst |-> x, c |-> v]
<1>1. ASSUME s = [do |-> do, m |-> m, p |-> p]
      PROVE  /\ Also(s, "c", v) = [do |-> do, m |-> m, p |-> p, c |-> v]
             /\ Also(s, "node", v) = [do |-> do, m |-> m, p |-> p, node |-> v]
             /\ Also(s, "mode", v) = [do |-> do, m |-> m, p |-> p, mode |-> v]
             /\ Also(s, "dst", v) = [do |-> do, m |-> m, p |-> p, dst |-> v]
             /\ Also(s, "into", v) = [do |-> do, m |-> m, p |-> p, into |-> v]
             /\ Also(s, "types", v) = [do |-> do, m |-> m, p |-> p, types |-> v]
  BY <1>1 DEF Also
<1>2. ASSUME NEW x, s = [do |-> do, m |-> m, p |-> p, types |-> x]
      PROVE  Also(s, "full", v) = [do |-> do, m |-> m, p |-> p, types |-> x, full |-> v]
  BY <1>2 DEF Also
<1>3. ASSUME NEW x, s = [do |-> do, m |-> m, p |-> p, c |-> x]
      PROVE  Also(s, "id", v) = [do |-> do, m |-> m, p |-> p, c |-> x, id |-> v]
  BY <1>3 DEF Also
<1>4. ASSUME NEW x, s = [do |-> do, m |-> m, p |-> p, dst |-> x]
      PROVE  Also(s, "c", v) = [do |-> do, m |-> m, p |-> p, dst |-> x, c |-> v]
  BY <1>4 DEF Also
<1>5. QED
  BY <1>1, <1>2, <1>3, <1>4

LEMMA OnwardIs ==
  ASSUME NEW t, Sound(t), NEW mounts, NEW s \in Steps(mounts)
  PROVE  Good(Onward(t, s), mounts)
<1>1. <<s>> \in Seq(Steps(mounts))
  BY OneStep
<1>2. Onward(t, s) = Left(Ok(t), <<s>>)
  BY DEF Onward
<1>3. QED
  BY <1>1, <1>2, Unchanged

\* The steps that write a file, each with what it leaves.
LEMMA WriteStepIsGood ==
  ASSUME NEW t, Sound(t), NEW mounts, NEW s \in WriteStep(mounts)
  PROVE  Good(Effect(t, s), mounts)
<1> DEFINE m == s.m
           p == s.p
           c == s.c
<1>1. /\ s = [do |-> s.do, m |-> m, p |-> p, c |-> c] /\ m \in mounts \cup {Nobody}
      /\ p \in Seq(Name) /\ c \in SUBSET Chunk
      /\ s.do \in {"write", "append", "extend", "over", "number"}
  BY DEF WriteStep
<1>2. ASSUME NEW do \in {"write", "append", "extend", "over", "number"}, NEW q \in Seq(Name),
             NEW z, z = [do |-> do, m |-> m, p |-> q, c |-> c]
      PROVE  z \in Steps(mounts)
  <2> HIDE DEF m, c
  <2> QED BY <1>1, <1>2, StepIntro
<1>3. t \in Memory
  BY SoundType
<1>4. CASE s.do = "write"
  <2> DEFINE r == resolve_through_dangling(t, p)
             z == [s EXCEPT !.do = "over", !.p = r.path]
  <2>1. Effect(t, s) = Resolved(t, s, r)
    BY <1>4 DEF Effect
  <2>2. r \in Answers
    BY <1>1, <1>3, DanglingType
  <2>3. r.path \in Seq(Name)
    BY <2>2 DEF Answers
  <2>4. z = [do |-> "over", m |-> m, p |-> r.path, c |-> c]
    <3> DEFINE q == r.path
               d == s.do
               a == [s EXCEPT !.do = "over"]
    <3>1. a = [do |-> "over", m |-> m, p |-> p, c |-> c]
      BY <1>1
    <3>2. z = [a EXCEPT !.p = q]
      OBVIOUS
    <3> HIDE DEF a, m, p, c, q, z
    <3>3. z = [do |-> "over", m |-> m, p |-> q, c |-> c]
      BY <3>1, <3>2
    <3>4. QED
      BY <3>3 DEF q
  <2> HIDE DEF r
  <2>5. z \in Steps(mounts)
    BY <1>2, <2>3, <2>4
  <2> HIDE DEF z
  <2>6. CASE r.err = "ok"
    <3>1. Resolved(t, s, r) = Onward(t, z)
      BY <2>6 DEF Resolved, z
    <3>2. QED
      BY <2>1, <2>5, <3>1, OnwardIs
  <2>7. CASE r.err # "ok"
    <3>1. Resolved(t, s, r) = Left(Fail(r.err, t), <<>>)
      BY <2>7 DEF Resolved
    <3>2. QED
      BY <2>1, <3>1, Unchanged, NoSteps
  <2>8. QED
    BY <2>6, <2>7
<1>5. CASE s.do = "over"
  <2> DEFINE r == OverwriteNode(t, p, c)
             z == [s EXCEPT !.do = "number"]
  <2>1. Effect(t, s) = Looked(t, s, r)
    BY <1>5 DEF Effect
  <2>2. Sound(r.tree)
    BY <1>1, OverwriteIsSound
  <2> HIDE DEF r
  <2>3. z = [do |-> "number", m |-> m, p |-> p, c |-> c]
    BY <1>1
  <2>4. z \in Steps(mounts)
    BY <1>1, <1>2, <2>3
  <2> HIDE DEF z
  <2>5. CASE r.err = "NotThere"
    <3>1. Looked(t, s, r) = Onward(t, z)
      BY <2>5 DEF Looked, z
    <3>2. QED
      BY <2>1, <2>4, <3>1, OnwardIs
  <2>6. CASE r.err # "NotThere"
    <3>1. Looked(t, s, r) = Left(r, <<>>)
      BY <2>6 DEF Looked
    <3>2. QED
      BY <2>1, <2>2, <3>1, LeftIs, NoSteps
  <2>7. QED
    BY <2>5, <2>6
<1>6. CASE s.do = "number"
  <2> DEFINE i == next_file_id(t)
             y == [s EXCEPT !.do = "insert"]
             z == Also(y, "id", i)
  <2>1. Effect(t, s) = Onward(t, z)
    BY <1>6 DEF Effect, Numbered
  <2>2. i \in Nat
    BY NextNumber
  <2> HIDE DEF i
  <2>3. y = [do |-> "insert", m |-> m, p |-> p, c |-> c]
    BY <1>1
  <2> HIDE DEF y, m, p, c
  <2>4. z = [do |-> "insert", m |-> m, p |-> p, c |-> c, id |-> i]
    BY <2>3, AlsoIs
  <2> HIDE DEF z
  <2>5. z \in Steps(mounts)
    BY <1>1, <2>2, <2>4, StepIntro
  <2>6. QED
    BY <2>1, <2>5, OnwardIs
<1>7. CASE s.do = "append"
  <2> DEFINE z == [s EXCEPT !.do = AppendBy(t, s)]
  <2>1. Effect(t, s) = Onward(t, z)
    BY <1>7 DEF Effect
  <2>2. AppendBy(t, s) \in {"extend", "write"}
    BY DEF AppendBy
  <2>3. z = [do |-> AppendBy(t, s), m |-> m, p |-> p, c |-> c]
    BY <1>1
  <2>4. z \in Steps(mounts)
    BY <1>1, <1>2, <2>2, <2>3
  <2> HIDE DEF z
  <2>5. QED
    BY <2>1, <2>4, OnwardIs
<1>8. CASE s.do = "extend"
  <2>1. Effect(t, s) = Left(AppendNode(t, p, c), <<>>)
    BY <1>8 DEF Effect, Single
  <2>2. Sound(AppendNode(t, p, c).tree)
    BY <1>1, AppendIsSound
  <2>3. QED
    BY <2>1, <2>2, LeftIs, NoSteps
<1>9. QED
  BY <1>1, <1>4, <1>5, <1>6, <1>7, <1>8

\* The steps that read the source of a copy.
LEMMA ReadStepIsGood ==
  ASSUME NEW t, Sound(t), NEW mounts, NEW s \in ReadStep(mounts)
  PROVE  Good(Effect(t, s), mounts)
<1> DEFINE n == mem_read(t, s.p)
           i == s.into
           z == Also(i, "c", n.content)
<1>1. s.p \in Seq(Name) /\ i \in Into(mounts) /\ s.do = "read"
  BY DEF ReadStep
<1>2. Effect(t, s) = Read(t, s, n)
  BY <1>1 DEF Effect
<1>3. n = None \/ (IsFile(n) /\ n \in MemNode \ {None})
  BY <1>1, ReadIsFile
<1> HIDE DEF n, i
<1>4. CASE IsNone(n)
  <2>1. Read(t, s, n) = Left(Fail("NotFound", t), <<>>)
    BY <1>4 DEF Read, OnlyIf
  <2>2. QED
    BY <1>2, <2>1, Unchanged, NoSteps
<1>5. CASE ~IsNone(n)
  <2>1. n.content \in SUBSET Chunk
    BY <1>3, <1>5, MemoryNode, TypeNames
  <2>2. Read(t, s, n) = Left(Ok(t), <<z>>)
    BY <1>5 DEF Read, OnlyIf, i
  <2>3. \/ \E m \in mounts, p \in Seq(Name) : i = [do |-> "write", m |-> m, p |-> p]
        \/ \E m \in mounts, p, q \in Seq(Name), do \in {"mode", "meta"} :
             i = [do |-> do, m |-> m, p |-> p, dst |-> q]
    <3>1. CASE i \in [do : {"write"}, m : mounts, p : Seq(Name)]
      <4>1. i = [do |-> "write", m |-> i.m, p |-> i.p] /\ i.m \in mounts /\ i.p \in Seq(Name)
        BY <3>1
      <4>2. QED
        BY <4>1
    <3>2. CASE i \in [do : {"mode", "meta"}, m : mounts, p : Seq(Name), dst : Seq(Name)]
      <4>1. /\ i = [do |-> i.do, m |-> i.m, p |-> i.p, dst |-> i.dst] /\ i.m \in mounts
            /\ i.do \in {"mode", "meta"} /\ i.p \in Seq(Name) /\ i.dst \in Seq(Name)
        BY <3>2
      <4>2. QED
        BY <4>1
    <3>3. QED
      BY <1>1, <3>1, <3>2 DEF Into
  <2>4. z \in Steps(mounts)
    <3>1. CASE \E m \in mounts, p \in Seq(Name) : i = [do |-> "write", m |-> m, p |-> p]
      <4>1. PICK m \in mounts, p \in Seq(Name) : i = [do |-> "write", m |-> m, p |-> p]
        BY <3>1
      <4>2. z = [do |-> "write", m |-> m, p |-> p, c |-> n.content]
        BY <4>1, AlsoIs
      <4> HIDE DEF z
      <4>3. QED
        BY <2>1, <4>2, StepIntro
    <3>2. CASE \E m \in mounts, p, q \in Seq(Name), do \in {"mode", "meta"} :
                 i = [do |-> do, m |-> m, p |-> p, dst |-> q]
      <4>1. PICK m \in mounts, p, q \in Seq(Name), do \in {"mode", "meta"} :
                   i = [do |-> do, m |-> m, p |-> p, dst |-> q]
        BY <3>2
      <4>2. z = [do |-> do, m |-> m, p |-> p, dst |-> q, c |-> n.content]
        BY <4>1, AlsoIs
      <4> HIDE DEF z
      <4>3. QED
        BY <2>1, <4>2, PairIntro
    <3>3. QED
      BY <2>3, <3>1, <3>2
  <2> HIDE DEF z
  <2>5. QED
    BY <1>2, <2>2, <2>4, OneStep, Unchanged
<1>6. QED
  BY <1>4, <1>5

LEMMA CopyStepIsGood ==
  ASSUME NEW t, Sound(t), NEW mounts, NEW s \in CopyStep(mounts), s.do = "mode"
  PROVE  Good(Effect(t, s), mounts)
<1> DEFINE n == mem_stat(t, s.p)
           y == [do |-> "write", m |-> s.m, p |-> s.dst, c |-> s.c]
           z == [do |-> "chmod", m |-> s.m, p |-> s.dst, mode |-> n.mode]
<1>1. /\ s.p \in Seq(Name) /\ s.m \in mounts /\ s.dst \in Seq(Name) /\ s.c \in SUBSET Chunk
  BY DEF CopyStep
<1>2. Effect(t, s) = ReadMode(t, s, n)
  BY DEF Effect
<1>3. ~IsNone(n) => n.mode \in Mode
  BY <1>1, LookupType, SoundType DEF mem_stat
<1>4. ReadMode(t, s, n) = IF IsNone(n) THEN Left(Fail("NotFound", t), <<>>)
                          ELSE Left(Ok(t), <<y, z>>)
  BY DEF ReadMode, OnlyIf
<1> HIDE DEF n
<1>5. CASE IsNone(n)
  BY <1>2, <1>4, <1>5, Unchanged, NoSteps
<1>6. CASE ~IsNone(n)
  <2>1. y \in Steps(mounts)
    BY <1>1, StepIntro
  <2>2. z \in Steps(mounts)
    BY <1>1, <1>3, <1>6, StepIntro
  <2> HIDE DEF y, z
  <2>3. <<y, z>> \in Seq(Steps(mounts))
    BY <2>1, <2>2
  <2>4. QED
    BY <1>2, <1>4, <1>6, <2>3, Unchanged
<1>7. QED
  BY <1>5, <1>6

\* hardlink's node is one: a mode and a number, whatever they are of.
LEMMA LinkedNode ==
  ASSUME NEW t, Sound(t), NEW p \in Seq(Name), NEW c \in SUBSET Chunk,
         NEW n, n = mem_stat(t, p), ~IsNone(n)
  PROVE  MemFile(c, n.mode, file_id(n)) \in MemNode \ {None}
<1>1. n.mode \in Mode
  BY LookupType, SoundType DEF mem_stat
<1>2. n \in MemNode
  BY LookupType, SoundType DEF mem_stat
<1>3. file_id(n) \in Nat
  BY <1>2, MemoryNode, TypeNames DEF file_id
<1> DEFINE mode == n.mode
           id == file_id(n)
           f == MemFile(c, mode, id)
<1> HIDE DEF mode, id
<1>4. f \in [type : {"File"}, content : SUBSET Chunk, mode : Mode, id : Nat]
  BY <1>1, <1>3 DEF MemFile, mode, id
<1>5. ~IsNone(f)
  BY DEF MemFile, IsNone, None
<1>6. f \in MemNode
  BY <1>4 DEF MemNode
<1> HIDE DEF f
<1>7. f \in MemNode \ {None}
  BY <1>5, <1>6, TypeNames
<1>8. QED
  BY <1>7 DEF f, mode, id

LEMMA LinkStepIsGood ==
  ASSUME NEW t, Sound(t), NEW mounts, NEW s \in CopyStep(mounts), s.do = "meta"
  PROVE  Good(Effect(t, s), mounts)
<1> DEFINE n == mem_stat(t, s.p)
           f == MemFile(s.c, n.mode, file_id(n))
           y == [do |-> "new", m |-> s.m, p |-> s.dst, node |-> f]
<1>1. /\ s.p \in Seq(Name) /\ s.m \in mounts /\ s.dst \in Seq(Name) /\ s.c \in SUBSET Chunk
  BY DEF CopyStep
<1>2. Effect(t, s) = ReadMeta(t, s, n)
  BY DEF Effect
<1>3. ~IsNone(n) => f \in MemNode \ {None}
  BY <1>1, LinkedNode
<1>4. ReadMeta(t, s, n) = IF IsNone(n) THEN Left(Fail("NotFound", t), <<>>)
                          ELSE Left(Ok(t), <<y>>)
  BY DEF ReadMeta, OnlyIf
<1> HIDE DEF n, f
<1>5. CASE IsNone(n)
  BY <1>2, <1>4, <1>5, Unchanged, NoSteps
<1>6. CASE ~IsNone(n)
  <2>1. y \in Steps(mounts)
    BY <1>1, <1>3, <1>6, StepIntro
  <2> HIDE DEF y
  <2>2. QED
    BY <1>2, <1>4, <1>6, <2>1, OneStep, Unchanged
<1>7. QED
  BY <1>5, <1>6

\* The methods of one critical section, and thereby all of them.
LEMMA EffectIsGood ==
  ASSUME NEW t, Sound(t), NEW mounts, mounts \subseteq Path, NEW s \in Steps(mounts),
         s.m \in mounts
  PROVE  Good(Effect(t, s), mounts)
<1>1. ASSUME Sound(Single(t, s).tree), Effect(t, s) = Left(Single(t, s), <<>>)
      PROVE  Good(Effect(t, s), mounts)
  BY <1>1, LeftIs, NoSteps
<1>2. s.m # Nobody
  BY NobodyAssumption
<1>3. CASE s \in PlainStep(mounts)
  <2>1. s.p \in Seq(Name) /\ s.do \in {"mkdir_p", "utimes", "no dir", "refuse"}
    BY <1>3 DEF PlainStep
  <2>2. Effect(t, s) = Left(Single(t, s), <<>>)
    BY <2>1 DEF Effect
  <2>3. CASE s.do = "mkdir_p"
    <3>1. Single(t, s) = mem_mkdir_p(t, s.p)
      BY <2>3 DEF Single
    <3>2. QED
      BY <1>1, <2>1, <2>2, <3>1, MkdirIsSound
  <2>4. CASE s.do = "utimes"
    <3>1. Single(t, s) = mem_utimes(t, s.p)
      BY <2>4 DEF Single
    <3>2. QED
      BY <1>1, <2>1, <2>2, <3>1, UtimesIsSound
  <2>5. CASE s.do \in {"no dir", "refuse"}
    <3>1. Single(t, s) = Fail("IoError", t) \/ Single(t, s) = Ok(t)
      BY <2>5 DEF Single
    <3>2. Single(t, s).tree = t
      BY <3>1 DEF Ok, Fail
    <3>3. QED
      BY <1>1, <2>2, <3>2
  <2>6. QED
    BY <2>1, <2>3, <2>4, <2>5
<1>4. CASE s \in InsertStep(mounts)
  <2>1. s.do = "insert" /\ s.p \in Seq(Name) /\ s.c \in SUBSET Chunk /\ s.id \in Nat
    BY <1>4 DEF InsertStep
  <2>2. Effect(t, s) = Left(Single(t, s), <<>>) /\ Single(t, s) = InsertNode(t, s.p, s.c, s.id)
    BY <2>1 DEF Effect, Single
  <2>3. QED
    BY <1>1, <2>1, <2>2, InsertNodeIsSound
<1>5. CASE s \in NewStep(mounts)
  <2>1. s.do = "new" /\ s.p \in Seq(Name) /\ s.node \in MemNode \ {None}
    BY <1>5 DEF NewStep
  <2>2. Effect(t, s) = Left(Single(t, s), <<>>) /\ Single(t, s) = InsertNew(t, s.p, s.node)
    BY <2>1 DEF Effect, Single
  <2>3. QED
    BY <1>1, <2>1, <2>2, InsertNewIsSound
<1>6. CASE s \in RemoveStep(mounts)
  <2>1. s.do = "remove" /\ s.p \in Seq(Name)
    BY <1>6 DEF RemoveStep
  <2>2. /\ Effect(t, s) = Left(Single(t, s), <<>>)
        /\ Single(t, s) = RemoveEntry(t, s.p, s.types, s.full)
    BY <2>1 DEF Effect, Single
  <2>3. QED
    BY <1>1, <2>1, <2>2, RemoveIsSound
<1>7. CASE s \in ChmodStep(mounts)
  <2>1. s.do = "chmod" /\ s.p \in Seq(Name) /\ s.mode \in Mode
    BY <1>7 DEF ChmodStep
  <2>2. Effect(t, s) = Left(Single(t, s), <<>>) /\ Single(t, s) = mem_chmod(t, s.p, s.mode)
    BY <2>1 DEF Effect, Single
  <2>3. QED
    BY <1>1, <2>1, <2>2, ChmodIsSound
<1>8. CASE s \in PairStep(mounts)
  <2>1. s.do = "rename" /\ s.p \in Seq(Name) /\ s.dst \in Seq(Name)
    BY <1>8 DEF PairStep
  <2>2. Effect(t, s) = Left(Single(t, s), <<>>)
    BY <2>1 DEF Effect
  <2>3. Single(t, s) = mem_rename(t, s.p, s.dst)
    BY <2>1 DEF Single
  <2>4. QED
    BY <1>1, <2>1, <2>2, <2>3, RenameIsSound
<1>8a. CASE s \in CopyStep(mounts)
  <2>1. s.do \in {"mode", "meta"}
    BY <1>8a DEF CopyStep
  <2>2. QED
    BY <1>8a, <2>1, CopyStepIsGood, LinkStepIsGood
<1>9. s \notin LostStep
  BY <1>2 DEF LostStep
<1>10. QED
  BY <1>3, <1>4, <1>5, <1>6, <1>7, <1>8, <1>8a, <1>9, WriteStepIsGood, ReadStepIsGood
     DEF Steps

\* Where a method starts: for the owner of its path, or for nobody.
LEMMA StepIs ==
  ASSUME NEW F, NEW mounts, mounts = DOMAIN F, mounts \subseteq Path, NEW do,
         NEW p \in Path, NEW s, s = Step(F, do, p)
  PROVE  /\ s = [do |-> do, m |-> s.m, p |-> s.p] /\ s.m = resolve_mount(mounts, p)
         /\ s.m \in mounts \cup {Nobody} /\ s.p \in Seq(Name)
<1> DEFINE m == resolve_mount(mounts, p)
           q == IF m = Nobody THEN Root ELSE Rel(p, m)
<1>1. p \in Seq(Name)
  BY PathType
<1>2. m \in mounts \cup {Nobody} /\ (m # Nobody => Rel(p, m) \in Seq(Name))
  BY <1>1, OwnerIs
<1>3. q \in Seq(Name)
  BY <1>2, EmptyPath
<1>4. s = [do |-> do, m |-> m, p |-> q]
  BY DEF Step
<1> HIDE DEF m, q
<1>5. s.m = m /\ s.p = q
  BY <1>4
<1>6. QED
  BY <1>2, <1>3, <1>4, <1>5 DEF m

\* The methods with one path.
LEMMA OnePathCalls ==
  ASSUME NEW F, NEW mounts, mounts = DOMAIN F, mounts \subseteq Path, NEW p \in Path
  PROVE  /\ utimes(F, p) \in Seq(Steps(mounts)) /\ mkdir_p(F, p) \in Seq(Steps(mounts))
         /\ \A n \in MemNode \ {None} : New(F, p, n) \in Seq(Steps(mounts))
         /\ \A types \in SUBSET {"File", "Symlink", "Dir"}, full \in BOOLEAN :
              Removal(F, p, types, full) \in Seq(Steps(mounts))
         /\ \A c \in SUBSET Chunk : /\ write_file(F, p, c) \in Seq(Steps(mounts))
                                    /\ append_file(F, p, c) \in Seq(Steps(mounts))
         /\ \A mode \in Mode : chmod(F, p, mode) \in Seq(Steps(mounts))
<1> DEFINE S == Steps(mounts)
<1>1. ASSUME NEW do
      PROVE  /\ Step(F, do, p) = [do |-> do, m |-> Step(F, do, p).m, p |-> Step(F, do, p).p]
             /\ Step(F, do, p).m \in mounts \cup {Nobody} /\ Step(F, do, p).p \in Seq(Name)
  BY StepIs
<1>2. ASSUME NEW s \in S PROVE <<s>> \in Seq(S)
  OBVIOUS
<1> HIDE DEF S
<1>3. utimes(F, p) \in Seq(S)
  <2> DEFINE s == Step(F, "utimes", p)
  <2>1. /\ s = [do |-> "utimes", m |-> s.m, p |-> s.p]
        /\ s.m \in mounts \cup {Nobody} /\ s.p \in Seq(Name)
    BY <1>1
  <2>2. utimes(F, p) = <<s>>
    BY DEF utimes
  <2> HIDE DEF s
  <2>3. s \in S
    BY <2>1, StepIntro DEF S
  <2>4. QED
    BY <1>2, <2>2, <2>3
<1>4. mkdir_p(F, p) \in Seq(S)
  <2> DEFINE s == Step(F, "mkdir_p", p)
  <2>1. /\ s = [do |-> "mkdir_p", m |-> s.m, p |-> s.p]
        /\ s.m \in mounts \cup {Nobody} /\ s.p \in Seq(Name)
    BY <1>1
  <2>2. mkdir_p(F, p) = <<s>>
    BY DEF mkdir_p
  <2> HIDE DEF s
  <2>3. s \in S
    BY <2>1, StepIntro DEF S
  <2>4. QED
    BY <1>2, <2>2, <2>3
<1>5. ASSUME NEW n \in MemNode \ {None} PROVE New(F, p, n) \in Seq(S)
  <2> DEFINE s == Step(F, "new", p)
             z == Also(s, "node", n)
  <2>1. /\ s = [do |-> "new", m |-> s.m, p |-> s.p]
        /\ s.m \in mounts \cup {Nobody} /\ s.p \in Seq(Name)
    BY <1>1
  <2>2. New(F, p, n) = <<z>>
    BY DEF New
  <2> HIDE DEF s
  <2>3. z = [do |-> "new", m |-> s.m, p |-> s.p, node |-> n]
    BY <2>1, AlsoIs
  <2> HIDE DEF z
  <2>4. z \in S
    BY <2>1, <2>3, StepIntro DEF S
  <2>5. QED
    BY <1>2, <2>2, <2>4
<1>6. ASSUME NEW types \in SUBSET {"File", "Symlink", "Dir"}, NEW full \in BOOLEAN
      PROVE  Removal(F, p, types, full) \in Seq(S)
  <2> DEFINE s == Step(F, "remove", p)
             y == Also(s, "types", types)
             z == Also(y, "full", full)
  <2>1. /\ s = [do |-> "remove", m |-> s.m, p |-> s.p]
        /\ s.m \in mounts \cup {Nobody} /\ s.p \in Seq(Name)
    BY <1>1
  <2>2. Removal(F, p, types, full) = <<z>>
    BY DEF Removal
  <2> HIDE DEF s
  <2>3. y = [do |-> "remove", m |-> s.m, p |-> s.p, types |-> types]
    BY <2>1, AlsoIs
  <2> HIDE DEF y
  <2>4. z = [do |-> "remove", m |-> s.m, p |-> s.p, types |-> types, full |-> full]
    BY <2>3, AlsoIs
  <2> HIDE DEF z
  <2>5. z \in S
    BY <2>1, <2>4, StepIntro DEF S
  <2>6. QED
    BY <1>2, <2>2, <2>5
<1>7. ASSUME NEW c \in SUBSET Chunk, NEW do \in {"write", "append"}
      PROVE  <<Also(Step(F, do, p), "c", c)>> \in Seq(S)
  <2> DEFINE s == Step(F, do, p)
             z == Also(s, "c", c)
  <2>1. /\ s = [do |-> do, m |-> s.m, p |-> s.p]
        /\ s.m \in mounts \cup {Nobody} /\ s.p \in Seq(Name)
    BY <1>1
  <2> HIDE DEF s
  <2>2. z = [do |-> do, m |-> s.m, p |-> s.p, c |-> c]
    BY <2>1, AlsoIs
  <2> HIDE DEF z
  <2>3. z \in S
    BY <1>7, <2>1, <2>2, StepIntro DEF S
  <2>4. <<z>> \in Seq(S)
    BY <1>2, <2>3
  <2>5. QED
    BY <2>4 DEF z, s
<1>8. ASSUME NEW mode \in Mode PROVE chmod(F, p, mode) \in Seq(S)
  <2> DEFINE s == Step(F, "chmod", p)
             z == Also(s, "mode", mode)
  <2>1. /\ s = [do |-> "chmod", m |-> s.m, p |-> s.p]
        /\ s.m \in mounts \cup {Nobody} /\ s.p \in Seq(Name)
    BY <1>1
  <2>2. chmod(F, p, mode) = <<z>>
    BY DEF chmod
  <2> HIDE DEF s
  <2>3. z = [do |-> "chmod", m |-> s.m, p |-> s.p, mode |-> mode]
    BY <2>1, AlsoIs
  <2> HIDE DEF z
  <2>4. z \in S
    BY <2>1, <2>3, StepIntro DEF S
  <2>5. QED
    BY <1>2, <2>2, <2>4
<1>9. QED
  BY <1>3, <1>4, <1>5, <1>6, <1>7, <1>8 DEF S, write_file, append_file

\* What a link made at p is given to read: the target as its mount sees it, when
\* that mount holds the target too (symlink in mountable.rs).
LinkText(mounts, p, l) ==
  LET m == resolve_mount(mounts, p)
      inside == m # Nobody /\ l.abs /\ resolve_mount(mounts, l.to) = m
  IN  IF inside THEN [l EXCEPT !.to = Rel(l.to, m)] ELSE l

\* A link's text is one, as the backend will see it as well.
LEMMA SymlinkText ==
  ASSUME NEW F, NEW mounts, mounts = DOMAIN F, mounts \in Tables, NEW p \in Path,
         NEW l \in NewLink
  PROVE  /\ symlink(F, l, p) = New(F, p, Symlink(LinkText(mounts, p, l)))
         /\ LinkText(mounts, p, l) \in Link
<1> DEFINE m == resolve_mount(mounts, p)
           inside == m # Nobody /\ l.abs /\ resolve_mount(mounts, l.to) = m
           text == LinkText(mounts, p, l)
<1>1. mounts \subseteq Path /\ l \in Link /\ l.to \in Seq(Name)
  BY MountAssumption, CallAssumption, NodeAssumption
<1>2. symlink(F, l, p) = New(F, p, Symlink(text))
  BY DEF symlink, LinkText
<1>3. text \in Link
  <2>1. CASE inside
    <3>1. m \in mounts /\ StartsWith(l.to, m)
      BY <1>1, <2>1, OwnerIs DEF Owners
    <3>2. text = [l EXCEPT !.to = Rel(l.to, m)]
      BY <2>1 DEF LinkText
    <3> HIDE DEF m, text
    <3>3. [l EXCEPT !.to = SubSeq(l.to, Len(m) + 1, Len(l.to))] \in Link
      BY <3>1, CallAssumption
    <3>4. QED
      BY <3>2, <3>3 DEF Rel
  <2>2. CASE ~inside
    <3>1. text = l
      BY <2>2 DEF LinkText
    <3>2. QED
      BY <1>1, <3>1
  <2>3. QED
    BY <2>1, <2>2
<1>4. QED
  BY <1>2, <1>3

LEMMA SymlinkCall ==
  ASSUME NEW F, NEW mounts, mounts = DOMAIN F, mounts \in Tables, NEW p \in Path,
         NEW l \in NewLink
  PROVE  symlink(F, l, p) \in Seq(Steps(mounts))
<1>1. mounts \subseteq Path
  BY MountAssumption
<1> DEFINE text == LinkText(mounts, p, l)
<1>2. symlink(F, l, p) = New(F, p, Symlink(text)) /\ text \in Link
  BY SymlinkText
<1> HIDE DEF text
<1>3. Symlink(text) \in MemNode \ {None}
  BY <1>2 DEF MemNode, Symlink, None
<1>4. QED
  BY <1>1, <1>2, <1>3, OnePathCalls

\* The methods with two paths.
LEMMA TwoPathCalls ==
  ASSUME NEW F, NEW mounts, mounts = DOMAIN F, mounts \subseteq Path, NEW p \in Path,
         NEW q \in Path
  PROVE  /\ copy(F, p, q) \in Seq(Steps(mounts)) /\ hardlink(F, p, q) \in Seq(Steps(mounts))
         /\ rename(F, p, q) \in Seq(Steps(mounts))
<1> DEFINE s == Step(F, "read", p)
           d == Step(F, "write", q)
           S == Steps(mounts)
<1>1. /\ s = [do |-> "read", m |-> s.m, p |-> s.p]
      /\ s.m \in mounts \cup {Nobody} /\ s.p \in Seq(Name)
  BY StepIs
<1>2. /\ d = [do |-> "write", m |-> d.m, p |-> d.p]
      /\ d.m \in mounts \cup {Nobody} /\ d.p \in Seq(Name)
  BY StepIs
<1>3. ASSUME NEW z \in S PROVE <<z>> \in Seq(S)
  OBVIOUS
<1> DEFINE lost == (s.m = Nobody /\ <<s>> \in Seq(S)) \/ (d.m = Nobody /\ <<d>> \in Seq(S))
           both == s.m \in mounts /\ d.m \in mounts
<1>4. copy(F, p, q) = IF s.m = Nobody THEN <<s>> ELSE IF d.m = Nobody THEN <<d>>
                      ELSE IF s.m = d.m
                      THEN <<Also(s, "into", Also([s EXCEPT !.do = "mode"], "dst", d.p))>>
                      ELSE <<Also(s, "into", d)>>
  BY DEF copy, Two
<1>5. hardlink(F, p, q) = IF s.m = Nobody THEN <<s>> ELSE IF d.m = Nobody THEN <<d>>
                          ELSE IF s.m = d.m
                          THEN <<Also(s, "into", Also([s EXCEPT !.do = "meta"], "dst", d.p))>>
                          ELSE <<[s EXCEPT !.do = "refuse"]>>
  BY DEF hardlink, Two
<1>6. rename(F, p, q) = IF s.m = Nobody THEN <<s>> ELSE IF d.m = Nobody THEN <<d>>
                        ELSE IF s.m = d.m
                        THEN <<Also([s EXCEPT !.do = "rename"], "dst", d.p)>>
                        ELSE <<[s EXCEPT !.do = "no dir"], Also(s, "into", d)>>
                               \o remove_file(F, p)
  BY DEF rename, Two
<1> HIDE DEF s, d, S
<1>6a. ASSUME NEW do PROVE [s EXCEPT !.do = do] = [do |-> do, m |-> s.m, p |-> s.p]
  <2> DEFINE m == s.m
             r == s.p
  <2>1. s = [do |-> "read", m |-> m, p |-> r]
    BY <1>1
  <2> HIDE DEF m, r
  <2>2. [s EXCEPT !.do = do] = [do |-> do, m |-> m, p |-> r]
    BY ONLY <2>1
  <2>3. QED
    BY <2>2 DEF m, r
<1>7. /\ s.m = Nobody => <<s>> \in Seq(S)
      /\ d.m = Nobody => <<d>> \in Seq(S)
  <2>1. s.m = Nobody => s \in S
    BY <1>1, StepIntro DEF S
  <2>2. d.m = Nobody => d \in S
    BY <1>2, StepIntro DEF S
  <2>3. QED
    BY <1>3, <2>1, <2>2
<1>8. ASSUME s.m \in mounts, d.m \in mounts
      PROVE  <<Also(s, "into", d)>> \in Seq(S) /\ Also(s, "into", d) \in S
  <2> DEFINE z == Also(s, "into", d)
  <2>1. z = [do |-> "read", m |-> s.m, p |-> s.p, into |-> d]
    BY <1>1, AlsoIs
  <2>2. d \in Into(mounts)
    BY <1>2, <1>8, PairIntro
  <2> HIDE DEF z
  <2>3. z \in S
    BY <1>1, <1>8, <2>1, <2>2, PairIntro DEF S
  <2>4. QED
    BY <1>3, <2>3 DEF z
<1>9. ASSUME s.m \in mounts, NEW do \in {"mode", "meta", "rename"}
      PROVE  Also([s EXCEPT !.do = do], "dst", d.p)
               = [do |-> do, m |-> s.m, p |-> s.p, dst |-> d.p]
  <2>1. [s EXCEPT !.do = do] = [do |-> do, m |-> s.m, p |-> s.p]
    BY <1>6a
  <2>2. QED
    BY <2>1, AlsoIs
<1>10. ASSUME s.m \in mounts
       PROVE  <<Also([s EXCEPT !.do = "rename"], "dst", d.p)>> \in Seq(S)
  <2> DEFINE z == Also([s EXCEPT !.do = "rename"], "dst", d.p)
  <2>1. z = [do |-> "rename", m |-> s.m, p |-> s.p, dst |-> d.p]
    BY <1>9, <1>10
  <2> HIDE DEF z
  <2>2. z \in S
    BY <1>1, <1>2, <1>10, <2>1, PairIntro DEF S
  <2>3. QED
    BY <1>3, <2>2 DEF z
<1>11. ASSUME s.m \in mounts, NEW do \in {"mode", "meta"}
       PROVE  <<Also(s, "into", Also([s EXCEPT !.do = do], "dst", d.p))>> \in Seq(S)
  <2> DEFINE i == Also([s EXCEPT !.do = do], "dst", d.p)
             z == Also(s, "into", i)
  <2>1. i = [do |-> do, m |-> s.m, p |-> s.p, dst |-> d.p]
    BY <1>9, <1>11
  <2> HIDE DEF i
  <2>2. i \in Into(mounts)
    BY <1>1, <1>2, <1>11, <2>1, PairIntro
  <2>3. z = [do |-> "read", m |-> s.m, p |-> s.p, into |-> i]
    BY <1>1, AlsoIs
  <2> HIDE DEF z
  <2>4. z \in S
    BY <1>1, <1>11, <2>2, <2>3, PairIntro DEF S
  <2>5. QED
    BY <1>3, <2>4 DEF z, i
<1>12. ASSUME NEW do \in {"refuse", "no dir"}
       PROVE  [s EXCEPT !.do = do] \in S /\ <<[s EXCEPT !.do = do]>> \in Seq(S)
  <2>1. [s EXCEPT !.do = do] = [do |-> do, m |-> s.m, p |-> s.p]
    BY <1>6a
  <2> DEFINE z == [s EXCEPT !.do = do]
  <2> HIDE DEF z
  <2>2. z \in S
    <3>1. z = [do |-> do, m |-> s.m, p |-> s.p]
      BY <2>1 DEF z
    <3>2. QED
      BY <1>1, <1>12, <3>1, StepIntro DEF S
  <2>3. QED
    BY <1>3, <2>2 DEF z
<1>13. s.m # Nobody => s.m \in mounts
  BY <1>1
<1>14. d.m # Nobody => d.m \in mounts
  BY <1>2
<1>15. copy(F, p, q) \in Seq(S)
  BY <1>4, <1>7, <1>8, <1>11, <1>13, <1>14
<1>16. hardlink(F, p, q) \in Seq(S)
  BY <1>5, <1>7, <1>11, <1>12, <1>13, <1>14
<1>17. rename(F, p, q) \in Seq(S)
  <2> DEFINE a == [s EXCEPT !.do = "no dir"]
             b == Also(s, "into", d)
             c == remove_file(F, p)
  <2>1. c \in Seq(S)
    BY OnePathCalls DEF remove_file, S
  <2>2. ASSUME s.m \in mounts, d.m \in mounts PROVE a \in S /\ b \in S
    BY <1>8, <1>12, <2>2
  <2> HIDE DEF a, b, c
  <2>3. ASSUME s.m \in mounts, d.m \in mounts PROVE <<a, b>> \o c \in Seq(S)
    <3>1. <<a, b>> \in Seq(S)
      BY <2>2, <2>3
    <3>2. QED
      BY <2>1, <3>1
  <2>4. QED
    BY <1>6, <1>7, <1>10, <1>13, <1>14, <2>3 DEF a, b, c
<1>18. QED
  BY <1>15, <1>16, <1>17 DEF S

(***************************************************************************)
(* Whatever the threads call and however their steps interleave.           *)
(***************************************************************************)
Safe == /\ DOMAIN fs \in Tables
        /\ fs \in [DOMAIN fs -> Memory]
        /\ \A m \in DOMAIN fs : Sound(fs[m])
        /\ todo \in [Thread -> Seq(Steps(DOMAIN fs))]

\* A call changes no backend and leaves steps that can be done.
LEMMA CallIsSafe ==
  ASSUME Safe, NEW h \in Thread, NEW steps, steps \in Seq(Steps(DOMAIN fs)),
         Call(h, steps)
  PROVE  Safe'
<1>1. fs' = fs /\ todo' = [todo EXCEPT ![h] = steps]
  BY DEF Call
<1>2. todo' \in [Thread -> Seq(Steps(DOMAIN fs))]
  <2> DEFINE S == Seq(Steps(DOMAIN fs))
  <2>1. todo \in [Thread -> S] /\ steps \in S
    BY DEF Safe
  <2> HIDE DEF S
  <2>2. todo' \in [Thread -> S]
    BY <1>1, <2>1
  <2>3. QED
    BY <2>2 DEF S
<1>3. QED
  BY <1>1, <1>2 DEF Safe

\* A step changes one backend, which stays a tree.
LEMMA ProceedIsSafe ==
  ASSUME Safe, NEW h \in Thread, Proceed(h)
  PROVE  Safe'
<1> DEFINE mounts == DOMAIN fs
           S == Steps(mounts)
           left == todo[h]
           s == Head(left)
           e == Effect(fs[s.m], s)
           r == Run([fs |-> fs, err |-> "ok", todo |-> left])
           on == IF e.err # "ok" THEN <<>> ELSE e.next \o Tail(left)
<1>1. left \in Seq(S) /\ left # <<>> /\ mounts \subseteq Path
  BY MountAssumption DEF Safe, Proceed
<1>2. s \in S /\ Tail(left) \in Seq(S)
  <2> HIDE DEF S, left
  <2> QED BY <1>1
<1>3. fs' = r.fs /\ todo' = [todo EXCEPT ![h] = r.todo]
  BY DEF Proceed, Ran
<1>4. r = IF s.m = Nobody THEN [fs |-> fs, err |-> "NotFound", todo |-> <<>>]
          ELSE [fs |-> [fs EXCEPT ![s.m] = e.tree], err |-> e.err, todo |-> on]
  BY <1>1 DEF Run
<1> HIDE DEF r, left, s
<1>5. s.m \in mounts \cup {Nobody}
  BY <1>2 DEF Steps, PlainStep, WriteStep, InsertStep, NewStep, RemoveStep, ChmodStep,
     PairStep, LostStep, ReadStep, CopyStep
<1>6. CASE s.m = Nobody
  <2>1. fs' = fs /\ r.todo = <<>>
    BY <1>3, <1>4, <1>6
  <2>2. todo' \in [Thread -> Seq(S)]
    <3>1. <<>> \in Seq(S) /\ todo \in [Thread -> Seq(S)]
      BY DEF Safe
    <3> HIDE DEF S
    <3>2. QED
      BY <1>3, <2>1, <3>1
  <2>3. QED
    BY <2>1, <2>2 DEF Safe
<1>7. CASE s.m # Nobody
  <2>1. s.m \in mounts /\ Sound(fs[s.m])
    BY <1>5, <1>7 DEF Safe
  <2>2. Sound(e.tree) /\ e.next \in Seq(S)
    BY <1>1, <1>2, <2>1, EffectIsGood DEF Good
  <2>3. fs' = [fs EXCEPT ![s.m] = e.tree] /\ r.todo = on
    BY <1>3, <1>4, <1>7
  <2> HIDE DEF e
  <2>4. on \in Seq(S)
    <3> HIDE DEF S
    <3> QED BY <1>2, <2>2
  <2> HIDE DEF on
  <2>5. e.tree \in Memory
    BY <2>2 DEF Sound
  <2>6. DOMAIN fs' = mounts /\ fs' \in [mounts -> Memory]
    BY <2>3, <2>5 DEF Safe
  <2>7. \A m \in mounts : Sound(fs'[m])
    <3>1. \A m \in mounts : fs'[m] = IF m = s.m THEN e.tree ELSE fs[m]
      BY <2>3 DEF Safe
    <3>2. \A m \in mounts : Sound(fs[m])
      BY DEF Safe
    <3> HIDE DEF mounts
    <3>3. QED
      BY <2>2, <3>1, <3>2
  <2>8. todo' \in [Thread -> Seq(S)]
    <3>1. todo \in [Thread -> Seq(S)]
      BY DEF Safe
    <3> HIDE DEF S
    <3>2. QED
      BY <1>3, <2>3, <2>4, <3>1
  <2>9. QED
    BY <2>6, <2>7, <2>8 DEF Safe
<1>8. QED
  BY <1>6, <1>7

LEMMA InitIsSafe ==
  ASSUME Init
  PROVE  Safe
<1>1. PICK T \in Tables : fs = [m \in T |-> EmptyMemory]
  BY DEF Init
<1>2. todo \in [Thread -> Seq(Steps(DOMAIN fs))]
  <2> DEFINE S == Seq(Steps(DOMAIN fs))
  <2>1. <<>> \in S
    OBVIOUS
  <2> HIDE DEF S
  <2>2. todo \in [Thread -> S]
    BY <2>1 DEF Init
  <2>3. QED
    BY <2>2 DEF S
<1>3. Sound(EmptyMemory) /\ EmptyMemory \in Memory
  BY EmptyIsSound DEF Sound
<1>4. QED
  BY <1>1, <1>2, <1>3 DEF Safe

LEMMA NextIsSafe ==
  ASSUME Safe, Next
  PROVE  Safe'
<1> DEFINE mounts == DOMAIN fs
           S == Steps(mounts)
<1>1. mounts \in Tables /\ mounts \subseteq Path
  BY MountAssumption DEF Safe
<1>2. PICK h \in Thread :
        \/ WriteFile(h) \/ AppendFile(h) \/ RemoveFile(h) \/ RemoveDir(h)
        \/ RemoveDirAll(h) \/ Mkdir(h) \/ MkdirP(h) \/ Utimes(h) \/ Chmod(h)
        \/ SymlinkTo(h) \/ Hardlink(h) \/ Copy(h) \/ Rename(h) \/ Proceed(h)
  BY DEF Next
<1>3. ASSUME NEW p \in Arg PROVE p \in Path
  BY CallAssumption
<1>4. ASSUME NEW p \in Path
      PROVE  /\ utimes(fs, p) \in Seq(S) /\ mkdir_p(fs, p) \in Seq(S)
             /\ \A n \in MemNode \ {None} : New(fs, p, n) \in Seq(S)
             /\ \A types \in SUBSET {"File", "Symlink", "Dir"}, full \in BOOLEAN :
                  Removal(fs, p, types, full) \in Seq(S)
             /\ \A c \in SUBSET Chunk : /\ write_file(fs, p, c) \in Seq(S)
                                        /\ append_file(fs, p, c) \in Seq(S)
             /\ \A mode \in Mode : chmod(fs, p, mode) \in Seq(S)
  BY <1>1, OnePathCalls
<1>5. ASSUME NEW c \in Written PROVE c \in SUBSET Chunk
  BY CallAssumption
<1>6. ASSUME NEW steps, steps \in Seq(S), Call(h, steps) PROVE Safe'
  BY <1>6, CallIsSafe
<1> HIDE DEF S, mounts
<1>7. CASE WriteFile(h)
  <2>1. PICK p \in Arg, c \in Written : Call(h, write_file(fs, p, c))
    BY <1>7 DEF WriteFile
  <2>2. QED
    BY <1>3, <1>4, <1>5, <1>6, <2>1
<1>8. CASE AppendFile(h)
  <2>1. PICK p \in Arg, c \in Written : Call(h, append_file(fs, p, c))
    BY <1>8 DEF AppendFile
  <2>2. QED
    BY <1>3, <1>4, <1>5, <1>6, <2>1
<1>9. CASE RemoveFile(h) \/ RemoveDir(h) \/ RemoveDirAll(h)
  <2>1. PICK p \in Arg : \/ Call(h, remove_file(fs, p)) \/ Call(h, remove_dir(fs, p))
                         \/ Call(h, remove_dir_all(fs, p))
    BY <1>9 DEF RemoveFile, RemoveDir, RemoveDirAll
  <2>2. /\ remove_file(fs, p) \in Seq(S) /\ remove_dir(fs, p) \in Seq(S)
        /\ remove_dir_all(fs, p) \in Seq(S)
    BY <1>3, <1>4 DEF remove_file, remove_dir, remove_dir_all
  <2>3. QED
    BY <1>6, <2>1, <2>2
<1>10. CASE Mkdir(h)
  <2>1. PICK p \in Arg : Call(h, mkdir(fs, p))
    BY <1>10 DEF Mkdir
  <2>2. Dir(DirMode) \in MemNode \ {None}
    BY NodeAssumption DEF MemNode, DirNode, Dir, None
  <2>3. mkdir(fs, p) \in Seq(S)
    BY <1>3, <1>4, <2>2 DEF mkdir
  <2>4. QED
    BY <1>6, <2>1, <2>3
<1>11. CASE MkdirP(h) \/ Utimes(h)
  <2>1. PICK p \in Arg : Call(h, mkdir_p(fs, p)) \/ Call(h, utimes(fs, p))
    BY <1>11 DEF MkdirP, Utimes
  <2>2. QED
    BY <1>3, <1>4, <1>6, <2>1
<1>12. CASE Chmod(h)
  <2>1. PICK p \in Arg, m \in NewMode : Call(h, chmod(fs, p, m))
    BY <1>12 DEF Chmod
  <2>2. m \in Mode
    BY CallAssumption
  <2>3. QED
    BY <1>3, <1>4, <1>6, <2>1, <2>2
<1>13. CASE SymlinkTo(h)
  <2>1. PICK p \in Arg, l \in NewLink : Call(h, symlink(fs, l, p))
    BY <1>13 DEF SymlinkTo
  <2>2. symlink(fs, l, p) \in Seq(S)
    BY <1>1, <1>3, SymlinkCall DEF S, mounts
  <2>3. QED
    BY <1>6, <2>1, <2>2
<1>14. CASE Hardlink(h) \/ Copy(h) \/ Rename(h)
  <2>1. PICK p, q \in Arg : \/ Call(h, hardlink(fs, p, q)) \/ Call(h, copy(fs, p, q))
                            \/ Call(h, rename(fs, p, q))
    BY <1>14 DEF Hardlink, Copy, Rename
  <2>2. /\ hardlink(fs, p, q) \in Seq(S) /\ copy(fs, p, q) \in Seq(S)
        /\ rename(fs, p, q) \in Seq(S)
    BY <1>1, <1>3, TwoPathCalls DEF S, mounts
  <2>3. QED
    BY <1>6, <2>1, <2>2
<1>15. CASE Proceed(h)
  BY <1>15, ProceedIsSafe
<1>16. QED
  BY <1>2, <1>7, <1>8, <1>9, <1>10, <1>11, <1>12, <1>13, <1>14, <1>15

LEMMA SafeAlways == Spec => []Safe
<1>1. Init => Safe
  BY InitIsSafe
<1>2. Safe /\ [Next]_vars => Safe'
  <2>1. CASE Next
    BY <2>1, NextIsSafe
  <2>2. CASE UNCHANGED vars
    BY <2>2 DEF Safe, vars
  <2>3. QED
    BY <2>1, <2>2
<1>3. QED
  BY <1>1, <1>2, PTL DEF Spec

\* Every backend of every mount table is a tree whose files carry a number, and
\* every thread has steps left that can be done, for any number of threads
\* whose steps interleave in any way: no method relies on what it has seen
\* before it let go of the lock in a way that breaks the tree (memory.rs,
\* mountable.rs).
THEOREM TypeCorrect == Spec => []TypeOK
<1>1. Safe => TypeOK
  BY DEF Safe, TypeOK, Sound, Memory
<1>2. QED
  BY <1>1, SafeAlways, PTL

\* A listing names an entry exactly where a lookup finds one, in every state
\* that any number of threads can bring about, whatever is mounted where
\* (readdir, lstat, synthetic_mount_entries in mountable.rs).
THEOREM ListingAlwaysAgrees == Spec => []ListingAgreesWithLookup
<1>1. TypeOK => ListingAgreesWithLookup
  <2>1. ASSUME TypeOK, NEW p \in Path
        PROVE  readdir(fs, p) = {n \in Name : ~IsNone(lstat(fs, Append(p, n)))}
    <3>1. DOMAIN fs \subseteq Path /\ \A m \in DOMAIN fs : fs[m] \in Memory
      BY <2>1, MountAssumption DEF TypeOK, Memory
    <3>2. p \in Seq(Name)
      BY PathType
    <3>3. QED
      BY <3>1, <3>2, ListingIsOfLookups
  <2>2. QED
    BY <2>1 DEF ListingAgreesWithLookup
<1>2. QED
  BY <1>1, TypeCorrect, PTL

(***************************************************************************)
(* The names of links and of canonical paths.                              *)
(***************************************************************************)
\* What is left of a path after its first k names, one name at a time.
LEMMA RestStep ==
  ASSUME NEW c \in Seq(Name), NEW k \in 1..Len(c)
  PROVE  LET s == SubSeq(c, (k - 1) + 1, Len(c))
         IN  s # <<>> /\ Head(s) = c[k] /\ Tail(s) = SubSeq(c, k + 1, Len(c))
<1> DEFINE s == SubSeq(c, (k - 1) + 1, Len(c))
           r == SubSeq(c, k + 1, Len(c))
           l == Len(c)
<1>1. l \in Nat /\ k \in Nat /\ k >= 1 /\ k <= l /\ k - 1 \in Nat /\ k - 1 <= l
  OBVIOUS
<1>2. /\ s \in Seq(Name) /\ Len(s) = l - (k - 1)
      /\ r \in Seq(Name) /\ Len(r) = l - k
  BY <1>1, CutInTwo
<1>3. /\ \A i \in 1..(l - (k - 1)) : s[i] = c[(k - 1) + i]
      /\ \A i \in 1..(l - k) : r[i] = c[k + i]
  BY <1>1
<1> HIDE DEF s, r, l
<1>4. s # <<>> /\ Head(s) = s[1] /\ Tail(s) \in Seq(Name) /\ Len(Tail(s)) = l - k
  BY <1>1, <1>2
<1>5. s[1] = c[k]
  BY <1>1, <1>3
<1>6. ASSUME NEW i \in 1..Len(Tail(s)) PROVE Tail(s)[i] = r[i]
  <2>1. i \in 1..(l - k) /\ i + 1 \in 1..(l - (k - 1)) /\ (k - 1) + (i + 1) = k + i
    BY <1>1, <1>4
  <2>2. Tail(s)[i] = s[i + 1]
    BY <1>2, <1>4, <2>1
  <2>3. QED
    BY <1>3, <2>1, <2>2
<1>7. Tail(s) = r
  BY <1>2, <1>4, <1>6, SeqEqual
<1>8. QED
  BY <1>4, <1>5, <1>7 DEF s, r

\* A walk through directories to a node that is there, straight on.
LEMMA StraightWalk ==
  ASSUME NEW t \in Memory, Rooted(t), NEW c \in Seq(Name), ~IsNone(At(t, c)),
         NEW follow, follow => ~IsSymlink(At(t, c))
  PROVE  navigate(t, c, follow) = At_(c)
<1>1. PICK W : /\ Walks(t, follow, W)
               /\ \A p : navigate(t, p, follow) = W[<<Root, p, MaxHops>>]
  BY NavigateIs
<1> DEFINE part(k) == SubSeq(c, 1, k)
           rest(k) == SubSeq(c, k + 1, Len(c))
           spot(k) == <<part(k), rest(k), MaxHops>>
           S == {k \in 0..Len(c) : W[spot(k)] = W[spot(0)]}
<1>2. Len(c) \in Nat /\ MaxHops \in 0..MaxHops
  BY HopAssumption
<1>3. ASSUME NEW k \in 0..Len(c)
      PROVE  /\ part(k) \in Seq(Name) /\ rest(k) \in Seq(Name) /\ Len(rest(k)) = Len(c) - k
             /\ spot(k) \in WalkPlace /\ spot(k)[1] = part(k) /\ spot(k)[2] = rest(k)
             /\ spot(k)[3] = MaxHops
  <2>1. part(k) \in Seq(Name) /\ rest(k) \in Seq(Name) /\ Len(rest(k)) = Len(c) - k
    BY <1>2, CutInTwo
  <2> HIDE DEF part, rest
  <2>2. QED
    BY <1>2, <2>1, PlaceIntro
<1>4. ASSUME NEW k \in 1..Len(c)
      PROVE  W[spot(k - 1)] = W[spot(k)]
  <2> DEFINE w == spot(k - 1)
  <2>1. k \in 0..Len(c) /\ k - 1 \in 0..Len(c) /\ k \in Nat /\ k >= 1 /\ k <= Len(c)
    OBVIOUS
  <2>2. /\ w \in WalkPlace /\ w[1] = part(k - 1) /\ w[2] = rest(k - 1) /\ w[3] = MaxHops
        /\ part(k - 1) \in Seq(Name) /\ part(k) \in Seq(Name) /\ Len(rest(k - 1)) = Len(c) - (k - 1)
    BY <1>3, <2>1
  <2>3. Head(w[2]) = c[k] /\ Tail(w[2]) = rest(k) /\ w[2] # <<>>
    <3>1. rest(k - 1) # <<>> /\ Head(rest(k - 1)) = c[k] /\ Tail(rest(k - 1)) = rest(k)
      BY RestStep
    <3> HIDE DEF w, rest
    <3>2. QED
      BY <2>2, <3>1
  <2>4. part(k) = Append(part(k - 1), c[k]) /\ c[k] \in Name
    BY <2>1, PrefixStep
  <2>5. Ahead(w) = part(k)
    <3> HIDE DEF w, part, rest
    <3> QED BY <2>2, <2>3, <2>4 DEF Ahead
  <2>6. ~IsNone(At(t, part(k))) /\ (k < Len(c) => IsDir(At(t, part(k))))
    <3>1. CASE k = Len(c)
      <4>1. part(k) = c
        BY <3>1, PrefixWhole
      <4> HIDE DEF part
      <4>2. QED
        BY <3>1, <4>1
    <3>2. CASE k < Len(c)
      <4>1. c # Root
        BY <2>1, <3>2, EmptyPath
      <4>2. c \in NodePath /\ At(t, c) = t[c]
        BY <4>1, NodeType DEF At
      <4>3. part(k) \in Above(c)
        BY <2>1, <3>2, <4>2, AboveIntro
      <4>4. part(k) \in NodePath /\ IsDir(t[part(k)])
        BY <4>2, <4>3, AboveType DEF Rooted
      <4>5. part(k) # Root
        BY <4>4, NodePathType, EmptyPath
      <4>6. At(t, part(k)) = t[part(k)]
        BY <4>4, <4>5 DEF At
      <4>7. QED
        BY <4>4, <4>6, TypeNames
    <3>3. QED
      BY <2>1, <3>1, <3>2
  <2>7. IsDir(At(t, part(k - 1)))
    BY <2>2, <2>4, <2>6, ParentIsDir
  <2>8. ~Turns(t, follow, w)
    <3>1. CASE k < Len(c)
      BY <2>5, <2>6, <3>1, TypeNames DEF Turns
    <3>2. CASE k = Len(c)
      <4>1. part(k) = c /\ rest(k) = <<>>
        BY <3>2, PrefixWhole
      <4> HIDE DEF w, part, rest
      <4>2. QED
        BY <2>3, <2>5, <4>1 DEF Turns
    <3>3. QED
      BY <2>1, <3>1, <3>2
  <2> HIDE DEF w, part, rest
  <2>9. ~Halts(t, follow, w)
    BY <2>2, <2>3, <2>5, <2>6, <2>7, <2>8 DEF Halts, Barred
  <2>10. Goes(t, follow, w) = <<part(k), rest(k), MaxHops>>
    BY <2>2, <2>3, <2>5, <2>8 DEF Goes
  <2>11. W[w] = W[Goes(t, follow, w)]
    BY <1>1, <2>2, <2>9 DEF Walks
  <2>12. QED
    BY <2>10, <2>11 DEF w
<1> HIDE DEF spot
<1>5. 0..Len(c) \subseteq S
  <2>1. SUFFICES ASSUME ~(0..Len(c) \subseteq S) PROVE FALSE
    OBVIOUS
  <2>2. 0 \in S
    BY <1>2
  <2>3. PICK k \in 1..Len(c) : k \notin S /\ k - 1 \in S
    <3> HIDE DEF S
    <3> QED BY <1>2, <2>1, <2>2, LeastFailure
  <2>4. W[spot(k - 1)] = W[spot(0)] /\ W[spot(k)] # W[spot(0)]
    BY <2>3
  <2>5. QED
    BY <1>4, <2>4
<1>6. W[spot(Len(c))] = W[spot(0)]
  BY <1>2, <1>5
<1>7. spot(0) = <<Root, c, MaxHops>>
  <2>1. SubSeq(c, 1, 0) = <<>> /\ SubSeq(c, 0 + 1, Len(c)) = c
    BY PrefixWhole
  <2>2. QED
    BY <2>1 DEF spot, Root
<1>8. W[spot(Len(c))] = At_(c)
  <2> DEFINE w == spot(Len(c))
  <2>1. Len(c) \in 0..Len(c)
    BY <1>2
  <2>2. w \in WalkPlace /\ w[1] = part(Len(c)) /\ w[2] = rest(Len(c))
    BY <1>3, <2>1 DEF spot
  <2>3. part(Len(c)) = c /\ rest(Len(c)) = <<>>
    BY PrefixWhole
  <2> HIDE DEF w, part, rest
  <2>4. Halts(t, follow, w) /\ Answer(t, w) = At_(c)
    BY <2>2, <2>3 DEF Halts, Answer
  <2>5. W[w] = At_(c)
    BY <1>1, <2>2, <2>4 DEF Walks
  <2>6. QED
    BY <2>5 DEF w
<1>9. QED
  BY <1>1, <1>6, <1>7, <1>8

\* A walk that succeeds leads to the same place when more is there.
Extends(u, t) == \A q \in NodePath : ~IsNone(t[q]) => u[q] = t[q]

\* A walk that follows every link.
Follows(t, W) == Walks(t, TRUE, W)

LEMMA WalkExtends ==
  ASSUME NEW t \in Memory, NEW u \in Memory, Extends(u, t),
         NEW T, Follows(t, T), NEW U, Follows(u, U),
         NEW w \in WalkPlace, T[w].err = "ok"
  PROVE  U[w] = T[w]
<1> DEFINE B == {x \in WalkPlace : T[x].err = "ok" /\ U[x] # T[x]}
<1>1. SUFFICES B = {}
  OBVIOUS
<1>2. SUFFICES ASSUME NEW x \in B, \A y \in B : ~Closer(y, x) PROVE FALSE
  <2>1. B \subseteq WalkPlace
    OBVIOUS
  <2> HIDE DEF B
  <2>2. QED
    BY <1>2, <2>1, LeastPlace
<1>3. x \in WalkPlace /\ T[x].err = "ok" /\ U[x] # T[x]
  OBVIOUS
<1>4. \A y \in WalkPlace : Closer(y, x) /\ T[y].err = "ok" => U[y] = T[y]
  BY <1>2
<1> HIDE DEF B
<1>5. ASSUME NEW p, ~IsNone(At(t, p)) PROVE At(u, p) = At(t, p)
  BY <1>5 DEF At, Extends
<1>6. CASE Halts(t, TRUE, x)
  <2>1. T[x] = Answer(t, x)
    BY <1>3, <1>6 DEF Follows, Walks
  <2>2. x[2] = <<>>
    <3>1. SUFFICES ASSUME x[2] # <<>> PROVE FALSE
      OBVIOUS
    <3>2. Answer(t, x).err # "ok"
      BY <3>1 DEF Answer, Stuck, Refusal
    <3>3. QED
      BY <1>3, <2>1, <3>2
  <2>3. Halts(u, TRUE, x) /\ Answer(u, x) = Answer(t, x)
    BY <2>2 DEF Halts, Answer
  <2>4. QED
    BY <1>3, <2>1, <2>3 DEF Follows, Walks
<1>7. CASE ~Halts(t, TRUE, x)
  <2>1. /\ IsDir(At(t, x[1])) /\ ~IsNone(At(t, Ahead(x))) /\ x[2] # <<>>
        /\ Goes(t, TRUE, x) \in WalkPlace /\ Closer(Goes(t, TRUE, x), x)
    BY <1>3, <1>7, GoesOn
  <2>2. At(u, x[1]) = At(t, x[1]) /\ At(u, Ahead(x)) = At(t, Ahead(x))
    BY <1>5, <2>1, TypeNames
  <2>3. ~Halts(u, TRUE, x) /\ Goes(u, TRUE, x) = Goes(t, TRUE, x)
    BY <1>7, <2>2 DEF Halts, Barred, Turns, Goes
  <2>4. T[x] = T[Goes(t, TRUE, x)] /\ U[x] = U[Goes(t, TRUE, x)]
    BY <1>3, <1>7, <2>3 DEF Follows, Walks
  <2>5. QED
    BY <1>3, <1>4, <2>1, <2>4
<1>8. QED
  BY <1>6, <1>7

LEMMA NavigateExtends ==
  ASSUME NEW t \in Memory, NEW u \in Memory, Extends(u, t),
         NEW p \in Seq(Name), NEW a, a = Leads(t, p), a.err = "ok"
  PROVE  Leads(u, p) = a
<1>1. PICK T : /\ Walks(t, TRUE, T)
               /\ \A x : navigate(t, x, TRUE) = T[<<Root, x, MaxHops>>]
  BY ONLY t \in Memory, NavigateIs
<1>2. PICK U : /\ Walks(u, TRUE, U)
               /\ \A x : navigate(u, x, TRUE) = U[<<Root, x, MaxHops>>]
  BY ONLY u \in Memory, NavigateIs
<1> DEFINE w == <<Root, p, MaxHops>>
<1>3. w \in WalkPlace
  BY StartPlace
<1>4. Leads(t, p) = T[w] /\ Leads(u, p) = U[w]
  BY <1>1, <1>2 DEF Leads
<1> HIDE DEF w
<1>5. Follows(t, T) /\ Follows(u, U)
  BY <1>1, <1>2 DEF Follows
<1>6. T[w].err = "ok"
  BY <1>4
<1>7. U[w] = T[w]
  BY <1>3, <1>5, <1>6, WalkExtends
<1>8. QED
  BY <1>4, <1>7

LEMMA NoneIs == IsNone(None)
BY DEF IsNone, None

\* An entry that was made is found under the path it was made with.
LEMMA MadeIsFound ==
  ASSUME NEW t, Sound(t), NEW p \in Seq(Name), NEW node \in MemNode \ {None},
         NEW r, r = InsertNew(t, p, node), r.err = "ok"
  PROVE  r.tree \in Memory /\ mem_lstat(r.tree, p) = node
<1> DEFINE e == with_parent_mut(t, p)
           up == Parent(p)
           n == p[Len(p)]
           a == navigate(t, up, TRUE)
           u == With(t, e.path, node)
<1>1. r = IF e.err # "ok" THEN Fail(e.err, t)
          ELSE IF ~IsNone(t[e.path]) THEN Fail("AlreadyExists", t) ELSE Ok(u)
  BY DEF InsertNew
<1> HIDE DEF u
<1>2. e.err = "ok" /\ IsNone(t[e.path]) /\ r = Ok(u)
  BY <1>1 DEF Fail
<1>3. /\ p # Root /\ e.path \in NodePath /\ a.err = "ok" /\ IsDir(At(t, a.path))
      /\ e.path = Append(a.path, n)
  BY <1>2, EntryIs
<1> HIDE DEF e
<1>4. up \in Seq(Name) /\ n \in Name /\ p = Append(up, n)
  <2>1. Len(p) \in Nat /\ Len(p) >= 1
    BY <1>3 DEF Root
  <2>2. SubSeq(p, 1, Len(p)) = p
    BY PrefixWhole
  <2>3. QED
    BY <2>1, <2>2, PrefixStep DEF Parent
<1> HIDE DEF up, n
<1>5. /\ t \in Memory /\ u \in Memory /\ u[e.path] = node
      /\ \A q \in NodePath : q # e.path => u[q] = t[q]
  <2>1. t \in [NodePath -> MemNode] /\ e.path \in NodePath /\ node \in MemNode
    BY <1>3, SoundType DEF Memory
  <2>2. u = [t EXCEPT ![e.path] = node]
    BY DEF With, u
  <2> HIDE DEF u
  <2>3. QED
    BY <2>1, <2>2 DEF Memory
<1>6. \A q \in NodePath : ~IsNone(t[q]) => u[q] = t[q]
  BY <1>2, <1>5
<1>7. navigate(u, up, TRUE) = a
  <2> Extends(u, t)
    BY <1>6 DEF Extends
  <2>1. t \in Memory /\ u \in Memory /\ up \in Seq(Name) /\ a = Leads(t, up)
        /\ a.err = "ok"
    BY <1>3, <1>4, <1>5 DEF Leads
  <2> HIDE DEF a
  <2>2. Leads(u, up) = a
    BY <2>1, NavigateExtends
  <2>3. QED
    BY <2>2 DEF Leads
<1> HIDE DEF a
<1>8. IsDir(At(u, a.path))
  <2> DEFINE q == a.path
  <2>1. IsDir(At(t, q)) /\ \A x \in NodePath : ~IsNone(t[x]) => u[x] = t[x]
    BY <1>3, <1>6
  <2>2. ~IsNone(At(t, q)) /\ ~IsDir(None)
    BY <2>1, TypeNames
  <2> HIDE DEF q, u
  <2>3. At(u, q) = At(t, q)
    BY <2>2, <2>1, NoneIs DEF At
  <2>4. QED
    BY <2>1, <2>3 DEF q
<1>9. e.path # Root /\ At(u, e.path) = node /\ ~IsNone(node)
  <2>1. e.path \in NodePath /\ u[e.path] = node
    BY <1>3, <1>5
  <2> HIDE DEF u
  <2>2. e.path # Root
    BY <2>1, NodePathType, EmptyPath
  <2>3. At(u, e.path) = node
    BY <2>1, <2>2, Zenon DEF At
  <2>4. ~IsNone(node)
    BY MemoryNode
  <2>5. QED
    BY <2>2, <2>3, <2>4
<1>10. navigate(u, p, FALSE) = At_(e.path)
  <2> DEFINE q == Append(a.path, n)
             b == navigate(u, Append(up, n), FALSE)
  <2>1. b = IF a.err # "ok" THEN a
            ELSE IF ~IsDir(At(u, a.path)) THEN Stuck("NotADirectory")
            ELSE IF IsNone(At(u, q)) THEN Stuck("NotFound") ELSE At_(q)
    <3>1. u \in Memory /\ up \in Seq(Name) /\ n \in Name /\ a = navigate(u, up, TRUE)
          /\ q = Append(a.path, n)
      BY <1>4, <1>5, <1>7
    <3>2. Leads(u, up) = a /\ b = Plainly(u, Append(up, n))
      BY <1>7 DEF Leads, Plainly
    <3> HIDE DEF a, b, q
    <3>3. b = IF a.err # "ok" THEN a
              ELSE IF ~IsDir(At(u, a.path)) THEN Stuck("NotADirectory")
              ELSE IF IsNone(At(u, Append(a.path, n))) THEN Stuck("NotFound")
              ELSE At_(Append(a.path, n))
      BY <3>1, <3>2, PlainEntry
    <3>4. QED
      BY <3>1, <3>3
  <2>2. q = e.path /\ b = navigate(u, p, FALSE)
    BY <1>3, <1>4
  <2> HIDE DEF q, b
  <2>3. QED
    BY <1>3, <1>4, <1>8, <1>9, <2>1, <2>2
<1>11. mem_lstat(u, p) = node
  <2> DEFINE b == navigate(u, p, FALSE)
  <2>1. b = At_(e.path)
    BY <1>10
  <2> HIDE DEF b
  <2>2. NodeOf(u, b) = node
    BY <1>9, <2>1 DEF NodeOf, At_
  <2>3. QED
    BY <2>2 DEF mem_lstat, b
<1>12. r.tree = u
  BY <1>2 DEF Ok
<1>13. QED
  BY <1>5, <1>11, <1>12

(***************************************************************************)
(* A path behind its mount point.                                          *)
(***************************************************************************)
LEMMA RelBack ==
  ASSUME NEW m \in Seq(Name), NEW c \in Seq(Name)
  PROVE  Rel(m \o c, m) = c
<1> DEFINE q == m \o c
           l == Len(m)
           r == SubSeq(q, l + 1, Len(q))
<1>1. q \in Seq(Name) /\ Len(q) = l + Len(c) /\ l \in Nat /\ Len(c) \in Nat /\ l <= Len(q)
  BY Concat
<1>2. \A i \in 1..Len(c) : q[l + i] = c[i]
  OBVIOUS
<1> HIDE DEF q, l
<1>3. r \in Seq(Name) /\ Len(r) = Len(c)
  BY <1>1, CutInTwo
<1>4. \A i \in 1..Len(c) : r[i] = q[l + i]
  BY <1>1
<1> HIDE DEF r
<1>5. \A i \in 1..Len(r) : r[i] = c[i]
  BY <1>2, <1>3, <1>4
<1>6. r = c
  BY <1>3, <1>5, SeqEqual
<1>7. QED
  BY <1>6 DEF r, q, l, Rel

LEMMA BackRel ==
  ASSUME NEW m \in Seq(Name), NEW p \in Seq(Name), StartsWith(p, m)
  PROVE  m \o Rel(p, m) = p
<1>1. Len(m) \in Nat /\ Len(m) <= Len(p) /\ SubSeq(p, 1, Len(m)) = m
  BY DEF StartsWith
<1>2. QED
  BY <1>1, CutInTwo DEF Rel

\* The canonical path that a backend answers leads to its node by itself.
LEMMA CanonicalStays ==
  ASSUME NEW t \in Memory, Rooted(t), NEW p \in Seq(Name),
         NEW a, a = navigate(t, p, TRUE), a.err = "ok"
  PROVE  /\ a.path \in Seq(Name) /\ ~IsNone(At(t, a.path)) /\ a = At_(a.path)
         /\ navigate(t, a.path, TRUE) = a /\ mem_stat(t, p) = At(t, a.path)
         /\ mem_lstat(t, a.path) = At(t, a.path)
<1> DEFINE c == a.path
<1>1. Finds(t, TRUE, a)
  BY NavigateFinds
<1>2. a \in Answers /\ ~IsNone(At(t, c)) /\ ~IsSymlink(At(t, c))
  BY <1>1 DEF Finds
<1>3. c \in Seq(Name) /\ a = At_(c)
  BY <1>2 DEF Answers, At_
<1>4. mem_stat(t, p) = NodeOf(t, a)
  BY DEF mem_stat
<1>5. NodeOf(t, a) = At(t, c)
  BY DEF NodeOf
<1>6. mem_lstat(t, c) = NodeOf(t, navigate(t, c, FALSE))
  BY DEF mem_lstat
<1> HIDE DEF c
<1>7. navigate(t, c, TRUE) = At_(c) /\ navigate(t, c, FALSE) = At_(c)
  BY <1>2, <1>3, StraightWalk
<1>8. mem_lstat(t, c) = NodeOf(t, a)
  BY <1>3, <1>6, <1>7
<1>9. navigate(t, c, TRUE) = a
  BY <1>3, <1>7
<1>10. QED
  BY <1>2, <1>3, <1>4, <1>5, <1>8, <1>9 DEF c

LEMMA CanonHolds ==
  ASSUME Safe, NEW p \in Path
  PROVE  CanonLeadsThere(p, canonicalize(fs, p))
<1> DEFINE mounts == DOMAIN fs
           m == resolve_mount(mounts, p)
           t == fs[m]
           a == navigate(t, Rel(p, m), TRUE)
           r == canonicalize(fs, p)
           q == r.path
<1>1. SUFFICES ASSUME r.err = "ok", OneOwner(q, p)
               PROVE  lstat(fs, q) = stat(fs, p) /\ canonicalize(fs, q) = r
  BY DEF CanonLeadsThere
<1>2. mounts \subseteq Path /\ p \in Seq(Name)
  BY MountAssumption, PathType DEF Safe
<1>3. r = IF m = Nobody THEN Stuck("NotFound") ELSE [a EXCEPT !.path = m \o @]
  BY DEF canonicalize
<1>4. m # Nobody
  <2>1. r.err = "ok"
    BY <1>1
  <2> HIDE DEF r, a, m
  <2>2. QED
    BY <1>3, <2>1 DEF Stuck
<1>5. m \in mounts /\ m \in Path /\ Rel(p, m) \in Seq(Name)
  BY <1>2, <1>4, OwnerIs
<1>6. m \in Seq(Name) /\ t \in Memory /\ Rooted(t)
  BY <1>5, PathType DEF Safe, Sound
<1>7. a \in Answers
  BY <1>5, <1>6, NavigateFinds DEF Finds
<1>8. r = [a EXCEPT !.path = m \o @] /\ a.err = "ok"
  <2>1. r = [a EXCEPT !.path = m \o @]
    BY <1>3, <1>4
  <2> HIDE DEF a, r, m
  <2>2. a.err = r.err
    BY <1>7, <2>1 DEF Answers
  <2>3. QED
    BY <1>1, <2>1, <2>2
<1> DEFINE c == a.path
<1>9. /\ c \in Seq(Name) /\ ~IsNone(At(t, c)) /\ navigate(t, c, TRUE) = a
      /\ mem_stat(t, Rel(p, m)) = At(t, c) /\ mem_lstat(t, c) = At(t, c)
  <2>1. Rel(p, m) \in Seq(Name) /\ t \in Memory /\ Rooted(t) /\ a.err = "ok"
    BY <1>5, <1>6, <1>8
  <2> DEFINE k == Rel(p, m)
  <2>2. k \in Seq(Name) /\ a = navigate(t, k, TRUE)
    BY <2>1
  <2> HIDE DEF a, t, k
  <2>3. /\ a.path \in Seq(Name) /\ ~IsNone(At(t, a.path)) /\ navigate(t, a.path, TRUE) = a
        /\ mem_stat(t, k) = At(t, a.path) /\ mem_lstat(t, a.path) = At(t, a.path)
    BY <2>1, <2>2, CanonicalStays
  <2>4. QED
    BY <2>3 DEF k
<1>10. q = m \o c
  <2> HIDE DEF m, t
  <2>1. a \in Answers /\ r = [a EXCEPT !.path = m \o @]
    BY <1>7, <1>8
  <2> HIDE DEF a, r
  <2>2. QED
    BY <2>1 DEF Answers
<1>11. resolve_mount(mounts, q) = m
  BY <1>1 DEF OneOwner
<1> HIDE DEF r, q, a, c
<1>12. Rel(q, m) = c
  <2> HIDE DEF m
  <2> QED BY <1>6, <1>9, <1>10, RelBack
<1>13. lstat(fs, q) = At(t, c)
  <2>1. lstat(fs, q) = IF IsNone(mem_lstat(t, Rel(q, m))) THEN Synthetic(mounts, q)
                       ELSE mem_lstat(t, Rel(q, m))
    BY <1>4, <1>11 DEF lstat, Probe
  <2> HIDE DEF t, m, mounts
  <2>2. QED
    BY <1>9, <1>12, <2>1
<1>14. stat(fs, p) = At(t, c)
  <2>1. stat(fs, p) = IF IsNone(mem_stat(t, Rel(p, m))) THEN Synthetic(mounts, p)
                      ELSE mem_stat(t, Rel(p, m))
    BY <1>4 DEF stat, Probe
  <2> HIDE DEF t, m, mounts
  <2>2. QED
    BY <1>9, <2>1
<1>15. canonicalize(fs, q) = r
  <2>1. canonicalize(fs, q) = [navigate(t, Rel(q, m), TRUE) EXCEPT !.path = m \o @]
    BY <1>4, <1>11 DEF canonicalize
  <2>2. navigate(t, Rel(q, m), TRUE) = a
    BY <1>9, <1>12
  <2> HIDE DEF t, m, mounts
  <2>3. QED
    BY <1>8, <2>1, <2>2
<1>16. QED
  BY <1>13, <1>14, <1>15

(***************************************************************************)
(* A call of one step, run to its end.                                     *)
(***************************************************************************)
Ends(S, st) == S = [n \in 0..MostSteps |-> IF n = 0 THEN st ELSE Run(S[n - 1])]

LEMMA FinishOne ==
  ASSUME NEW F, NEW steps, NEW st, st = [fs |-> F, err |-> "ok", todo |-> steps],
         NEW r, r = Run(st), r.todo = <<>>
  PROVE  Finish(F, steps) = r
<1> DEFINE g == [n \in 0..MostSteps |-> IF n = 0 THEN st ELSE r]
           S == CHOOSE f : Ends(f, st)
<1>1. Run(r) = r
  BY DEF Run
<1>2. Ends(g, st)
  <2>1. ASSUME NEW n \in 0..MostSteps, n # 0 PROVE Run(g[n - 1]) = r
    <3>1. n - 1 \in 0..MostSteps
      BY <2>1 DEF MostSteps
    <3>2. CASE n = 1
      <4>1. g[n - 1] = st
        BY <3>1, <3>2
      <4> HIDE DEF g
      <4>2. QED
        BY <4>1
    <3>3. CASE n # 1
      <4>1. g[n - 1] = r
        BY <2>1, <3>1, <3>3
      <4> HIDE DEF g
      <4>2. QED
        BY <1>1, <4>1
    <3>4. QED
      BY <3>2, <3>3
  <2>2. g = [n \in 0..MostSteps |-> IF n = 0 THEN st ELSE Run(g[n - 1])]
    BY <2>1
  <2>3. QED
    BY <2>2 DEF Ends
<1>3. Ends(S, st)
  BY <1>2
<1>4. Finish(F, steps) = S[MostSteps]
  BY DEF Finish, Ends
<1> HIDE DEF S, g
<1>5. S[0] = st /\ \A n \in 1..MostSteps : S[n] = Run(S[n - 1])
  BY <1>3 DEF Ends, MostSteps
<1>6. S[1] = r
  <2>1. 1 \in 1..MostSteps /\ S[1 - 1] = st
    BY <1>5 DEF MostSteps
  <2>2. QED
    BY <1>5, <2>1
<1>7. ASSUME NEW n \in 2..MostSteps, S[n - 1] = r PROVE S[n] = r
  BY <1>1, <1>5, <1>7 DEF MostSteps
<1>8. S[2] = r /\ S[3] = r /\ S[4] = r /\ S[5] = r
  BY <1>6, <1>7 DEF MostSteps
<1>9. S[6] = r /\ S[7] = r /\ S[8] = r
  BY <1>7, <1>8 DEF MostSteps
<1>10. QED
  BY <1>4, <1>9 DEF MostSteps

\* A link that was made reads as it was written.
LEMMA NewRuns ==
  ASSUME Safe, NEW p \in Path, NEW node \in MemNode \ {None},
         NEW r, r = Finish(fs, New(fs, p, node)), r.err = "ok",
         NEW m, m = resolve_mount(DOMAIN fs, p)
  PROVE  /\ m # Nobody /\ DOMAIN r.fs = DOMAIN fs
         /\ mem_lstat(r.fs[m], Rel(p, m)) = node
<1> DEFINE mounts == DOMAIN fs
           s == Step(fs, "new", p)
           z == Also(s, "node", node)
           st == [fs |-> fs, err |-> "ok", todo |-> <<z>>]
           x == Run(st)
           e == Effect(fs[m], z)
           i == InsertNew(fs[m], z.p, node)
<1>1. mounts \subseteq Path /\ p \in Seq(Name)
  BY MountAssumption, PathType DEF Safe
<1>2. s = [do |-> "new", m |-> m, p |-> IF m = Nobody THEN Root ELSE Rel(p, m)]
  BY DEF Step
<1> HIDE DEF s
<1>3. z = [do |-> "new", m |-> m, p |-> IF m = Nobody THEN Root ELSE Rel(p, m),
           node |-> node]
  BY <1>2, AlsoIs
<1>4. New(fs, p, node) = <<z>>
  BY DEF New, s
<1> HIDE DEF z
<1>5. /\ z.do = "new" /\ z.m = m /\ z.node = node
      /\ m # Nobody => z.p = Rel(p, m)
  BY <1>3
<1>6. Head(<<z>>) = z /\ Tail(<<z>>) = <<>> /\ <<z>> # <<>>
  OBVIOUS
<1>7. x = IF m = Nobody THEN [fs |-> fs, err |-> "NotFound", todo |-> <<>>]
          ELSE [fs |-> [fs EXCEPT ![m] = e.tree], err |-> e.err,
                todo |-> IF e.err # "ok" THEN <<>> ELSE e.next \o <<>>]
  BY <1>5, <1>6 DEF Run
<1>8. e = Left(i, <<>>)
  <2>1. Effect(fs[m], z) = Left(Single(fs[m], z), <<>>)
    BY <1>5 DEF Effect
  <2>2. Single(fs[m], z) = InsertNew(fs[m], z.p, z.node)
    BY <1>5 DEF Single
  <2>3. QED
    BY <1>5, <2>1, <2>2
<1>9. e.err = i.err /\ e.tree = i.tree /\ e.next = <<>>
  <2> HIDE DEF e, i
  <2> QED BY <1>8 DEF Left
<1>10. x.todo = <<>>
  <2> HIDE DEF e, x
  <2> QED BY <1>7, <1>9
<1>11. r = x
  <2> HIDE DEF x
  <2> QED BY <1>4, <1>10, FinishOne DEF x
<1> HIDE DEF x, e
<1>12. m # Nobody
  BY <1>7, <1>11
<1>13. m \in mounts /\ Rel(p, m) \in Seq(Name) /\ Sound(fs[m])
  BY <1>1, <1>12, OwnerIs DEF Safe
<1>14. e.err = "ok" /\ r.fs = [fs EXCEPT ![m] = e.tree]
  BY <1>7, <1>11, <1>12
<1>15. r.fs[m] = i.tree /\ DOMAIN r.fs = mounts
  BY <1>9, <1>13, <1>14 DEF Safe
<1>16. mem_lstat(i.tree, Rel(p, m)) = node
  <2>1. i = InsertNew(fs[m], Rel(p, m), node) /\ i.err = "ok"
    BY <1>5, <1>9, <1>12, <1>14
  <2> HIDE DEF i
  <2> DEFINE t == fs[m]
             q == Rel(p, m)
  <2>2. Sound(t) /\ q \in Seq(Name) /\ i = InsertNew(t, q, node)
    BY <1>13, <2>1
  <2> HIDE DEF t, q
  <2>3. mem_lstat(i.tree, q) = node
    BY <2>1, <2>2, MadeIsFound
  <2>4. QED
    BY <2>3 DEF q
<1>17. QED
  BY <1>12, <1>15, <1>16

LEMMA LinkHolds ==
  ASSUME Safe, NEW p \in Path, NEW l \in NewLink
  PROVE  LinkReadsBack(l, p, Finish(fs, symlink(fs, l, p)))
<1> DEFINE mounts == DOMAIN fs
           m == resolve_mount(mounts, p)
           r == Finish(fs, symlink(fs, l, p))
           inside == m # Nobody /\ l.abs /\ resolve_mount(mounts, l.to) = m
           text == LinkText(mounts, p, l)
           n == mem_lstat(r.fs[m], Rel(p, m))
<1>1. SUFFICES ASSUME r.err = "ok", m # Root /\ l.abs => OneOwner(l.to, p)
               PROVE  readlink(r.fs, p) = Symlink(l)
  BY DEF LinkReadsBack, Done
<1>2. /\ mounts \in Tables /\ mounts \subseteq Path
      /\ l.abs \in BOOLEAN /\ l.to \in Seq(Name) /\ l = [abs |-> l.abs, to |-> l.to]
  BY MountAssumption, CallAssumption, NodeAssumption DEF Safe
<1>3. symlink(fs, l, p) = New(fs, p, Symlink(text)) /\ text \in Link
  BY <1>2, SymlinkText
<1> HIDE DEF text
<1>4. Symlink(text) \in MemNode \ {None}
  BY <1>3 DEF MemNode, Symlink, None
<1>5. m # Nobody /\ DOMAIN r.fs = mounts /\ n = Symlink(text)
  <2> DEFINE node == Symlink(text)
  <2>1. r = Finish(fs, New(fs, p, node)) /\ r.err = "ok" /\ node \in MemNode \ {None}
    BY <1>1, <1>3, <1>4
  <2> HIDE DEF r, node
  <2>2. m # Nobody /\ DOMAIN r.fs = mounts /\ mem_lstat(r.fs[m], Rel(p, m)) = node
    BY <2>1, NewRuns
  <2>3. QED
    BY <2>2 DEF node
<1> HIDE DEF r
<1>6. readlink(r.fs, p) = IF ~IsSymlink(n) THEN None
                          ELSE IF n.target.abs
                          THEN Symlink([abs |-> TRUE, to |-> m \o n.target.to])
                          ELSE n
  BY <1>5 DEF readlink
<1> HIDE DEF n
<1>7. IsSymlink(n) /\ n.target = text
  BY <1>5 DEF IsSymlink, Symlink
<1>8. m \in Seq(Name)
  BY <1>2, <1>5, OwnerIs, PathType
<1>9. l.abs => [abs |-> TRUE, to |-> l.to] = l
  BY <1>2
<1>10. CASE inside
  <2>1. StartsWith(l.to, m)
    BY <1>2, <1>10, OwnerIs DEF Owners
  <2>2. m \o Rel(l.to, m) = l.to
    BY <1>2, <1>8, <2>1, BackRel
  <2>3. text = [abs |-> l.abs, to |-> Rel(l.to, m)]
    BY <1>2, <1>10 DEF text, LinkText
  <2>4. text.abs /\ text.to = Rel(l.to, m)
    BY <1>10, <2>3
  <2> HIDE DEF m
  <2>5. QED
    BY <1>6, <1>7, <1>9, <1>10, <2>2, <2>4
<1>11. CASE ~inside
  <2>1. text = l
    BY <1>11 DEF text, LinkText
  <2>2. CASE ~l.abs
    BY <1>5, <1>6, <1>7, <2>1, <2>2
  <2>3. CASE l.abs
    <3>1. m = Root
      BY <1>1, <1>5, <1>11, <2>3 DEF OneOwner
    <3>2. m \o l.to = l.to
      BY <1>2, <3>1, Concat, EmptyPath
    <3> HIDE DEF m
    <3>3. QED
      BY <1>6, <1>7, <1>9, <2>1, <2>3, <3>2
  <2>4. QED
    BY <1>2, <2>2, <2>3
<1>12. QED
  BY <1>10, <1>11

\* A link that was made reads as it was written, and a canonical path leads by
\* itself to the node it was found for, whatever the threads have done before
\* and whatever is mounted where (symlink, readlink, canonicalize in
\* mountable.rs; navigate, with_parent_mut in memory.rs).
THEOREM NamesAlwaysSurvive == Spec => []NamesSurvive
<1>1. Safe => NamesSurvive
  <2>1. ASSUME Safe, NEW p \in Arg
        PROVE  /\ \A l \in NewLink : LinkReadsBack(l, p, Finish(fs, symlink(fs, l, p)))
               /\ CanonLeadsThere(p, canonicalize(fs, p))
    <3>1. p \in Path
      BY CallAssumption
    <3>2. QED
      BY <2>1, <3>1, LinkHolds, CanonHolds
  <2>2. QED
    BY <2>1 DEF NamesSurvive
<1>2. QED
  BY <1>1, SafeAlways, PTL

(***************************************************************************)
(* Through a link: to where its text leads, or the walk is refused.        *)
(***************************************************************************)
Refuses(a) == a.err \in {"InvalidPath", "SymlinkLoop"}

\* The same place of a walk that may follow k links more.
More(w, k) == <<w[1], w[2], k>>
Spares(W, w) == \A k \in w[3]..MaxHops : W[w].err = "SymlinkLoop" \/ W[More(w, k)] = W[w]

\* A walk that may follow more links goes the same way.
LEMMA MoreStep ==
  ASSUME NEW t \in Memory, NEW follow, NEW w \in WalkPlace, NEW k \in w[3]..MaxHops,
         NEW x, x = More(w, k)
  PROVE  /\ x \in WalkPlace /\ k \in 0..MaxHops /\ x[3] = k
         /\ Halts(t, follow, w) => \/ Halts(t, follow, x) /\ Answer(t, x) = Answer(t, w)
                                   \/ Answer(t, w) = Stuck("SymlinkLoop")
         /\ ~Halts(t, follow, w) =>
              /\ ~Halts(t, follow, x)
              /\ \E j \in Goes(t, follow, w)[3]..MaxHops :
                   Goes(t, follow, x) = More(Goes(t, follow, w), j)
<1>1. /\ w[1] \in Seq(Name) /\ w[2] \in Seq(Name) /\ w[3] \in 0..MaxHops /\ w[3] \in Nat
      /\ MaxHops \in Nat
  BY PlaceIs, HopAssumption
<1>2. k \in 0..MaxHops /\ k \in Nat /\ w[3] <= k
  BY ONLY <1>1, k \in w[3]..MaxHops
<1>3. /\ x \in WalkPlace /\ x[1] = w[1] /\ x[2] = w[2] /\ x[3] = k
  BY <1>1, <1>2, PlaceIntro DEF More
<1>4. Ahead(x) = Ahead(w) /\ (Turns(t, follow, x) <=> Turns(t, follow, w))
  BY <1>3 DEF Ahead, Turns
<1>5. k = 0 => w[3] = 0
  BY ONLY <1>1, <1>2
<1>6. ASSUME Halts(t, follow, w)
      PROVE  \/ Halts(t, follow, x) /\ Answer(t, x) = Answer(t, w)
             \/ Answer(t, w) = Stuck("SymlinkLoop")
  <2>1. Answer(t, x) = Answer(t, w)
    BY <1>3, <1>4 DEF Answer, Refusal
  <2>2. CASE Halts(t, follow, x)
    BY <2>1, <2>2
  <2>3. CASE ~Halts(t, follow, x)
    <3>1. /\ w[2] # <<>> /\ IsDir(At(t, w[1])) /\ ~IsNone(At(t, Ahead(w)))
          /\ At(t, Ahead(w)).target.abs
      BY <1>3, <1>4, <1>6, <2>3 DEF Halts, Barred
    <3>2. QED
      BY <3>1 DEF Answer, Refusal
  <2>4. QED
    BY <2>2, <2>3
<1>7. ASSUME ~Halts(t, follow, w)
      PROVE  /\ ~Halts(t, follow, x)
             /\ \E j \in Goes(t, follow, w)[3]..MaxHops :
                  Goes(t, follow, x) = More(Goes(t, follow, w), j)
  <2>1. ~Halts(t, follow, x)
    BY <1>3, <1>4, <1>5, <1>7 DEF Halts, Barred
  <2> DEFINE y == Goes(t, follow, w)
  <2>2. CASE Turns(t, follow, w)
    <3> DEFINE b == At(t, Ahead(w)).target.to \o Tail(w[2])
    <3>1. y = <<Root, b, w[3] - 1>> /\ Goes(t, follow, x) = <<Root, b, k - 1>>
      BY <1>3, <1>4, <2>2 DEF Goes
    <3>2. w[3] # 0
      BY <1>7, <2>2 DEF Halts, Barred
    <3>3. k - 1 \in (w[3] - 1)..MaxHops
      BY ONLY <1>1, <1>2, <3>2
    <3> HIDE DEF b, y
    <3>4. y[1] = Root /\ y[2] = b /\ y[3] = w[3] - 1
      BY <3>1
    <3>5. Goes(t, follow, x) = More(y, k - 1) /\ k - 1 \in y[3]..MaxHops
      BY <3>1, <3>3, <3>4 DEF More
    <3>6. QED
      BY <2>1, <3>5 DEF y
  <2>3. CASE ~Turns(t, follow, w)
    <3> DEFINE a == Ahead(w)
               b == Tail(w[2])
    <3>1. y = <<a, b, w[3]>> /\ Goes(t, follow, x) = <<a, b, k>>
      BY <1>3, <1>4, <2>3 DEF Goes
    <3> HIDE DEF a, b, y
    <3>2. y[1] = a /\ y[2] = b /\ y[3] = w[3]
      BY <3>1
    <3>3. Goes(t, follow, x) = More(y, k) /\ k \in y[3]..MaxHops
      BY <3>1, <3>2 DEF More
    <3>4. QED
      BY <2>1, <3>3 DEF y
  <2>4. QED
    BY <2>2, <2>3
<1>8. QED
  BY <1>2, <1>3, <1>6, <1>7

\* A walk that may follow fewer links comes to the same end, or it is one of
\* them short.
LEMMA FewerHops ==
  ASSUME NEW t \in Memory, NEW follow, NEW W, Walks(t, follow, W), NEW w \in WalkPlace
  PROVE  Spares(W, w)
<1> DEFINE B == {x \in WalkPlace : ~Spares(W, x)}
<1>1. SUFFICES B = {}
  OBVIOUS
<1>2. SUFFICES ASSUME NEW x \in B, \A y \in B : ~Closer(y, x) PROVE FALSE
  <2>1. B \subseteq WalkPlace
    OBVIOUS
  <2> HIDE DEF B
  <2>2. QED
    BY <1>2, <2>1, LeastPlace
<1>3. x \in WalkPlace /\ ~Spares(W, x)
  OBVIOUS
<1>4. \A y \in WalkPlace : Closer(y, x) => Spares(W, y)
  BY <1>2
<1> HIDE DEF B
<1>5. PICK k \in x[3]..MaxHops : W[x].err # "SymlinkLoop" /\ W[More(x, k)] # W[x]
  BY <1>3 DEF Spares
<1> DEFINE y == More(x, k)
           z == Goes(t, follow, x)
<1>6. /\ y \in WalkPlace
      /\ Halts(t, follow, x) => \/ Halts(t, follow, y) /\ Answer(t, y) = Answer(t, x)
                                \/ Answer(t, x) = Stuck("SymlinkLoop")
      /\ ~Halts(t, follow, x) =>
           /\ ~Halts(t, follow, y)
           /\ \E j \in z[3]..MaxHops : Goes(t, follow, y) = More(z, j)
  BY <1>3, MoreStep
<1>7. W[x].err # "SymlinkLoop" /\ W[y] # W[x]
  BY <1>5
<1> HIDE DEF y
<1>8. CASE Halts(t, follow, x)
  <2>1. W[x] = Answer(t, x)
    BY <1>3, <1>8 DEF Walks
  <2>2. Stuck("SymlinkLoop").err = "SymlinkLoop"
    BY DEF Stuck
  <2>3. Halts(t, follow, y) /\ Answer(t, y) = Answer(t, x)
    BY <1>6, <1>7, <1>8, <2>1, <2>2
  <2>4. W[y] = Answer(t, y)
    BY <1>6, <2>3 DEF Walks
  <2>5. QED
    BY <1>7, <2>1, <2>3, <2>4
<1>9. CASE ~Halts(t, follow, x)
  <2>1. z \in WalkPlace /\ Closer(z, x)
    BY <1>3, <1>9, GoesOn
  <2>2. Spares(W, z)
    BY <1>4, <2>1
  <2>3. PICK j \in z[3]..MaxHops : Goes(t, follow, y) = More(z, j)
    BY <1>6, <1>9
  <2>4. W[x] = W[z] /\ W[y] = W[More(z, j)]
    BY <1>3, <1>6, <1>9, <2>3 DEF Walks
  <2>5. QED
    BY <1>7, <2>2, <2>3, <2>4 DEF Spares
<1>10. QED
  BY <1>8, <1>9

\* A walk that ended well, and the node it ended at.
LEMMA AtIs ==
  ASSUME NEW a, NEW r, r = At_(a)
  PROVE  r.err = "ok" /\ r.path = a /\ \A t : NodeOf(t, r) = At(t, a)
BY DEF At_, NodeOf

LEMMA RootLeads ==
  ASSUME NEW t \in Memory, NEW follow
  PROVE  navigate(t, Root, follow) = At_(Root)
<1>1. PICK W : /\ Walks(t, follow, W)
               /\ \A x : navigate(t, x, follow) = W[<<Root, x, MaxHops>>]
  BY NavigateIs
<1> DEFINE w == <<Root, Root, MaxHops>>
<1>2. w \in WalkPlace /\ w[1] = Root /\ w[2] = <<>>
  BY StartPlace, EmptyPath
<1>3. navigate(t, Root, follow) = W[w]
  BY <1>1
<1> HIDE DEF w
<1>4. QED
  BY <1>1, <1>2, <1>3 DEF Walks, Halts, Answer

\* The last name of a path apart from the rest.
LEMMA LastName ==
  ASSUME NEW p \in Seq(Name), p # Root
  PROVE  /\ Parent(p) \in Seq(Name) /\ p[Len(p)] \in Name
         /\ p = Append(Parent(p), p[Len(p)])
<1>1. Len(p) \in Nat /\ Len(p) >= 1
  BY DEF Root
<1>2. SubSeq(p, 1, Len(p)) = p
  BY PrefixWhole
<1>3. QED
  BY <1>1, <1>2, PrefixStep DEF Parent

\* What lstat finds is an entry of the directory the rest of the path leads to.
LEMMA EntryFound ==
  ASSUME NEW t \in Memory, NEW p \in Seq(Name), p # Root, NEW n, n = mem_lstat(t, p),
         ~IsNone(n)
  PROVE  \E a \in Seq(Name) :
            /\ Leads(t, Parent(p)) = At_(a) /\ IsDir(At(t, a))
            /\ Plainly(t, p) = At_(Append(a, p[Len(p)]))
            /\ At(t, Append(a, p[Len(p)])) = n
<1> DEFINE up == Parent(p)
           x == p[Len(p)]
           r == Leads(t, up)
           b == Plainly(t, p)
           q == Append(r.path, x)
<1>1. up \in Seq(Name) /\ x \in Name /\ p = Append(up, x)
  BY LastName
<1>2. n = NodeOf(t, b)
  BY DEF mem_lstat, Plainly
<1>3. Finds(t, TRUE, r)
  BY <1>1, NavigateFinds DEF Leads
<1>4. b = IF r.err # "ok" THEN r
          ELSE IF ~IsDir(At(t, r.path)) THEN Stuck("NotADirectory")
          ELSE IF IsNone(At(t, q)) THEN Stuck("NotFound") ELSE At_(q)
  <2>1. Leads(t, up) = r
    OBVIOUS
  <2> HIDE DEF up, x, r
  <2>2. QED
    BY <1>1, <2>1, PlainEntry
<1> HIDE DEF b, r
<1>5. b.err = "ok"
  BY <1>2, NoneIs DEF NodeOf
<1>6. r.err = "ok" /\ IsDir(At(t, r.path)) /\ b = At_(q)
  BY <1>4, <1>5 DEF Stuck
<1>7. r \in Answers
  BY <1>3 DEF Finds
<1>8. r.path \in Seq(Name) /\ r = At_(r.path)
  BY <1>6, <1>7 DEF Answers, At_
<1>9. n = At(t, q)
  BY <1>2, <1>6 DEF NodeOf, At_
<1>10. QED
  BY <1>6, <1>8, <1>9 DEF b, r

LEMMA EndChild ==
  ASSUME NEW t \in Memory, NEW p \in Seq(Name), NEW n \in Name, NEW follow,
         NEW r, Leads(t, p) = r, ~IsSymlink(At(t, Append(r.path, n)))
  PROVE  navigate(t, Append(p, n), follow) =
           IF r.err # "ok" THEN r
           ELSE IF ~IsDir(At(t, r.path)) THEN Stuck("NotADirectory")
           ELSE IF IsNone(At(t, Append(r.path, n))) THEN Stuck("NotFound")
           ELSE At_(Append(r.path, n))
<1>1. Stops(follow, At(t, Append(Leads(t, p).path, n)))
  BY DEF Stops
<1>2. navigate(t, Append(p, n), follow) = Entry(t, Leads(t, p), n)
  BY ONLY <1>1, NavigateEntry, t \in Memory, p \in Seq(Name), n \in Name
<1>3. QED
  BY <1>2 DEF Entry

\* A walk without an end to follow ends where it would without links.
LEMMA LstatIsStat ==
  ASSUME NEW t \in Memory, NEW p \in Seq(Name), NEW n, n = mem_lstat(t, p),
         ~IsNone(n), ~IsSymlink(n)
  PROVE  /\ mem_exists(t, p) /\ mem_stat(t, p) = n
         /\ Leads(t, p) = Plainly(t, p)
<1>1. CASE p = Root
  <2>1. Leads(t, p) = At_(Root) /\ Plainly(t, p) = At_(Root)
    BY <1>1, RootLeads DEF Leads, Plainly
  <2>2. mem_stat(t, p) = At(t, Root) /\ mem_lstat(t, p) = At(t, Root)
    BY <2>1, AtIs DEF mem_stat, mem_lstat, Leads, Plainly
  <2>3. mem_exists(t, p)
    BY <2>1, AtIs DEF mem_exists, Leads
  <2>4. QED
    BY <2>1, <2>2, <2>3
<1>2. CASE p # Root
  <2> DEFINE up == Parent(p)
             x == p[Len(p)]
             b == navigate(t, p, TRUE)
  <2>1. PICK a \in Seq(Name) :
               /\ Leads(t, up) = At_(a) /\ IsDir(At(t, a))
               /\ Plainly(t, p) = At_(Append(a, x)) /\ At(t, Append(a, x)) = n
    BY <1>2, EntryFound
  <2>2. up \in Seq(Name) /\ x \in Name /\ p = Append(up, x)
    BY <1>2, LastName
  <2> DEFINE r == Leads(t, up)
             q == Append(r.path, x)
  <2>3. r = At_(a) /\ r.path = a /\ r.err = "ok" /\ q = Append(a, x)
    <3>1. r = At_(a)
      BY <2>1
    <3> HIDE DEF r
    <3>2. r.err = "ok" /\ r.path = a
      BY <3>1, AtIs
    <3>3. QED
      BY <3>1, <3>2
  <2>4. b = At_(q)
    <3> HIDE DEF up, x, b
    <3>1. r = Leads(t, up) /\ q = Append(r.path, x) /\ ~IsSymlink(At(t, q))
          /\ r.err = "ok" /\ IsDir(At(t, r.path)) /\ ~IsNone(At(t, q))
      BY <2>1, <2>3
    <3> HIDE DEF r, q
    <3>2. ASSUME NEW f PROVE navigate(t, p, f) = At_(q)
      <4>1. navigate(t, Append(up, x), f)
              = IF r.err # "ok" THEN r
                ELSE IF ~IsDir(At(t, r.path)) THEN Stuck("NotADirectory")
                ELSE IF IsNone(At(t, q)) THEN Stuck("NotFound") ELSE At_(q)
        BY <2>2, <3>1, EndChild
      <4>2. QED
        BY <2>2, <3>1, <4>1
    <3>3. \A f : navigate(t, p, f) = At_(q)
      BY <3>2
    <3>4. QED
      BY <3>3 DEF b
  <2>5. b = At_(Append(a, x)) /\ b.err = "ok" /\ b.path = Append(a, x)
    <3>1. b = At_(Append(a, x))
      BY <2>3, <2>4
    <3> HIDE DEF b
    <3>2. QED
      BY <3>1, AtIs
  <2> HIDE DEF b
  <2>6. NodeOf(t, b) = n
    BY <2>1, <2>5 DEF NodeOf
  <2>7. QED
    BY <2>1, <2>5, <2>6 DEF mem_exists, mem_stat, Leads, b
<1>3. QED
  BY <1>1, <1>2

\* A path that ends at a link leads to where its text leads, or is refused.
LEMMA LinkLeads ==
  ASSUME NEW t \in Memory, NEW p \in Seq(Name), NEW n, n = mem_lstat(t, p), IsSymlink(n)
  PROVE  /\ n.target \in Link /\ n.target.to \in Seq(Name)
         /\ \/ Refuses(Leads(t, p))
            \/ n.target.abs /\ Leads(t, p) = Leads(t, n.target.to)
<1> DEFINE up == Parent(p)
           x == p[Len(p)]
<1>1. p # Root
  <2>1. SUFFICES ASSUME p = Root PROVE FALSE
    OBVIOUS
  <2>2. n = At(t, Root)
    <3>1. mem_lstat(t, Root) = At(t, Root)
      BY RootLeads, AtIs DEF mem_lstat, Plainly
    <3>2. QED
      BY <2>1, <3>1
  <2>3. QED
    BY <2>2, RootIsDir
<1>2. up \in Seq(Name) /\ x \in Name /\ p = Append(up, x)
  BY <1>1, LastName
<1>3. PICK a \in Seq(Name) : Leads(t, up) = At_(a) /\ IsDir(At(t, a))
                             /\ At(t, Append(a, x)) = n
  <2>1. ~IsNone(n)
    BY TypeNames
  <2>2. QED
    BY <1>1, <2>1, EntryFound
<1>4. PICK W : /\ Walks(t, TRUE, W)
               /\ \A y : navigate(t, y, TRUE) = W[<<Root, y, MaxHops>>]
  BY NavigateIs
<1> DEFINE w == <<Root, up, MaxHops>>
           v == <<x>>
<1>5. /\ v \in Seq(Name) /\ v # <<>> /\ p = up \o v /\ Head(v) = x /\ Tail(v) = <<>>
  BY <1>2, AppendOne
<1>6. w \in WalkPlace /\ w[1] = Root /\ w[2] = up /\ w[3] = MaxHops
  BY <1>2, StartPlace
<1>7. W[w] = At_(a) /\ Leads(t, p) = W[<<Root, p, MaxHops>>]
  BY <1>3, <1>4 DEF Leads
<1> HIDE DEF w, v
<1>8. Leads(t, p) = W[Longer(w, v)]
  BY <1>5, <1>6, <1>7 DEF Longer
<1>9. Split(W, W, w, v)
  BY <1>4, <1>5, <1>6, WalkSplit
<1>10. W[w].err = "ok" /\ W[w].path = a
  BY <1>7 DEF At_
<1>11. PICK h \in 0..MaxHops : W[Longer(w, v)] = W[<<a, v, h>>]
  BY <1>9, <1>10 DEF Split
<1> DEFINE y == <<a, v, h>>
<1>12. y \in WalkPlace /\ y[1] = a /\ y[2] = v /\ y[3] = h /\ Leads(t, p) = W[y]
  BY <1>5, <1>8, <1>11, PlaceIntro
<1> HIDE DEF y
<1>13. Ahead(y) = Append(a, x) /\ At(t, Ahead(y)) = n /\ y[2] # <<>> /\ Tail(y[2]) = <<>>
  BY <1>3, <1>5, <1>12 DEF Ahead
<1>14. Turns(t, TRUE, y)
  BY <1>13 DEF Turns
<1>15. n.target \in Link /\ n.target.to \in Seq(Name) /\ ~IsNone(n)
  BY <1>13, NodeType, TypeNames
<1>16. CASE Halts(t, TRUE, y)
  <2>1. W[y] = Answer(t, y)
    BY <1>4, <1>12, <1>16 DEF Walks
  <2>2. Answer(t, y) \in {Stuck("InvalidPath"), Stuck("SymlinkLoop")}
    BY <1>3, <1>12, <1>13, <1>15 DEF Answer, Refusal
  <2>3. Refuses(W[y])
    BY <2>1, <2>2 DEF Refuses, Stuck
  <2>4. QED
    BY <1>12, <1>15, <2>3
<1>17. CASE ~Halts(t, TRUE, y)
  <2> DEFINE z == Goes(t, TRUE, y)
             to == n.target.to
             s == <<Root, to, MaxHops>>
  <2>1. n.target.abs
    BY <1>13, <1>14, <1>17 DEF Halts, Barred
  <2>2. z = <<Root, to \o <<>>, h - 1>> /\ to \o <<>> = to
    BY <1>12, <1>13, <1>14, <1>15, EmptyPath, Concat DEF Goes
  <2>3. z \in WalkPlace /\ W[y] = W[z]
    BY <1>4, <1>12, <1>17, GoesOn DEF Walks
  <2>4. Spares(W, z)
    BY <1>4, <2>3, FewerHops
  <2>5. Leads(t, to) = W[s]
    BY <1>4 DEF Leads
  <2>6. z[1] = Root /\ z[2] = to /\ z[3] = h - 1
    <3> HIDE DEF z, to
    <3> QED BY <2>2
  <2>7. MaxHops \in z[3]..MaxHops
    <3>1. z[3] \in 0..MaxHops
      BY <2>3, PlaceIs
    <3>2. QED
      <4>1. MaxHops \in Nat
        BY HopAssumption
      <4> DEFINE j == z[3]
      <4>2. j \in 0..MaxHops
        BY <3>1
      <4> HIDE DEF j
      <4>3. MaxHops \in j..MaxHops
        BY ONLY <4>1, <4>2
      <4>4. QED
        BY <4>3 DEF j
  <2>8. More(z, MaxHops) = s
    BY <2>6 DEF More
  <2> HIDE DEF z, s, to
  <2>9. W[z].err = "SymlinkLoop" \/ W[s] = W[z]
    BY <2>4, <2>7, <2>8 DEF Spares
  <2>10. Refuses(Leads(t, p)) \/ Leads(t, p) = Leads(t, to)
    BY <1>12, <2>3, <2>5, <2>9 DEF Refuses
  <2>11. QED
    BY <1>15, <2>1, <2>10 DEF to
<1>18. QED
  BY <1>16, <1>17

\* An entry of the directory that the rest of a path leads to is what lstat finds.
LEMMA EntryIntro ==
  ASSUME NEW t \in Memory, NEW p \in Seq(Name), p # Root, NEW a,
         Leads(t, Parent(p)) = At_(a), IsDir(At(t, a)),
         ~IsNone(At(t, Append(a, p[Len(p)])))
  PROVE  /\ Plainly(t, p) = At_(Append(a, p[Len(p)]))
         /\ mem_lstat(t, p) = At(t, Append(a, p[Len(p)]))
<1> DEFINE up == Parent(p)
           x == p[Len(p)]
           r == Leads(t, up)
           b == Plainly(t, p)
<1>1. up \in Seq(Name) /\ x \in Name /\ p = Append(up, x)
  BY LastName
<1>2. Leads(t, up) = r
  OBVIOUS
<1>3. r = At_(a) /\ IsDir(At(t, a)) /\ ~IsNone(At(t, Append(a, x)))
  OBVIOUS
<1> HIDE DEF up, x, r
<1>4. Plainly(t, Append(up, x))
        = IF r.err # "ok" THEN r
          ELSE IF ~IsDir(At(t, r.path)) THEN Stuck("NotADirectory")
          ELSE IF IsNone(At(t, Append(r.path, x))) THEN Stuck("NotFound")
          ELSE At_(Append(r.path, x))
  BY <1>1, <1>2, PlainEntry
<1>5. r.err = "ok" /\ r.path = a
  BY <1>3, AtIs
<1>6. b = At_(Append(a, x))
  BY <1>1, <1>3, <1>4, <1>5
<1> HIDE DEF b
<1>7. NodeOf(t, b) = At(t, Append(a, x))
  BY <1>6, AtIs
<1>8. QED
  BY <1>6, <1>7 DEF mem_lstat, Plainly, b, x

\* Where the rest of a path does not lead to a directory with its last name,
\* lstat finds nothing.
LEMMA NoEntry ==
  ASSUME NEW t \in Memory, NEW p \in Seq(Name), p # Root, NEW n, n = mem_lstat(t, p),
         NEW a, Leads(t, Parent(p)).err = "ok" => Leads(t, Parent(p)) = At_(a),
         IsNone(At(t, Append(a, p[Len(p)])))
  PROVE  n = None
<1> DEFINE up == Parent(p)
           x == p[Len(p)]
           r == Leads(t, up)
           b == Plainly(t, p)
<1>1. up \in Seq(Name) /\ x \in Name /\ p = Append(up, x)
  BY LastName
<1>2. Leads(t, up) = r
  OBVIOUS
<1>3. (r.err = "ok" => r = At_(a)) /\ IsNone(At(t, Append(a, x)))
  OBVIOUS
<1> HIDE DEF up, x, r
<1>4. Plainly(t, Append(up, x))
        = IF r.err # "ok" THEN r
          ELSE IF ~IsDir(At(t, r.path)) THEN Stuck("NotADirectory")
          ELSE IF IsNone(At(t, Append(r.path, x))) THEN Stuck("NotFound")
          ELSE At_(Append(r.path, x))
  BY <1>1, <1>2, PlainEntry
<1>5. r.err = "ok" => r.path = a
  BY <1>3, AtIs
<1>6. b.err # "ok"
  <2> DEFINE y == Append(r.path, x)
  <2>1. r.err = "ok" => IsNone(At(t, y))
    BY <1>3, <1>5
  <2>2. b = IF r.err # "ok" THEN r
            ELSE IF ~IsDir(At(t, r.path)) THEN Stuck("NotADirectory")
            ELSE IF IsNone(At(t, y)) THEN Stuck("NotFound") ELSE At_(y)
    BY <1>1, <1>4
  <2> HIDE DEF y, b
  <2>3. b = r \/ b = Stuck("NotADirectory") \/ b = Stuck("NotFound")
    BY <2>1, <2>2
  <2>4. QED
    BY <2>1, <2>2, <2>3 DEF Stuck
<1> HIDE DEF b
<1>7. NodeOf(t, b) = None
  BY <1>6 DEF NodeOf
<1>8. QED
  BY <1>7 DEF mem_lstat, Plainly, b

(***************************************************************************)
(* Two trees of one shape.                                                 *)
(***************************************************************************)
Match(n, o) == n.type = o.type /\ (IsSymlink(o) => n = o)
Alike(u, t) == \A q \in NodePath : Match(u[q], t[q])

LEMMA AlikeAt ==
  ASSUME NEW t \in Memory, NEW u \in Memory, Alike(u, t), NEW p
  PROVE  Match(At(u, p), At(t, p))
BY DEF At, Alike, Match

LEMMA AlikeWalk ==
  ASSUME NEW t \in Memory, NEW u \in Memory, Alike(u, t), NEW follow,
         NEW T, Walks(t, follow, T), NEW U, Walks(u, follow, U),
         NEW w \in WalkPlace
  PROVE  U[w] = T[w]
<1> DEFINE B == {x \in WalkPlace : U[x] # T[x]}
<1>1. SUFFICES B = {}
  OBVIOUS
<1>2. SUFFICES ASSUME NEW x \in B, \A y \in B : ~Closer(y, x) PROVE FALSE
  <2>1. B \subseteq WalkPlace
    OBVIOUS
  <2> HIDE DEF B
  <2>2. QED
    BY <1>2, <2>1, LeastPlace
<1>3. x \in WalkPlace /\ U[x] # T[x]
  OBVIOUS
<1>4. \A y \in WalkPlace : Closer(y, x) => U[y] = T[y]
  BY <1>2
<1> HIDE DEF B
<1> DEFINE n == At(t, Ahead(x))
           o == At(u, Ahead(x))
<1>5. /\ IsDir(At(u, x[1])) <=> IsDir(At(t, x[1]))
      /\ IsNone(o) <=> IsNone(n)
      /\ IsSymlink(o) <=> IsSymlink(n)
      /\ IsSymlink(n) => o = n
  BY AlikeAt DEF Match, IsDir, IsNone, IsSymlink
<1>6. Turns(u, follow, x) <=> Turns(t, follow, x)
  BY <1>5 DEF Turns
<1>7. Turns(t, follow, x) => o = n
  BY <1>5 DEF Turns
<1>8. Halts(u, follow, x) <=> Halts(t, follow, x)
  BY <1>5, <1>6, <1>7 DEF Halts, Barred
<1>9. CASE Halts(t, follow, x)
  <2>1. T[x] = Answer(t, x) /\ U[x] = Answer(u, x)
    BY <1>3, <1>8, <1>9 DEF Walks
  <2>2. CASE x[2] = <<>>
    BY <1>3, <2>1, <2>2 DEF Answer
  <2>3. CASE x[2] # <<>> /\ (~IsDir(At(t, x[1])) \/ IsNone(n))
    BY <1>3, <1>5, <2>1, <2>3 DEF Answer, Refusal
  <2>4. CASE x[2] # <<>> /\ IsDir(At(t, x[1])) /\ ~IsNone(n)
    <3>1. o = n
      BY <1>7, <1>9, <2>4 DEF Halts, Barred
    <3>2. QED
      BY <1>3, <1>5, <2>1, <2>4, <3>1 DEF Answer, Refusal
  <2>5. QED
    BY <2>2, <2>3, <2>4
<1>10. CASE ~Halts(t, follow, x)
  <2>1. Goes(t, follow, x) \in WalkPlace /\ Closer(Goes(t, follow, x), x)
    BY <1>3, <1>10, GoesOn
  <2>2. Goes(u, follow, x) = Goes(t, follow, x)
    BY <1>6, <1>7 DEF Goes
  <2>3. T[x] = T[Goes(t, follow, x)] /\ U[x] = U[Goes(t, follow, x)]
    BY <1>3, <1>8, <1>10, <2>2 DEF Walks
  <2>4. QED
    BY <1>3, <1>4, <2>1, <2>3
<1>11. QED
  BY <1>9, <1>10

\* A walk goes the same way in a tree of the same shape.
LEMMA NavigateAlike ==
  ASSUME NEW t \in Memory, NEW u \in Memory, Alike(u, t), NEW p \in Seq(Name)
  PROVE  /\ Leads(u, p) = Leads(t, p)
         /\ Plainly(u, p) = Plainly(t, p)
<1>1. ASSUME NEW f PROVE navigate(u, p, f) = navigate(t, p, f)
  <2>1. PICK T : /\ Walks(t, f, T)
                 /\ \A x : navigate(t, x, f) = T[<<Root, x, MaxHops>>]
    BY NavigateIs
  <2>2. PICK U : /\ Walks(u, f, U)
                 /\ \A x : navigate(u, x, f) = U[<<Root, x, MaxHops>>]
    BY NavigateIs
  <2> DEFINE w == <<Root, p, MaxHops>>
  <2>3. w \in WalkPlace
    BY StartPlace
  <2>4. navigate(t, p, f) = T[w] /\ navigate(u, p, f) = U[w]
    BY <2>1, <2>2
  <2> HIDE DEF w
  <2>5. QED
    BY <2>1, <2>2, <2>3, <2>4, AlikeWalk
<1>2. \A f : navigate(u, p, f) = navigate(t, p, f)
  BY <1>1
<1>3. QED
  BY <1>2 DEF Leads, Plainly

(***************************************************************************)
(* Trees that keep the links of another.                                   *)
(***************************************************************************)
KeepsLinks(u, t) ==
  \A p \in Seq(Name) : IsSymlink(mem_lstat(t, p)) => mem_lstat(u, p) = mem_lstat(t, p)

LEMMA AlikeKeeps ==
  ASSUME NEW t \in Memory, NEW u \in Memory, Alike(u, t)
  PROVE  KeepsLinks(u, t)
<1>1. ASSUME NEW p \in Seq(Name), IsSymlink(mem_lstat(t, p))
      PROVE  mem_lstat(u, p) = mem_lstat(t, p)
  <2> DEFINE b == Plainly(t, p)
  <2>1. b = Plainly(u, p)
    BY NavigateAlike
  <2>2. mem_lstat(t, p) = NodeOf(t, b) /\ mem_lstat(u, p) = NodeOf(u, b)
    BY <2>1 DEF mem_lstat, Plainly
  <2> HIDE DEF b
  <2>3. b.err = "ok"
    BY <1>1, <2>2, TypeNames DEF NodeOf
  <2>4. Match(At(u, b.path), At(t, b.path))
    BY AlikeAt
  <2>5. QED
    BY <1>1, <2>2, <2>3, <2>4 DEF NodeOf, Match
<1>2. QED
  BY <1>1 DEF KeepsLinks

\* What is added to a tree hides no entry.
LEMMA ExtendsLstat ==
  ASSUME NEW t \in Memory, NEW u \in Memory, Extends(u, t), NEW p \in Seq(Name),
         NEW n, n = mem_lstat(t, p), ~IsNone(n)
  PROVE  mem_lstat(u, p) = n
<1>1. ASSUME NEW q, ~IsNone(At(t, q)) PROVE At(u, q) = At(t, q)
  BY <1>1 DEF At, Extends
<1>2. CASE p = Root
  <2>1. mem_lstat(t, Root) = At(t, Root) /\ mem_lstat(u, Root) = At(u, Root)
    BY RootLeads, AtIs DEF mem_lstat, Plainly
  <2>2. QED
    BY <1>2, <2>1 DEF At
<1>3. CASE p # Root
  <2> DEFINE up == Parent(p)
             x == p[Len(p)]
  <2>1. PICK a \in Seq(Name) : /\ Leads(t, up) = At_(a) /\ IsDir(At(t, a))
                               /\ At(t, Append(a, x)) = n
    BY <1>3, EntryFound
  <2>2. Leads(t, up).err = "ok"
    BY <2>1, AtIs
  <2>3. up \in Seq(Name)
    BY <1>3, LastName
  <2>4. Leads(u, up) = At_(a)
    BY <2>1, <2>2, <2>3, NavigateExtends
  <2>5. At(u, a) = At(t, a) /\ At(u, Append(a, x)) = n
    BY <1>1, <2>1, TypeNames
  <2>6. QED
    BY <1>3, <2>1, <2>4, <2>5, EntryIntro
<1>4. QED
  BY <1>2, <1>3

LEMMA ExtendsKeeps ==
  ASSUME NEW t \in Memory, NEW u \in Memory, Extends(u, t)
  PROVE  KeepsLinks(u, t)
BY ExtendsLstat, TypeNames DEF KeepsLinks

(***************************************************************************)
(* Along trailing links that lead nowhere (resolve_through_dangling).      *)
(***************************************************************************)
HangPlace == Seq(Name) \X (0..MaxHops)

Hangs(t, p) == IsSymlink(mem_lstat(t, p)) /\ ~mem_exists(t, p)
Hung(t, w)  == <<LinkPlace(w[1], mem_lstat(t, w[1]).target), w[2] - 1>>

Hangings(t, D) ==
  \A w \in HangPlace :
    D[w] = IF w[2] = 0 THEN Stuck("SymlinkLoop")
           ELSE IF Hangs(t, w[1]) THEN D[Hung(t, w)] ELSE At_(w[1])

LEMMA HangPlaceIs ==
  ASSUME NEW w \in HangPlace
  PROVE  w[1] \in Seq(Name) /\ w[2] \in 0..MaxHops /\ w[2] \in Nat /\ w = <<w[1], w[2]>>
BY HopAssumption DEF HangPlace

LEMMA HungType ==
  ASSUME NEW t \in Memory, NEW w \in HangPlace, w[2] # 0, Hangs(t, w[1])
  PROVE  /\ Hung(t, w) \in HangPlace /\ Hung(t, w)[2] = w[2] - 1
         /\ Hung(t, w)[1] = LinkPlace(w[1], mem_lstat(t, w[1]).target)
<1>1. w[1] \in Seq(Name) /\ w[2] \in 0..MaxHops /\ w[2] \in Nat
  BY HangPlaceIs
<1> DEFINE q == LinkPlace(w[1], mem_lstat(t, w[1]).target)
           k == w[2]
           z == Hung(t, w)
<1>2. mem_lstat(t, w[1]).target \in Link
  BY <1>1, LinkLeads DEF Hangs
<1>3. q \in Seq(Name)
  BY <1>1, <1>2, LinkPlaceType
<1>4. MaxHops \in Nat
  BY HopAssumption
<1>5. k - 1 \in 0..MaxHops
  <2>1. k \in 0..MaxHops /\ k # 0
    BY <1>1
  <2> HIDE DEF k
  <2>2. QED
    BY ONLY <1>4, <2>1
<1>6. z = <<q, k - 1>>
  BY DEF Hung
<1> HIDE DEF q, z, k
<1>7. z[1] = q /\ z[2] = k - 1 /\ z \in HangPlace
  BY <1>3, <1>5, <1>6 DEF HangPlace
<1>8. QED
  BY <1>7 DEF q, k, z

LEMMA DanglingIs ==
  ASSUME NEW t \in Memory
  PROVE  \E D : /\ Hangings(t, D)
                /\ \A p : resolve_through_dangling(t, p) = D[<<p, MaxHops>>]
<1> DEFINE stop(w) == w[2] = 0 \/ ~Hangs(t, w[1])
           end(w) == IF w[2] = 0 THEN Stuck("SymlinkLoop") ELSE At_(w[1])
           done == {w \in HangPlace : stop(w)}
           nxt == [w \in HangPlace |-> IF stop(w) THEN w ELSE Hung(t, w)]
           val == [w \in HangPlace |-> end(w)]
           P(W) == W = [w \in HangPlace |->
                          IF w[2] = 0 THEN Stuck("SymlinkLoop")
                          ELSE IF Hangs(t, w[1]) THEN W[Hung(t, w)] ELSE At_(w[1])]
           W == CHOOSE f : P(f)
<1>1. ASSUME NEW w \in HangPlace, ~stop(w) PROVE Hung(t, w) \in HangPlace
  BY <1>1, HungType
<1>2. ASSUME NEW w \in HangPlace PROVE end(w) \in Answers
  <2>1. w[1] \in Seq(Name)
    BY HangPlaceIs
  <2>2. QED
    BY <2>1, EmptyPath DEF Answers, Kinds, Stuck, At_
<1>3. nxt \in [HangPlace -> HangPlace] /\ val \in [HangPlace -> Answers]
      /\ done \in SUBSET HangPlace
  <2> HIDE DEF stop, end
  <2> QED BY <1>1, <1>2
<1>4. PICK f : TailRecurs(f, HangPlace, Answers, done, nxt, val)
  <2> HIDE DEF done, nxt, val
  <2> QED BY <1>3, TailRecursionExists
<1>5. P(f)
  <2>1. \A w \in HangPlace : f[w] = IF stop(w) THEN end(w) ELSE f[Hung(t, w)]
    <3> HIDE DEF stop, end
    <3> QED BY <1>4 DEF TailRecurs
  <2>2. ASSUME NEW w \in HangPlace
        PROVE  f[w] = IF w[2] = 0 THEN Stuck("SymlinkLoop")
                      ELSE IF Hangs(t, w[1]) THEN f[Hung(t, w)] ELSE At_(w[1])
    BY <2>1
  <2>3. f = [w \in HangPlace |-> f[w]]
    <3> HIDE DEF done, nxt, val
    <3> QED BY <1>4 DEF TailRecurs
  <2>4. QED
    BY <2>2, <2>3
<1>6. P(W)
  <2> HIDE DEF P
  <2> QED BY <1>5
<1>7. \A p : resolve_through_dangling(t, p) = W[<<p, MaxHops>>]
  <2>1. ASSUME NEW p PROVE resolve_through_dangling(t, p) = W[<<p, MaxHops>>]
    BY DEF resolve_through_dangling, HangPlace, Hangs, Hung
  <2>2. QED
    BY <2>1
<1>8. Hangings(t, W)
  <2> HIDE DEF W
  <2> QED BY <1>6 DEF Hangings
<1>9. QED
  BY <1>7, <1>8

\* Where such links end: at a path that is not one of them; and in any tree that
\* keeps the links, each of them leads to where that path leads, or is refused.
HangsOut(t, u, p, r) ==
  \/ r = Stuck("SymlinkLoop")
  \/ /\ r.path \in Seq(Name) /\ r = At_(r.path) /\ ~Hangs(t, r.path)
     /\ Refuses(Leads(u, p)) \/ Leads(u, p) = Leads(u, r.path)

LEMMA HangingLeads ==
  ASSUME NEW t \in Memory, NEW u \in Memory, KeepsLinks(u, t), NEW D, Hangings(t, D),
         NEW w \in HangPlace
  PROVE  HangsOut(t, u, w[1], D[w])
<1> DEFINE B == {x \in HangPlace : ~HangsOut(t, u, x[1], D[x])}
           S == {x[2] : x \in B}
<1>1. SUFFICES ASSUME B # {} PROVE FALSE
  OBVIOUS
<1>2. S \subseteq Nat /\ S # {}
  <2>1. \A x \in B : x \in HangPlace
    OBVIOUS
  <2> HIDE DEF B
  <2>2. \A x \in B : x[2] \in Nat
    BY <2>1, HangPlaceIs
  <2>3. QED
    BY <1>1, <2>2
<1>3. PICK k \in S : \A j \in S : k <= j
  <2> HIDE DEF S
  <2> QED BY <1>2, LeastNatural
<1>4. PICK x \in B : x[2] = k
  OBVIOUS
<1>5. /\ x \in HangPlace /\ ~HangsOut(t, u, x[1], D[x])
      /\ x[1] \in Seq(Name) /\ k \in Nat /\ x[2] = k
  <2>1. x \in HangPlace /\ ~HangsOut(t, u, x[1], D[x])
    OBVIOUS
  <2> HIDE DEF B, S
  <2>2. QED
    BY <1>4, <2>1, HangPlaceIs
<1>6. \A y \in HangPlace : y[2] < k => HangsOut(t, u, y[1], D[y])
  <2>1. SUFFICES ASSUME NEW y \in HangPlace, y[2] < k, ~HangsOut(t, u, y[1], D[y])
                 PROVE  FALSE
    OBVIOUS
  <2>2. y[2] \in S
    BY <2>1
  <2>3. y[2] \in Nat
    BY <2>1, HangPlaceIs
  <2> HIDE DEF S
  <2>4. QED
    BY <1>3, <1>5, <2>1, <2>2, <2>3
<1> HIDE DEF B, S
<1>7. D[x] = IF x[2] = 0 THEN Stuck("SymlinkLoop")
             ELSE IF Hangs(t, x[1]) THEN D[Hung(t, x)] ELSE At_(x[1])
  BY <1>5 DEF Hangings
<1>8. CASE x[2] = 0
  BY <1>5, <1>7, <1>8 DEF HangsOut
<1>9. CASE x[2] # 0 /\ ~Hangs(t, x[1])
  <2>1. D[x] = At_(x[1]) /\ D[x].path = x[1]
    BY <1>7, <1>9, AtIs
  <2>2. QED
    BY <1>5, <1>9, <2>1 DEF HangsOut
<1>10. CASE x[2] # 0 /\ Hangs(t, x[1])
  <2> DEFINE n == mem_lstat(t, x[1])
             y == Hung(t, x)
             q == LinkPlace(x[1], n.target)
             r == D[y]
  <2>1. y \in HangPlace /\ y[1] = q /\ y[2] < k
    <3>1. y \in HangPlace /\ y[1] = q /\ y[2] = x[2] - 1
      BY <1>5, <1>10, HungType
    <3>2. QED
      BY <1>5, <3>1
  <2>2. HangsOut(t, u, q, r)
    BY <1>6, <2>1
  <2>3. D[x] = r
    BY <1>7, <1>10
  <2>4. mem_lstat(u, x[1]) = n /\ IsSymlink(n)
    BY <1>5, <1>10 DEF KeepsLinks, Hangs
  <2>5. Refuses(Leads(u, x[1])) \/ (n.target.abs /\ Leads(u, x[1]) = Leads(u, n.target.to))
    BY <1>5, <2>4, LinkLeads
  <2>6. n.target.abs => q = n.target.to
    BY DEF LinkPlace
  <2> HIDE DEF n, y, q, r
  <2>7. HangsOut(t, u, x[1], r)
    BY <2>2, <2>5, <2>6 DEF HangsOut
  <2>8. QED
    BY <1>5, <2>3, <2>7
<1>11. QED
  BY <1>8, <1>9, <1>10

LEMMA DanglingLeads ==
  ASSUME NEW t \in Memory, NEW u \in Memory, KeepsLinks(u, t), NEW p \in Seq(Name)
  PROVE  HangsOut(t, u, p, resolve_through_dangling(t, p))
<1>1. PICK D : /\ Hangings(t, D)
               /\ \A x : resolve_through_dangling(t, x) = D[<<x, MaxHops>>]
  BY DanglingIs
<1> DEFINE w == <<p, MaxHops>>
<1>2. w \in HangPlace /\ w[1] = p
  BY HopAssumption DEF HangPlace
<1>3. resolve_through_dangling(t, p) = D[w]
  BY <1>1
<1> HIDE DEF w
<1>4. QED
  BY <1>1, <1>2, <1>3, HangingLeads

LEMMA NodeAt ==
  ASSUME NEW t, NEW p \in NodePath
  PROVE  p # Root /\ At(t, p) = t[p]
<1>1. p # Root
  BY NodePathType, EmptyPath
<1>2. QED
  BY <1>1, Zenon DEF At

(***************************************************************************)
(* What the critical sections of a write leave behind.                     *)
(***************************************************************************)
\* p leads to a file of content c, or is refused.
Carries(t, p, c) ==
  mem_exists(t, p) /\ IsFile(mem_stat(t, p)) /\ mem_stat(t, p).content = c
Wrote(t, p, c) == Refuses(Leads(t, p)) \/ Carries(t, p, c)

LEMMA CarriesBy ==
  ASSUME NEW t, NEW p, NEW q, NEW c, Leads(t, p) = Leads(t, q), Carries(t, q, c)
  PROVE  Carries(t, p, c)
BY DEF Carries, Leads, mem_exists, mem_stat

LEMMA WroteThrough ==
  ASSUME NEW t, NEW u, NEW p, NEW c, NEW r, HangsOut(t, u, p, r), r.err = "ok",
         Carries(u, r.path, c)
  PROVE  Wrote(u, p, c)
<1>1. Refuses(Leads(u, p)) \/ Leads(u, p) = Leads(u, r.path)
  BY DEF HangsOut, Stuck
<1>2. QED
  BY <1>1, CarriesBy DEF Wrote

\* An edit of the node a path leads to is seen through that path, and moves
\* no other.
LEMMA EditFound ==
  ASSUME NEW t, Sound(t), NEW p \in Seq(Name), NEW r, r = Leads(t, p), r.err = "ok",
         r.path # Root, NEW n \in MemNode, n.type = t[r.path].type,
         NEW u, u = With(t, r.path, n)
  PROVE  /\ Sound(u) /\ Alike(u, t) /\ mem_exists(u, p) /\ mem_stat(u, p) = n
         /\ mem_stat(t, p) = t[r.path]
<1>1. r = navigate(t, p, TRUE)
  BY DEF Leads
<1>2. Sound(u)
  BY <1>1, EditIsSound
<1>3. /\ r.path \in NodePath
      /\ IsFile(t[r.path]) \/ IsDir(t[r.path])
      /\ At(t, r.path) = t[r.path]
  BY <1>1, FoundIs
<1>4. t \in Memory /\ u \in Memory
  BY <1>2, SoundType
<1>5. u[r.path] = n /\ \A q \in NodePath : q # r.path => u[q] = t[q]
  BY <1>3, <1>4 DEF With, Memory
<1>6. ~IsSymlink(t[r.path])
  BY <1>3, TypeNames
<1>7. Alike(u, t)
  BY <1>5, <1>6 DEF Alike, Match
<1>8. Leads(u, p) = r
  BY <1>4, <1>7, NavigateAlike
<1>9. At(u, r.path) = n
  BY <1>3, <1>5, NodeAt
<1>10. mem_exists(u, p) /\ mem_stat(u, p) = n
  <2>1. navigate(u, p, TRUE) = r
    BY <1>8 DEF Leads
  <2>2. mem_exists(u, p) <=> r.err = "ok"
    BY <1>8 DEF mem_exists, Leads
  <2>3. mem_stat(u, p) = NodeOf(u, r)
    BY <1>8 DEF mem_stat, Leads
  <2>4. QED
    BY <1>9, <2>2, <2>3 DEF NodeOf
<1>11. mem_stat(t, p) = t[r.path]
  <2>1. mem_stat(t, p) = NodeOf(t, r)
    BY DEF mem_stat, Leads
  <2>2. QED
    BY <1>3, <2>1 DEF NodeOf
<1>12. QED
  BY <1>2, <1>7, <1>10, <1>11

\* A file with another content or mode is one.
LEMMA NewFile ==
  ASSUME NEW n \in MemNode, IsFile(n)
  PROVE  /\ \A c \in SUBSET Chunk :
              LET x == [n EXCEPT !.content = c]
              IN  x \in MemNode /\ x.type = n.type /\ IsFile(x) /\ x.content = c
         /\ \A m \in Mode :
              LET x == [n EXCEPT !.mode = m]
              IN  x \in MemNode /\ x.type = n.type /\ IsFile(x) /\ x.mode = m
                  /\ x.content = n.content
BY DEF MemNode, DirNode, IsFile, None

\* What the first critical section writes is read through the path it was
\* called with.
LEMMA OverwriteHolds ==
  ASSUME NEW t, Sound(t), NEW p \in Seq(Name), NEW c \in SUBSET Chunk,
         NEW r, r = resolve_through_dangling(t, p), r.err = "ok",
         NEW o, o = OverwriteNode(t, r.path, c), o.err = "ok"
  PROVE  Wrote(o.tree, p, c)
<1>1. t \in Memory /\ r.path \in Seq(Name)
  BY SoundType, DanglingType DEF Answers
<1> DEFINE q == Leads(t, r.path)
           u == [t EXCEPT ![q.path].content = c]
           n == [t[q.path] EXCEPT !.content = c]
<1>2. o = IF q.err # "ok" THEN Fail("NotThere", t)
          ELSE IF IsDir(At(t, q.path)) THEN Fail("IsADirectory", t) ELSE Ok(u)
  BY DEF OverwriteNode, Leads
<1> HIDE DEF u
<1>3. q.err = "ok" /\ ~IsDir(At(t, q.path)) /\ o.tree = u
  <2> HIDE DEF q
  <2> QED BY <1>2 DEF Fail, Ok
<1>4. q = navigate(t, r.path, TRUE)
  BY DEF Leads
<1>5. q.path # Root
  <2> HIDE DEF q
  <2> QED BY <1>3, RootIsDir
<1> HIDE DEF q
<1>6. q.path \in NodePath /\ t[q.path] \in MemNode /\ IsFile(t[q.path])
  BY <1>1, <1>3, <1>4, <1>5, FoundIs
<1>7. n \in MemNode /\ n.type = t[q.path].type /\ IsFile(n) /\ n.content = c
  BY <1>6, NewFile
<1>8. u = With(t, q.path, n)
  BY <1>1, <1>6 DEF u, With, Memory
<1> HIDE DEF n
<1>9. Sound(u) /\ Alike(u, t) /\ mem_exists(u, r.path) /\ mem_stat(u, r.path) = n
  BY <1>1, <1>3, <1>5, <1>7, <1>8, EditFound DEF q
<1>10. Carries(u, r.path, c)
  BY <1>7, <1>9 DEF Carries
<1>11. u \in Memory /\ KeepsLinks(u, t)
  BY <1>1, <1>9, SoundType, AlikeKeeps
<1>12. HangsOut(t, u, p, r)
  BY <1>1, <1>11, DanglingLeads
<1>13. QED
  BY <1>3, <1>10, <1>12, WroteThrough

\* An entry put where there was none is found under the path it was put at.
LEMMA PutFound ==
  ASSUME NEW t, Sound(t), NEW p \in Seq(Name), NEW e, e = with_parent_mut(t, p),
         e.err = "ok", NEW u \in Memory, Extends(u, t), ~IsNone(u[e.path])
  PROVE  mem_lstat(u, p) = u[e.path]
<1> DEFINE up == Parent(p)
           x == p[Len(p)]
           a == Leads(t, up)
<1>1. /\ p # Root /\ e.path \in NodePath /\ a.err = "ok" /\ IsDir(At(t, a.path))
      /\ e.path = Append(a.path, x)
  BY EntryIs DEF Leads
<1>2. t \in Memory /\ up \in Seq(Name)
  BY <1>1, SoundType, LastName
<1>3. Leads(u, up) = a
  <2>1. a = Leads(t, up)
    OBVIOUS
  <2> HIDE DEF a, up
  <2>2. QED
    BY <1>1, <1>2, <2>1, NavigateExtends
<1>4. a = At_(a.path)
  <2>1. a = navigate(t, up, TRUE)
    BY DEF Leads
  <2> HIDE DEF a, up
  <2>2. QED
    BY <1>1, <1>2, <2>1, CanonicalStays DEF Sound
<1> HIDE DEF a
<1>5. IsDir(At(u, a.path))
  <2>1. At(u, a.path) = At(t, a.path)
    BY <1>1, TypeNames, NoneIs DEF At, Extends
  <2>2. QED
    BY <1>1, <2>1
<1>6. At(u, e.path) = u[e.path]
  BY <1>1, NodeAt
<1>7. Leads(u, Parent(p)) = At_(a.path)
  BY <1>3, <1>4
<1>8. mem_lstat(u, p) = At(u, Append(a.path, p[Len(p)]))
  BY <1>1, <1>5, <1>6, <1>7, EntryIntro
<1>9. QED
  BY <1>1, <1>6, <1>8

\* What the second critical section inserts is read through the path the write
\* was called with, if nobody came in between.
LEMMA InsertHolds ==
  ASSUME NEW t, Sound(t), NEW p \in Seq(Name), NEW c \in SUBSET Chunk, NEW id \in Nat,
         NEW r, r = resolve_through_dangling(t, p), r.err = "ok",
         OverwriteNode(t, r.path, c).err = "NotThere",
         NEW i, i = InsertNode(t, r.path, c, id), i.err = "ok"
  PROVE  Wrote(i.tree, p, c)
<1> DEFINE q == r.path
           e == with_parent_mut(t, q)
           f == MemFile(c, FileMode, id)
           u == With(Without(t, e.path), e.path, f)
           a == Leads(t, Parent(q))
<1>1. t \in Memory /\ q \in Seq(Name) /\ Rooted(t)
  BY SoundType, DanglingType DEF Answers
<1>2. ~mem_exists(t, q)
  <2>1. SUFFICES ASSUME navigate(t, q, TRUE).err = "ok"
                 PROVE  OverwriteNode(t, q, c).err # "NotThere"
    BY DEF mem_exists
  <2>2. QED
    BY <2>1 DEF OverwriteNode, Fail, Ok
<1>3. ~Hangs(t, q)
  <2>1. KeepsLinks(t, t)
    BY DEF KeepsLinks
  <2>2. HangsOut(t, t, p, r)
    BY <1>1, <2>1, DanglingLeads
  <2>3. QED
    BY <2>2 DEF HangsOut, Stuck
<1>4. ~IsSymlink(mem_lstat(t, q))
  BY <1>2, <1>3 DEF Hangs
<1>5. i = IF e.err # "ok" THEN Fail(e.err, t) ELSE Ok(u)
  BY DEF InsertNode
<1> HIDE DEF u
<1>6. e.err = "ok" /\ i.tree = u
  <2> HIDE DEF e
  <2> QED BY <1>5 DEF Fail, Ok
<1>7. /\ q # Root /\ e.path \in NodePath /\ a.err = "ok" /\ IsDir(At(t, a.path))
      /\ e.path = Append(a.path, q[Len(q)])
  BY <1>1, <1>6, EntryIs DEF Leads
<1>8. e.path # Root /\ At(t, e.path) = t[e.path]
  BY <1>7, NodeAt
<1> HIDE DEF e
<1>9. IsNone(t[e.path])
  <2>1. SUFFICES ASSUME ~IsNone(t[e.path]) PROVE FALSE
    OBVIOUS
  <2>2. a = At_(a.path)
    <3>1. a = navigate(t, Parent(q), TRUE) /\ Parent(q) \in Seq(Name)
      BY <1>1, <1>7, LastName DEF Leads
    <3> HIDE DEF a
    <3>2. QED
      BY <1>1, <1>7, <3>1, CanonicalStays
  <2>3. mem_lstat(t, q) = t[e.path]
    <3>1. Leads(t, Parent(q)) = At_(a.path)
      BY <2>2
    <3> HIDE DEF a, q
    <3>2. QED
      BY <1>1, <1>7, <1>8, <2>1, <3>1, EntryIntro
  <2>4. QED
    BY <1>1, <1>2, <1>4, <2>1, <2>3, LstatIsStat
<1>10. f \in MemNode \ {None} /\ IsFile(f) /\ f.content = c
  BY NodeAssumption DEF MemFile, MemNode, None, IsFile
<1> HIDE DEF f
<1>11. /\ Sound(u) /\ u \in Memory
  BY <1>1, <1>6, InsertNodeIsSound, SoundType
<1>12. u[e.path] = f
  BY <1>7 DEF u, With, Without
<1>13. Extends(u, t)
  <2>1. ASSUME NEW x \in NodePath, ~IsNone(t[x]) PROVE u[x] = t[x]
    <3>1. x # e.path
      BY <1>9, <2>1
    <3>2. u[x] = Without(t, e.path)[x]
      BY <1>7, <3>1 DEF u, With, Without
    <3>3. ~StartsWith(x, e.path)
      <4>1. SUFFICES ASSUME x \in Subtree(e.path) PROVE FALSE
        BY DEF Subtree
      <4>2. x \in Below(e.path)
        BY <1>7, <3>1, <4>1, SubtreeIsSelfAndBelow
      <4>3. e.path \in Above(x)
        BY <1>7, <4>2, BelowIsAbove
      <4>4. IsDir(t[e.path])
        BY <1>1, <2>1, <4>3 DEF Rooted
      <4>5. QED
        BY <1>9, <4>4, TypeNames
    <3>4. QED
      BY <3>2, <3>3 DEF Without
  <2>2. QED
    BY <2>1 DEF Extends
<1>14. ~IsNone(f) /\ ~IsSymlink(f)
  BY <1>10, TypeNames
<1>15. mem_lstat(u, q) = f
  BY <1>1, <1>6, <1>11, <1>12, <1>13, <1>14, PutFound DEF e
<1>16. Carries(u, q, c)
  <2>1. mem_exists(u, q) /\ mem_stat(u, q) = f
    BY <1>1, <1>11, <1>14, <1>15, LstatIsStat
  <2>2. QED
    BY <1>10, <2>1 DEF Carries
<1>17. HangsOut(t, u, p, r)
  BY <1>1, <1>11, <1>13, ExtendsKeeps, DanglingLeads
<1>18. QED
  BY <1>6, <1>16, <1>17, WroteThrough

\* A raw path whose ancestors are directories: what lies there is found.
LEMMA RawFound ==
  ASSUME NEW t, Sound(t), NEW p \in NodePath, ~IsNone(t[p])
  PROVE  mem_lstat(t, p) = t[p]
<1>1. t \in Memory /\ Rooted(t) /\ p \in Seq(Name) /\ At(t, p) = t[p]
  BY SoundType, NodePathType
<1>2. Plainly(t, p) = At_(p)
  BY <1>1, StraightWalk DEF Plainly
<1>3. NodeOf(t, Plainly(t, p)) = t[p]
  BY <1>1, <1>2, AtIs
<1>4. QED
  BY <1>3 DEF mem_lstat, Plainly

\* And where nothing lies, nothing is.
LEMMA RawGone ==
  ASSUME NEW t, Sound(t), NEW p \in NodePath, IsNone(t[p]),
         \A r \in Above(p) : IsDir(t[r])
  PROVE  mem_lstat(t, p) = None
<1> DEFINE up == Parent(p)
           n == mem_lstat(t, p)
<1>1. /\ t \in Memory /\ Rooted(t) /\ p \in Seq(Name) /\ p # Root
      /\ up \in Seq(Name) /\ p[Len(p)] \in Name /\ p = Append(up, p[Len(p)])
  BY SoundType, NodePathType, NodeAt, LastName
<1>2. IsDir(At(t, up))
  <2>1. CASE up = Root
    BY <2>1, RootIsDir
  <2>2. CASE up # Root
    <3>1. Len(p) > 1
      <4>1. Len(up) # 0
        BY <1>1, <2>2 DEF Root
      <4>2. Len(p) = Len(up) + 1 /\ Len(up) \in Nat
        BY <1>1, AppendOne
      <4> HIDE DEF up
      <4>3. QED
        BY <4>1, <4>2
    <3>2. up \in Above(p)
      BY <1>1, <3>1, ParentPath
    <3>3. up \in NodePath
      BY <3>2, AboveType
    <3>4. QED
      BY <3>2, <3>3, NodeAt
  <2>3. QED
    BY <2>1, <2>2
<1>3. Leads(t, up) = At_(up)
  <2>1. ~IsNone(At(t, up)) /\ ~IsSymlink(At(t, up))
    BY <1>2, TypeNames
  <2> HIDE DEF up
  <2>2. \A f : navigate(t, up, f) = At_(up)
    BY <1>1, <2>1, StraightWalk
  <2>3. QED
    BY <2>2 DEF Leads
<1>4. IsNone(At(t, Append(up, p[Len(p)])))
  BY <1>1, NodeAt
<1>5. n = None
  BY <1>1, <1>3, <1>4, NoEntry
<1>6. QED
  BY <1>5

(***************************************************************************)
(* rename within a backend.                                                *)
(***************************************************************************)
Parted(t, src, dst) ==
  /\ src \in NodePath /\ dst \in NodePath /\ ~IsNone(t[src])
  /\ \A r \in Above(src) : IsDir(t[r])

LEMMA RenameIs ==
  ASSUME NEW t, Sound(t), NEW src \in Seq(Name), NEW dst \in Seq(Name),
         NEW u, u = mem_rename(t, src, dst)
  PROVE  \/ u.err # "ok" /\ u.tree = t
         \/ /\ Parted(t, src, dst) /\ u.err # "ok" /\ u.tree = Without(t, src)
            /\ RawParent(Without(t, src), dst).err # "ok"
         \/ /\ Parted(t, src, dst) /\ u = Ok(Moved(t, src, dst))
            /\ \A r \in Above(dst) : IsDir(Without(t, src)[r])
<1> DEFINE gone == Without(t, src)
           to == RawParent(gone, dst)
           from == RawParent(t, src)
           there == src # Root /\ dst # Root /\ ~TooDeepToMove(t, src, dst)
                      /\ from.err = "ok" /\ ~IsNone(At(t, src))
<1>1. \/ u.err # "ok" /\ u.tree = t
      \/ there /\ to.err # "ok" /\ u = Fail(to.err, gone)
      \/ there /\ to.err = "ok" /\ u = Ok(Moved(t, src, dst))
  BY DEF mem_rename, Fail
<1> HIDE DEF gone
<1>2. ASSUME there
      PROVE  Parted(t, src, dst)
  <2>1. src \in NodePath /\ ~IsNone(t[src])
    BY <1>2, NodeType, SoundType
  <2>2. \A r \in Above(src) : IsDir(t[r])
    BY <1>2, RawParentIs
  <2>3. src \in Subtree(src)
    BY <2>1, SubtreeIsSelfAndBelow
  <2>4. Rebase(src, src, dst) \in NodePath
    BY <1>2, <2>1, <2>3 DEF TooDeepToMove
  <2>5. Rebase(src, src, dst) = dst
    <3>1. SubSeq(src, Len(src) + 1, Len(src)) = <<>>
      OBVIOUS
    <3>2. dst \o <<>> = dst
      BY EmptyPath, Concat
    <3>3. QED
      BY <3>1, <3>2 DEF Rebase
  <2>6. QED
    BY <2>1, <2>2, <2>4, <2>5 DEF Parted
<1>3. CASE there /\ to.err # "ok" /\ u = Fail(to.err, gone)
  <2>1. u.err = to.err /\ u.tree = gone
    BY <1>3 DEF Fail
  <2>2. QED
    BY <1>2, <1>3, <2>1 DEF gone
<1>4. CASE there /\ to.err = "ok" /\ u = Ok(Moved(t, src, dst))
  <2>1. \A r \in Above(dst) : IsDir(gone[r])
    BY <1>4, RawParentIs
  <2>2. QED
    BY <1>2, <1>4, <2>1 DEF gone
<1>5. QED
  BY <1>1, <1>3, <1>4

\* A rename that fails loses its source only where the destination's directory
\* is not there once the source is gone.
LEMMA RenameFails ==
  ASSUME NEW t, Sound(t), NEW src \in Seq(Name), NEW dst \in Seq(Name),
         NEW u, u = mem_rename(t, src, dst), u.err # "ok", u.tree # t
  PROVE  dst # Root /\ \E r \in Above(dst) : ~IsDir(Without(t, src)[r])
<1> DEFINE gone == Without(t, src)
<1>1. Parted(t, src, dst) /\ RawParent(gone, dst).err # "ok"
  BY RenameIs DEF Ok
<1>2. dst # Root
  BY <1>1, NodeAt DEF Parted
<1> HIDE DEF gone
<1>3. \E r \in Above(dst) : ~IsDir(gone[r])
  <2>1. SUFFICES ASSUME \A r \in Above(dst) : IsDir(gone[r]) PROVE FALSE
    OBVIOUS
  <2>2. \A r \in Above(dst) : ~IsNone(gone[r])
    BY <2>1, TypeNames
  <2>3. RawParent(gone, dst) = At_(Parent(dst))
    BY <2>1, <2>2 DEF RawParent
  <2>4. QED
    BY <1>1, <2>3, AtIs
<1>4. QED
  BY <1>2, <1>3 DEF gone

\* What was renamed is found at its new place and, unless it was put on top of
\* itself, nothing is left at the old one.
LEMMA RenameHolds ==
  ASSUME NEW t, Sound(t), NEW src \in Seq(Name), NEW dst \in Seq(Name),
         NEW u, u = mem_rename(t, src, dst), u.err = "ok"
  PROVE  /\ ~IsNone(mem_lstat(t, src)) /\ mem_lstat(u.tree, dst) = mem_lstat(t, src)
         /\ ~StartsWith(src, dst) => mem_lstat(u.tree, src) = None
<1> DEFINE v == Moved(t, src, dst)
<1>1. /\ src \in NodePath /\ dst \in NodePath /\ ~IsNone(t[src])
      /\ \A r \in Above(src) : IsDir(t[r])
      /\ \A r \in Above(dst) : IsDir(Without(t, src)[r])
      /\ u = Ok(v)
  BY RenameIs DEF Parted
<1>2. u.tree = v /\ Sound(v)
  BY <1>1, MoveIsSound DEF Ok
<1>3. \A q \in NodePath : v[q] = IF StartsWith(q, dst) THEN At(t, Rebase(q, dst, src))
                                 ELSE IF StartsWith(q, src) THEN None ELSE t[q]
  BY DEF Moved
<1> HIDE DEF v
<1>4. mem_lstat(t, src) = t[src]
  BY <1>1, RawFound
<1>5. mem_lstat(v, dst) = t[src]
  <2>1. StartsWith(dst, dst)
    BY <1>1, SubtreeIsSelfAndBelow DEF Subtree
  <2>2. Rebase(dst, dst, src) = src
    <3>1. SubSeq(dst, Len(dst) + 1, Len(dst)) = <<>>
      OBVIOUS
    <3>2. src \o <<>> = src
      BY EmptyPath, Concat
    <3>3. QED
      BY <3>1, <3>2 DEF Rebase
  <2>3. v[dst] = t[src]
    BY <1>1, <1>3, <2>1, <2>2, NodeAt
  <2>4. QED
    BY <1>1, <1>2, <2>3, RawFound
<1>6. ASSUME ~StartsWith(src, dst) PROVE mem_lstat(v, src) = None
  <2>1. StartsWith(src, src)
    BY <1>1, SubtreeIsSelfAndBelow DEF Subtree
  <2>2. v[src] = None
    BY <1>1, <1>3, <1>6, <2>1
  <2>3. ASSUME NEW r \in Above(src) PROVE IsDir(v[r])
    <3>1. r \in NodePath /\ IsDir(t[r])
      BY <1>1, <2>3, AboveType
    <3>2. src \notin Subtree(dst)
      BY <1>6 DEF Subtree
    <3>3. ~StartsWith(r, dst)
      BY <1>1, <2>3, <3>1, <3>2, OutsideSubtree DEF Subtree
    <3>4. ~StartsWith(r, src)
      <4>1. Len(r) < Len(src) /\ Len(r) \in Nat /\ Len(src) \in Nat
        BY <1>1, <2>3, AboveType, NodePathType
      <4>2. QED
        BY <4>1 DEF StartsWith
    <3>5. QED
      BY <1>3, <3>1, <3>3, <3>4
  <2>4. IsNone(v[src])
    BY <2>2, NoneIs
  <2>5. QED
    BY <1>1, <1>2, <2>3, <2>4, RawGone
<1>7. QED
  BY <1>1, <1>2, <1>4, <1>5, <1>6

\* A directory that was made is one.
LEMMA MkdirHolds ==
  ASSUME NEW t, Sound(t), NEW p \in Seq(Name),
         NEW u, u = InsertNew(t, p, Dir(DirMode)), u.err = "ok"
  PROVE  IsDir(mem_stat(u.tree, p))
<1> DEFINE d == Dir(DirMode)
<1>1. d \in MemNode \ {None} /\ IsDir(d) /\ ~IsNone(d) /\ ~IsSymlink(d)
  BY NodeAssumption DEF MemNode, DirNode, Dir, IsDir, IsNone, IsSymlink, None
<1> HIDE DEF d
<1>2. u.tree \in Memory /\ mem_lstat(u.tree, p) = d
  BY <1>1, MadeIsFound DEF d
<1>3. QED
  BY <1>1, <1>2, LstatIsStat

LEMMA MkdirpHolds ==
  ASSUME NEW t, Sound(t), NEW p \in Path, NEW u, u = mem_mkdir_p(t, p), u.err = "ok"
  PROVE  IsDir(mem_stat(u.tree, p))
<1> DEFINE made == [q \in NodePath |-> IF q \in UpTo(p) /\ IsNone(t[q])
                                       THEN Dir(DirMode) ELSE t[q]]
<1>1. (\A r \in UpTo(p) : ~IsLeaf(t[r])) /\ u.tree = made
  BY DEF mem_mkdir_p, Fail, Ok
<1>2. \A q \in NodePath : made[q] = IF q \in UpTo(p) /\ IsNone(t[q])
                                    THEN Dir(DirMode) ELSE t[q]
  OBVIOUS
<1> HIDE DEF made
<1>3. p \in Seq(Name) /\ Sound(made)
  BY <1>1, PathType, MkdirIsSound
<1>4. made \in Memory /\ Rooted(made)
  BY <1>3, SoundType
<1>5. IsDir(At(made, p))
  <2>1. CASE p = Root
    BY <2>1, RootIsDir
  <2>2. CASE p \in NodePath
    <3>1. p \in UpTo(p)
      BY <2>2, UpToIsAboveAndSelf
    <3>2. ~IsLeaf(t[p]) /\ t[p] \in MemNode
      BY <1>1, <2>2, <3>1, SoundType
    <3>3. IsNone(t[p]) \/ IsDir(t[p])
      BY <3>2, MemoryNode, TypeNames
    <3>4. IsDir(made[p])
      BY <1>2, <2>2, <3>1, <3>3 DEF Dir, IsDir
    <3>5. QED
      BY <2>2, <3>4, NodeAt
  <2>3. QED
    BY <2>1, <2>2 DEF Path
<1>6. Leads(made, p) = At_(p)
  <2>1. ~IsNone(At(made, p)) /\ ~IsSymlink(At(made, p))
    BY <1>5, TypeNames
  <2>2. \A f : navigate(made, p, f) = At_(p)
    BY <1>3, <1>4, <2>1, StraightWalk
  <2>3. QED
    BY <2>2 DEF Leads
<1>7. NodeOf(made, Leads(made, p)) = At(made, p)
  BY <1>6, AtIs
<1>8. QED
  BY <1>1, <1>5, <1>7 DEF mem_stat, Leads

\* What was removed is gone.
LEMMA RemoveHolds ==
  ASSUME NEW t, Sound(t), NEW p \in Seq(Name), NEW types, NEW full,
         NEW u, u = RemoveEntry(t, p, types, full), u.err = "ok"
  PROVE  mem_lstat(u.tree, p) = None
<1> DEFINE r == with_parent_mut(t, p)
           v == Without(t, r.path)
           up == Parent(p)
           a == Leads(t, up)
<1>1. r.err = "ok" /\ u = Ok(v)
  BY DEF RemoveEntry, Fail
<1>2. /\ p # Root /\ r.path \in NodePath /\ a.err = "ok" /\ IsDir(At(t, a.path))
      /\ r.path = Append(a.path, p[Len(p)])
  BY <1>1, EntryIs DEF Leads
<1> HIDE DEF r
<1>3. t \in Memory /\ v \in Memory /\ v[r.path] = None /\ u.tree = v
  BY <1>1, <1>2, CutIsSound, SoundType DEF Ok
<1>4. up \in Seq(Name)
  BY <1>2, LastName
<1>5. a = At_(a.path)
  <2>1. a = navigate(t, up, TRUE)
    BY DEF Leads
  <2> HIDE DEF a, up
  <2>2. QED
    BY <1>2, <1>3, <1>4, <2>1, CanonicalStays DEF Sound
<1>6. Extends(t, v)
  <2>1. ASSUME NEW q \in NodePath, ~IsNone(v[q]) PROVE t[q] = v[q]
    BY <2>1, NoneIs DEF Without
  <2> HIDE DEF v
  <2>2. QED
    BY <2>1 DEF Extends
<1> HIDE DEF v
<1>7. Leads(v, up).err = "ok" => Leads(v, up) = At_(a.path)
  <2>1. ASSUME Leads(v, up).err = "ok" PROVE Leads(t, up) = Leads(v, up)
    <3> DEFINE b == Leads(v, up)
    <3>1. b = Leads(v, up) /\ b.err = "ok"
      BY <2>1
    <3> HIDE DEF b, up
    <3>2. Leads(t, up) = b
      BY <1>3, <1>4, <1>6, <3>1, NavigateExtends
    <3>3. QED
      BY <3>2 DEF b
  <2>2. QED
    BY <1>5, <2>1
<1>8. IsNone(At(v, Append(a.path, p[Len(p)])))
  BY <1>2, <1>3, NodeAt, NoneIs
<1>9. QED
  <2> DEFINE b == a.path
             n == mem_lstat(v, p)
  <2>1. /\ Leads(v, Parent(p)).err = "ok" => Leads(v, Parent(p)) = At_(b)
        /\ IsNone(At(v, Append(b, p[Len(p)])))
    BY <1>7, <1>8
  <2> HIDE DEF b
  <2>2. n = None
    BY <1>2, <1>3, <2>1, NoEntry
  <2>3. QED
    BY <1>3, <2>2

\* The rest of a path that leads somewhere leads to a directory.
LEMMA RestLeads ==
  ASSUME NEW t \in Memory, NEW p \in Seq(Name), p # Root, Leads(t, p).err = "ok"
  PROVE  \E a \in Seq(Name) :
            /\ Leads(t, Parent(p)) = At_(a) /\ IsDir(At(t, a))
            /\ ~IsNone(At(t, Append(a, p[Len(p)])))
<1> DEFINE up == Parent(p)
           x == p[Len(p)]
           r == Leads(t, up)
           v == <<x>>
           w == <<Root, up, MaxHops>>
<1>1. up \in Seq(Name) /\ x \in Name /\ p = Append(up, x)
  BY LastName
<1>2. PICK W : /\ Walks(t, TRUE, W)
               /\ \A y : navigate(t, y, TRUE) = W[<<Root, y, MaxHops>>]
  BY NavigateIs
<1>3. /\ v \in Seq(Name) /\ v # <<>> /\ p = up \o v /\ Head(v) = x /\ Tail(v) = <<>>
  BY <1>1, AppendOne
<1>4. w \in WalkPlace /\ w[1] = Root /\ w[2] = up /\ w[3] = MaxHops
  BY <1>1, StartPlace
<1>5. r = W[w] /\ Leads(t, p) = W[<<Root, p, MaxHops>>]
  BY <1>2 DEF Leads
<1> HIDE DEF w, v
<1>6. Leads(t, p) = W[Longer(w, v)]
  BY <1>3, <1>4, <1>5 DEF Longer
<1>7. Split(W, W, w, v)
  BY <1>2, <1>3, <1>4, WalkSplit
<1>8. r.err = "ok"
  BY <1>5, <1>6, <1>7 DEF Split
<1>9. PICK h \in 0..MaxHops : W[Longer(w, v)] = W[<<r.path, v, h>>]
  BY <1>5, <1>7, <1>8 DEF Split
<1>10. r.path \in Seq(Name) /\ r = At_(r.path)
  <2>1. r \in Answers
    BY <1>1, NavigateFinds DEF Finds, Leads
  <2> HIDE DEF r
  <2>2. QED
    BY <1>8, <2>1 DEF Answers, At_
<1> DEFINE y == <<r.path, v, h>>
<1>11. y \in WalkPlace /\ y[1] = r.path /\ y[2] = v /\ W[y].err = "ok"
  BY <1>3, <1>6, <1>9, <1>10, PlaceIntro
<1> HIDE DEF y, r
<1>12. Ahead(y) = Append(r.path, x) /\ y[2] # <<>>
  BY <1>3, <1>11 DEF Ahead
<1>13. IsDir(At(t, r.path)) /\ ~IsNone(At(t, Append(r.path, x)))
  <2>1. SUFFICES ASSUME ~(IsDir(At(t, r.path)) /\ ~IsNone(At(t, Append(r.path, x))))
                 PROVE  FALSE
    OBVIOUS
  <2>2. Halts(t, TRUE, y)
    BY <1>11, <1>12, <2>1 DEF Halts, Barred
  <2>3. W[y] = Answer(t, y)
    BY <1>2, <1>11, <2>2 DEF Walks
  <2>4. Answer(t, y).err # "ok"
    BY <1>12 DEF Answer, Stuck, Refusal
  <2>5. QED
    BY <1>11, <2>3, <2>4
<1>14. QED
  BY <1>10, <1>13 DEF r

\* A path that leads to a file can be removed.
LEMMA RemoveReady ==
  ASSUME NEW t, Sound(t), NEW p \in Seq(Name), IsFile(mem_stat(t, p)),
         NEW types, "File" \in types, "Symlink" \in types, NEW full, full = TRUE,
         NEW o, o = RemoveEntry(t, p, types, full)
  PROVE  o.err = "ok"
<1> DEFINE up == Parent(p)
           x == p[Len(p)]
           r == with_parent_mut(t, p)
<1>1. t \in Memory
  BY SoundType
<1>2. Leads(t, p).err = "ok"
  BY TypeNames DEF mem_stat, NodeOf, Leads
<1>3. p # Root
  <2>1. SUFFICES ASSUME p = Root PROVE FALSE
    OBVIOUS
  <2>2. mem_stat(t, Root) = At(t, Root)
    <3>1. Leads(t, Root) = At_(Root)
      BY <1>1, RootLeads DEF Leads
    <3>2. NodeOf(t, Leads(t, Root)) = At(t, Root)
      BY <3>1, AtIs
    <3>3. QED
      BY <3>2 DEF mem_stat, Leads
  <2>3. QED
    BY <2>1, <2>2, RootIsDir, TypeNames
<1>4. PICK a \in Seq(Name) : /\ Leads(t, up) = At_(a) /\ IsDir(At(t, a))
                             /\ ~IsNone(At(t, Append(a, x)))
  BY <1>1, <1>2, <1>3, RestLeads
<1>5. up \in Seq(Name) /\ x \in Name /\ p = Append(up, x)
  BY <1>3, LastName
<1> DEFINE e == Append(a, x)
<1>6. e \in NodePath /\ Len(a) + 1 <= MaxDepth /\ At(t, e) = t[e] /\ t[e] \in MemNode
      /\ Len(a) \in Nat
  <2>1. e # Root /\ Len(e) = Len(a) + 1 /\ Len(a) \in Nat
    <3>1. Len(a) \in Nat /\ x \in Name
      BY <1>5
    <3> HIDE DEF x
    <3>2. QED
      BY <3>1, AppendOne
  <2>2. e \in NodePath
    BY <1>1, <1>4, <2>1, NodeType
  <2> HIDE DEF e
  <2>3. QED
    BY <2>1, <2>2, NodePathType, SoundType
<1>7. ~IsDir(t[e])
  <2>1. SUFFICES ASSUME IsDir(t[e]) PROVE FALSE
    OBVIOUS
  <2>2. mem_lstat(t, p) = t[e]
    BY <1>1, <1>3, <1>4, <1>6, EntryIntro
  <2>3. mem_stat(t, p) = t[e]
    BY <1>1, <2>1, <2>2, LstatIsStat, TypeNames
  <2>4. QED
    BY <2>1, <2>3, TypeNames
<1>8. t[e].type \in types /\ ~IsNone(t[e])
  BY <1>4, <1>6, <1>7, MemoryNode DEF IsFile, IsSymlink
<1>9. r = At_(e)
  <2> DEFINE b == navigate(t, up, TRUE)
  <2>1. b = At_(a)
    BY <1>4 DEF Leads
  <2> HIDE DEF b
  <2>2. b.err = "ok" /\ b.path = a
    BY <2>1, AtIs
  <2>3. MaxDepth \in Nat
    BY PathAssumption
  <2>4. ~(Len(b.path) >= MaxDepth)
    BY <1>6, <2>2, <2>3
  <2>5. r = IF b.err # "ok" THEN b
            ELSE IF ~IsDir(At(t, b.path)) THEN Stuck("NotADirectory")
            ELSE IF Len(b.path) >= MaxDepth THEN Stuck("TooDeep")
            ELSE At_(Append(b.path, x))
    BY <1>3 DEF with_parent_mut, b
  <2>6. QED
    BY <1>4, <2>2, <2>4, <2>5
<1> HIDE DEF r, e
<1>10. r.err = "ok" /\ r.path = e
  BY <1>9, AtIs
<1>11. PICK v : o = Ok(v)
  BY <1>8, <1>10 DEF RemoveEntry, r
<1>12. QED
  BY <1>11 DEF Ok

\* What is appended to a file is read after what it held.
LEMMA ExtendHolds ==
  ASSUME NEW t, Sound(t), NEW p \in Seq(Name), NEW c \in SUBSET Chunk,
         NEW a, a = AppendNode(t, p, c), a.err = "ok"
  PROVE  IsFile(mem_stat(t, p)) /\ Carries(a.tree, p, mem_stat(t, p).content \cup c)
<1> DEFINE r == Leads(t, p)
           n == [t[r.path] EXCEPT !.content = @ \cup c]
           u == With(t, r.path, n)
<1>1. r.err = "ok" /\ ~IsDir(NodeOf(t, r))
      /\ a = IF r.path = Root THEN Ok(t) ELSE Ok(u)
  BY DEF AppendNode, Edit, Fail, mem_stat, Leads
<1>2. r.path # Root
  BY <1>1, RootIsDir DEF NodeOf
<1>3. a.tree = u
  <2> HIDE DEF u
  <2> QED BY <1>1, <1>2 DEF Ok
<1>4. r = navigate(t, p, TRUE)
  BY DEF Leads
<1> HIDE DEF r
<1>5. t[r.path] \in MemNode /\ IsFile(t[r.path])
  BY <1>1, <1>2, <1>4, FoundIs DEF NodeOf
<1> DEFINE old == t[r.path]
           d == old.content \cup c
<1>6. d \in SUBSET Chunk
  BY <1>5, MemoryNode
<1>7. n = [old EXCEPT !.content = d]
  OBVIOUS
<1> HIDE DEF d, old, n
<1>8. n \in MemNode /\ n.type = t[r.path].type /\ IsFile(n) /\ n.content = d
  BY <1>5, <1>6, <1>7, NewFile DEF old
<1>9. mem_exists(u, p) /\ mem_stat(u, p) = n /\ mem_stat(t, p) = old
  BY <1>1, <1>2, <1>8, EditFound DEF r, old
<1>10. QED
  BY <1>3, <1>5, <1>8, <1>9 DEF Carries, d, old

\* Setting the mode of what was written fails only where the write went through
\* a link that a walk refuses.
LEMMA ChmodWritten ==
  ASSUME NEW t, Sound(t), NEW p \in Seq(Name), NEW c, Wrote(t, p, c), NEW m \in Mode,
         NEW k, k = mem_chmod(t, p, m)
  PROVE  /\ k.err = "ok" => Carries(k.tree, p, c) /\ mem_stat(k.tree, p).mode = m
         /\ k.err # "ok" => k.tree = t /\ Refuses(Leads(t, p))
<1> DEFINE r == Leads(t, p)
           n == [t[r.path] EXCEPT !.mode = m]
           u == With(t, r.path, n)
<1>1. k = IF r.err # "ok" THEN Fail(r.err, t)
          ELSE IF r.path = Root THEN Ok(t) ELSE Ok(u)
  BY DEF mem_chmod, Edit, Leads
<1>2. CASE r.err # "ok"
  <2>1. ~mem_exists(t, p)
    BY <1>2 DEF mem_exists, Leads
  <2>2. Refuses(r)
    BY <2>1 DEF Wrote, Carries
  <2> HIDE DEF r, u
  <2>3. k.err # "ok" /\ k.tree = t
    BY <1>1, <1>2 DEF Fail
  <2>4. QED
    BY <2>2, <2>3 DEF r
<1>3. CASE r.err = "ok"
  <2>1. Carries(t, p, c)
    BY <1>3 DEF Wrote, Refuses
  <2>2. IsFile(NodeOf(t, r)) /\ NodeOf(t, r).content = c
    BY <2>1 DEF Carries, mem_stat, Leads
  <2>3. r.path # Root
    BY <1>3, <2>2, RootIsDir, TypeNames DEF NodeOf
  <2>4. r = navigate(t, p, TRUE)
    BY DEF Leads
  <2> HIDE DEF r, u
  <2>5. /\ t[r.path] \in MemNode /\ At(t, r.path) = t[r.path]
    BY <1>3, <2>3, <2>4, FoundIs
  <2>6. IsFile(t[r.path]) /\ t[r.path].content = c
    BY <1>3, <2>2, <2>5 DEF NodeOf
  <2>7. k.err = "ok" /\ k.tree = u
    BY <1>1, <1>3, <2>3 DEF Ok
  <2>8. /\ n \in MemNode /\ n.type = t[r.path].type /\ IsFile(n)
        /\ n.mode = m /\ n.content = c
    BY <2>5, <2>6, NewFile
  <2> HIDE DEF n
  <2>9. mem_exists(u, p) /\ mem_stat(u, p) = n
    BY <1>3, <2>3, <2>8, EditFound DEF r, u
  <2>10. QED
    BY <2>7, <2>8, <2>9 DEF Carries
<1>4. QED
  BY <1>2, <1>3

(***************************************************************************)
(* A critical section that fails leaves its tree alone.                    *)
(***************************************************************************)
Quiet(u, t) == u.err # "ok" => u.tree = t
OneStepCalls ==
  {"insert", "extend", "chmod", "utimes", "remove", "new", "mkdir_p", "no dir",
   "refuse"}

LEMMA FailIsQuiet ==
  ASSUME NEW t, NEW u, (\E e : u = Fail(e, t)) \/ (\E v : u = Ok(v))
  PROVE  Quiet(u, t)
BY DEF Quiet, Fail, Ok

LEMMA EditIsQuiet ==
  ASSUME NEW t, NEW p, NEW m, NEW c
  PROVE  /\ Quiet(mem_chmod(t, p, m), t) /\ Quiet(mem_utimes(t, p), t)
         /\ Quiet(AppendNode(t, p, c), t)
<1> DEFINE r == Leads(t, p)
<1>1. Quiet(mem_chmod(t, p, m), t)
  <2>1. mem_chmod(t, p, m) =
          IF r.err # "ok" THEN Fail(r.err, t)
          ELSE IF r.path = Root THEN Ok(t)
          ELSE Ok(With(t, r.path, [t[r.path] EXCEPT !.mode = m]))
    BY DEF mem_chmod, Edit, Leads
  <2> HIDE DEF r
  <2>2. QED
    BY <2>1, FailIsQuiet
<1>2. Quiet(mem_utimes(t, p), t)
  <2>1. mem_utimes(t, p) =
          IF r.err # "ok" THEN Fail(r.err, t)
          ELSE IF r.path = Root THEN Ok(t) ELSE Ok(With(t, r.path, t[r.path]))
    BY DEF mem_utimes, Edit, Leads
  <2> HIDE DEF r
  <2>2. QED
    BY <2>1, FailIsQuiet
<1>3. Quiet(AppendNode(t, p, c), t)
  <2>1. AppendNode(t, p, c) =
          IF IsDir(mem_stat(t, p)) THEN Fail("IsADirectory", t)
          ELSE IF r.err # "ok" THEN Fail(r.err, t)
          ELSE IF r.path = Root THEN Ok(t)
          ELSE Ok(With(t, r.path, [t[r.path] EXCEPT !.content = @ \cup c]))
    BY DEF AppendNode, Edit, Leads
  <2> HIDE DEF r
  <2>2. QED
    BY <2>1, FailIsQuiet
<1>4. QED
  BY <1>1, <1>2, <1>3

LEMMA NewIsQuiet ==
  ASSUME NEW t, NEW p, NEW n
  PROVE  Quiet(InsertNew(t, p, n), t)
<1> DEFINE r == with_parent_mut(t, p)
<1>1. InsertNew(t, p, n) =
        IF r.err # "ok" THEN Fail(r.err, t)
        ELSE IF ~IsNone(t[r.path]) THEN Fail("AlreadyExists", t)
        ELSE Ok(With(t, r.path, n))
  BY DEF InsertNew
<1> HIDE DEF r
<1>2. QED
  BY <1>1, FailIsQuiet

LEMMA InsertIsQuiet ==
  ASSUME NEW t, NEW p, NEW c, NEW i
  PROVE  Quiet(InsertNode(t, p, c, i), t)
<1> DEFINE r == with_parent_mut(t, p)
<1>1. InsertNode(t, p, c, i) =
        IF r.err # "ok" THEN Fail(r.err, t)
        ELSE Ok(With(Without(t, r.path), r.path, MemFile(c, FileMode, i)))
  BY DEF InsertNode
<1> HIDE DEF r
<1>2. QED
  BY <1>1, FailIsQuiet

LEMMA MkdirpIsQuiet ==
  ASSUME NEW t, NEW p
  PROVE  Quiet(mem_mkdir_p(t, p), t)
<1> DEFINE made == [q \in NodePath |-> IF q \in UpTo(p) /\ IsNone(t[q])
                                       THEN Dir(DirMode) ELSE t[q]]
<1>1. mem_mkdir_p(t, p) =
        IF p \notin Path THEN Fail("TooDeep", t)
        ELSE IF \E q \in UpTo(p) : IsLeaf(t[q]) THEN Fail("NotADirectory", t)
        ELSE Ok(made)
  BY DEF mem_mkdir_p
<1> HIDE DEF made
<1>2. QED
  BY <1>1, FailIsQuiet

LEMMA RemoveIsQuiet ==
  ASSUME NEW t, NEW p, NEW types, NEW full, NEW u, u = RemoveEntry(t, p, types, full)
  PROVE  Quiet(u, t)
<1> DEFINE r == with_parent_mut(t, p)
<1>1. \/ \E e : u = Fail(e, t)
      \/ u = Ok(Without(t, r.path))
  BY DEF RemoveEntry
<1> HIDE DEF r
<1>2. QED
  BY <1>1, FailIsQuiet

\* A critical section other than rename's that fails leaves its tree alone.
LEMMA SingleIsQuiet ==
  ASSUME NEW t, NEW s, s.do \in OneStepCalls, NEW u, u = Single(t, s)
  PROVE  Quiet(u, t)
<1>1. CASE s.do \in {"chmod", "utimes", "extend"}
  BY <1>1, EditIsQuiet DEF Single
<1>2. CASE s.do \in {"new", "insert", "mkdir_p"}
  BY <1>2, NewIsQuiet, InsertIsQuiet, MkdirpIsQuiet DEF Single
<1>3. CASE s.do = "remove"
  <2>1. u = RemoveEntry(t, s.p, s.types, s.full)
    BY <1>3 DEF Single
  <2>2. QED
    BY <2>1, RemoveIsQuiet
<1>4. CASE s.do \in {"no dir", "refuse"}
  <2>1. u = Fail("IoError", t) \/ u = Ok(t)
    BY <1>4 DEF Single
  <2>2. QED
    BY <2>1, FailIsQuiet
<1>5. QED
  BY <1>1, <1>2, <1>3, <1>4 DEF OneStepCalls

(***************************************************************************)
(* A call's course: the states its steps lead through.                     *)
(***************************************************************************)
Course(S) == \A n \in 1..MostSteps : S[n] = Run(S[n - 1])
Got(S, i, F, work) == S[i] = [fs |-> F, err |-> "ok", todo |-> work]
Fell(S, F) == S[MostSteps].err # "ok" /\ S[MostSteps].fs = F

LEMMA CourseIs ==
  ASSUME NEW F, NEW steps
  PROVE  \E S : Course(S) /\ Got(S, 0, F, steps) /\ Finish(F, steps) = S[MostSteps]
<1> DEFINE st == [fs |-> F, err |-> "ok", todo |-> steps]
           a == Run(st)
           b == Run(a)
           c == Run(b)
           d == Run(c)
           e == Run(d)
           f == Run(e)
           g == Run(f)
           h == Run(g)
           T == [n \in 0..MostSteps |->
                   CASE n = 0 -> st [] n = 1 -> a [] n = 2 -> b [] n = 3 -> c [] n = 4 -> d
                     [] n = 5 -> e [] n = 6 -> f [] n = 7 -> g [] OTHER -> h]
           S == CHOOSE z : Ends(z, st)
<1>1. Ends(T, st)
  <2>1. /\ T[0] = st /\ T[1] = a /\ T[2] = b /\ T[3] = c /\ T[4] = d
        /\ T[5] = e /\ T[6] = f /\ T[7] = g /\ T[8] = h
    <3> HIDE DEF st, a, b, c, d, e, f, g, h
    <3> QED BY DEF MostSteps
  <2>2. ASSUME NEW n \in 0..MostSteps, n # 0 PROVE T[n] = Run(T[n - 1])
    <3>1. /\ T[1] = Run(T[0]) /\ T[2] = Run(T[1]) /\ T[3] = Run(T[2]) /\ T[4] = Run(T[3])
          /\ T[5] = Run(T[4]) /\ T[6] = Run(T[5]) /\ T[7] = Run(T[6]) /\ T[8] = Run(T[7])
      BY <2>1
    <3> HIDE DEF T
    <3>2. n \in {1, 2, 3, 4, 5, 6, 7, 8}
      BY <2>2 DEF MostSteps
    <3>3. QED
      BY <3>1, <3>2
  <2>3. T = [n \in 0..MostSteps |-> IF n = 0 THEN st ELSE Run(T[n - 1])]
    <3>1. T = [n \in 0..MostSteps |-> T[n]]
      OBVIOUS
    <3> HIDE DEF T, st
    <3>2. QED
      BY <2>1, <2>2, <3>1
  <2> HIDE DEF T, st
  <2>4. QED
    BY <2>3 DEF Ends
<1> HIDE DEF a, b, c, d, e, f, g, h, T
<1>2. Ends(S, st)
  BY <1>1
<1>3. Finish(F, steps) = S[MostSteps]
  BY DEF Finish, Ends
<1> HIDE DEF S
<1>4. S[0] = st /\ \A n \in 1..MostSteps : S[n] = Run(S[n - 1])
  BY <1>2 DEF Ends, MostSteps
<1>5. QED
  BY <1>3, <1>4 DEF Course, Got

\* Where nothing is left to be done, the call is over.
LEMMA CourseEnds ==
  ASSUME NEW S, Course(S), NEW i \in 0..MostSteps, S[i].todo = <<>>
  PROVE  S[MostSteps] = S[i]
<1>1. Run(S[i]) = S[i]
  BY DEF Run
<1> DEFINE P(n) == n >= i => S[n] = S[i]
<1>2. ASSUME NEW n \in 1..MostSteps, P(n - 1) PROVE P(n)
  <2>1. S[n] = Run(S[n - 1])
    BY DEF Course
  <2>2. n = i \/ n - 1 >= i \/ n < i
    BY DEF MostSteps
  <2>3. QED
    BY <1>1, <1>2, <2>1, <2>2 DEF MostSteps
<1>3. P(0)
  BY DEF MostSteps
<1> HIDE DEF P
<1>4. P(1) /\ P(2) /\ P(3) /\ P(4)
  BY <1>2, <1>3 DEF MostSteps
<1>5. P(5) /\ P(6) /\ P(7) /\ P(8)
  BY <1>2, <1>4 DEF MostSteps
<1>6. QED
  BY <1>5 DEF P, MostSteps

\* One step of it.
LEMMA CourseStep ==
  ASSUME NEW S, Course(S), NEW i \in 0..(MostSteps - 1), NEW F, NEW work, Got(S, i, F, work),
         work # <<>>, NEW s, s = Head(work), NEW m, m = s.m, m # Nobody,
         NEW e, e = Effect(F[m], s)
  PROVE  /\ e.err = "ok" =>
              Got(S, i + 1, [F EXCEPT ![m] = e.tree], e.next \o Tail(work))
         /\ e.err # "ok" => Fell(S, [F EXCEPT ![m] = e.tree])
<1> DEFINE G == [F EXCEPT ![m] = e.tree]
           on == IF e.err # "ok" THEN <<>> ELSE e.next \o Tail(work)
<1>1. i + 1 \in 1..MostSteps /\ (i + 1) - 1 = i /\ i + 1 \in 0..MostSteps
  BY DEF MostSteps
<1>2. S[i + 1] = Run(S[i])
  BY <1>1 DEF Course
<1>3. Run(S[i]) = [fs |-> G, err |-> e.err, todo |-> on]
  BY DEF Got, Run
<1> HIDE DEF G
<1>4. CASE e.err = "ok"
  BY <1>2, <1>3, <1>4 DEF Got, G
<1>5. CASE e.err # "ok"
  <2>1. S[i + 1].todo = <<>> /\ S[i + 1].err # "ok" /\ S[i + 1].fs = G
    BY <1>2, <1>3, <1>5
  <2>2. S[MostSteps] = S[i + 1]
    BY <1>1, <2>1, CourseEnds
  <2>3. QED
    BY <1>5, <2>1, <2>2 DEF Fell, G
<1>6. QED
  BY <1>4, <1>5

\* One that finds nobody.
LEMMA CourseLost ==
  ASSUME NEW F, NEW s, s.m = Nobody, NEW r, r = Finish(F, <<s>>)
  PROVE  r.err # "ok" /\ r.fs = F
<1> DEFINE st == [fs |-> F, err |-> "ok", todo |-> <<s>>]
           x == [fs |-> F, err |-> "NotFound", todo |-> <<>>]
<1>1. Run(st) = x
  BY DEF Run
<1> HIDE DEF st
<1>2. x.todo = <<>>
  OBVIOUS
<1> HIDE DEF x
<1>3. r = x
  BY <1>1, <1>2, FinishOne DEF st
<1>4. QED
  BY <1>3 DEF x

\* Its last step, one critical section.
LEMMA CourseLast ==
  ASSUME NEW S, Course(S), NEW i \in 0..(MostSteps - 1), NEW F, NEW z, Got(S, i, F, <<z>>),
         z.do \in OneStepCalls \cup {"rename"}, NEW m, m = z.m, m # Nobody,
         NEW u, u = Single(F[m], z), NEW r, r = S[MostSteps]
  PROVE  /\ r.err = "ok" => u.err = "ok"
         /\ u.err = "ok" => r.err = "ok"
         /\ r.fs = [F EXCEPT ![m] = u.tree]
<1> DEFINE e == Effect(F[m], z)
           G == [F EXCEPT ![m] = u.tree]
<1>1. e = Left(u, <<>>)
  BY DEF Effect, OneStepCalls
<1> HIDE DEF e
<1>2. e.err = u.err /\ e.tree = u.tree /\ e.next = <<>>
  BY <1>1 DEF Left
<1>3. Head(<<z>>) = z /\ Tail(<<z>>) = <<>> /\ <<z>> # <<>>
  OBVIOUS
<1>4. /\ e.err = "ok" => Got(S, i + 1, [F EXCEPT ![m] = e.tree], e.next \o Tail(<<z>>))
      /\ e.err # "ok" => Fell(S, [F EXCEPT ![m] = e.tree])
  BY <1>3, CourseStep DEF e
<1>5. CASE u.err = "ok"
  <2>1. Got(S, i + 1, G, <<>>)
    BY <1>2, <1>3, <1>4, <1>5
  <2> HIDE DEF G
  <2>2. S[i + 1].todo = <<>> /\ S[i + 1].fs = G /\ S[i + 1].err = "ok"
    BY <2>1 DEF Got
  <2>3. i + 1 \in 0..MostSteps
    BY DEF MostSteps
  <2>4. S[MostSteps] = S[i + 1]
    BY <2>2, <2>3, CourseEnds
  <2>5. QED
    BY <1>5, <2>2, <2>4 DEF G
<1>6. CASE u.err # "ok"
  BY <1>2, <1>4, <1>6 DEF Fell
<1>7. QED
  BY <1>5, <1>6

\* A call of one critical section.
LEMMA OneRuns ==
  ASSUME NEW F, NEW z, NEW m, m = z.m, NEW r, r = Finish(F, <<z>>),
         z.do \in OneStepCalls \cup {"rename"}, m # Nobody,
         NEW u, u = Single(F[m], z)
  PROVE  /\ r.err = "ok" => u.err = "ok"
         /\ u.err = "ok" => r.err = "ok"
         /\ r.fs = [F EXCEPT ![m] = u.tree]
<1>1. PICK S : Course(S) /\ Got(S, 0, F, <<z>>) /\ r = S[MostSteps]
  BY CourseIs
<1>2. 0 \in 0..(MostSteps - 1)
  BY DEF MostSteps
<1>3. QED
  BY <1>1, <1>2, CourseLast

\* What a step does, in parts.
LEMMA OnwardParts ==
  ASSUME NEW t, NEW z, NEW e, e = Onward(t, z)
  PROVE  e.err = "ok" /\ e.tree = t /\ e.next = <<z>>
BY DEF Onward, Left, Ok

LEMMA LeftParts ==
  ASSUME NEW r, NEW next, NEW e, e = Left(r, next)
  PROVE  e.err = r.err /\ e.tree = r.tree /\ e.next = next
BY DEF Left

LEMMA FailParts ==
  ASSUME NEW k, NEW t, NEW next, NEW e, e = Left(Fail(k, t), next)
  PROVE  e.err = k /\ e.tree = t /\ e.next = next
BY DEF Left, Fail

LEMMA OkParts ==
  ASSUME NEW t, NEW next, NEW e, e = Left(Ok(t), next)
  PROVE  e.err = "ok" /\ e.tree = t /\ e.next = next
BY DEF Left, Ok

LEMMA WorkIs ==
  ASSUME NEW z, NEW X, NEW rest \in Seq(X)
  PROVE  /\ <<z>> \o rest # <<>> /\ Head(<<z>> \o rest) = z /\ Tail(<<z>> \o rest) = rest
         /\ <<>> \o rest = rest
OBVIOUS

\* The steps of a write, each with what it leaves.
LEMMA WriteEffect ==
  ASSUME NEW t, NEW m, NEW p, NEW c, NEW r, r = resolve_through_dangling(t, p),
         NEW s, s = [do |-> "write", m |-> m, p |-> p, c |-> c], NEW e, e = Effect(t, s),
         NEW z, z = [do |-> "over", m |-> m, p |-> r.path, c |-> c]
  PROVE  /\ r.err # "ok" => e.err # "ok" /\ e.tree = t
         /\ r.err = "ok" => e.err = "ok" /\ e.tree = t /\ e.next = <<z>>
<1> DEFINE q == r.path
           y == [s EXCEPT !.do = "over"]
<1>1. e = Resolved(t, s, r)
  BY DEF Effect
<1>2. y = [do |-> "over", m |-> m, p |-> p, c |-> c]
  OBVIOUS
<1>3. z = [y EXCEPT !.p = q]
  <2> HIDE DEF q, y
  <2> QED BY <1>2 DEF q
<1>4. e = IF r.err # "ok" THEN Left(Fail(r.err, t), <<>>) ELSE Onward(t, z)
  BY <1>1, <1>3 DEF Resolved
<1>5. CASE r.err # "ok"
  <2>1. e = Left(Fail(r.err, t), <<>>)
    BY <1>4, <1>5
  <2>2. QED
    BY <1>5, <2>1, FailParts
<1>6. CASE r.err = "ok"
  <2>1. e = Onward(t, z)
    BY <1>4, <1>6
  <2> HIDE DEF y, q
  <2>2. QED
    BY ONLY <1>6, <2>1, OnwardParts
<1>7. QED
  BY <1>5, <1>6

LEMMA OverEffect ==
  ASSUME NEW t, NEW m, NEW p, NEW c, NEW o, o = OverwriteNode(t, p, c),
         NEW s, s = [do |-> "over", m |-> m, p |-> p, c |-> c], NEW e, e = Effect(t, s)
  PROVE  /\ o.err # "NotThere" => e = Left(o, <<>>)
         /\ o.err = "NotThere" =>
              e = Onward(t, [do |-> "number", m |-> m, p |-> p, c |-> c])
<1> DEFINE z == [s EXCEPT !.do = "number"]
<1>1. e = Looked(t, s, o)
  BY DEF Effect
<1>2. z = [do |-> "number", m |-> m, p |-> p, c |-> c]
  OBVIOUS
<1>3. Looked(t, s, o) = IF o.err = "NotThere" THEN Onward(t, z) ELSE Left(o, <<>>)
  BY DEF Looked
<1> HIDE DEF z
<1>4. QED
  BY <1>1, <1>2, <1>3

LEMMA NumberEffect ==
  ASSUME NEW t, NEW m, NEW p, NEW c,
         NEW s, s = [do |-> "number", m |-> m, p |-> p, c |-> c], NEW e, e = Effect(t, s)
  PROVE  e = Onward(t, [do |-> "insert", m |-> m, p |-> p, c |-> c, id |-> next_file_id(t)])
<1> DEFINE y == [s EXCEPT !.do = "insert"]
           i == next_file_id(t)
<1>1. e = Onward(t, Also(y, "id", i))
  BY DEF Effect, Numbered
<1>2. y = [do |-> "insert", m |-> m, p |-> p, c |-> c]
  OBVIOUS
<1> HIDE DEF y, i
<1>3. Also(y, "id", i) = [do |-> "insert", m |-> m, p |-> p, c |-> c, id |-> i]
  BY <1>2, AlsoIs
<1>4. QED
  BY <1>1, <1>3 DEF i

LEMMA InsertEffect ==
  ASSUME NEW t, NEW m, NEW p, NEW c, NEW i,
         NEW s, s = [do |-> "insert", m |-> m, p |-> p, c |-> c, id |-> i]
  PROVE  Effect(t, s) = Left(InsertNode(t, p, c, i), <<>>)
BY DEF Effect, Single

LEMMA OverwriteIsQuiet ==
  ASSUME NEW t, NEW p, NEW c
  PROVE  Quiet(OverwriteNode(t, p, c), t)
<1> DEFINE r == Leads(t, p)
           v == [t EXCEPT ![r.path].content = c]
<1>1. OverwriteNode(t, p, c) = IF r.err # "ok" THEN Fail("NotThere", t)
                               ELSE IF IsDir(At(t, r.path)) THEN Fail("IsADirectory", t)
                               ELSE Ok(v)
  BY DEF OverwriteNode, Leads
<1> HIDE DEF r, v
<1>2. QED
  BY <1>1, FailIsQuiet

\* The second half of a write, where the first found no file: a number for the
\* new one, and its insertion.
LEMMA InsertCourse ==
  ASSUME NEW S, Course(S), NEW i \in 0..(MostSteps - 2), NEW mounts,
         NEW F \in [mounts -> Memory], NEW m \in mounts, m # Nobody, Sound(F[m]),
         NEW p \in Seq(Name), NEW c \in SUBSET Chunk, NEW X, NEW rest \in Seq(X),
         NEW s, s = [do |-> "number", m |-> m, p |-> p, c |-> c],
         NEW work, work = <<s>> \o rest, Got(S, i, F, work)
  PROVE  \/ Fell(S, F)
         \/ \E n : /\ InsertNode(F[m], p, c, n).err = "ok" /\ n \in Nat
                   /\ Got(S, i + 2, [F EXCEPT ![m] = InsertNode(F[m], p, c, n).tree], rest)
<1> DEFINE t == F[m]
           n == next_file_id(t)
           z == [do |-> "insert", m |-> m, p |-> p, c |-> c, id |-> n]
           a == Effect(t, s)
           b == Effect(t, z)
           u == InsertNode(t, p, c, n)
           G == [F EXCEPT ![m] = u.tree]
<1>1. i \in 0..(MostSteps - 1) /\ i + 1 \in 0..(MostSteps - 1) /\ (i + 1) + 1 = i + 2
  BY DEF MostSteps
<1>2. a = Onward(t, z)
  <2> HIDE DEF a, t
  <2> QED BY NumberEffect DEF a
<1>3. s.m = m /\ work # <<>> /\ Head(work) = s /\ Tail(work) = rest
  BY WorkIs
<1>4. a.err = "ok" /\ a.tree = t /\ a.next = <<z>>
  <2> HIDE DEF a, t, z
  <2> QED BY <1>2, OnwardParts
<1>5. Got(S, i + 1, F, <<z>> \o rest)
  <2>1. /\ a.err = "ok" => Got(S, i + 1, F, a.next \o Tail(work))
        /\ a.err # "ok" => Fell(S, F)
    <3>1. a = Effect(F[m], s) /\ a.tree = F[m]
      BY <1>4
    <3> HIDE DEF a
    <3>2. [F EXCEPT ![m] = a.tree] = F
      BY <3>1
    <3>3. /\ a.err = "ok" => Got(S, i + 1, [F EXCEPT ![m] = a.tree], a.next \o Tail(work))
          /\ a.err # "ok" => Fell(S, [F EXCEPT ![m] = a.tree])
      BY <1>1, <1>3, <3>1, CourseStep
    <3>4. QED
      BY <3>2, <3>3
  <2> HIDE DEF a, z
  <2>2. QED
    BY <1>3, <1>4, <2>1
<1>6. b = Left(u, <<>>)
  BY InsertEffect
<1>7. b.err = u.err /\ b.tree = u.tree /\ b.next = <<>>
  <2> HIDE DEF b, u
  <2> QED BY <1>6, LeftParts
<1>8. z.m = m
  OBVIOUS
<1>9. b = Effect(F[m], z)
  OBVIOUS
<1> HIDE DEF z, b
<1> DEFINE w == <<z>> \o rest
<1>10. w # <<>> /\ Head(w) = z /\ Tail(w) = rest /\ <<>> \o rest = rest
  BY WorkIs
<1>11. Got(S, i + 1, F, w)
  BY <1>5
<1> HIDE DEF w
<1>12. /\ b.err = "ok" => Got(S, (i + 1) + 1, [F EXCEPT ![m] = b.tree], b.next \o Tail(w))
       /\ b.err # "ok" => Fell(S, [F EXCEPT ![m] = b.tree])
  BY <1>1, <1>8, <1>9, <1>10, <1>11, CourseStep
<1>13. CASE u.err = "ok"
  <2>1. Got(S, i + 2, G, rest)
    <3> HIDE DEF u
    <3> QED BY <1>1, <1>7, <1>10, <1>12, <1>13
  <2>2. n \in Nat
    BY NextNumber
  <2> HIDE DEF n
  <2>3. QED
    BY <1>13, <2>1, <2>2
<1>14. CASE u.err # "ok"
  <2>1. u.tree = t
    BY <1>14, InsertIsQuiet DEF Quiet
  <2>2. [F EXCEPT ![m] = b.tree] = F
    <3> HIDE DEF u
    <3> QED BY <1>7, <2>1
  <2>3. QED
    BY <1>7, <1>12, <1>14, <2>2
<1>15. QED
  BY <1>13, <1>14

\* The first half of it: where the file is that the path leads to.
LEMMA LookCourse ==
  ASSUME NEW S, Course(S), NEW i \in 0..(MostSteps - 1), NEW mounts,
         NEW F \in [mounts -> Memory], NEW m \in mounts, m # Nobody,
         NEW p, NEW c, NEW X, NEW rest \in Seq(X),
         NEW s, s = [do |-> "write", m |-> m, p |-> p, c |-> c],
         NEW work, work = <<s>> \o rest, Got(S, i, F, work),
         NEW t, t = F[m], NEW r, r = resolve_through_dangling(t, p),
         NEW z, z = [do |-> "over", m |-> m, p |-> r.path, c |-> c]
  PROVE  \/ Fell(S, F)
         \/ r.err = "ok" /\ Got(S, i + 1, F, <<z>> \o rest)
<1> DEFINE a == Effect(t, s)
<1>1. /\ r.err # "ok" => a.err # "ok" /\ a.tree = t
      /\ r.err = "ok" => a.err = "ok" /\ a.tree = t /\ a.next = <<z>>
  <2> HIDE DEF a
  <2> QED BY WriteEffect DEF a
<1>2. s.m = m /\ work # <<>> /\ Head(work) = s /\ Tail(work) = rest
  BY WorkIs
<1>3. a = Effect(F[m], s) /\ a.tree = F[m]
  BY <1>1
<1> HIDE DEF a
<1>4. /\ a.err = "ok" => Got(S, i + 1, F, a.next \o Tail(work))
      /\ a.err # "ok" => Fell(S, F)
  <2>1. [F EXCEPT ![m] = a.tree] = F
    BY <1>3
  <2>2. /\ a.err = "ok" => Got(S, i + 1, [F EXCEPT ![m] = a.tree], a.next \o Tail(work))
        /\ a.err # "ok" => Fell(S, [F EXCEPT ![m] = a.tree])
    BY <1>2, <1>3, CourseStep
  <2>3. QED
    BY <2>1, <2>2
<1>5. QED
  BY <1>1, <1>2, <1>4

\* A write, which the steps in rest follow.
LEMMA WriteCourse ==
  ASSUME NEW S, Course(S), NEW i \in 0..(MostSteps - 4), NEW mounts,
         NEW F \in [mounts -> Memory], NEW m \in mounts, m # Nobody, Sound(F[m]),
         NEW p \in Seq(Name), NEW c \in SUBSET Chunk, NEW X, NEW rest \in Seq(X),
         NEW s, s = [do |-> "write", m |-> m, p |-> p, c |-> c],
         NEW work, work = <<s>> \o rest, Got(S, i, F, work)
  PROVE  \/ Fell(S, F)
         \/ \E u, j : /\ Sound(u) /\ Wrote(u, p, c) /\ j \in {i + 2, i + 4}
                      /\ Got(S, j, [F EXCEPT ![m] = u], rest)
<1> DEFINE t == F[m]
           r == resolve_through_dangling(t, p)
           q == r.path
           z == [do |-> "over", m |-> m, p |-> q, c |-> c]
           o == OverwriteNode(t, q, c)
           b == Effect(t, z)
           y == [do |-> "number", m |-> m, p |-> q, c |-> c]
<1>1. /\ i \in 0..(MostSteps - 1) /\ i + 1 \in 0..(MostSteps - 1) /\ (i + 1) + 1 = i + 2
      /\ i + 2 \in 0..(MostSteps - 2) /\ (i + 2) + 2 = i + 4
  BY DEF MostSteps
<1>2. q \in Seq(Name)
  BY SoundType, DanglingType DEF Answers
<1>3. \/ Fell(S, F)
      \/ r.err = "ok" /\ Got(S, i + 1, F, <<z>> \o rest)
  BY <1>1, LookCourse
<1>4. CASE r.err = "ok" /\ Got(S, i + 1, F, <<z>> \o rest)
  <2> DEFINE w == <<z>> \o rest
  <2>2. r.err = "ok" /\ Got(S, i + 1, F, w)
    BY <1>4
  <2>3. w # <<>> /\ Head(w) = z /\ Tail(w) = rest /\ <<>> \o rest = rest
    BY WorkIs
  <2>4. /\ o.err # "NotThere" => b = Left(o, <<>>)
        /\ o.err = "NotThere" => b = Onward(t, y)
    <3> HIDE DEF b, o, q, t
    <3> QED BY OverEffect DEF b, o
  <2>5. z.m = m /\ b = Effect(F[m], z)
    OBVIOUS
  <2>6. Quiet(o, t)
    BY OverwriteIsQuiet
  <2>7. o.err = "ok" => Sound(o.tree) /\ Wrote(o.tree, p, c)
    <3>1. r = resolve_through_dangling(t, p) /\ o = OverwriteNode(t, r.path, c) /\ Sound(t)
      OBVIOUS
    <3>2. Sound(o.tree)
      BY <1>2, <3>1, OverwriteIsSound
    <3> HIDE DEF r, o, t
    <3>3. o.err = "ok" => Wrote(o.tree, p, c)
      BY <2>2, <3>1, OverwriteHolds
    <3>4. QED
      BY <3>2, <3>3
  <2> HIDE DEF b, w, z
  <2>8. CASE o.err = "NotThere"
    <3>1. b.err = "ok" /\ b.tree = t /\ b.next = <<y>>
      <4> HIDE DEF t, y, o
      <4> QED BY <2>4, <2>8, OnwardParts
    <3> DEFINE x == <<y>> \o rest
    <3>2. Got(S, i + 2, F, x)
      <4>1. b.tree = F[m]
        BY <3>1
      <4>2. [F EXCEPT ![m] = b.tree] = F
        BY <4>1
      <4>3. b.err = "ok" =>
              Got(S, (i + 1) + 1, [F EXCEPT ![m] = b.tree], b.next \o Tail(w))
        BY <1>1, <2>2, <2>3, <2>5, CourseStep
      <4>4. QED
        BY <1>1, <2>3, <3>1, <4>2, <4>3
    <3>3. \/ Fell(S, F)
          \/ \E n : /\ InsertNode(F[m], q, c, n).err = "ok" /\ n \in Nat
                    /\ Got(S, (i + 2) + 2, [F EXCEPT ![m] = InsertNode(F[m], q, c, n).tree],
                           rest)
      <4> HIDE DEF q
      <4> QED BY <1>1, <1>2, <3>2, InsertCourse
    <3>4. ASSUME NEW n, InsertNode(F[m], q, c, n).err = "ok", n \in Nat,
                 Got(S, (i + 2) + 2, [F EXCEPT ![m] = InsertNode(F[m], q, c, n).tree], rest)
          PROVE  \E u, j : /\ Sound(u) /\ Wrote(u, p, c) /\ j \in {i + 2, i + 4}
                           /\ Got(S, j, [F EXCEPT ![m] = u], rest)
      <4> DEFINE v == InsertNode(t, q, c, n)
                 u == v.tree
      <4>1. Sound(u)
        BY <1>2, <3>4, InsertNodeIsSound
      <4>2. Wrote(u, p, c)
        <5>1. /\ r = resolve_through_dangling(t, p) /\ o = OverwriteNode(t, r.path, c)
              /\ Sound(t) /\ v = InsertNode(t, r.path, c, n) /\ v.err = "ok"
          BY <3>4
        <5> HIDE DEF r, o, t, v
        <5>2. QED
          BY <2>2, <2>8, <3>4, <5>1, InsertHolds
      <4>3. Got(S, i + 4, [F EXCEPT ![m] = u], rest)
        BY <1>1, <3>4
      <4> HIDE DEF u
      <4>4. QED
        BY <4>1, <4>2, <4>3
    <3>5. QED
      BY <3>3, <3>4
  <2>9. CASE o.err # "NotThere"
    <3>1. b.err = o.err /\ b.tree = o.tree /\ b.next = <<>>
      <4> HIDE DEF t, y, o
      <4> QED BY <2>4, <2>9, LeftParts
    <3>2. /\ b.err = "ok" => Got(S, (i + 1) + 1, [F EXCEPT ![m] = b.tree], b.next \o Tail(w))
          /\ b.err # "ok" => Fell(S, [F EXCEPT ![m] = b.tree])
      BY <1>1, <2>2, <2>3, <2>5, CourseStep
    <3> DEFINE u == o.tree
    <3>3. CASE o.err = "ok"
      <4>1. Sound(u) /\ Wrote(u, p, c)
        BY <2>7, <3>3
      <4> HIDE DEF o
      <4>2. Got(S, i + 2, [F EXCEPT ![m] = u], rest)
        BY <1>1, <2>3, <3>1, <3>2, <3>3
      <4> HIDE DEF u
      <4>3. QED
        BY <4>1, <4>2
    <3>4. CASE o.err # "ok"
      <4>1. b.tree = F[m]
        BY <2>6, <3>1, <3>4 DEF Quiet
      <4>2. [F EXCEPT ![m] = b.tree] = F
        BY <4>1
      <4>3. QED
        BY <3>1, <3>2, <3>4, <4>2
    <3>5. QED
      BY <3>3, <3>4
  <2>10. QED
    BY <2>8, <2>9
<1>5. QED
  BY <1>3, <1>4

(***************************************************************************)
(* The calls of one critical section.                                      *)
(***************************************************************************)
\* Where a call on p goes.
LEMMA OwnerHolds ==
  ASSUME Safe, NEW p \in Path, NEW m, m = resolve_mount(DOMAIN fs, p)
  PROVE  /\ m \in DOMAIN fs \cup {Nobody} /\ fs \in [DOMAIN fs -> Memory]
         /\ m # Nobody => m \in DOMAIN fs /\ Rel(p, m) \in Seq(Name) /\ Sound(fs[m])
<1>1. DOMAIN fs \subseteq Path /\ p \in Seq(Name)
  BY MountAssumption, PathType DEF Safe
<1>2. m # Nobody => m \in DOMAIN fs /\ Rel(p, m) \in Seq(Name)
  BY <1>1, OwnerIs
<1>3. QED
  BY <1>2 DEF Safe

LEMMA StepOn ==
  ASSUME NEW F, NEW do, NEW p, NEW m, m = resolve_mount(DOMAIN F, p), NEW s, s = Step(F, do, p)
  PROVE  /\ s = [do |-> do, m |-> m, p |-> IF m = Nobody THEN Root ELSE Rel(p, m)]
         /\ s.do = do /\ s.m = m /\ (m # Nobody => s.p = Rel(p, m))
<1> DEFINE q == IF m = Nobody THEN Root ELSE Rel(p, m)
<1>1. s = [do |-> do, m |-> m, p |-> q]
  BY DEF Step
<1>2. m # Nobody => q = Rel(p, m)
  OBVIOUS
<1> HIDE DEF q
<1>3. s.do = do /\ s.m = m /\ s.p = q
  BY <1>1
<1>4. QED
  BY <1>1, <1>2, <1>3 DEF q

\* What the reading methods find where somebody owns the path.
LEMMA ReadsAre ==
  ASSUME NEW F, NEW p, NEW m, m = resolve_mount(DOMAIN F, p), m # Nobody,
         NEW q, q = Rel(p, m), NEW t, t = F[m]
  PROVE  /\ stat(F, p) = IF IsNone(mem_stat(t, q)) THEN Synthetic(DOMAIN F, p)
                         ELSE mem_stat(t, q)
         /\ lstat(F, p) = IF IsNone(mem_lstat(t, q)) THEN Synthetic(DOMAIN F, p)
                          ELSE mem_lstat(t, q)
         /\ read_file(F, p) = mem_read(t, q)
BY DEF stat, lstat, read_file, Probe

LEMMA OneCall ==
  ASSUME Safe, NEW z, NEW m, m = z.m, m \in DOMAIN fs \cup {Nobody},
         z.do \in OneStepCalls, NEW r, r = Finish(fs, <<z>>),
         NEW u, u = Single(fs[m], z)
  PROVE  /\ Silent(r)
         /\ r.err = "ok" => /\ m # Nobody /\ m \in DOMAIN fs /\ u.err = "ok"
                            /\ r.fs[m] = u.tree /\ DOMAIN r.fs = DOMAIN fs
<1>1. CASE m = Nobody
  <2>1. z.m = Nobody
    BY <1>1
  <2>2. r.err # "ok" /\ r.fs = fs
    BY ONLY <2>1, CourseLost, r = Finish(fs, <<z>>)
  <2>3. QED
    BY <2>2 DEF Silent
<1>2. CASE m # Nobody
  <2>1. /\ r.err = "ok" => u.err = "ok"
        /\ u.err = "ok" => r.err = "ok"
        /\ r.fs = [fs EXCEPT ![m] = u.tree]
    BY <1>2, OneRuns
  <2>2. m \in DOMAIN fs /\ fs \in [DOMAIN fs -> Memory]
    BY <1>2 DEF Safe
  <2>3. r.fs[m] = u.tree /\ DOMAIN r.fs = DOMAIN fs
    BY <2>1, <2>2
  <2>4. CASE r.err = "ok"
    BY <1>2, <2>1, <2>2, <2>3, <2>4 DEF Silent, Done
  <2>5. CASE r.err # "ok"
    <3>1. u.tree = fs[m]
      BY <2>1, <2>5, SingleIsQuiet DEF Quiet
    <3>2. r.fs = fs
      BY <2>1, <2>2, <3>1
    <3>3. QED
      BY <2>5, <3>2 DEF Silent
  <2>6. QED
    BY <2>4, <2>5
<1>3. QED
  BY <1>1, <1>2

LEMMA NewCall ==
  ASSUME Safe, NEW p \in Path, NEW node, NEW r, r = Finish(fs, New(fs, p, node)),
         NEW m, m = resolve_mount(DOMAIN fs, p)
  PROVE  /\ Silent(r)
         /\ r.err = "ok" =>
              /\ m # Nobody /\ DOMAIN r.fs = DOMAIN fs
              /\ LET u == InsertNew(fs[m], Rel(p, m), node)
                 IN  u.err = "ok" /\ r.fs[m] = u.tree
<1> DEFINE s == Step(fs, "new", p)
           z == Also(s, "node", node)
           q == IF m = Nobody THEN Root ELSE Rel(p, m)
           u == Single(fs[m], z)
<1>1. s = [do |-> "new", m |-> m, p |-> q]
  BY StepOn
<1>2. z = [do |-> "new", m |-> m, p |-> q, node |-> node]
  <2> HIDE DEF s
  <2> QED BY <1>1, AlsoIs
<1>3. New(fs, p, node) = <<z>>
  BY DEF New
<1>4. m \in DOMAIN fs \cup {Nobody}
  BY OwnerHolds
<1> HIDE DEF z
<1>5. z.do = "new" /\ z.m = m /\ z.node = node /\ (m # Nobody => z.p = Rel(p, m))
  BY <1>2
<1>6. m # Nobody => u = InsertNew(fs[m], Rel(p, m), node)
  BY <1>5 DEF Single
<1>7. r = Finish(fs, <<z>>) /\ z.do \in OneStepCalls
  BY <1>3, <1>5 DEF OneStepCalls
<1>8. /\ Silent(r)
      /\ r.err = "ok" => /\ m # Nobody /\ m \in DOMAIN fs /\ u.err = "ok"
                         /\ r.fs[m] = u.tree /\ DOMAIN r.fs = DOMAIN fs
  <2>1. u = Single(fs[m], z)
    OBVIOUS
  <2> HIDE DEF u
  <2>2. QED
    BY <1>4, <1>5, <1>7, <2>1, OneCall
<1> HIDE DEF u
<1>9. QED
  BY <1>6, <1>8

LEMMA PlainCall ==
  ASSUME Safe, NEW p \in Path, NEW do \in {"mkdir_p", "utimes"},
         NEW r, r = Finish(fs, <<Step(fs, do, p)>>), NEW m, m = resolve_mount(DOMAIN fs, p)
  PROVE  /\ Silent(r)
         /\ r.err = "ok" /\ do = "mkdir_p" =>
              /\ m # Nobody /\ DOMAIN r.fs = DOMAIN fs
              /\ LET u == mem_mkdir_p(fs[m], Rel(p, m))
                 IN  u.err = "ok" /\ r.fs[m] = u.tree
<1> DEFINE z == Step(fs, do, p)
           u == Single(fs[m], z)
<1>1. z.do = do /\ z.m = m /\ (m # Nobody => z.p = Rel(p, m))
  <2> HIDE DEF z
  <2> QED BY StepOn DEF z
<1>2. m \in DOMAIN fs \cup {Nobody}
  BY OwnerHolds
<1>3. r = Finish(fs, <<z>>)
  OBVIOUS
<1> HIDE DEF z
<1>4. m # Nobody /\ do = "mkdir_p" => u = mem_mkdir_p(fs[m], Rel(p, m))
  BY <1>1 DEF Single
<1>5. z.do \in OneStepCalls
  BY <1>1 DEF OneStepCalls
<1>6. /\ Silent(r)
      /\ r.err = "ok" => /\ m # Nobody /\ m \in DOMAIN fs /\ u.err = "ok"
                         /\ r.fs[m] = u.tree /\ DOMAIN r.fs = DOMAIN fs
  <2>1. u = Single(fs[m], z)
    OBVIOUS
  <2> HIDE DEF u
  <2>2. QED
    BY <1>1, <1>2, <1>3, <1>5, <2>1, OneCall
<1> HIDE DEF u
<1>7. QED
  BY <1>4, <1>6

LEMMA RemovalIs ==
  ASSUME NEW F, NEW p, NEW types, NEW full, NEW m, m = resolve_mount(DOMAIN F, p)
  PROVE  \E z : /\ Removal(F, p, types, full) = <<z>>
                /\ z.do = "remove" /\ z.m = m /\ z.types = types /\ z.full = full
                /\ m # Nobody => z.p = Rel(p, m)
<1> DEFINE s == Step(F, "remove", p)
           q == IF m = Nobody THEN Root ELSE Rel(p, m)
           y == Also(s, "types", types)
           z == Also(y, "full", full)
<1>1. s = [do |-> "remove", m |-> m, p |-> q]
  BY StepOn
<1>2. Removal(F, p, types, full) = <<z>>
  BY DEF Removal
<1> HIDE DEF s
<1>3. y = [do |-> "remove", m |-> m, p |-> q, types |-> types]
  BY <1>1, AlsoIs
<1> HIDE DEF y
<1>4. z = [do |-> "remove", m |-> m, p |-> q, types |-> types, full |-> full]
  BY <1>3, AlsoIs
<1> HIDE DEF z
<1>5. /\ z.do = "remove" /\ z.m = m /\ z.types = types /\ z.full = full
      /\ m # Nobody => z.p = Rel(p, m)
  BY <1>4
<1>6. QED
  BY <1>2, <1>5

LEMMA RemovalCall ==
  ASSUME Safe, NEW p \in Path, NEW types, NEW full,
         NEW r, r = Finish(fs, Removal(fs, p, types, full)),
         NEW m, m = resolve_mount(DOMAIN fs, p)
  PROVE  Silent(r) /\ RemoveVisible(p, r)
<1>1. PICK z : /\ Removal(fs, p, types, full) = <<z>>
               /\ z.do = "remove" /\ z.m = m /\ z.types = types /\ z.full = full
               /\ m # Nobody => z.p = Rel(p, m)
  BY RemovalIs
<1> DEFINE u == Single(fs[m], z)
<1>2. u = RemoveEntry(fs[m], z.p, types, full)
  BY <1>1 DEF Single
<1>3. m \in DOMAIN fs \cup {Nobody}
  BY OwnerHolds
<1>4. z.do \in OneStepCalls
  BY <1>1 DEF OneStepCalls
<1>5. r = Finish(fs, <<z>>)
  BY <1>1
<1>6. /\ Silent(r)
      /\ r.err = "ok" => /\ m # Nobody /\ m \in DOMAIN fs /\ u.err = "ok"
                         /\ r.fs[m] = u.tree /\ DOMAIN r.fs = DOMAIN fs
  <2>1. u = Single(fs[m], z) /\ z.m = m
    BY <1>1
  <2> HIDE DEF u
  <2>2. QED
    BY <1>3, <1>4, <1>5, <2>1, OneCall
<1> HIDE DEF u
<1>7. ASSUME r.err = "ok" PROVE Gone(p, r.fs)
  <2>1. /\ m # Nobody /\ u.err = "ok" /\ r.fs[m] = u.tree /\ DOMAIN r.fs = DOMAIN fs
    BY <1>6, <1>7
  <2>2. Rel(p, m) \in Seq(Name) /\ Sound(fs[m])
    BY <2>1, OwnerHolds
  <2>3. mem_lstat(u.tree, Rel(p, m)) = None
    <3>1. z.p \in Seq(Name) /\ z.p = Rel(p, m)
      BY <1>1, <2>1, <2>2
    <3> DEFINE t == fs[m]
    <3>2. Sound(t) /\ u = RemoveEntry(t, z.p, types, full)
      BY <1>2, <2>2
    <3> HIDE DEF t
    <3>3. mem_lstat(u.tree, z.p) = None
      BY <2>1, <3>1, <3>2, RemoveHolds
    <3>4. QED
      BY <3>1, <3>3
  <2>4. lstat(r.fs, p) = IF IsNone(mem_lstat(r.fs[m], Rel(p, m)))
                         THEN Synthetic(DOMAIN r.fs, p) ELSE mem_lstat(r.fs[m], Rel(p, m))
    BY <2>1, ReadsAre
  <2>5. QED
    BY <2>1, <2>3, <2>4, NoneIs DEF Gone
<1>8. QED
  BY <1>6, <1>7 DEF RemoveVisible, Done

\* A directory made is there.
LEMMA StatSeen ==
  ASSUME NEW F, NEW p, NEW m, m = resolve_mount(DOMAIN F, p), m # Nobody,
         IsDir(mem_stat(F[m], Rel(p, m)))
  PROVE  IsDir(stat(F, p))
<1> DEFINE n == mem_stat(F[m], Rel(p, m))
<1>1. stat(F, p) = IF IsNone(n) THEN Synthetic(DOMAIN F, p) ELSE n
  BY ReadsAre
<1> HIDE DEF n
<1>2. IsDir(n) => ~IsNone(n)
  BY TypeNames
<1>3. QED
  BY <1>1, <1>2 DEF n

LEMMA MkdirCall ==
  ASSUME Safe, NEW p \in Path, NEW r, r = Finish(fs, mkdir(fs, p))
  PROVE  Silent(r) /\ MakeVisible(p, r)
<1> DEFINE m == resolve_mount(DOMAIN fs, p)
           q == Rel(p, m)
           t == fs[m]
           u == InsertNew(t, q, Dir(DirMode))
<1>1. /\ Silent(r)
      /\ r.err = "ok" => /\ m # Nobody /\ DOMAIN r.fs = DOMAIN fs
                         /\ u.err = "ok" /\ r.fs[m] = u.tree
  BY NewCall DEF mkdir
<1>2. ASSUME r.err = "ok" PROVE IsDir(stat(r.fs, p))
  <2>1. m # Nobody /\ m = resolve_mount(DOMAIN r.fs, p) /\ u.err = "ok" /\ r.fs[m] = u.tree
    BY <1>1, <1>2
  <2>2. q \in Seq(Name) /\ Sound(t)
    BY <2>1, OwnerHolds
  <2>3. u = InsertNew(t, q, Dir(DirMode))
    OBVIOUS
  <2> HIDE DEF u, q, t, m
  <2>4. IsDir(mem_stat(u.tree, q))
    BY <2>1, <2>2, <2>3, MkdirHolds
  <2>5. IsDir(mem_stat(r.fs[m], Rel(p, m)))
    BY <2>1, <2>4 DEF q
  <2>6. QED
    BY <2>1, <2>5, StatSeen
<1>3. QED
  BY <1>1, <1>2 DEF MakeVisible, Done

LEMMA MkdirpCall ==
  ASSUME Safe, NEW p \in Path, NEW r, r = Finish(fs, mkdir_p(fs, p))
  PROVE  Silent(r) /\ MakeVisible(p, r)
<1> DEFINE m == resolve_mount(DOMAIN fs, p)
           q == Rel(p, m)
           t == fs[m]
           u == mem_mkdir_p(t, q)
<1>1. /\ Silent(r)
      /\ r.err = "ok" => /\ m # Nobody /\ DOMAIN r.fs = DOMAIN fs
                         /\ u.err = "ok" /\ r.fs[m] = u.tree
  <2> DEFINE v == mem_mkdir_p(fs[m], Rel(p, m))
  <2>1. v = u
    OBVIOUS
  <2>2. r = Finish(fs, <<Step(fs, "mkdir_p", p)>>) /\ m = resolve_mount(DOMAIN fs, p)
    BY DEF mkdir_p
  <2> HIDE DEF m, u
  <2>3. /\ Silent(r)
        /\ r.err = "ok" => /\ m # Nobody /\ DOMAIN r.fs = DOMAIN fs
                           /\ v.err = "ok" /\ r.fs[m] = v.tree
    BY ONLY <2>2, PlainCall, Safe, p \in Path
  <2>4. QED
    BY <2>1, <2>3
<1>2. ASSUME r.err = "ok" PROVE IsDir(stat(r.fs, p))
  <2>1. m # Nobody /\ m = resolve_mount(DOMAIN r.fs, p) /\ u.err = "ok" /\ r.fs[m] = u.tree
    BY <1>1, <1>2
  <2>2. Sound(t)
    BY <2>1, OwnerHolds
  <2>3. u = mem_mkdir_p(t, q)
    OBVIOUS
  <2>4. q \in Path
    <3>1. q \notin Path => u = Fail("TooDeep", t)
      BY DEF mem_mkdir_p
    <3> HIDE DEF u, t, q
    <3>2. QED
      BY <2>1, <3>1 DEF Fail
  <2> HIDE DEF u, q, t, m
  <2>5. IsDir(mem_stat(u.tree, q))
    BY <2>1, <2>2, <2>3, <2>4, MkdirpHolds
  <2>6. IsDir(mem_stat(r.fs[m], Rel(p, m)))
    BY <2>1, <2>5 DEF q
  <2>7. QED
    BY <2>1, <2>6, StatSeen
<1>3. QED
  BY <1>1, <1>2 DEF MakeVisible, Done

LEMMA ChmodCall ==
  ASSUME Safe, NEW p \in Path, NEW mode, NEW r, r = Finish(fs, chmod(fs, p, mode))
  PROVE  Silent(r)
<1> DEFINE m == resolve_mount(DOMAIN fs, p)
           s == Step(fs, "chmod", p)
           z == Also(s, "mode", mode)
           q == IF m = Nobody THEN Root ELSE Rel(p, m)
<1>1. s = [do |-> "chmod", m |-> m, p |-> q]
  BY StepOn
<1>2. chmod(fs, p, mode) = <<z>>
  BY DEF chmod
<1>3. m \in DOMAIN fs \cup {Nobody}
  BY OwnerHolds
<1> HIDE DEF s, m, q
<1>4. z = [do |-> "chmod", m |-> m, p |-> q, mode |-> mode]
  BY <1>1, AlsoIs
<1> HIDE DEF z
<1>5. z.do \in OneStepCalls /\ z.m = m
  BY <1>4 DEF OneStepCalls
<1>6. r = Finish(fs, <<z>>)
  BY <1>2
<1>7. QED
  BY <1>3, <1>5, <1>6, OneCall

(***************************************************************************)
(* The calls of several steps.                                             *)
(***************************************************************************)
\* What was written can be read, or the path is refused.
LEMMA HoldsBy ==
  ASSUME NEW F, NEW p, NEW m, m = resolve_mount(DOMAIN F, p), m # Nobody,
         NEW c, Wrote(F[m], Rel(p, m), c)
  PROVE  Holds(F, p, c)
<1> DEFINE t == F[m]
           q == Rel(p, m)
           n == mem_stat(t, q)
<1>1. Refuses(Leads(t, q)) => Refused(F, p)
  BY DEF Refuses, Leads, Refused
<1>2. Carries(t, q, c) => read_file(F, p).content = c
  <2>1. read_file(F, p) = mem_read(t, q)
    BY ReadsAre
  <2>2. mem_read(t, q) = IF IsFile(n) THEN n ELSE None
    BY DEF mem_read
  <2>3. Carries(t, q, c) => IsFile(n) /\ n.content = c
    BY DEF Carries
  <2> HIDE DEF n
  <2>4. QED
    BY <2>1, <2>2, <2>3
<1>3. QED
  BY <1>1, <1>2 DEF Holds, Wrote

\* A write, run to its end: the last step of a call, or all of it.
LEMMA WriteLast ==
  ASSUME Safe, NEW S, Course(S), NEW i \in 0..(MostSteps - 4), NEW p \in Path,
         NEW m, m = resolve_mount(DOMAIN fs, p), m # Nobody, NEW c \in SUBSET Chunk,
         NEW s, s = [do |-> "write", m |-> m, p |-> Rel(p, m), c |-> c],
         Got(S, i, fs, <<s>>), NEW r, r = S[MostSteps]
  PROVE  /\ Silent(r) /\ WriteVisible(p, c, r)
         /\ r.err = "ok" => \E u : r.fs = [fs EXCEPT ![m] = u]
<1> DEFINE q == Rel(p, m)
           rest == <<>>
           work == <<s>> \o rest
<1>1. m \in DOMAIN fs /\ q \in Seq(Name) /\ Sound(fs[m]) /\ fs \in [DOMAIN fs -> Memory]
  BY OwnerHolds
<1>2. rest \in Seq({}) /\ work = <<s>>
  OBVIOUS
<1>3. Got(S, i, fs, work)
  BY <1>2
<1> HIDE DEF q, work
<1>4. \/ Fell(S, fs)
      \/ \E u, j : /\ Sound(u) /\ Wrote(u, q, c) /\ j \in {i + 2, i + 4}
                   /\ Got(S, j, [fs EXCEPT ![m] = u], rest)
  <2>1. s = [do |-> "write", m |-> m, p |-> q, c |-> c] /\ work = <<s>> \o rest
    BY DEF q, work
  <2> HIDE DEF rest
  <2>2. QED
    BY <1>1, <1>2, <1>3, <2>1, WriteCourse
<1>5. CASE Fell(S, fs)
  BY <1>5 DEF Fell, Silent, WriteVisible, Done
<1>6. ASSUME NEW u, NEW j, Sound(u), Wrote(u, q, c), j \in {i + 2, i + 4},
             Got(S, j, [fs EXCEPT ![m] = u], rest)
      PROVE  /\ Silent(r) /\ WriteVisible(p, c, r)
             /\ r.err = "ok" => \E v : r.fs = [fs EXCEPT ![m] = v]
  <2> DEFINE G == [fs EXCEPT ![m] = u]
  <2>1. G[m] = u /\ DOMAIN G = DOMAIN fs
    BY <1>1
  <2>2. Got(S, j, G, <<>>)
    BY <1>6
  <2>3. j \in 0..MostSteps
    BY <1>6 DEF MostSteps
  <2>4. r.err = "ok" /\ r.fs = G
    <3> HIDE DEF G
    <3>1. S[j].todo = <<>> /\ S[j].fs = G /\ S[j].err = "ok"
      BY <2>2 DEF Got
    <3>2. S[MostSteps] = S[j]
      BY <2>3, <3>1, CourseEnds
    <3>3. QED
      BY <3>1, <3>2
  <2>5. Holds(G, p, c)
    <3>1. Wrote(G[m], Rel(p, m), c)
      BY <1>6, <2>1 DEF q
    <3>2. m = resolve_mount(DOMAIN G, p)
      BY <2>1
    <3> HIDE DEF G
    <3>3. QED
      BY <3>1, <3>2, HoldsBy
  <2>6. QED
    BY <2>4, <2>5 DEF Silent, WriteVisible, Done
<1>7. QED
  BY <1>4, <1>5, <1>6

LEMMA WriteCall ==
  ASSUME Safe, NEW p \in Path, NEW c \in SUBSET Chunk, NEW r, r = Finish(fs, write_file(fs, p, c))
  PROVE  Silent(r) /\ WriteVisible(p, c, r)
<1> DEFINE m == resolve_mount(DOMAIN fs, p)
           s == Step(fs, "write", p)
           z == Also(s, "c", c)
           q == IF m = Nobody THEN Root ELSE Rel(p, m)
<1>1. s = [do |-> "write", m |-> m, p |-> q]
  BY StepOn
<1>2. write_file(fs, p, c) = <<z>>
  BY DEF write_file
<1> HIDE DEF s
<1>3. z = [do |-> "write", m |-> m, p |-> q, c |-> c]
  BY <1>1, AlsoIs
<1>4. r = Finish(fs, <<z>>)
  BY <1>2
<1> HIDE DEF z, m, q
<1>5. CASE m = Nobody
  <2>1. z.m = Nobody
    BY <1>3, <1>5
  <2>2. r.err # "ok" /\ r.fs = fs
    BY ONLY <1>4, <2>1, CourseLost
  <2>3. QED
    BY <2>2 DEF Silent, WriteVisible, Done
<1>6. CASE m # Nobody
  <2>1. PICK S : Course(S) /\ Got(S, 0, fs, <<z>>) /\ r = S[MostSteps]
    BY <1>4, CourseIs
  <2>2. z = [do |-> "write", m |-> m, p |-> Rel(p, m), c |-> c]
    BY <1>3, <1>6 DEF q
  <2>3. 0 \in 0..(MostSteps - 4) /\ m = resolve_mount(DOMAIN fs, p)
    BY DEF MostSteps, m
  <2>4. QED
    BY <1>6, <2>1, <2>2, <2>3, WriteLast
<1>7. QED
  BY <1>5, <1>6

LEMMA AppendEffect ==
  ASSUME NEW t, NEW m, NEW p, NEW c,
         NEW s, s = [do |-> "append", m |-> m, p |-> p, c |-> c], NEW e, e = Effect(t, s),
         NEW do, do = AppendBy(t, s)
  PROVE  /\ e.err = "ok" /\ e.tree = t
         /\ e.next = <<[do |-> do, m |-> m, p |-> p, c |-> c]>>
         /\ do = IF mem_exists(t, p) THEN "extend" ELSE "write"
<1> DEFINE z == [s EXCEPT !.do = AppendBy(t, s)]
<1>1. e = Onward(t, z)
  BY DEF Effect
<1>2. z = [do |-> do, m |-> m, p |-> p, c |-> c]
  OBVIOUS
<1>3. AppendBy(t, s) = IF mem_exists(t, p) THEN "extend" ELSE "write"
  BY DEF AppendBy
<1> HIDE DEF z
<1>4. e.err = "ok" /\ e.tree = t /\ e.next = <<z>>
  BY ONLY <1>1, OnwardParts
<1>5. QED
  BY <1>2, <1>3, <1>4

\* What is not there holds nothing.
LEMMA NothingThere ==
  ASSUME NEW t, NEW p, ~mem_exists(t, p)
  PROVE  Contents(mem_read(t, p)) = {}
<1> DEFINE r == Leads(t, p)
<1>1. r.err # "ok"
  BY DEF Leads, mem_exists
<1>2. mem_stat(t, p) = NodeOf(t, r)
  BY DEF Leads, mem_stat
<1> HIDE DEF r
<1>3. mem_stat(t, p) = None
  BY <1>1, <1>2 DEF NodeOf
<1>4. mem_read(t, p) = None
  BY <1>3 DEF mem_read
<1>5. QED
  BY <1>4 DEF Contents, None, IsFile

LEMMA AppendCall ==
  ASSUME Safe, NEW p \in Path, NEW c \in SUBSET Chunk,
         NEW r, r = Finish(fs, append_file(fs, p, c))
  PROVE  Silent(r) /\ AppendVisible(p, c, r)
<1> DEFINE m == resolve_mount(DOMAIN fs, p)
           s == Step(fs, "append", p)
           z == Also(s, "c", c)
           q == IF m = Nobody THEN Root ELSE Rel(p, m)
<1>1. s = [do |-> "append", m |-> m, p |-> q]
  BY StepOn
<1>2. append_file(fs, p, c) = <<z>>
  BY DEF append_file
<1> HIDE DEF s
<1>3. z = [do |-> "append", m |-> m, p |-> q, c |-> c]
  BY <1>1, AlsoIs
<1>4. r = Finish(fs, <<z>>)
  BY <1>2
<1> HIDE DEF z, m, q
<1>5. CASE m = Nobody
  <2>1. z.m = Nobody
    BY <1>3, <1>5
  <2>2. r.err # "ok" /\ r.fs = fs
    BY ONLY <1>4, <2>1, CourseLost
  <2>3. QED
    BY <2>2 DEF Silent, AppendVisible, Done
<1>6. CASE m # Nobody
  <2> DEFINE t == fs[m]
             e == Effect(t, z)
             do == AppendBy(t, z)
             y == [do |-> do, m |-> m, p |-> q, c |-> c]
  <2>1. PICK S : Course(S) /\ Got(S, 0, fs, <<z>>) /\ r = S[MostSteps]
    BY <1>4, CourseIs
  <2>2. q = Rel(p, m) /\ m = resolve_mount(DOMAIN fs, p)
    BY <1>6 DEF q, m
  <2>3. m \in DOMAIN fs /\ q \in Seq(Name) /\ Sound(t) /\ fs \in [DOMAIN fs -> Memory]
    BY <1>6, <2>2, OwnerHolds
  <2>4. /\ e.err = "ok" /\ e.tree = t /\ e.next = <<y>>
        /\ do = IF mem_exists(t, q) THEN "extend" ELSE "write"
    <3> HIDE DEF e, do, t
    <3> QED BY <1>3, AppendEffect DEF e, do
  <2>5. Got(S, 1, fs, <<y>>)
    <3>1. z.m = m /\ <<z>> # <<>> /\ Head(<<z>>) = z /\ Tail(<<z>>) = <<>>
      BY <1>3
    <3>2. e = Effect(fs[m], z) /\ 0 \in 0..(MostSteps - 1)
      BY DEF MostSteps
    <3>3. [fs EXCEPT ![m] = e.tree] = fs
      BY <2>3, <2>4
    <3> HIDE DEF e, y
    <3>4. e.err = "ok" => Got(S, 0 + 1, [fs EXCEPT ![m] = e.tree], e.next \o Tail(<<z>>))
      BY <1>6, <2>1, <3>1, <3>2, CourseStep
    <3>5. QED
      BY <2>4, <3>1, <3>3, <3>4
  <2>6. read_file(fs, p) = mem_read(t, q)
    BY <1>6, <2>2, ReadsAre
  <2> HIDE DEF t, e, do
  <2>7. CASE mem_exists(t, q)
    <3> DEFINE u == Single(t, y)
    <3>1. y = [do |-> "extend", m |-> m, p |-> q, c |-> c]
      BY <2>4, <2>7
    <3> HIDE DEF y
    <3>2. y.do = "extend" /\ y.m = m /\ y.p = q /\ y.c = c
      BY <3>1
    <3>3. u = AppendNode(t, q, c)
      BY <3>2 DEF Single
    <3>4. y.do \in OneStepCalls
      BY <3>2 DEF OneStepCalls
    <3>5. /\ r.err = "ok" => u.err = "ok"
          /\ u.err = "ok" => r.err = "ok"
          /\ r.fs = [fs EXCEPT ![m] = u.tree]
      <4>1. 1 \in 0..(MostSteps - 1) /\ u = Single(fs[m], y)
        BY DEF MostSteps, t
      <4> HIDE DEF u
      <4>2. QED
        BY <1>6, <2>1, <2>5, <3>2, <3>4, <4>1, CourseLast
    <3>6. Quiet(u, t)
      BY <3>4, SingleIsQuiet
    <3> HIDE DEF u
    <3>7. CASE r.err = "ok"
      <4> DEFINE n == mem_stat(t, q)
                 d == n.content \cup c
      <4>1. IsFile(n) /\ Carries(u.tree, q, d)
        BY <2>3, <3>3, <3>5, <3>7, ExtendHolds
      <4>2. mem_read(t, q) = n
        BY <4>1 DEF mem_read
      <4>3. c \cup Contents(read_file(fs, p)) = d
        <5> HIDE DEF n
        <5> QED BY <2>6, <4>1, <4>2 DEF Contents
      <4>4. r.fs[m] = u.tree /\ DOMAIN r.fs = DOMAIN fs
        BY <2>3, <3>5
      <4> HIDE DEF d
      <4>5. Wrote(r.fs[m], Rel(p, m), d) /\ m = resolve_mount(DOMAIN r.fs, p)
        BY <2>2, <4>1, <4>4 DEF Wrote
      <4>6. Holds(r.fs, p, d)
        BY <1>6, <4>5, HoldsBy
      <4>7. QED
        BY <3>7, <4>3, <4>6 DEF Silent, AppendVisible, Done
    <3>8. CASE r.err # "ok"
      <4>1. u.tree = fs[m]
        BY <3>5, <3>6, <3>8 DEF Quiet, t
      <4>2. r.fs = fs
        BY <2>3, <3>5, <4>1
      <4>3. QED
        BY <3>8, <4>2 DEF Silent, AppendVisible, Done
    <3>9. QED
      BY <3>7, <3>8
  <2>8. CASE ~mem_exists(t, q)
    <3>1. y = [do |-> "write", m |-> m, p |-> Rel(p, m), c |-> c]
      BY <2>2, <2>4, <2>8
    <3> HIDE DEF y
    <3>2. Silent(r) /\ WriteVisible(p, c, r)
      <4>1. 1 \in 0..(MostSteps - 4)
        BY DEF MostSteps
      <4>2. QED
        BY <1>6, <2>1, <2>2, <2>5, <3>1, <4>1, WriteLast
    <3>3. c \cup Contents(read_file(fs, p)) = c
      <4>1. Contents(mem_read(t, q)) = {}
        BY <2>8, NothingThere
      <4>2. QED
        BY <2>6, <4>1
    <3>4. QED
      BY <3>2, <3>3 DEF WriteVisible, AppendVisible
  <2>9. QED
    BY <2>7, <2>8
<1>7. QED
  BY <1>5, <1>6

(***************************************************************************)
(* The calls on two paths.                                                 *)
(***************************************************************************)
\* What the three of them start with.
Lost(m, k, call) == m = Nobody \/ k = Nobody => \E z : z.m = Nobody /\ call = <<z>>

Reading(m, p, into) == [do |-> "read", m |-> m, p |-> p, into |-> into]

LEMMA PairSteps ==
  ASSUME NEW F, NEW p, NEW q, NEW m, m = resolve_mount(DOMAIN F, p),
         NEW k, k = resolve_mount(DOMAIN F, q), NEW a, a = Rel(p, m), NEW b, b = Rel(q, k),
         NEW s, s = Step(F, "read", p), NEW d, d = Step(F, "write", q)
  PROVE  /\ s.m = m /\ d.m = k
         /\ m # Nobody => /\ s = [do |-> "read", m |-> m, p |-> a]
                          /\ \A do : [s EXCEPT !.do = do] = [do |-> do, m |-> m, p |-> a]
         /\ k # Nobody => d = [do |-> "write", m |-> k, p |-> b] /\ d.p = b
<1>1. s.m = m /\ d.m = k
  BY StepOn
<1>2. ASSUME m # Nobody
      PROVE  /\ s = [do |-> "read", m |-> m, p |-> a]
             /\ \A do : [s EXCEPT !.do = do] = [do |-> do, m |-> m, p |-> a]
  <2>1. s = [do |-> "read", m |-> m, p |-> a]
    BY <1>2, StepOn
  <2>2. ASSUME NEW do PROVE [s EXCEPT !.do = do] = [do |-> do, m |-> m, p |-> a]
    BY ONLY <2>1
  <2>3. QED
    BY <2>1, <2>2
<1>3. ASSUME k # Nobody PROVE d = [do |-> "write", m |-> k, p |-> b] /\ d.p = b
  BY <1>3, StepOn
<1>4. QED
  BY <1>1, <1>2, <1>3

LEMMA CopyIs ==
  ASSUME NEW F, NEW p, NEW q, NEW m, m = resolve_mount(DOMAIN F, p),
         NEW k, k = resolve_mount(DOMAIN F, q), NEW a, a = Rel(p, m), NEW b, b = Rel(q, k),
         NEW i, i = IF m = k THEN [do |-> "mode", m |-> m, p |-> a, dst |-> b]
                    ELSE [do |-> "write", m |-> k, p |-> b]
  PROVE  /\ Lost(m, k, copy(F, p, q))
         /\ m # Nobody /\ k # Nobody =>
              copy(F, p, q) = <<[do |-> "read", m |-> m, p |-> a, into |-> i]>>
<1> DEFINE s == Step(F, "read", p)
           d == Step(F, "write", q)
           y == [s EXCEPT !.do = "mode"]
<1>1. copy(F, p, q) = IF s.m = Nobody THEN <<s>> ELSE IF d.m = Nobody THEN <<d>>
                      ELSE IF s.m = d.m THEN <<Also(s, "into", Also(y, "dst", d.p))>>
                      ELSE <<Also(s, "into", d)>>
  BY DEF copy, Two
<1>2. /\ s.m = m /\ d.m = k
      /\ m # Nobody => /\ s = [do |-> "read", m |-> m, p |-> a]
                       /\ \A do : [s EXCEPT !.do = do] = [do |-> do, m |-> m, p |-> a]
      /\ k # Nobody => d = [do |-> "write", m |-> k, p |-> b] /\ d.p = b
  <2> HIDE DEF s, d
  <2> QED BY PairSteps DEF s, d
<1>3. m # Nobody => y = [do |-> "mode", m |-> m, p |-> a]
  BY <1>2
<1> HIDE DEF s, d, y
<1>4. ASSUME m # Nobody PROVE Also(y, "dst", b) = [do |-> "mode", m |-> m, p |-> a, dst |-> b]
  <2>1. y = [do |-> "mode", m |-> m, p |-> a]
    BY <1>3, <1>4
  <2>2. QED
    BY <2>1, AlsoIs
<1>5. ASSUME m # Nobody PROVE Also(s, "into", i) = [do |-> "read", m |-> m, p |-> a, into |-> i]
  <2>1. s = [do |-> "read", m |-> m, p |-> a]
    BY <1>2, <1>5
  <2>2. QED
    BY <2>1, AlsoIs
<1>6. Lost(m, k, copy(F, p, q))
  BY <1>1, <1>2 DEF Lost
<1>7. m # Nobody /\ k # Nobody => copy(F, p, q) = <<Also(s, "into", i)>>
  BY <1>1, <1>2, <1>4
<1>8. QED
  BY <1>5, <1>6, <1>7

LEMMA HardlinkIs ==
  ASSUME NEW F, NEW p, NEW q, NEW m, m = resolve_mount(DOMAIN F, p),
         NEW k, k = resolve_mount(DOMAIN F, q), NEW a, a = Rel(p, m), NEW b, b = Rel(q, k),
         NEW i, i = [do |-> "meta", m |-> m, p |-> a, dst |-> b]
  PROVE  /\ Lost(m, k, hardlink(F, p, q))
         /\ m # Nobody /\ k # Nobody =>
              hardlink(F, p, q) = IF m = k THEN <<[do |-> "read", m |-> m, p |-> a, into |-> i]>>
                                  ELSE <<[do |-> "refuse", m |-> m, p |-> a]>>
<1> DEFINE s == Step(F, "read", p)
           d == Step(F, "write", q)
           y == [s EXCEPT !.do = "meta"]
           n == [s EXCEPT !.do = "refuse"]
<1>1. hardlink(F, p, q) = IF s.m = Nobody THEN <<s>> ELSE IF d.m = Nobody THEN <<d>>
                          ELSE IF s.m = d.m THEN <<Also(s, "into", Also(y, "dst", d.p))>>
                          ELSE <<n>>
  BY DEF hardlink, Two
<1>2. /\ s.m = m /\ d.m = k
      /\ m # Nobody => /\ s = [do |-> "read", m |-> m, p |-> a]
                       /\ \A do : [s EXCEPT !.do = do] = [do |-> do, m |-> m, p |-> a]
      /\ k # Nobody => d = [do |-> "write", m |-> k, p |-> b] /\ d.p = b
  <2> HIDE DEF s, d
  <2> QED BY PairSteps DEF s, d
<1>3. m # Nobody => /\ y = [do |-> "meta", m |-> m, p |-> a]
                    /\ n = [do |-> "refuse", m |-> m, p |-> a]
  BY <1>2
<1> HIDE DEF s, d, y, n
<1>4. ASSUME m # Nobody PROVE Also(y, "dst", b) = [do |-> "meta", m |-> m, p |-> a, dst |-> b]
  <2>1. y = [do |-> "meta", m |-> m, p |-> a]
    BY <1>3, <1>4
  <2>2. QED
    BY <2>1, AlsoIs
<1>5. ASSUME m # Nobody PROVE Also(s, "into", i) = [do |-> "read", m |-> m, p |-> a, into |-> i]
  <2>1. s = [do |-> "read", m |-> m, p |-> a]
    BY <1>2, <1>5
  <2>2. QED
    BY <2>1, AlsoIs
<1>6. Lost(m, k, hardlink(F, p, q))
  BY <1>1, <1>2 DEF Lost
<1>7. m # Nobody /\ k # Nobody =>
        hardlink(F, p, q) = IF m = k THEN <<Also(s, "into", i)>> ELSE <<n>>
  BY <1>1, <1>2, <1>4
<1>8. QED
  BY <1>3, <1>5, <1>6, <1>7

\* The steps of a rename.
Moving(m, p, dst) == [do |-> "rename", m |-> m, p |-> p, dst |-> dst]
Refusing(m, p)    == [do |-> "no dir", m |-> m, p |-> p]
Onto(m, p)        == [do |-> "write", m |-> m, p |-> p]
Moves(m, k, p, dst, rest) == <<Refusing(m, p), Reading(m, p, Onto(k, dst))>> \o rest

LEMMA MoveIs ==
  ASSUME NEW F, NEW p, NEW q, NEW m, m = resolve_mount(DOMAIN F, p),
         NEW k, k = resolve_mount(DOMAIN F, q), NEW a, a = Rel(p, m), NEW b, b = Rel(q, k)
  PROVE  /\ Lost(m, k, rename(F, p, q))
         /\ m # Nobody /\ k # Nobody /\ m = k =>
              rename(F, p, q) = <<Moving(m, a, b)>>
<1> DEFINE s == Step(F, "read", p)
           d == Step(F, "write", q)
           y == [s EXCEPT !.do = "rename"]
           v == [s EXCEPT !.do = "no dir"]
           gone == remove_file(F, p)
<1>1. rename(F, p, q) = IF s.m = Nobody THEN <<s>> ELSE IF d.m = Nobody THEN <<d>>
                        ELSE IF s.m = d.m THEN <<Also(y, "dst", d.p)>>
                        ELSE <<v, Also(s, "into", d)>> \o gone
  BY DEF rename, Two
<1>2. /\ s.m = m /\ d.m = k
      /\ m # Nobody => /\ s = [do |-> "read", m |-> m, p |-> a]
                       /\ \A do : [s EXCEPT !.do = do] = [do |-> do, m |-> m, p |-> a]
      /\ k # Nobody => d = [do |-> "write", m |-> k, p |-> b] /\ d.p = b
  <2> HIDE DEF s, d
  <2> QED BY PairSteps DEF s, d
<1>3. m # Nobody => y = [do |-> "rename", m |-> m, p |-> a]
  BY <1>2
<1> HIDE DEF s, d, y, v, gone
<1>4. ASSUME m # Nobody PROVE Also(y, "dst", b) = [do |-> "rename", m |-> m, p |-> a, dst |-> b]
  <2>1. y = [do |-> "rename", m |-> m, p |-> a]
    BY <1>3, <1>4
  <2>2. QED
    BY <2>1, AlsoIs
<1>5. Lost(m, k, rename(F, p, q))
  BY <1>1, <1>2 DEF Lost
<1>6. m # Nobody /\ k # Nobody /\ m = k =>
        rename(F, p, q) = <<[do |-> "rename", m |-> m, p |-> a, dst |-> b]>>
  BY <1>1, <1>2, <1>4
<1>7. QED
  BY <1>5, <1>6 DEF Moving

LEMMA MoveOver ==
  ASSUME NEW F, NEW p, NEW q, NEW m, m = resolve_mount(DOMAIN F, p),
         NEW k, k = resolve_mount(DOMAIN F, q), NEW a, a = Rel(p, m), NEW b, b = Rel(q, k),
         m # Nobody, k # Nobody, m # k
  PROVE  rename(F, p, q) = Moves(m, k, a, b, remove_file(F, p))
<1> DEFINE s == Step(F, "read", p)
           d == Step(F, "write", q)
           y == [s EXCEPT !.do = "rename"]
           v == [s EXCEPT !.do = "no dir"]
           gone == remove_file(F, p)
           i == [do |-> "write", m |-> k, p |-> b]
           n == [do |-> "no dir", m |-> m, p |-> a]
           x == [do |-> "read", m |-> m, p |-> a, into |-> i]
<1>1. rename(F, p, q) = IF s.m = Nobody THEN <<s>> ELSE IF d.m = Nobody THEN <<d>>
                        ELSE IF s.m = d.m THEN <<Also(y, "dst", d.p)>>
                        ELSE <<v, Also(s, "into", d)>> \o gone
  BY DEF rename, Two
<1>2. /\ s.m = m /\ d.m = k
      /\ m # Nobody => /\ s = [do |-> "read", m |-> m, p |-> a]
                       /\ \A do : [s EXCEPT !.do = do] = [do |-> do, m |-> m, p |-> a]
      /\ k # Nobody => d = [do |-> "write", m |-> k, p |-> b] /\ d.p = b
  <2> HIDE DEF s, d
  <2> QED BY PairSteps DEF s, d
<1>3. m # Nobody => y = [do |-> "rename", m |-> m, p |-> a] /\ v = n
  BY <1>2
<1> HIDE DEF s, d, y, v, gone, n, x, i
<1>4. ASSUME m # Nobody PROVE Also(s, "into", i) = x
  <2>1. s = [do |-> "read", m |-> m, p |-> a]
    BY <1>2, <1>4
  <2>2. QED
    BY <2>1, AlsoIs DEF x
<1>5. QED
  BY <1>1, <1>2, <1>3, <1>4 DEF n, x, i, gone, Moves, Reading, Refusing, Onto

LEMMA LostPair ==
  ASSUME NEW F, NEW call, \E z : z.m = Nobody /\ call = <<z>>, NEW r, r = Finish(F, call)
  PROVE  r.err # "ok" /\ r.fs = F
<1>1. PICK z : z.m = Nobody /\ call = <<z>>
  OBVIOUS
<1>2. QED
  BY <1>1, CourseLost

\* The steps that read, each with what it leaves.
LEMMA ReadEffect ==
  ASSUME NEW t, NEW m, NEW p, NEW i, NEW n, n = mem_read(t, p),
         NEW s, s = [do |-> "read", m |-> m, p |-> p, into |-> i], NEW e, e = Effect(t, s)
  PROVE  /\ IsNone(n) => e.err # "ok" /\ e.tree = t
         /\ ~IsNone(n) => e.err = "ok" /\ e.tree = t /\ e.next = <<Also(i, "c", n.content)>>
<1>1. e = OnlyIf(n, t, <<Also(i, "c", n.content)>>)
  BY DEF Effect, Read
<1> DEFINE next == <<Also(i, "c", n.content)>>
<1> HIDE DEF next
<1>2. OnlyIf(n, t, next) = IF IsNone(n) THEN Left(Fail("NotFound", t), <<>>)
                           ELSE Left(Ok(t), next)
  BY DEF OnlyIf
<1>3. e = OnlyIf(n, t, next)
  BY <1>1 DEF next
<1>4. CASE IsNone(n)
  <2>1. e = Left(Fail("NotFound", t), <<>>)
    BY ONLY <1>2, <1>3, <1>4
  <2>2. e.err = "NotFound" /\ e.tree = t
    BY ONLY <2>1, FailParts
  <2>3. QED
    BY <1>4, <2>2
<1>5. CASE ~IsNone(n)
  <2>1. e = Left(Ok(t), next)
    BY ONLY <1>2, <1>3, <1>5
  <2>2. e.err = "ok" /\ e.tree = t /\ e.next = next
    BY ONLY <2>1, OkParts
  <2>3. QED
    BY <1>5, <2>2 DEF next
<1>6. QED
  BY <1>4, <1>5

LEMMA ModeEffect ==
  ASSUME NEW t, NEW m, NEW p, NEW q, NEW c, NEW n, n = mem_stat(t, p),
         NEW s, s = [do |-> "mode", m |-> m, p |-> p, dst |-> q, c |-> c],
         NEW e, e = Effect(t, s),
         NEW y, y = [do |-> "write", m |-> m, p |-> q, c |-> c],
         NEW z, z = [do |-> "chmod", m |-> m, p |-> q, mode |-> n.mode]
  PROVE  /\ IsNone(n) => e.err # "ok" /\ e.tree = t
         /\ ~IsNone(n) => e.err = "ok" /\ e.tree = t /\ e.next = <<y, z>>
<1> DEFINE next == <<y, z>>
<1>1. e = ReadMode(t, s, n)
  BY DEF Effect
<1>2. ReadMode(t, s, n) = OnlyIf(n, t, next)
  BY DEF ReadMode
<1> HIDE DEF next
<1>3. OnlyIf(n, t, next) = IF IsNone(n) THEN Left(Fail("NotFound", t), <<>>)
                           ELSE Left(Ok(t), next)
  BY DEF OnlyIf
<1>4. CASE IsNone(n)
  <2>1. e = Left(Fail("NotFound", t), <<>>)
    BY ONLY <1>1, <1>2, <1>3, <1>4
  <2>2. e.err = "NotFound" /\ e.tree = t
    BY ONLY <2>1, FailParts
  <2>3. QED
    BY <1>4, <2>2
<1>5. CASE ~IsNone(n)
  <2>1. e = Left(Ok(t), next)
    BY ONLY <1>1, <1>2, <1>3, <1>5
  <2>2. e.err = "ok" /\ e.tree = t /\ e.next = next
    BY ONLY <2>1, OkParts
  <2>3. QED
    BY <1>5, <2>2 DEF next
<1>6. QED
  BY <1>4, <1>5

\* The first step of a copy or a rename reads the source.
LEMMA ReadCourse ==
  ASSUME NEW S, Course(S), NEW i \in 0..(MostSteps - 1), NEW mounts, NEW X,
         NEW F \in [mounts -> X], NEW m \in mounts, m # Nobody, NEW p, NEW into,
         NEW Y, NEW rest \in Seq(Y),
         NEW s, s = [do |-> "read", m |-> m, p |-> p, into |-> into],
         NEW work, work = <<s>> \o rest, Got(S, i, F, work), NEW n, n = mem_read(F[m], p)
  PROVE  \/ Fell(S, F)
         \/ ~IsNone(n) /\ Got(S, i + 1, F, <<Also(into, "c", n.content)>> \o rest)
<1> DEFINE t == F[m]
           e == Effect(t, s)
           y == Also(into, "c", n.content)
<1>1. /\ IsNone(n) => e.err # "ok" /\ e.tree = t
      /\ ~IsNone(n) => e.err = "ok" /\ e.tree = t /\ e.next = <<y>>
  <2> HIDE DEF e, y, t
  <2> QED BY ReadEffect DEF e, y, t
<1>2. s.m = m /\ work # <<>> /\ Head(work) = s /\ Tail(work) = rest
  BY WorkIs
<1>3. e = Effect(F[m], s) /\ e.tree = F[m]
  BY <1>1
<1> HIDE DEF e
<1>4. /\ e.err = "ok" => Got(S, i + 1, [F EXCEPT ![m] = e.tree], e.next \o Tail(work))
      /\ e.err # "ok" => Fell(S, [F EXCEPT ![m] = e.tree])
  BY <1>2, <1>3, CourseStep
<1>5. [F EXCEPT ![m] = e.tree] = F
  BY <1>3
<1> HIDE DEF t, y
<1>6. QED
  BY <1>1, <1>2, <1>4, <1>5 DEF y

\* A copy within a mount goes on with the mode of the source.
LEMMA ModeCourse ==
  ASSUME NEW S, Course(S), NEW i \in 0..(MostSteps - 1), NEW mounts, NEW X,
         NEW F \in [mounts -> X], NEW m \in mounts, m # Nobody, NEW p, NEW q, NEW c,
         NEW y, y = [do |-> "mode", m |-> m, p |-> p, dst |-> q, c |-> c],
         Got(S, i, F, <<y>>), NEW n, n = mem_stat(F[m], p),
         NEW w, w = [do |-> "write", m |-> m, p |-> q, c |-> c],
         NEW h, h = [do |-> "chmod", m |-> m, p |-> q, mode |-> n.mode]
  PROVE  \/ Fell(S, F)
         \/ ~IsNone(n) /\ Got(S, i + 1, F, <<w>> \o <<h>>)
<1> DEFINE t == F[m]
           e == Effect(t, y)
           work == <<y>>
<1>1. /\ IsNone(n) => e.err # "ok" /\ e.tree = t
      /\ ~IsNone(n) => e.err = "ok" /\ e.tree = t /\ e.next = <<w, h>>
  <2>1. n = mem_stat(t, p) /\ e = Effect(t, y)
    OBVIOUS
  <2> HIDE DEF e, t
  <2>2. QED
    BY ONLY <2>1, ModeEffect, y = [do |-> "mode", m |-> m, p |-> p, dst |-> q, c |-> c],
            w = [do |-> "write", m |-> m, p |-> q, c |-> c],
            h = [do |-> "chmod", m |-> m, p |-> q, mode |-> n.mode]
<1>2. y.m = m /\ work # <<>> /\ Head(work) = y /\ Tail(work) = <<>>
  OBVIOUS
<1>3. e = Effect(F[m], y) /\ e.tree = F[m]
  BY <1>1
<1>4. Got(S, i, F, work)
  OBVIOUS
<1> HIDE DEF e, work
<1>5. /\ e.err = "ok" => Got(S, i + 1, [F EXCEPT ![m] = e.tree], e.next \o Tail(work))
      /\ e.err # "ok" => Fell(S, [F EXCEPT ![m] = e.tree])
  BY ONLY <1>2, <1>3, <1>4, CourseStep, Course(S), i \in 0..(MostSteps - 1), m # Nobody
<1>6. [F EXCEPT ![m] = e.tree] = F
  BY ONLY <1>3, F \in [mounts -> X]
<1>7. <<w, h>> \o <<>> = <<w>> \o <<h>>
  BY ONLY TRUE
<1> HIDE DEF t
<1>8. QED
  BY ONLY <1>1, <1>2, <1>5, <1>6, <1>7

\* A hardlink goes on with the mode and the number of the source.
LEMMA MetaEffect ==
  ASSUME NEW t, NEW m, NEW p, NEW q, NEW c, NEW n, n = mem_stat(t, p),
         NEW s, s = [do |-> "meta", m |-> m, p |-> p, dst |-> q, c |-> c],
         NEW e, e = Effect(t, s),
         NEW y, y = [do |-> "new", m |-> m, p |-> q, node |-> MemFile(c, n.mode, file_id(n))]
  PROVE  /\ IsNone(n) => e.err # "ok" /\ e.tree = t
         /\ ~IsNone(n) => e.err = "ok" /\ e.tree = t /\ e.next = <<y>>
<1> DEFINE next == <<y>>
<1>1. e = ReadMeta(t, s, n)
  BY DEF Effect
<1>2. ReadMeta(t, s, n) = OnlyIf(n, t, next)
  BY DEF ReadMeta
<1> HIDE DEF next
<1>3. OnlyIf(n, t, next) = IF IsNone(n) THEN Left(Fail("NotFound", t), <<>>)
                           ELSE Left(Ok(t), next)
  BY DEF OnlyIf
<1>4. CASE IsNone(n)
  <2>1. e = Left(Fail("NotFound", t), <<>>)
    BY ONLY <1>1, <1>2, <1>3, <1>4
  <2>2. e.err = "NotFound" /\ e.tree = t
    BY ONLY <2>1, FailParts
  <2>3. QED
    BY <1>4, <2>2
<1>5. CASE ~IsNone(n)
  <2>1. e = Left(Ok(t), next)
    BY ONLY <1>1, <1>2, <1>3, <1>5
  <2>2. e.err = "ok" /\ e.tree = t /\ e.next = next
    BY ONLY <2>1, OkParts
  <2>3. QED
    BY <1>5, <2>2 DEF next
<1>6. QED
  BY <1>4, <1>5

Attaching(m, p, node) == [do |-> "new", m |-> m, p |-> p, node |-> node]

LEMMA MetaCourse ==
  ASSUME NEW S, Course(S), NEW i \in 0..(MostSteps - 1), NEW mounts, NEW X,
         NEW F \in [mounts -> X], NEW m \in mounts, m # Nobody, NEW p, NEW q, NEW c,
         NEW y, y = [do |-> "meta", m |-> m, p |-> p, dst |-> q, c |-> c],
         Got(S, i, F, <<y>>)
  PROVE  \/ Fell(S, F)
         \/ \E node : Got(S, i + 1, F, <<Attaching(m, q, node)>>)
<1> DEFINE t == F[m]
           n == mem_stat(t, p)
           node == MemFile(c, n.mode, file_id(n))
           w == [do |-> "new", m |-> m, p |-> q, node |-> node]
           e == Effect(t, y)
           work == <<y>>
<1>1. /\ IsNone(n) => e.err # "ok" /\ e.tree = t
      /\ ~IsNone(n) => e.err = "ok" /\ e.tree = t /\ e.next = <<w>>
  <2>1. n = mem_stat(t, p) /\ e = Effect(t, y)
        /\ w = [do |-> "new", m |-> m, p |-> q, node |-> MemFile(c, n.mode, file_id(n))]
    OBVIOUS
  <2> HIDE DEF e, t, n, w
  <2>2. QED
    BY ONLY <2>1, MetaEffect, y = [do |-> "meta", m |-> m, p |-> p, dst |-> q, c |-> c]
<1>2. y.m = m /\ work # <<>> /\ Head(work) = y /\ Tail(work) = <<>>
  OBVIOUS
<1>3. e = Effect(F[m], y) /\ e.tree = F[m]
  BY <1>1
<1>4. Got(S, i, F, work)
  OBVIOUS
<1> HIDE DEF e, work
<1>5. /\ e.err = "ok" => Got(S, i + 1, [F EXCEPT ![m] = e.tree], e.next \o Tail(work))
      /\ e.err # "ok" => Fell(S, [F EXCEPT ![m] = e.tree])
  BY ONLY <1>2, <1>3, <1>4, CourseStep, Course(S), i \in 0..(MostSteps - 1), m # Nobody
<1>6. [F EXCEPT ![m] = e.tree] = F
  BY ONLY <1>3, F \in [mounts -> X]
<1>7. <<w>> \o <<>> = <<w>> /\ w = Attaching(m, q, node)
  BY DEF Attaching
<1> HIDE DEF t, n, w, node
<1>8. Fell(S, F) \/ (e.err = "ok" /\ e.next = <<w>>)
  BY ONLY <1>1, <1>5, <1>6
<1>9. Fell(S, F) \/ Got(S, i + 1, F, <<w>>)
  <2>1. CASE e.err = "ok" /\ e.next = <<w>>
    BY ONLY <1>2, <1>5, <1>6, <1>7, <2>1
  <2>2. QED
    BY <1>8, <2>1
<1>10. CASE Got(S, i + 1, F, <<w>>)
  <2>1. Got(S, i + 1, F, <<Attaching(m, q, node)>>)
    BY ONLY <1>7, <1>10
  <2>2. QED
    BY <2>1
<1>11. QED
  BY <1>9, <1>10

\* And ends with it.
Setting(m, p, mode) == [do |-> "chmod", m |-> m, p |-> p, mode |-> mode]

LEMMA ModeLast ==
  ASSUME NEW S, Course(S), NEW j \in 0..(MostSteps - 1), NEW F, F \in [DOMAIN F -> Memory],
         NEW m \in DOMAIN F, m # Nobody,
         NEW u, Sound(u), NEW q \in Seq(Name), NEW c, Wrote(u, q, c), NEW mode \in Mode,
         Got(S, j, [F EXCEPT ![m] = u], <<Setting(m, q, mode)>>), NEW r, r = S[MostSteps]
  PROVE  /\ DOMAIN r.fs = DOMAIN F
         /\ r.err = "ok" => Carries(r.fs[m], q, c) /\ mem_stat(r.fs[m], q).mode = mode
         /\ r.err # "ok" => Refuses(Leads(r.fs[m], q))
<1> DEFINE h == Setting(m, q, mode)
           G == [F EXCEPT ![m] = u]
           k == mem_chmod(u, q, mode)
           x == Single(G[m], h)
<1>1. G[m] = u /\ DOMAIN G = DOMAIN F
  OBVIOUS
<1>2. h.do = "chmod" /\ h.m = m /\ h.p = q /\ h.mode = mode
  BY DEF Setting
<1>3. x = k
  BY <1>1, <1>2 DEF Single
<1>4. h.do \in OneStepCalls \cup {"rename"}
  BY <1>2 DEF OneStepCalls
<1>5. Got(S, j, G, <<h>>) /\ x = Single(G[m], h)
  OBVIOUS
<1> HIDE DEF G, x, h
<1>6. /\ r.err = "ok" => x.err = "ok"
      /\ x.err = "ok" => r.err = "ok"
      /\ r.fs = [G EXCEPT ![m] = x.tree]
  BY ONLY <1>2, <1>4, <1>5, CourseLast, Course(S), j \in 0..(MostSteps - 1), m # Nobody,
          r = S[MostSteps]
<1>7. r.fs[m] = x.tree /\ DOMAIN r.fs = DOMAIN F
  BY <1>1, <1>6
<1>8. /\ k.err = "ok" => Carries(k.tree, q, c) /\ mem_stat(k.tree, q).mode = mode
      /\ k.err # "ok" => k.tree = u /\ Refuses(Leads(u, q))
  <2>1. k = mem_chmod(u, q, mode)
    OBVIOUS
  <2> HIDE DEF k
  <2>2. QED
    BY ONLY <2>1, ChmodWritten, Sound(u), q \in Seq(Name), Wrote(u, q, c), mode \in Mode
<1> HIDE DEF k
<1>9. QED
  BY ONLY <1>3, <1>6, <1>7, <1>8

LEMMA ReadIsStat ==
  ASSUME NEW t, NEW p, NEW n, n = mem_read(t, p), ~IsNone(n)
  PROVE  n = mem_stat(t, p) /\ IsFile(n)
<1> DEFINE g == mem_stat(t, p)
<1>1. n = IF IsFile(g) THEN g ELSE None
  BY DEF mem_read
<1> HIDE DEF g
<1>2. QED
  BY <1>1, NoneIs DEF g

LEMMA StatType ==
  ASSUME NEW t, Sound(t), NEW p \in Seq(Name)
  PROVE  mem_stat(t, p) \in MemNode
<1> DEFINE r == Leads(t, p)
<1>1. mem_stat(t, p) = IF r.err = "ok" THEN At(t, r.path) ELSE None
  BY DEF mem_stat, NodeOf, Leads
<1>2. t \in Memory
  BY SoundType
<1>3. At(t, r.path) \in MemNode
  BY <1>2, NodeType
<1>4. None \in MemNode
  BY DEF MemNode
<1> HIDE DEF r
<1>5. QED
  BY <1>1, <1>3, <1>4

LEMMA FileParts ==
  ASSUME NEW t, Sound(t), NEW p \in Seq(Name), NEW n, n = mem_stat(t, p), IsFile(n)
  PROVE  n.content \in SUBSET Chunk /\ n.mode \in Mode
<1>1. n \in MemNode
  BY StatType
<1>2. QED
  BY <1>1, MemoryNode

LEMMA ReadAlone ==
  ASSUME NEW S, Course(S), NEW i \in 0..(MostSteps - 1), NEW F, F \in [DOMAIN F -> Memory],
         NEW m \in DOMAIN F, m # Nobody, NEW p, NEW into,
         Got(S, i, F, <<Reading(m, p, into)>>)
  PROVE  \/ Fell(S, F)
         \/ /\ ~IsNone(mem_read(F[m], p))
            /\ Got(S, i + 1, F, <<Also(into, "c", mem_read(F[m], p).content)>>)
<1> DEFINE n == mem_read(F[m], p)
           y == Also(into, "c", n.content)
           s == Reading(m, p, into)
           rest == <<>>
           work == <<s>> \o rest
           X == {}
<1>1. work = <<s>> /\ <<y>> \o rest = <<y>>
  <2> HIDE DEF s, y
  <2> QED OBVIOUS
<1>2. Got(S, i, F, work) /\ work = <<s>> \o rest /\ rest \in Seq(X)
  <2> HIDE DEF s, y
  <2> QED BY <1>1 DEF s
<1>3. s = [do |-> "read", m |-> m, p |-> p, into |-> into]
  BY DEF Reading
<1>4. n = mem_read(F[m], p)
  OBVIOUS
<1> HIDE DEF work, rest, X, s, n
<1>5. \/ Fell(S, F)
      \/ ~IsNone(n) /\ Got(S, i + 1, F, <<Also(into, "c", n.content)>> \o rest)
  BY <1>2, <1>3, <1>4, ReadCourse
<1>6. QED
  BY <1>1, <1>5 DEF n

LEMMA LinkWithin ==
  ASSUME Safe, NEW p \in Path, NEW q \in Path, NEW m, m = resolve_mount(DOMAIN fs, p),
         m = resolve_mount(DOMAIN fs, q), m # Nobody, NEW r, r = Finish(fs, hardlink(fs, p, q))
  PROVE  Silent(r)
<1> DEFINE a == Rel(p, m)
           b == Rel(q, m)
           n == mem_read(fs[m], a)
           i == [do |-> "meta", m |-> m, p |-> a, dst |-> b]
           x == [do |-> "read", m |-> m, p |-> a, into |-> i]
           y == [do |-> "meta", m |-> m, p |-> a, dst |-> b, c |-> n.content]
<1>1. m \in DOMAIN fs /\ a \in Seq(Name) /\ b \in Seq(Name) /\ Sound(fs[m])
      /\ fs \in [DOMAIN fs -> Memory]
  BY OwnerHolds
<1>2. hardlink(fs, p, q) = <<x>>
  <2>1. i = [do |-> "meta", m |-> m, p |-> a, dst |-> b]
    OBVIOUS
  <2> HIDE DEF i, a, b
  <2>2. QED
    BY <2>1, HardlinkIs DEF a, b
<1>3. PICK S : Course(S) /\ Got(S, 0, fs, <<x>>) /\ r = S[MostSteps]
  BY <1>2, CourseIs
<1>4. /\ 0 \in 0..(MostSteps - 1) /\ 0 + 1 \in 0..(MostSteps - 1)
      /\ (0 + 1) + 1 \in 0..(MostSteps - 1)
  BY DEF MostSteps
<1>5. Also(i, "c", n.content) = y
  <2>1. i = [do |-> "meta", m |-> m, p |-> a, dst |-> b]
    OBVIOUS
  <2> HIDE DEF i, n, a, b
  <2>2. QED
    BY <2>1, AlsoIs
<1>6. Fell(S, fs) \/ Got(S, 0 + 1, fs, <<y>>)
  <2>1. Got(S, 0, fs, <<Reading(m, a, i)>>)
    BY <1>3 DEF Reading
  <2>2. y = Also(i, "c", n.content)
    BY <1>5
  <2> HIDE DEF x, y, i, n, a, b
  <2>3. \/ Fell(S, fs)
        \/ /\ ~IsNone(mem_read(fs[m], a))
           /\ Got(S, 0 + 1, fs, <<Also(i, "c", mem_read(fs[m], a).content)>>)
    BY ONLY <1>1, <1>3, <1>4, <2>1, ReadAlone, m # Nobody
  <2>4. QED
    BY <2>2, <2>3 DEF n
<1>7. Fell(S, fs) \/ \E node : Got(S, (0 + 1) + 1, fs, <<Attaching(m, b, node)>>)
  <2>1. y = [do |-> "meta", m |-> m, p |-> a, dst |-> b, c |-> n.content]
    OBVIOUS
  <2> HIDE DEF y, n, a, b
  <2>2. QED
    BY ONLY <1>1, <1>3, <1>4, <1>6, <2>1, MetaCourse, m # Nobody
<1> HIDE DEF x, y, i, n, a, b
<1>8. CASE Fell(S, fs)
  BY <1>3, <1>8 DEF Fell, Silent, Done
<1>9. CASE \E node : Got(S, (0 + 1) + 1, fs, <<Attaching(m, b, node)>>)
  <2>1. PICK node : Got(S, (0 + 1) + 1, fs, <<Attaching(m, b, node)>>)
    BY <1>9
  <2> DEFINE z == Attaching(m, b, node)
             u == Single(fs[m], z)
  <2>2. z.do = "new" /\ z.m = m
    BY DEF Attaching
  <2>2a. z.do \in OneStepCalls /\ u = Single(fs[m], z)
    BY <2>2 DEF OneStepCalls
  <2> HIDE DEF z, u
  <2>3. Quiet(u, fs[m])
    BY ONLY <2>2a, SingleIsQuiet
  <2>4. Got(S, (0 + 1) + 1, fs, <<z>>) /\ z.do \in OneStepCalls \cup {"rename"}
    BY <2>1, <2>2a DEF z
  <2>5. /\ r.err # "ok" => u.err # "ok"
        /\ r.fs = [fs EXCEPT ![m] = u.tree]
    BY <1>3, <1>4, <2>2, <2>4, CourseLast DEF u
  <2>6. r.err # "ok" => u.tree = fs[m]
    BY <2>3, <2>5 DEF Quiet
  <2>7. [fs EXCEPT ![m] = fs[m]] = fs
    BY <1>1
  <2>8. QED
    BY <2>5, <2>6, <2>7 DEF Silent, Done
<1>10. QED
  BY <1>7, <1>8, <1>9

LEMMA HardlinkCall ==
  ASSUME Safe, NEW p \in Path, NEW q \in Path, NEW r, r = Finish(fs, hardlink(fs, p, q))
  PROVE  Silent(r)
<1> DEFINE m == resolve_mount(DOMAIN fs, p)
           k == resolve_mount(DOMAIN fs, q)
           a == Rel(p, m)
           call == hardlink(fs, p, q)
           z == [do |-> "refuse", m |-> m, p |-> a]
<1>1. /\ Lost(m, k, call)
      /\ m # Nobody /\ k # Nobody /\ m # k => call = <<z>>
  <2> DEFINE b == Rel(q, k)
             i == [do |-> "meta", m |-> m, p |-> a, dst |-> b]
  <2>1. i = [do |-> "meta", m |-> m, p |-> a, dst |-> b]
    OBVIOUS
  <2> HIDE DEF i, a, b, m, k
  <2>2. QED
    BY <2>1, HardlinkIs DEF a, b, m, k
<1>2. m \in DOMAIN fs \cup {Nobody}
  BY OwnerHolds
<1>3. r = Finish(fs, call)
  OBVIOUS
<1>4. CASE m = Nobody \/ k = Nobody
  <2> HIDE DEF m, k, call
  <2>1. r.err # "ok" /\ r.fs = fs
    BY <1>1, <1>3, <1>4, LostPair DEF Lost
  <2>2. QED
    BY <2>1 DEF Silent
<1>5. CASE m # Nobody /\ m = k
  BY <1>5, LinkWithin
<1>6. CASE m # Nobody /\ k # Nobody /\ m # k
  <2>1. z.do \in OneStepCalls /\ z.m = m
    BY DEF OneStepCalls
  <2> HIDE DEF m, k, call, z, a
  <2>2. r = Finish(fs, <<z>>)
    BY <1>1, <1>3, <1>6
  <2>3. QED
    BY <1>2, <2>1, <2>2, OneCall
<1>7. QED
  BY <1>4, <1>5, <1>6

LEMMA CopyWithin ==
  ASSUME Safe, NEW p \in Path, NEW q \in Path, NEW m, m = resolve_mount(DOMAIN fs, p),
         m = resolve_mount(DOMAIN fs, q), m # Nobody, NEW r, r = Finish(fs, copy(fs, p, q))
  PROVE  CopyVisible(p, q, r) /\ (Silent(r) \/ Refused(r.fs, q))
<1> DEFINE a == Rel(p, m)
           b == Rel(q, m)
           t == fs[m]
           n == mem_read(t, a)
           i == [do |-> "mode", m |-> m, p |-> a, dst |-> b]
           x == [do |-> "read", m |-> m, p |-> a, into |-> i]
           y == [do |-> "mode", m |-> m, p |-> a, dst |-> b, c |-> n.content]
           w == [do |-> "write", m |-> m, p |-> b, c |-> n.content]
           h == [do |-> "chmod", m |-> m, p |-> b, mode |-> n.mode]
<1>1. m \in DOMAIN fs /\ a \in Seq(Name) /\ b \in Seq(Name) /\ Sound(t)
      /\ fs \in [DOMAIN fs -> Memory]
  BY OwnerHolds
<1>2. copy(fs, p, q) = <<x>>
  <2>1. i = IF m = m THEN i ELSE [do |-> "write", m |-> m, p |-> b]
    OBVIOUS
  <2> HIDE DEF i
  <2>2. i = IF m = m THEN [do |-> "mode", m |-> m, p |-> a, dst |-> b]
            ELSE [do |-> "write", m |-> m, p |-> b]
    BY <2>1 DEF i
  <2> HIDE DEF a, b
  <2>3. QED
    BY <2>2, CopyIs DEF a, b
<1>3. PICK S : Course(S) /\ Got(S, 0, fs, <<x>>) /\ r = S[MostSteps]
  BY <1>2, CourseIs
<1>4. /\ 0 \in 0..(MostSteps - 1) /\ 0 + 1 \in 0..(MostSteps - 1)
      /\ (0 + 1) + 1 \in 0..(MostSteps - 4)
  BY DEF MostSteps
<1>5. Also(i, "c", n.content) = y
  <2>1. i = [do |-> "mode", m |-> m, p |-> a, dst |-> b]
    OBVIOUS
  <2> HIDE DEF i, n, a, b
  <2>2. QED
    BY <2>1, AlsoIs
<1>7. \/ Fell(S, fs)
      \/ ~IsNone(n) /\ Got(S, 1, fs, <<y>>)
  <2>1. Got(S, 0, fs, <<Reading(m, a, i)>>)
    BY <1>3 DEF Reading
  <2>2. y = Also(i, "c", n.content)
    BY <1>5
  <2> HIDE DEF x, y, i, n, a, b, t, w, h
  <2>3. \/ Fell(S, fs)
        \/ /\ ~IsNone(mem_read(fs[m], a))
           /\ Got(S, 0 + 1, fs, <<Also(i, "c", mem_read(fs[m], a).content)>>)
    BY ONLY <1>1, <1>3, <1>4, <2>1, ReadAlone, m # Nobody
  <2>4. QED
    BY <2>2, <2>3 DEF n, t
<1>8. CASE Fell(S, fs)
  BY <1>3, <1>8 DEF Fell, Silent, CopyVisible, Done
<1>9. CASE ~IsNone(n) /\ Got(S, 1, fs, <<y>>)
  <2>1. n = mem_stat(t, a) /\ IsFile(n)
    <3> HIDE DEF t, a
    <3> QED BY <1>9, ReadIsStat
  <2>2. n.content \in SUBSET Chunk /\ n.mode \in Mode
    <3> HIDE DEF t, a, n
    <3> QED BY <1>1, <2>1, FileParts
  <2>3. \/ Fell(S, fs)
        \/ Got(S, 2, fs, <<w>> \o <<h>>)
    <3>1. /\ y = [do |-> "mode", m |-> m, p |-> a, dst |-> b, c |-> n.content]
          /\ w = [do |-> "write", m |-> m, p |-> b, c |-> n.content]
          /\ h = [do |-> "chmod", m |-> m, p |-> b, mode |-> n.mode]
          /\ n = mem_stat(fs[m], a) /\ Got(S, 0 + 1, fs, <<y>>)
      BY <1>9, <2>1
    <3> HIDE DEF y, w, h, n, a, b
    <3>2. \/ Fell(S, fs)
          \/ ~IsNone(n) /\ Got(S, (0 + 1) + 1, fs, <<w>> \o <<h>>)
      BY ONLY <1>1, <1>3, <1>4, <3>1, ModeCourse, m # Nobody
    <3>3. QED
      BY <3>2
  <2>4. CASE Got(S, 2, fs, <<w>> \o <<h>>)
    <3> DEFINE work == <<w>> \o <<h>>
    <3>1. \/ Fell(S, fs)
          \/ \E u, j : /\ Sound(u) /\ Wrote(u, b, n.content) /\ j \in {2 + 2, 2 + 4}
                       /\ Got(S, j, [fs EXCEPT ![m] = u], <<h>>)
      <4>1. w = [do |-> "write", m |-> m, p |-> b, c |-> n.content] /\ work = <<w>> \o <<h>>
        OBVIOUS
      <4> HIDE DEF w, h, n, b, t
      <4>2. <<h>> \in Seq({h}) /\ 2 \in 0..(MostSteps - 4)
        BY <1>4
      <4>3. Got(S, 2, fs, work) /\ Sound(fs[m])
        BY <1>1, <2>4 DEF t
      <4> DEFINE after == <<h>>
                 c == n.content
                 Z == {h}
      <4>4. /\ w = [do |-> "write", m |-> m, p |-> b, c |-> c] /\ work = <<w>> \o after
            /\ after \in Seq(Z) /\ c \in SUBSET Chunk
        BY <2>2, <4>1, <4>2
      <4> HIDE DEF after, c, Z, work
      <4>5. \/ Fell(S, fs)
            \/ \E u, j : /\ Sound(u) /\ Wrote(u, b, c) /\ j \in {2 + 2, 2 + 4}
                         /\ Got(S, j, [fs EXCEPT ![m] = u], after)
        BY ONLY <1>1, <1>3, <4>2, <4>3, <4>4, WriteCourse, m # Nobody
      <4>6. QED
        BY <4>5 DEF after, c
    <3>2. ASSUME NEW u, NEW j, Sound(u), Wrote(u, b, n.content), j \in {2 + 2, 2 + 4},
                 Got(S, j, [fs EXCEPT ![m] = u], <<h>>)
          PROVE  CopyVisible(p, q, r) /\ (Silent(r) \/ Refused(r.fs, q))
      <4> DEFINE c == n.content
                 mode == n.mode
      <4>1. /\ DOMAIN r.fs = DOMAIN fs
            /\ r.err = "ok" => Carries(r.fs[m], b, c) /\ mem_stat(r.fs[m], b).mode = mode
            /\ r.err # "ok" => Refuses(Leads(r.fs[m], b))
        <5>1. /\ mode \in Mode /\ Wrote(u, b, c) /\ j \in 0..(MostSteps - 1)
              /\ Got(S, j, [fs EXCEPT ![m] = u], <<Setting(m, b, mode)>>)
          BY <2>2, <3>2 DEF MostSteps, Setting
        <5> HIDE DEF h, n, a, b, t, c, mode, w, x, y, i
        <5>2. QED
          BY ONLY <1>1, <1>3, <3>2, <5>1, ModeLast, m # Nobody
      <4> HIDE DEF h, w, x, y, i
      <4>2. m = resolve_mount(DOMAIN r.fs, q) /\ OneOwner(p, q)
        BY <4>1 DEF OneOwner
      <4>3. read_file(fs, p) = n
        <5> HIDE DEF n
        <5> QED BY ReadsAre DEF n
      <4>4. CASE r.err = "ok"
        <5> DEFINE g == mem_stat(r.fs[m], b)
        <5>1. IsFile(g) /\ g.content = c /\ g.mode = mode
          BY <4>1, <4>4 DEF Carries
        <5>2. mem_read(r.fs[m], b) = g
          BY <5>1 DEF mem_read
        <5>3. read_file(r.fs, q) = g
          BY <4>2, <5>2, ReadsAre
        <5> HIDE DEF g
        <5>4. SameFile(p, q, read_file(r.fs, q), read_file(fs, p))
          BY <4>3, <5>1, <5>3 DEF SameFile
        <5>5. QED
          BY <4>4, <5>4 DEF CopyVisible, Silent, Done
      <4>5. CASE r.err # "ok"
        <5>1. Refused(r.fs, q)
          BY <4>1, <4>2, <4>5 DEF Refused, Refuses, Leads
        <5>2. QED
          BY <4>5, <5>1 DEF CopyVisible, Done
      <4>6. QED
        BY <4>4, <4>5
    <3>3. QED
      BY <1>8, <3>1, <3>2
  <2>5. QED
    BY <1>8, <2>3, <2>4
<1>10. QED
  BY <1>7, <1>8, <1>9

LEMMA CopyAcross ==
  ASSUME Safe, NEW p \in Path, NEW q \in Path, NEW m, m = resolve_mount(DOMAIN fs, p),
         NEW k, k = resolve_mount(DOMAIN fs, q), m # Nobody, k # Nobody, m # k,
         NEW r, r = Finish(fs, copy(fs, p, q))
  PROVE  CopyVisible(p, q, r) /\ Silent(r)
<1> DEFINE a == Rel(p, m)
           b == Rel(q, k)
           n == read_file(fs, p)
           i == [do |-> "write", m |-> k, p |-> b]
           y == [do |-> "write", m |-> k, p |-> b, c |-> n.content]
<1>1. /\ m \in DOMAIN fs /\ a \in Seq(Name) /\ Sound(fs[m]) /\ fs \in [DOMAIN fs -> Memory]
      /\ 0 \in 0..(MostSteps - 1) /\ 0 + 1 \in 0..(MostSteps - 4)
  BY OwnerHolds DEF MostSteps
<1>2. copy(fs, p, q) = <<Reading(m, a, i)>>
  <2>1. i = IF m = k THEN [do |-> "mode", m |-> m, p |-> a, dst |-> b]
            ELSE [do |-> "write", m |-> k, p |-> b]
    OBVIOUS
  <2> HIDE DEF a, b, i
  <2>2. QED
    BY <2>1, CopyIs DEF a, b, Reading
<1>3. PICK S : Course(S) /\ Got(S, 0, fs, <<Reading(m, a, i)>>) /\ r = S[MostSteps]
  BY <1>2, CourseIs
<1>4. Also(i, "c", n.content) = y
  <2>1. i = [do |-> "write", m |-> k, p |-> b]
    OBVIOUS
  <2> HIDE DEF i, n, b
  <2>2. QED
    BY <2>1, AlsoIs
<1>5. n = mem_read(fs[m], a)
  <2> HIDE DEF n, a
  <2> QED BY ReadsAre DEF n, a
<1>6. \/ Fell(S, fs)
      \/ ~IsNone(n) /\ Got(S, 1, fs, <<y>>)
  <2> HIDE DEF i, y, a, b, n
  <2>1. \/ Fell(S, fs)
        \/ /\ ~IsNone(mem_read(fs[m], a))
           /\ Got(S, 0 + 1, fs, <<Also(i, "c", mem_read(fs[m], a).content)>>)
    BY ONLY <1>1, <1>3, ReadAlone, m # Nobody
  <2>2. QED
    BY <1>4, <1>5, <2>1
<1>7. CASE Fell(S, fs)
  BY <1>3, <1>7 DEF Fell, Silent, CopyVisible, Done
<1>8. CASE ~IsNone(n) /\ Got(S, 1, fs, <<y>>)
  <2> DEFINE c == n.content
  <2>1. c \in SUBSET Chunk
    <3> HIDE DEF n, a
    <3>1. n = mem_stat(fs[m], a) /\ IsFile(n)
      BY <1>5, <1>8, ReadIsStat
    <3>2. QED
      BY <1>1, <3>1, FileParts
  <2>2. y = [do |-> "write", m |-> k, p |-> Rel(q, k), c |-> c] /\ Got(S, 0 + 1, fs, <<y>>)
    BY <1>8
  <2> HIDE DEF y, a, b, n, i, c
  <2>3. Silent(r) /\ WriteVisible(q, c, r)
    BY <1>1, <1>3, <2>1, <2>2, WriteLast
  <2>4. Holds(r.fs, q, c) => Refused(r.fs, q) \/ SameFile(p, q, read_file(r.fs, q), n)
    BY DEF Holds, SameFile, OneOwner, c
  <2>5. QED
    BY <2>3, <2>4 DEF CopyVisible, WriteVisible, Done, n
<1>9. QED
  BY <1>6, <1>7, <1>8

LEMMA CopyCall ==
  ASSUME Safe, NEW p \in Path, NEW q \in Path, NEW r, r = Finish(fs, copy(fs, p, q))
  PROVE  CopyVisible(p, q, r) /\ (Silent(r) \/ (OneOwner(p, q) /\ Refused(r.fs, q)))
<1> DEFINE m == resolve_mount(DOMAIN fs, p)
           k == resolve_mount(DOMAIN fs, q)
           call == copy(fs, p, q)
<1>1. Lost(m, k, call)
  BY CopyIs
<1>2. CASE m = Nobody \/ k = Nobody
  <2>1. r = Finish(fs, call)
    OBVIOUS
  <2> HIDE DEF call, m, k
  <2>2. r.err # "ok" /\ r.fs = fs
    BY <1>1, <1>2, <2>1, LostPair DEF Lost
  <2>3. QED
    BY <2>2 DEF Silent, CopyVisible, Done
<1>3. CASE m # Nobody /\ m = k
  BY <1>3, CopyWithin DEF OneOwner
<1>4. CASE m # Nobody /\ k # Nobody /\ m # k
  BY <1>4, CopyAcross
<1>5. QED
  BY <1>2, <1>3, <1>4

(***************************************************************************)
(* rename.                                                                 *)
(***************************************************************************)
\* What is below a path in a backend is below it in the file system.
LEMMA RelStarts ==
  ASSUME NEW p \in Seq(Name), NEW q \in Seq(Name), NEW m \in Seq(Name),
         StartsWith(p, m), StartsWith(q, m), StartsWith(Rel(p, m), Rel(q, m))
  PROVE  StartsWith(p, q)
<1> DEFINE a == Rel(p, m)
           b == Rel(q, m)
           d == SubSeq(p, 1, Len(q))
<1>1. /\ Len(p) \in Nat /\ Len(q) \in Nat /\ Len(m) \in Nat
      /\ Len(m) <= Len(p) /\ Len(m) <= Len(q)
      /\ SubSeq(p, 1, Len(m)) = m /\ SubSeq(q, 1, Len(m)) = m
  BY DEF StartsWith
<1>2. \A i \in 1..Len(m) : p[i] = m[i] /\ q[i] = m[i]
  BY <1>1, Prefixes
<1>3. \A u \in Seq(Name) : Len(u) \in Nat /\ Len(m) <= Len(u) =>
        /\ Rel(u, m) \in Seq(Name) /\ Len(Rel(u, m)) = Len(u) - Len(m)
        /\ \A i \in (Len(m) + 1)..Len(u) : Rel(u, m)[i - Len(m)] = u[i]
  BY DEF Rel
<1>4. /\ a \in Seq(Name) /\ Len(a) = Len(p) - Len(m)
      /\ \A i \in (Len(m) + 1)..Len(p) : a[i - Len(m)] = p[i]
  BY <1>1, <1>3
<1>5. /\ b \in Seq(Name) /\ Len(b) = Len(q) - Len(m)
      /\ \A i \in (Len(m) + 1)..Len(q) : b[i - Len(m)] = q[i]
  BY <1>1, <1>3
<1>6. Len(b) <= Len(a) /\ SubSeq(a, 1, Len(b)) = b
  BY DEF StartsWith
<1> HIDE DEF a, b
<1>7. Len(b) \in Nat /\ \A i \in 1..Len(b) : a[i] = b[i]
  BY <1>1, <1>4, <1>5, <1>6, Prefixes
<1>8. Len(q) <= Len(p)
  BY <1>1, <1>4, <1>5, <1>6
<1>9. ASSUME NEW i \in 1..Len(q) PROVE p[i] = q[i]
  <2>1. CASE i <= Len(m)
    BY <1>1, <1>2, <2>1
  <2>2. CASE i > Len(m)
    <3>1. /\ i \in (Len(m) + 1)..Len(q) /\ i \in (Len(m) + 1)..Len(p)
          /\ i - Len(m) \in 1..Len(b)
      BY <1>1, <1>5, <1>8, <2>2
    <3>2. QED
      BY <1>4, <1>5, <1>7, <3>1
  <2>3. QED
    BY <1>1, <2>1, <2>2
<1>10. d \in Seq(Name) /\ Len(d) = Len(q) /\ \A i \in 1..Len(q) : d[i] = p[i]
  BY <1>1, <1>8, Prefixes
<1> HIDE DEF d
<1>11. d = q
  BY <1>9, <1>10
<1>12. QED
  BY <1>8, <1>11 DEF StartsWith, d

LEMMA RelWhole ==
  ASSUME NEW m \in Seq(Name)
  PROVE  Rel(m, m) = Root
BY DEF Rel, Root

LEMMA RenameWithin ==
  ASSUME Safe, NEW p \in Path, NEW q \in Path, NEW m, m = resolve_mount(DOMAIN fs, p),
         m = resolve_mount(DOMAIN fs, q), m # Nobody, NEW r, r = Finish(fs, rename(fs, p, q))
  PROVE  RenameVisible(p, q, r) /\ (Silent(r) \/ RenameLoses(p, q, m))
<1> DEFINE a == Rel(p, m)
           b == Rel(q, m)
           t == fs[m]
           u == mem_rename(t, a, b)
           z == [do |-> "rename", m |-> m, p |-> a, dst |-> b]
<1>1. /\ m \in DOMAIN fs /\ a \in Seq(Name) /\ b \in Seq(Name) /\ Sound(t)
      /\ fs \in [DOMAIN fs -> Memory] /\ OneOwner(p, q)
  BY OwnerHolds DEF OneOwner
<1>2. rename(fs, p, q) = <<z>>
  <2>1. a = Rel(p, m) /\ b = Rel(q, m)
    OBVIOUS
  <2> HIDE DEF a, b, t, u
  <2>2. rename(fs, p, q) = <<Moving(m, a, b)>>
    BY ONLY <2>1, MoveIs, m = resolve_mount(DOMAIN fs, p), m = resolve_mount(DOMAIN fs, q),
            m # Nobody
  <2>3. QED
    BY ONLY <2>2 DEF Moving, z
<1>3. /\ r.err = "ok" => u.err = "ok"
      /\ u.err = "ok" => r.err = "ok"
      /\ r.fs = [fs EXCEPT ![m] = u.tree]
  <2>1. z.do = "rename" /\ z.m = m /\ z.p = a /\ z.dst = b
    OBVIOUS
  <2>2. r = Finish(fs, <<z>>)
    BY <1>2
  <2> HIDE DEF z, u, a, b
  <2>3. u = Single(fs[m], z)
    BY <2>1 DEF Single, u
  <2> HIDE DEF t
  <2>4. z.do \in OneStepCalls \cup {"rename"}
    BY <2>1
  <2>5. QED
    BY ONLY <2>1, <2>2, <2>3, <2>4, OneRuns, m # Nobody
<1>4. r.fs[m] = u.tree /\ DOMAIN r.fs = DOMAIN fs
  <2> HIDE DEF u
  <2> QED BY <1>1, <1>3
<1>5. u = mem_rename(t, a, b)
  OBVIOUS
<1> HIDE DEF z, u
<1>6. CASE r.err = "ok"
  <2>1. /\ ~IsNone(mem_lstat(t, a)) /\ mem_lstat(u.tree, b) = mem_lstat(t, a)
        /\ ~StartsWith(a, b) => mem_lstat(u.tree, a) = None
    <3> HIDE DEF t, a, b
    <3> QED BY <1>1, <1>3, <1>5, <1>6, RenameHolds
  <2>2. m = resolve_mount(DOMAIN r.fs, p) /\ m = resolve_mount(DOMAIN r.fs, q)
    BY <1>4
  <2> HIDE DEF t, a, b
  <2>3. lstat(fs, p) = IF IsNone(mem_lstat(t, a)) THEN Synthetic(DOMAIN fs, p)
                       ELSE mem_lstat(t, a)
    BY ReadsAre DEF t, a
  <2>4. lstat(r.fs, q) = IF IsNone(mem_lstat(u.tree, b)) THEN Synthetic(DOMAIN r.fs, q)
                         ELSE mem_lstat(u.tree, b)
    BY <1>4, <2>2, ReadsAre DEF b
  <2>5. lstat(r.fs, p) = IF IsNone(mem_lstat(u.tree, a)) THEN Synthetic(DOMAIN r.fs, p)
                         ELSE mem_lstat(u.tree, a)
    BY <1>4, <2>2, ReadsAre DEF a
  <2>6. lstat(r.fs, q) = lstat(fs, p)
    BY <2>1, <2>3, <2>4
  <2>7. ASSUME ~StartsWith(p, q) PROVE Gone(p, r.fs)
    <3>1. ~StartsWith(a, b)
      <4>1. DOMAIN fs \subseteq Path /\ p \in Seq(Name) /\ q \in Seq(Name)
        BY MountAssumption, PathType DEF Safe
      <4>2. m \in Path /\ m \in Owners(DOMAIN fs, p) /\ m \in Owners(DOMAIN fs, q)
        BY <4>1, OwnerIs
      <4>3. m \in Seq(Name) /\ StartsWith(p, m) /\ StartsWith(q, m)
        BY <4>2, PathType DEF Owners
      <4>4. StartsWith(Rel(p, m), Rel(q, m)) => StartsWith(p, q)
        BY <4>1, <4>3, RelStarts
      <4>5. QED
        BY <2>7, <4>4 DEF a, b
    <3>2. IsNone(mem_lstat(u.tree, a))
      BY <2>1, <3>1, NoneIs
    <3>3. QED
      BY <2>5, <3>2 DEF Gone
  <2>8. QED
    BY <1>1, <1>6, <2>6, <2>7 DEF RenameVisible, Silent, Done
<1>7. CASE r.err # "ok"
  <2>1. CASE u.tree = t
    <3>1. r.fs = fs
      <4> HIDE DEF u
      <4> QED BY <1>1, <1>3, <2>1
    <3>2. QED
      BY <1>7, <3>1 DEF RenameVisible, Silent, Done
  <2>2. CASE u.tree # t
    <3>1. b # Root /\ \E x \in Above(b) : ~IsDir(Without(t, a)[x])
      <4> HIDE DEF t, a, b
      <4> QED BY <1>1, <1>3, <1>5, <1>7, <2>2, RenameFails
    <3>2. q # m
      <4>1. DOMAIN fs \subseteq Path
        BY MountAssumption DEF Safe
      <4>2. m \in Seq(Name)
        BY <1>1, <4>1, PathType
      <4>3. Rel(m, m) = Root
        BY <4>2, RelWhole
      <4>4. QED
        BY <3>1, <4>3
    <3>3. RenameLoses(p, q, m)
      BY <1>1, <3>1, <3>2 DEF RenameLoses
    <3>4. QED
      BY <1>7, <3>3 DEF RenameVisible, Done
  <2>3. QED
    BY <2>1, <2>2
<1>8. QED
  BY <1>6, <1>7

\* Across mounts: a directory is refused, the rest goes on.
LEMMA NoDirCourse ==
  ASSUME NEW S, Course(S), NEW i \in 0..(MostSteps - 1), NEW F, F \in [DOMAIN F -> Memory],
         NEW m \in DOMAIN F, m # Nobody, NEW z, z.do = "no dir", z.m = m,
         NEW Y, NEW rest \in Seq(Y),
         NEW work, work = <<z>> \o rest, Got(S, i, F, work)
  PROVE  Fell(S, F) \/ Got(S, i + 1, F, rest)
<1> DEFINE t == F[m]
           u == Single(t, z)
           e == Effect(t, z)
<1>1. e = Left(u, <<>>)
  BY DEF Effect
<1>2. u.tree = t
  <2>1. u = IF IsDir(mem_stat(t, z.p)) THEN Fail("IoError", t) ELSE Ok(t)
    BY DEF Single
  <2> HIDE DEF u, t
  <2>2. QED
    BY <2>1 DEF Fail, Ok
<1> HIDE DEF u
<1>3. e.tree = t /\ e.next = <<>>
  <2> HIDE DEF e, t
  <2> QED BY <1>1, <1>2 DEF Left
<1>4. work # <<>> /\ Head(work) = z /\ Tail(work) = rest /\ <<>> \o rest = rest
  BY WorkIs
<1>5. e = Effect(F[m], z) /\ e.tree = F[m]
  BY <1>3
<1> HIDE DEF e
<1>6. /\ e.err = "ok" => Got(S, i + 1, [F EXCEPT ![m] = e.tree], e.next \o Tail(work))
      /\ e.err # "ok" => Fell(S, [F EXCEPT ![m] = e.tree])
  BY ONLY <1>4, <1>5, CourseStep, Course(S), i \in 0..(MostSteps - 1), m # Nobody, z.m = m,
          Got(S, i, F, work)
<1>7. [F EXCEPT ![m] = e.tree] = F
  BY ONLY <1>5, F \in [DOMAIN F -> Memory]
<1>8. QED
  BY ONLY <1>3, <1>4, <1>6, <1>7

LEMMA ReadThen ==
  ASSUME NEW S, Course(S), NEW i \in 0..(MostSteps - 1), NEW F, F \in [DOMAIN F -> Memory],
         NEW m \in DOMAIN F, m # Nobody, NEW p, NEW into, NEW z,
         Got(S, i, F, <<Reading(m, p, into)>> \o <<z>>)
  PROVE  \/ Fell(S, F)
         \/ /\ ~IsNone(mem_read(F[m], p))
            /\ Got(S, i + 1, F, <<Also(into, "c", mem_read(F[m], p).content)>> \o <<z>>)
<1> DEFINE n == mem_read(F[m], p)
           s == Reading(m, p, into)
           rest == <<z>>
           work == <<s>> \o rest
           Y == {z}
<1>1. Got(S, i, F, work) /\ work = <<s>> \o rest /\ rest \in Seq(Y)
  <2> HIDE DEF s
  <2> QED BY DEF s
<1>2. s = [do |-> "read", m |-> m, p |-> p, into |-> into]
  BY DEF Reading
<1>3. n = mem_read(F[m], p)
  OBVIOUS
<1> HIDE DEF work, rest, Y, s, n
<1>4. \/ Fell(S, F)
      \/ ~IsNone(n) /\ Got(S, i + 1, F, <<Also(into, "c", n.content)>> \o rest)
  BY <1>1, <1>2, <1>3, ReadCourse
<1>5. QED
  BY <1>4 DEF n, rest

\* The file goes across: written there, removed here.
Unlinking(z, m, p) == /\ z.do = "remove" /\ z.m = m /\ z.p = p /\ z.full = TRUE
                      /\ "File" \in z.types /\ "Symlink" \in z.types

LEMMA AcrossLast ==
  ASSUME Safe, NEW p \in Path, NEW q \in Path, NEW m, m = resolve_mount(DOMAIN fs, p),
         NEW k, k = resolve_mount(DOMAIN fs, q), m # Nobody, k # Nobody, m # k,
         NEW S, Course(S), NEW j \in 0..(MostSteps - 1), NEW u, NEW c, Wrote(u, Rel(q, k), c),
         IsFile(mem_stat(fs[m], Rel(p, m))),
         NEW z, Unlinking(z, m, Rel(p, m)),
         Got(S, j, [fs EXCEPT ![k] = u], <<z>>), NEW r, r = S[MostSteps]
  PROVE  r.err = "ok" /\ Holds(r.fs, q, c) /\ Gone(p, r.fs)
<1> DEFINE a == Rel(p, m)
           t == fs[m]
           G == [fs EXCEPT ![k] = u]
           types == z.types
           full == z.full
           o == RemoveEntry(t, a, types, full)
           x == Single(G[m], z)
<1> USE DEF Unlinking
<1>1. /\ m \in DOMAIN fs /\ a \in Seq(Name) /\ Sound(t) /\ fs \in [DOMAIN fs -> Memory]
      /\ k \in DOMAIN fs
  BY OwnerHolds
<1>2. G[m] = t /\ G[k] = u /\ DOMAIN G = DOMAIN fs
  BY <1>1
<1>3. x = o
  BY <1>2 DEF Single
<1>4. o.err = "ok"
  <2>1. full = TRUE /\ "File" \in types /\ "Symlink" \in types /\ IsFile(mem_stat(t, a))
    OBVIOUS
  <2>2. o = RemoveEntry(t, a, types, full)
    OBVIOUS
  <2> HIDE DEF o, types, full, a, t
  <2>3. QED
    BY ONLY <1>1, <2>1, <2>2, RemoveReady
<1>5. mem_lstat(o.tree, a) = None
  <2>1. o = RemoveEntry(t, a, types, full)
    OBVIOUS
  <2> HIDE DEF o, types, full, a, t
  <2>2. QED
    BY ONLY <1>1, <1>4, <2>1, RemoveHolds
<1>6. /\ r.err = "ok" => x.err = "ok"
      /\ x.err = "ok" => r.err = "ok"
      /\ r.fs = [G EXCEPT ![m] = x.tree]
  <2>1. z.do \in OneStepCalls \cup {"rename"}
    BY DEF OneStepCalls
  <2>2. x = Single(G[m], z) /\ Got(S, j, G, <<z>>) /\ Course(S) /\ j \in 0..(MostSteps - 1)
        /\ m = z.m /\ m # Nobody /\ r = S[MostSteps]
    OBVIOUS
  <2> HIDE DEF x, G
  <2>3. QED
    BY ONLY <2>1, <2>2, CourseLast
<1> HIDE DEF x, o
<1>7. r.err = "ok" /\ r.fs = [G EXCEPT ![m] = o.tree]
  BY <1>3, <1>4, <1>6
<1> HIDE DEF G
<1>8. r.fs[m] = o.tree /\ r.fs[k] = u /\ DOMAIN r.fs = DOMAIN fs
  BY <1>1, <1>2, <1>7
<1>9. Holds(r.fs, q, c)
  <2>1. k = resolve_mount(DOMAIN r.fs, q) /\ Wrote(r.fs[k], Rel(q, k), c)
    BY <1>8
  <2>2. QED
    BY ONLY <2>1, HoldsBy, k # Nobody
<1>10. Gone(p, r.fs)
  <2>1. m = resolve_mount(DOMAIN r.fs, p) /\ IsNone(mem_lstat(r.fs[m], a))
    BY <1>5, <1>8, NoneIs
  <2> HIDE DEF a
  <2>2. lstat(r.fs, p) = IF IsNone(mem_lstat(r.fs[m], a)) THEN Synthetic(DOMAIN r.fs, p)
                         ELSE mem_lstat(r.fs[m], a)
    BY <2>1, ReadsAre DEF a
  <2>3. QED
    BY <2>1, <2>2 DEF Gone
<1>11. QED
  BY <1>7, <1>9, <1>10

LEMMA RenameAcross ==
  ASSUME Safe, NEW p \in Path, NEW q \in Path, NEW m, m = resolve_mount(DOMAIN fs, p),
         NEW k, k = resolve_mount(DOMAIN fs, q), m # Nobody, k # Nobody, m # k,
         NEW r, r = Finish(fs, rename(fs, p, q))
  PROVE  RenameVisible(p, q, r) /\ Silent(r)
<1> DEFINE a == Rel(p, m)
           b == Rel(q, k)
           t == fs[m]
           n == mem_read(t, a)
           c == n.content
           i == Onto(k, b)
           y == [do |-> "write", m |-> k, p |-> b, c |-> c]
           types == {"File", "Symlink"}
           full == TRUE
<1>1. /\ m \in DOMAIN fs /\ a \in Seq(Name) /\ Sound(t) /\ fs \in [DOMAIN fs -> Memory]
      /\ k \in DOMAIN fs /\ b \in Seq(Name) /\ Sound(fs[k])
      /\ 0 \in 0..(MostSteps - 1) /\ 0 + 1 \in 0..(MostSteps - 1)
      /\ (0 + 1) + 1 \in 0..(MostSteps - 4)
  BY OwnerHolds DEF MostSteps
<1>2. PICK z : /\ remove_file(fs, p) = <<z>> /\ z.do = "remove" /\ z.m = m /\ z.p = a
               /\ "File" \in z.types /\ "Symlink" \in z.types /\ z.full = TRUE
  <2>1. remove_file(fs, p) = Removal(fs, p, types, full) /\ "File" \in types
        /\ "Symlink" \in types /\ full = TRUE
    BY DEF remove_file
  <2> HIDE DEF types, full
  <2>2. \E z : /\ Removal(fs, p, types, full) = <<z>>
               /\ z.do = "remove" /\ z.m = m /\ z.types = types /\ z.full = full
               /\ m # Nobody => z.p = Rel(p, m)
    BY ONLY RemovalIs, m = resolve_mount(DOMAIN fs, p)
  <2>3. QED
    BY <2>1, <2>2
<1> HIDE DEF types, full
<1> DEFINE x == Reading(m, a, i)
           s == Refusing(m, a)
           after == <<x>> \o <<z>>
           work == <<s>> \o after
<1>3. rename(fs, p, q) = work
  <2>1. rename(fs, p, q) = Moves(m, k, a, b, <<z>>)
    <3> HIDE DEF a, b, t, n, c, i, y, x, s, after, work
    <3> QED BY <1>2, MoveOver DEF a, b
  <2> HIDE DEF a, b, t, n, c, y
  <2>2. Moves(m, k, a, b, <<z>>) = <<s, x>> \o <<z>>
    BY DEF Moves
  <2> HIDE DEF s, x, i
  <2>3. <<s, x>> \o <<z>> = work
    OBVIOUS
  <2>4. QED
    BY <2>1, <2>2, <2>3
<1>4. PICK S : Course(S) /\ Got(S, 0, fs, work) /\ r = S[MostSteps]
  BY <1>3, CourseIs
<1>5. CASE Fell(S, fs)
  BY <1>4, <1>5 DEF Fell, Silent, RenameVisible, Done
<1>6. \/ Fell(S, fs)
      \/ Got(S, 1, fs, after)
  <2> DEFINE Y == {x, z}
  <2>1. s.do = "no dir" /\ s.m = m
    BY DEF Refusing
  <2>2. after \in Seq(Y) /\ work = <<s>> \o after
    <3> HIDE DEF x, s
    <3> QED OBVIOUS
  <2> HIDE DEF s, x, after, Y, work
  <2>3. Fell(S, fs) \/ Got(S, 0 + 1, fs, after)
    BY ONLY <1>1, <1>4, <2>1, <2>2, NoDirCourse, m # Nobody
  <2>4. QED
    BY ONLY <2>3
<1>7. Also(i, "c", c) = y
  <2>1. i = [do |-> "write", m |-> k, p |-> b]
    BY DEF Onto
  <2> HIDE DEF i, c, b
  <2>2. QED
    BY <2>1, AlsoIs
<1>8. ASSUME Got(S, 1, fs, after)
      PROVE  \/ Fell(S, fs)
             \/ ~IsNone(n) /\ Got(S, 2, fs, <<y>> \o <<z>>)
  <2>1. Got(S, 0 + 1, fs, <<Reading(m, a, i)>> \o <<z>>)
    BY <1>8
  <2> HIDE DEF i, y, a, b, n, c, t
  <2>2. \/ Fell(S, fs)
        \/ /\ ~IsNone(mem_read(fs[m], a))
           /\ Got(S, (0 + 1) + 1, fs, <<Also(i, "c", mem_read(fs[m], a).content)>> \o <<z>>)
    BY ONLY <1>1, <1>4, <2>1, ReadThen, m # Nobody
  <2>3. QED
    BY <1>7, <2>2 DEF n, c, t
<1>9. ASSUME ~IsNone(n), Got(S, 2, fs, <<y>> \o <<z>>)
      PROVE  RenameVisible(p, q, r) /\ Silent(r)
  <2>1. n = mem_stat(t, a) /\ IsFile(n)
    <3> HIDE DEF t, a
    <3> QED BY <1>9, ReadIsStat
  <2>2. c \in SUBSET Chunk
    <3>1. n = mem_stat(t, a) /\ IsFile(n)
      BY <2>1
    <3> HIDE DEF t, a, n
    <3>2. QED
      BY <1>1, <3>1, FileParts
  <2>3. \/ Fell(S, fs)
        \/ \E u, j : /\ Sound(u) /\ Wrote(u, b, c) /\ j \in {2 + 2, 2 + 4}
                     /\ Got(S, j, [fs EXCEPT ![k] = u], <<z>>)
    <3> DEFINE rest == <<z>>
               Z == {z}
               w == <<y>> \o rest
    <3>1. /\ y = [do |-> "write", m |-> k, p |-> b, c |-> c] /\ w = <<y>> \o rest
          /\ rest \in Seq(Z) /\ 2 \in 0..(MostSteps - 4) /\ Got(S, 2, fs, w)
      <4> HIDE DEF b, c
      <4> QED BY <1>1, <1>9
    <3> HIDE DEF rest, Z, w, y, b, c, a, t, n
    <3>2. \/ Fell(S, fs)
          \/ \E u, j : /\ Sound(u) /\ Wrote(u, b, c) /\ j \in {2 + 2, 2 + 4}
                       /\ Got(S, j, [fs EXCEPT ![k] = u], rest)
      BY ONLY <1>1, <1>4, <2>2, <3>1, WriteCourse, k # Nobody
    <3>3. QED
      BY <3>2 DEF rest
  <2>4. ASSUME NEW u, NEW j, Wrote(u, b, c), j \in {2 + 2, 2 + 4},
               Got(S, j, [fs EXCEPT ![k] = u], <<z>>)
        PROVE  RenameVisible(p, q, r) /\ Silent(r)
    <3>1. j \in 0..(MostSteps - 1)
      BY <2>4 DEF MostSteps
    <3>2. Wrote(u, Rel(q, k), c) /\ IsFile(mem_stat(fs[m], Rel(p, m)))
          /\ Unlinking(z, m, Rel(p, m))
      BY <1>2, <2>1, <2>4 DEF Unlinking
    <3>3. read_file(fs, p) = n
      <4> HIDE DEF n
      <4> QED BY ReadsAre DEF n
    <3> HIDE DEF a, b, c, n, t, i, y, x, s, work, after
    <3>4. r.err = "ok" /\ Holds(r.fs, q, c) /\ Gone(p, r.fs)
      BY ONLY <1>4, <2>4, <3>1, <3>2, AcrossLast, Safe, p \in Path, q \in Path,
              m = resolve_mount(DOMAIN fs, p), k = resolve_mount(DOMAIN fs, q),
              m # Nobody, k # Nobody, m # k
    <3>5. ~OneOwner(p, q)
      BY DEF OneOwner
    <3>6. QED
      BY <3>3, <3>4, <3>5 DEF RenameVisible, Silent, Done, c
  <2>5. QED
    BY <1>5, <2>3, <2>4
<1>10. QED
  BY <1>5, <1>6, <1>8, <1>9

LEMMA RenameCall ==
  ASSUME Safe, NEW p \in Path, NEW q \in Path, NEW r, r = Finish(fs, rename(fs, p, q))
  PROVE  /\ RenameVisible(p, q, r)
         /\ Silent(r) \/ RenameLoses(p, q, resolve_mount(DOMAIN fs, p))
<1> DEFINE m == resolve_mount(DOMAIN fs, p)
           k == resolve_mount(DOMAIN fs, q)
           call == rename(fs, p, q)
<1>1. Lost(m, k, call)
  BY MoveIs
<1>2. CASE m = Nobody \/ k = Nobody
  <2>1. r = Finish(fs, call)
    OBVIOUS
  <2> HIDE DEF call, m, k
  <2>2. r.err # "ok" /\ r.fs = fs
    BY <1>1, <1>2, <2>1, LostPair DEF Lost
  <2>3. QED
    BY <2>2 DEF Silent, RenameVisible, Done
<1>3. CASE m # Nobody /\ m = k
  BY <1>3, RenameWithin
<1>4. CASE m # Nobody /\ k # Nobody /\ m # k
  BY <1>4, RenameAcross
<1>5. QED
  BY <1>2, <1>3, <1>4

(***************************************************************************)
(* All of them.                                                            *)
(***************************************************************************)
LEMMA LinkCall ==
  ASSUME Safe, NEW p \in Path, NEW l \in NewLink
  PROVE  Silent(Finish(fs, symlink(fs, l, p)))
<1> DEFINE node == Symlink(LinkText(DOMAIN fs, p, l))
           m == resolve_mount(DOMAIN fs, p)
           r == Finish(fs, symlink(fs, l, p))
           mounts == DOMAIN fs
<1>1. symlink(fs, l, p) = New(fs, p, node)
  <2>1. mounts \in Tables
    BY DEF Safe
  <2>2. QED
    BY <2>1, SymlinkText
<1>2. r = Finish(fs, New(fs, p, node))
  BY <1>1
<1>3. m = resolve_mount(DOMAIN fs, p)
  OBVIOUS
<1> HIDE DEF node, m, r
<1>4. Silent(r)
  BY <1>2, <1>3, NewCall
<1>5. QED
  BY <1>4 DEF r

LEMMA RemovalsCall ==
  ASSUME Safe, NEW p \in Path
  PROVE  \A call \in {remove_file(fs, p), remove_dir(fs, p), remove_dir_all(fs, p)} :
           Silent(Finish(fs, call)) /\ RemoveVisible(p, Finish(fs, call))
<1> DEFINE leaf == {"File", "Symlink"}
           some == {"Dir"}
           full == TRUE
           bare == FALSE
<1>1. /\ remove_file(fs, p) = Removal(fs, p, leaf, full)
      /\ remove_dir(fs, p) = Removal(fs, p, some, bare)
      /\ remove_dir_all(fs, p) = Removal(fs, p, some, full)
  BY DEF remove_file, remove_dir, remove_dir_all
<1> HIDE DEF leaf, some, full, bare
<1>2. \A types, all : /\ Silent(Finish(fs, Removal(fs, p, types, all)))
                      /\ RemoveVisible(p, Finish(fs, Removal(fs, p, types, all)))
  BY RemovalCall
<1>3. QED
  BY <1>1, <1>2

\* What a call reports is what can be seen of it, in every state that any
\* number of threads can bring about, whatever is mounted where: what is done
\* can be read back, and what fails changed nothing (write_file, append_file,
\* mkdir, mkdir_p, the three removals, copy and rename in mountable.rs and
\* memory.rs), but for a path that a relative link or too many of them stop
\* and for the source that a failed rename has already taken out.
THEOREM CallsAlwaysHonest == Spec => []CallsAreHonest
<1>1. Safe => SuccessIsVisible
  <2>1. SUFFICES ASSUME Safe, NEW p \in Arg
                 PROVE  /\ \A c \in Written :
                             /\ WriteVisible(p, c, Finish(fs, write_file(fs, p, c)))
                             /\ AppendVisible(p, c, Finish(fs, append_file(fs, p, c)))
                        /\ \A steps \in {mkdir(fs, p), mkdir_p(fs, p)} :
                             MakeVisible(p, Finish(fs, steps))
                        /\ \A steps \in {remove_file(fs, p), remove_dir(fs, p),
                                         remove_dir_all(fs, p)} :
                             RemoveVisible(p, Finish(fs, steps))
                        /\ \A q \in Arg :
                             /\ CopyVisible(p, q, Finish(fs, copy(fs, p, q)))
                             /\ RenameVisible(p, q, Finish(fs, rename(fs, p, q)))
    BY DEF SuccessIsVisible
  <2>2. p \in Path /\ Arg \subseteq Path /\ Written \subseteq SUBSET Chunk
    BY CallAssumption
  <2>3. \A c \in Written : /\ WriteVisible(p, c, Finish(fs, write_file(fs, p, c)))
                           /\ AppendVisible(p, c, Finish(fs, append_file(fs, p, c)))
    BY <2>1, <2>2, WriteCall, AppendCall
  <2>4. MakeVisible(p, Finish(fs, mkdir(fs, p))) /\ MakeVisible(p, Finish(fs, mkdir_p(fs, p)))
    BY <2>1, <2>2, MkdirCall, MkdirpCall
  <2>5. /\ RemoveVisible(p, Finish(fs, remove_file(fs, p)))
        /\ RemoveVisible(p, Finish(fs, remove_dir(fs, p)))
        /\ RemoveVisible(p, Finish(fs, remove_dir_all(fs, p)))
    BY <2>1, <2>2, RemovalsCall
  <2>6. \A q \in Arg : /\ CopyVisible(p, q, Finish(fs, copy(fs, p, q)))
                       /\ RenameVisible(p, q, Finish(fs, rename(fs, p, q)))
    BY <2>1, <2>2, CopyCall, RenameCall
  <2>7. QED
    BY <2>3, <2>4, <2>5, <2>6
<1>2. Safe => FailureIsSilent
  <2>1. SUFFICES ASSUME Safe, NEW p \in Arg
                 PROVE  /\ \A steps \in CallsAt(p) : Silent(Finish(fs, steps))
                        /\ \A q \in Arg :
                             /\ LET r == Finish(fs, copy(fs, p, q))
                                IN  Silent(r) \/ (OneOwner(p, q) /\ Refused(r.fs, q))
                             /\ \/ Silent(Finish(fs, rename(fs, p, q)))
                                \/ RenameLoses(p, q, resolve_mount(DOMAIN fs, p))
    BY DEF FailureIsSilent
  <2>2. /\ p \in Path /\ Arg \subseteq Path /\ Written \subseteq SUBSET Chunk
        /\ NewMode \subseteq Mode
    BY CallAssumption
  <2>3. ASSUME NEW c \in Written
        PROVE  /\ Silent(Finish(fs, write_file(fs, p, c)))
               /\ Silent(Finish(fs, append_file(fs, p, c)))
    BY <2>1, <2>2, WriteCall, AppendCall
  <2>4. Silent(Finish(fs, mkdir(fs, p))) /\ Silent(Finish(fs, mkdir_p(fs, p)))
    BY <2>1, <2>2, MkdirCall, MkdirpCall
  <2>5. /\ Silent(Finish(fs, remove_file(fs, p))) /\ Silent(Finish(fs, remove_dir(fs, p)))
        /\ Silent(Finish(fs, remove_dir_all(fs, p)))
    BY <2>1, <2>2, RemovalsCall
  <2>6. Silent(Finish(fs, utimes(fs, p)))
    BY <2>1, <2>2, PlainCall DEF utimes
  <2>7. \A mode \in NewMode : Silent(Finish(fs, chmod(fs, p, mode)))
    BY <2>1, <2>2, ChmodCall
  <2>8. ASSUME NEW l \in NewLink PROVE Silent(Finish(fs, symlink(fs, l, p)))
    BY <2>1, <2>2, LinkCall
  <2>9. \A q \in Arg : Silent(Finish(fs, hardlink(fs, p, q)))
    BY <2>1, <2>2, HardlinkCall
  <2>10. \A steps \in CallsAt(p) : Silent(Finish(fs, steps))
    BY <2>3, <2>4, <2>5, <2>6, <2>7, <2>8, <2>9 DEF CallsAt
  <2>11. ASSUME NEW q \in Arg
         PROVE  /\ LET r == Finish(fs, copy(fs, p, q))
                   IN  Silent(r) \/ (OneOwner(p, q) /\ Refused(r.fs, q))
                /\ \/ Silent(Finish(fs, rename(fs, p, q)))
                   \/ RenameLoses(p, q, resolve_mount(DOMAIN fs, p))
    BY <2>1, <2>2, CopyCall, RenameCall
  <2>12. QED
    BY <2>10, <2>11
<1>3. Safe => CallsAreHonest
  BY <1>1, <1>2 DEF CallsAreHonest
<1>4. QED
  BY <1>3, SafeAlways, PTL
=============================================================================
