---------------------------- MODULE OverlayProofs ---------------------------
(***************************************************************************)
(* The overlay filesystem stays well typed and well formed, for every set  *)
(* of names, depth, disk, and sequence of calls.                           *)
(***************************************************************************)
EXTENDS OverlayFs, VfsPathProofs

Good(t) == t \in Tree /\ TreeWF(t)

\* What the probes of the lower layer answer.
ModeProbe == [NodePath -> Mode]

LEMMA NodeTypes ==
  /\ \A n \in LeafNode : IsLeaf(n) /\ IsContent(n) /\ ~IsDir(n) /\ ~IsNone(n)
  /\ \A m \in Mode : IsDir(Dir(m)) /\ Dir(m) \in UpperNode
  /\ \A n \in UpperNode \cup {None} :
       /\ IsDir(n) => n \in DirNode
       /\ IsLeaf(n) => n \in LeafNode
       /\ IsFile(n) => n.content \in SUBSET Chunk /\ n.mode \in Mode
       /\ ~IsNone(n) /\ ~IsDir(n) /\ ~IsLeaf(n) => n = Whiteout
  /\ IsNone(None) /\ ~IsNone(Whiteout) /\ ~IsDir(Whiteout) /\ ~IsDir(None)
  /\ ~IsLeaf(None) /\ ~IsLeaf(Whiteout)
  /\ None \in UpperNode \cup {None} /\ Whiteout \in UpperNode \cup {None}
BY DEF LeafNode, DirNode, UpperNode, ContentNode, None, Whiteout, Dir,
       IsLeaf, IsContent, IsDir, IsNone, IsFile

\* An empty tree is a good one.
LEMMA EmptyTreeGood == Good(EmptyTree)
BY NodeTypes DEF Good, Tree, EmptyTree, TreeWF, Rooted

\* A content node where there is no directory, below directories only.
LEMMA WithLeafGood ==
  ASSUME NEW t, Good(t), NEW p \in NodePath, NEW n \in LeafNode,
         ~IsDir(t[p]), \A r \in Above(p) : IsDir(t[r])
  PROVE  Good(With(t, p, n))
<1> DEFINE u == With(t, p, n)
<1>1. u \in Tree
  BY DEF Good, Tree, With, UpperNode, ContentNode
<1>2. ASSUME NEW q \in NodePath, ~IsNone(u[q]), NEW r \in Above(q)
      PROVE  IsDir(u[r])
  <2>1. r \in NodePath
    BY AboveType
  <2>2. CASE q = p
    <3>1. r # p
      BY <2>2, AboveType
    <3> QED
      BY <2>1, <2>2, <3>1 DEF With
  <2>3. CASE q # p
    <3>1. IsDir(t[r])
      BY <1>2, <2>3 DEF Good, TreeWF, Rooted, With
    <3> QED
      BY <2>1, <3>1 DEF With
  <2> QED
    BY <2>2, <2>3
<1> QED
  BY <1>1, <1>2 DEF Good, TreeWF, Rooted

\* A node replaced by one of its own kind.
LEMMA WithSameKindGood ==
  ASSUME NEW t, Good(t), NEW p \in NodePath, NEW n \in UpperNode,
         ~IsNone(t[p]), n.type = t[p].type
  PROVE  Good(With(t, p, n))
<1> DEFINE u == With(t, p, n)
<1>1. u \in Tree
  BY DEF Good, Tree, With
<1>2. \A q \in NodePath : u[q].type = t[q].type
  BY DEF With
<1> QED
  BY <1>1, <1>2, AboveType DEF Good, TreeWF, Rooted, IsDir, IsNone

LEMMA attachGood ==
  ASSUME NEW t, Good(t), NEW p, NEW n \in LeafNode
  PROVE  Good(attach(t, p, n).tree)
<1>1. CASE /\ p \in NodePath
           /\ ~\E r \in Above(p) : ~IsContent(t[r])
           /\ ~\E r \in Above(p) : IsLeaf(t[r])
           /\ ~IsDir(t[p])
  <2>1. \A r \in Above(p) : IsDir(t[r])
    BY <1>1 DEF IsContent, IsLeaf, IsDir
  <2>2. Good(With(t, p, n))
    BY <1>1, <2>1, WithLeafGood
  <2> QED
    BY <1>1, <2>2 DEF attach, Ok
<1>2. CASE ~(/\ p \in NodePath
             /\ ~\E r \in Above(p) : ~IsContent(t[r])
             /\ ~\E r \in Above(p) : IsLeaf(t[r])
             /\ ~IsDir(t[p]))
  BY <1>2 DEF attach, Fail
<1> QED
  BY <1>1, <1>2

LEMMA put_whiteoutGood ==
  ASSUME NEW t, Good(t), NEW p, NEW modeOf \in ModeProbe
  PROVE  Good(put_whiteout(t, p, modeOf))
<1> DEFINE u == put_whiteout(t, p, modeOf)
<1>1. CASE p \notin NodePath \/ \E r \in Above(p) : ~IsDir(t[r]) /\ ~IsNone(t[r])
  BY <1>1 DEF put_whiteout
<1>2. CASE p \in NodePath /\ \A r \in Above(p) : IsDir(t[r]) \/ IsNone(t[r])
  <2>1. u = [q \in NodePath |->
               IF q = p THEN Whiteout
               ELSE IF q \in Below(p) THEN None
               ELSE IF q \in Above(p) /\ IsNone(t[q]) THEN Dir(modeOf[q])
               ELSE t[q]]
    BY <1>2 DEF put_whiteout
  <2>2. u \in Tree
    BY <2>1, NodeTypes DEF Good, Tree, ModeProbe
  <2>3. \A q \in NodePath : q \in Above(p) => IsDir(u[q])
    <3>1. \A q \in Above(p) : q # p /\ q \notin Below(p)
      BY <1>2, AboveType, NodePathType DEF Below
    <3> QED
      BY <1>2, <2>1, <3>1, NodeTypes DEF ModeProbe
  <2>4. ASSUME NEW q \in NodePath, ~IsNone(u[q]), NEW r \in Above(q)
        PROVE  IsDir(u[r])
    <3>1. r \in NodePath
      BY AboveType
    <3>2. CASE q = p \/ q \in Above(p)
      BY <1>2, <2>3, <3>1, <3>2, AboveTransitive
    <3>3. CASE ~(q = p \/ q \in Above(p))
      <4>1. q \notin Below(p)
        BY <2>1, <2>4, <3>3, NodeTypes
      <4>2. u[q] = t[q]
        BY <2>1, <3>3, <4>1
      <4>3. IsDir(t[r])
        BY <2>4, <4>2 DEF Good, TreeWF, Rooted
      <4>4. r # p /\ r \notin Below(p)
        BY <1>2, <3>1, <4>1, BelowIsAbove, AboveTransitive
      <4>5. r \in Above(p) \/ u[r] = t[r]
        BY <2>1, <3>1, <4>4
      <4> QED
        BY <2>3, <3>1, <4>3, <4>5
    <3> QED
      BY <3>2, <3>3
  <2> QED
    BY <2>2, <2>4 DEF Good, TreeWF, Rooted
<1> QED
  BY <1>1, <1>2

LEMMA detachGood ==
  ASSUME NEW t, Good(t), NEW p
  PROVE  Good(detach(t, p))
<1> DEFINE u == detach(t, p)
<1>1. CASE p \notin NodePath
  BY <1>1 DEF detach
<1>2. CASE p \in NodePath
  <2>1. u = [q \in NodePath |-> IF q \in Subtree(p) THEN None ELSE t[q]]
    BY <1>2 DEF detach
  <2>2. u \in Tree
    BY <2>1, NodeTypes DEF Good, Tree
  <2>3. ASSUME NEW q \in NodePath, ~IsNone(u[q]), NEW r \in Above(q)
        PROVE  IsDir(u[r])
    <3>1. r \in NodePath /\ q \notin Subtree(p) /\ u[q] = t[q]
      BY <2>1, <2>3, AboveType, NodeTypes
    <3>2. IsDir(t[r])
      BY <2>3, <3>1 DEF Good, TreeWF, Rooted
    <3>3. r \notin Subtree(p)
      BY <1>2, <3>1, SubtreeIsSelfAndBelow, BelowIsAbove, AboveTransitive
    <3> QED
      BY <2>1, <3>1, <3>2, <3>3
  <2> QED
    BY <2>2, <2>3 DEF Good, TreeWF, Rooted
<1> QED
  BY <1>1, <1>2

\* Directories brought into being at a set of paths closed upward, none of
\* them a file or a link.  An entry whose ancestors were directories already
\* is never covered by a new whiteout.
LEMMA EnsureAllGood ==
  ASSUME NEW t, Good(t), NEW S \in SUBSET NodePath,
         \A q \in S : Above(q) \subseteq S /\ ~IsLeaf(t[q]),
         NEW modeOf \in ModeProbe, NEW namesOf
  PROVE  /\ Good(EnsureAll(t, S, modeOf, namesOf))
         /\ \A q \in S : IsDir(EnsureAll(t, S, modeOf, namesOf)[q])
         /\ \A q \in NodePath \ S :
              \/ EnsureAll(t, S, modeOf, namesOf)[q] = t[q]
              \/ IsWhiteout(EnsureAll(t, S, modeOf, namesOf)[q])
<1> DEFINE u == EnsureAll(t, S, modeOf, namesOf)
           Covered(q) == /\ Parent(q) \in S
                         /\ Resurrected(t, Parent(q))
                         /\ q[Len(q)] \in namesOf[Parent(q)]
<1>1. /\ \A q \in S : u[q] = IF IsDir(t[q]) THEN t[q] ELSE Dir(modeOf[q])
      /\ \A q \in NodePath \ S : u[q] = IF Covered(q) THEN Whiteout ELSE t[q]
      /\ u = [q \in NodePath |-> u[q]]
  BY DEF EnsureAll
<1>2. \A q \in S : IsDir(u[q])
  BY <1>1, NodeTypes DEF ModeProbe
<1>3. u \in Tree
  <2>1. \A q \in NodePath : t[q] \in UpperNode \cup {None}
    BY DEF Good, Tree
  <2>2. \A q \in NodePath : u[q] \in UpperNode \cup {None}
    <3> DEFINE N == UpperNode \cup {None}
    <3>1. Whiteout \in N /\ \A q \in S : Dir(modeOf[q]) \in N
      BY NodeTypes DEF ModeProbe
    <3>2. \A q \in S : u[q] = t[q] \/ u[q] = Dir(modeOf[q])
      BY <1>1
    <3>3. \A q \in NodePath \ S : u[q] = t[q] \/ u[q] = Whiteout
      BY <1>1
    <3>4. \A q \in NodePath : t[q] \in N
      BY <2>1
    <3> HIDE DEF u, N
    <3>5. \A q \in NodePath : u[q] \in N
      BY <3>1, <3>2, <3>3, <3>4
    <3> QED
      BY <3>5 DEF N
  <2>3. u = [q \in NodePath |-> u[q]]
    BY <1>1
  <2> HIDE DEF u
  <2> QED
    BY <2>2, <2>3 DEF Tree
<1>4. ASSUME NEW q \in NodePath, ~IsNone(u[q]), NEW r \in Above(q)
      PROVE  IsDir(u[r])
  <2>1. r \in NodePath
    BY AboveType
  <2>2. CASE r \in S
    BY <1>2, <2>2
  <2>3. CASE r \notin S
    <3>1. q \notin S
      BY <2>3
    <3>2. ~Covered(q)
      <4>1. SUFFICES ASSUME Parent(q) \in S PROVE FALSE
        OBVIOUS
      <4>2. r \in Above(Parent(q)) \cup {Parent(q)}
        BY <4>1, ParentType
      <4> QED
        BY <2>3, <4>1, <4>2
    <3>3. \A x \in Above(q) : IsDir(t[x])
      BY <1>1, <1>4, <3>1, <3>2 DEF Good, TreeWF, Rooted
    <3>4. ~Covered(r)
      <4>1. SUFFICES ASSUME Parent(r) \in S, NEW x \in UpTo(Parent(r)),
                            IsWhiteout(t[x])
                     PROVE  FALSE
        BY DEF Resurrected
      <4>2. x \in Above(r)
        BY <2>1, <4>1, ParentType, UpToIsAboveAndSelf
      <4>3. IsDir(t[x])
        BY <3>3, <4>2, AboveTransitive
      <4> QED
        BY <4>1, <4>3 DEF IsDir, IsWhiteout
    <3> QED
      BY <1>1, <2>1, <2>3, <3>3, <3>4
  <2> QED
    BY <2>2, <2>3
<1>5. \A q \in NodePath \ S : u[q] = t[q] \/ IsWhiteout(u[q])
  BY <1>1 DEF Whiteout, IsWhiteout
<1> QED
  BY <1>2, <1>3, <1>4, <1>5 DEF Good, TreeWF, Rooted

LEMMA ensure_dirsGood ==
  ASSUME NEW t, Good(t), NEW p, NEW modeOf \in ModeProbe, NEW namesOf
  PROVE  Good(ensure_dirs(t, p, modeOf, namesOf).tree)
<1>1. CASE p \notin Path \/ \E r \in UpTo(p) : IsLeaf(t[r])
  BY <1>1 DEF ensure_dirs, Fail
<1>2. CASE p \in Path /\ ~\E r \in UpTo(p) : IsLeaf(t[r])
  <2>1. \A q \in UpTo(p) : q \in NodePath /\ Above(q) \subseteq UpTo(p)
    <3>1. CASE p = Root
      BY <3>1 DEF UpTo, Root
    <3>2. CASE p \in NodePath
      BY <3>2, UpToIsAboveAndSelf, AboveType, AboveTransitive
    <3> QED
      BY <1>2, <3>1, <3>2 DEF Path
  <2>2. Good(EnsureAll(t, UpTo(p), modeOf, namesOf))
    BY <1>2, <2>1, EnsureAllGood
  <2> QED
    BY <1>2, <2>2 DEF ensure_dirs, Ok
<1> QED
  BY <1>1, <1>2

\* A path at which the tree has content is one that carries a node.
LEMMA FoundIsNode ==
  ASSUME NEW t, NEW p, has_content(t, p)
  PROVE  p \in NodePath /\ At(t, p) = t[p] /\ IsContent(t[p]) /\ ~IsNone(t[p])
<1>1. p # Root /\ ~IsNone(At(t, p))
  BY DEF has_content, descend
<1>2. p \in NodePath
  BY <1>1 DEF At, None, IsNone
<1> QED
  BY <1>1, <1>2 DEF has_content, At

LEMMA append_fileGood ==
  ASSUME NEW t, Good(t), NEW p, NEW c \in SUBSET Chunk
  PROVE  Good(append_file(t, p, c).tree)
<1>1. CASE has_content(t, p) /\ IsFile(At(t, p))
  <2> DEFINE n == File(t[p].content \cup c, t[p].mode)
  <2>1. p \in NodePath /\ IsFile(t[p]) /\ ~IsNone(t[p])
    BY <1>1, FoundIsNode
  <2>2. t[p] \in UpperNode \cup {None}
    BY <2>1 DEF Good, Tree
  <2>3. n \in UpperNode /\ n.type = t[p].type
    BY <2>1, <2>2, NodeTypes DEF UpperNode, ContentNode, LeafNode, File, IsFile
  <2>4. Good(With(t, p, n))
    BY <2>1, <2>3, WithSameKindGood
  <2> QED
    BY <1>1, <2>4 DEF append_file, Ok
<1>2. CASE ~(has_content(t, p) /\ IsFile(At(t, p)))
  BY <1>2 DEF append_file, Fail
<1> QED
  BY <1>1, <1>2

LEMMA set_modeGood ==
  ASSUME NEW t, Good(t), NEW p, NEW m \in Mode
  PROVE  Good(set_mode(t, p, m).tree)
<1>1. CASE has_content(t, p) /\ ~IsSymlink(At(t, p))
  <2> DEFINE n == [t[p] EXCEPT !.mode = m]
  <2>1. p \in NodePath /\ ~IsNone(t[p]) /\ IsContent(t[p]) /\ ~IsSymlink(t[p])
    BY <1>1, FoundIsNode
  <2>2. t[p] \in ContentNode
    BY <2>1 DEF Good, Tree, UpperNode, IsContent, None, Whiteout
  <2>3. t[p] \in [type : {"File"}, content : SUBSET Chunk, mode : Mode] \cup DirNode
    BY <2>1, <2>2 DEF ContentNode, LeafNode, IsSymlink
  <2>4. n \in UpperNode /\ n.type = t[p].type
    BY <2>3 DEF UpperNode, ContentNode, LeafNode, DirNode
  <2>5. Good(With(t, p, n))
    BY <2>1, <2>4, WithSameKindGood
  <2> QED
    BY <1>1, <2>5 DEF set_mode, Ok
<1>2. CASE ~(has_content(t, p) /\ ~IsSymlink(At(t, p)))
  BY <1>2 DEF set_mode, Fail
<1> QED
  BY <1>1, <1>2

(***************************************************************************)
(* What the lookups answer.                                                *)
(***************************************************************************)
LEMMA AtType ==
  ASSUME NEW d \in Disk, NEW p
  PROVE  At(d, p) \in DiskNode
BY NodeAssumption DEF At, Disk, DiskNode, Dir, ContentNode, DirNode

LEMMA LowerAnswers ==
  ASSUME NEW d \in Disk, NEW p
  PROVE  lstat_lower(d, p) \in DiskNode /\ stat_lower(d, p) \in DiskNode
<1>1. None \in DiskNode
  BY DEF DiskNode
<1> QED
  BY <1>1, AtType DEF lstat_lower, stat_lower, Entry

LEMMA DiskNodeTypes ==
  ASSUME NEW n \in DiskNode
  PROVE  /\ IsFile(n) => n \in LeafNode /\ n.content \in SUBSET Chunk /\ n.mode \in Mode
         /\ IsDir(n) => n.mode \in Mode
         /\ ~IsNone(n) /\ ~IsDir(n) => n \in LeafNode
BY DEF DiskNode, ContentNode, LeafNode, DirNode, None, IsFile, IsDir, IsNone

LEMMA ProbeType ==
  ASSUME NEW d \in Disk
  PROVE  lower_mode_of(d) \in ModeProbe
<1>1. ASSUME NEW p \in NodePath
      PROVE  (IF IsFile(stat_lower(d, p)) \/ IsDir(stat_lower(d, p))
              THEN stat_lower(d, p).mode ELSE DirMode) \in Mode
  BY LowerAnswers, DiskNodeTypes, NodeAssumption
<1> QED
  BY <1>1 DEF lower_mode_of, ModeProbe, ModeOr

LEMMA UpperContent ==
  ASSUME NEW t, Good(t), NEW p, has_content(t, p)
  PROVE  p \in NodePath /\ t[p] \in DiskNode
BY FoundIsNode DEF Good, Tree, UpperNode, DiskNode, IsContent, None, Whiteout

LEMMA OverlayAnswers ==
  ASSUME NEW d \in Disk, NEW t, Good(t), NEW p
  PROVE  lstat_overlay(d, t, p) \in DiskNode
<1>1. None \in DiskNode
  BY DEF DiskNode
<1> QED
  BY <1>1, LowerAnswers, UpperContent DEF lstat_overlay

LEMMA FileRead ==
  ASSUME NEW d \in Disk, NEW t, Good(t), NEW p, IsFile(read_file(d, t, p))
  PROVE  /\ read_file(d, t, p) \in LeafNode
         /\ read_file(d, t, p).content \in SUBSET Chunk
         /\ read_file(d, t, p).mode \in Mode
<1>1. None \in DiskNode
  BY DEF DiskNode
<1>2. stat(d, t, p) \in DiskNode
  <2> DEFINE r == resolve_path(d, t, p, TRUE)
  <2>1. CASE r.err # "ok"
    BY <1>1, <2>1 DEF stat, StatAt
  <2>2. CASE r.err = "ok"
    <3>1. resolve_layer(d, t, r.path) = "Upper" => t[r.path] \in DiskNode
      BY UpperContent DEF resolve_layer
    <3>2. stat_lower(d, r.path) \in DiskNode
      BY LowerAnswers
    <3> DEFINE layer == resolve_layer(d, t, r.path)
    <3>3. stat(d, t, p) = CASE layer = "Upper" -> t[r.path]
                            [] layer = "Lower" -> stat_lower(d, r.path)
                            [] OTHER -> None
      BY <2>2 DEF stat, StatAt, InLayer
    <3>4. layer = "Upper" \/ layer = "Lower" \/ layer \notin {"Upper", "Lower"}
      OBVIOUS
    <3> HIDE DEF r, layer
    <3>5. layer = "Upper" => t[r.path] \in DiskNode
      BY <3>1 DEF layer
    <3> QED
      BY <1>1, <3>2, <3>3, <3>4, <3>5
  <2> QED
    BY <2>1, <2>2
<1>3. IsFile(stat(d, t, p)) /\ read_file(d, t, p) = stat(d, t, p)
  BY DEF read_file, FileOnly, IsFile, None
<1> QED
  BY <1>2, <1>3, DiskNodeTypes

(***************************************************************************)
(* The shared steps keep a good tree good.                                 *)
(***************************************************************************)
LEMMA ThenGood ==
  ASSUME NEW first, NEW second, Good(first.tree),
         Succeeds(first) => Good(second.tree)
  PROVE  Good(Then(first, second).tree)
BY DEF Then

LEMMA FailGood ==
  ASSUME NEW t, Good(t), NEW e
  PROVE  Good(Fail(e, t).tree) /\ Good(Ok(t).tree)
BY DEF Fail, Ok

LEMMA EnsureGood ==
  ASSUME NEW d \in Disk, NEW t, Good(t), NEW p
  PROVE  /\ Good(ensure_upper_dir_path(d, t, p).tree)
         /\ Good(EnsureParent(d, t, p).tree)
<1>1. \A q : Good(ensure_upper_dir_path(d, t, q).tree)
  BY ProbeType, ensure_dirsGood, FailGood DEF ensure_upper_dir_path
<1> QED
  BY <1>1, FailGood DEF EnsureParent

LEMMA AttachAfterGood ==
  ASSUME NEW a, Good(a.tree), NEW p, NEW leaf \in LeafNode
  PROVE  Good(AttachAfter(a, p, leaf).tree)
BY attachGood, ThenGood DEF AttachAfter

LEMMA AttachBelowGood ==
  ASSUME NEW d \in Disk, NEW t, Good(t), NEW p, NEW leaf \in LeafNode
  PROVE  Good(AttachBelow(d, t, p, leaf).tree)
BY EnsureGood, AttachAfterGood DEF AttachBelow

LEMMA HideGood ==
  ASSUME NEW d \in Disk, NEW t, Good(t), NEW p
  PROVE  Good(Hide(d, t, p))
BY ProbeType, put_whiteoutGood, detachGood DEF Hide

LEMMA CopyUpGood ==
  ASSUME NEW d \in Disk, NEW t, Good(t), NEW p
  PROVE  Good(copy_up_if_needed(d, t, p).tree)
<1> DEFINE a == EnsureParent(d, t, p)
           n == stat_lower(d, p)
<1>1. Good(a.tree)
  BY EnsureGood
<1>2. IsFile(n) => Good(AttachAfter(a, p, n).tree)
  BY <1>1, LowerAnswers, DiskNodeTypes, AttachAfterGood
<1>3. Good(Then(a, Fail("IoError", a.tree)).tree)
  BY <1>1, FailGood, ThenGood
<1> QED
  BY <1>2, <1>3, FailGood DEF copy_up_if_needed

LEMMA BringUpGood ==
  ASSUME NEW d \in Disk, NEW t, Good(t), NEW p
  PROVE  Good(BringUp(d, t, p).tree)
BY CopyUpGood, EnsureGood, FailGood DEF BringUp

LEMMA RemoveWhereGood ==
  ASSUME NEW d \in Disk, NEW t, Good(t), NEW p, NEW fits
  PROVE  Good(RemoveWhere(d, t, p, fits).tree)
BY HideGood, FailGood DEF RemoveWhere

LEMMA AttachNewGood ==
  ASSUME NEW d \in Disk, NEW t, Good(t), NEW p, NEW leaf \in LeafNode
  PROVE  Good(AttachNew(d, t, p, leaf).tree)
BY AttachBelowGood, FailGood DEF AttachNew

(***************************************************************************)
(* The methods.                                                            *)
(***************************************************************************)
LEMMA FileType ==
  ASSUME NEW c \in SUBSET Chunk, NEW m \in Mode
  PROVE  File(c, m) \in LeafNode
BY DEF File, LeafNode

LEMMA WriteModeType ==
  ASSUME NEW d \in Disk, NEW t, Good(t), NEW p
  PROVE  WriteMode(d, t, p) \in Mode
<1>1. ASSUME descend(t, p) = "Found" PROVE FileModeOf(At(t, p)) \in Mode
  <2>1. CASE IsFile(At(t, p))
    <3>1. has_content(t, p)
      BY <1>1, <2>1 DEF has_content, IsContent, IsFile
    <3>2. At(t, p) = t[p]
      BY <3>1, FoundIsNode
    <3> QED
      BY <2>1, <3>1, <3>2, UpperContent, DiskNodeTypes DEF FileModeOf
  <2> QED
    BY <2>1, NodeAssumption DEF FileModeOf
<1>2. FileModeOf(lstat_lower(d, p)) \in Mode
  BY LowerAnswers, DiskNodeTypes, NodeAssumption DEF FileModeOf
<1>3. CASE descend(t, p) = "Found"
  BY <1>1, <1>3 DEF WriteMode
<1>4. CASE descend(t, p) = "Missing"
  BY <1>2, <1>4 DEF WriteMode
<1>5. CASE descend(t, p) \notin {"Found", "Missing"}
  BY <1>5, NodeAssumption DEF WriteMode
<1> QED
  BY <1>3, <1>4, <1>5

LEMMA WriteFileGood ==
  ASSUME NEW d \in Disk, NEW t, Good(t), NEW p, NEW c \in SUBSET Chunk
  PROVE  Good(write_file(d, t, p, c).tree)
<1> DEFINE w == resolve_write_target(d, t, p, TRUE)
           q == w.path
           a == EnsureParent(d, t, q)
           f == File(c, WriteMode(d, a.tree, q))
<1>1. Good(a.tree)
  BY EnsureGood
<1>2. f \in LeafNode
  BY <1>1, WriteModeType, FileType
<1>3. Good(AttachAfter(a, q, f).tree)
  BY <1>1, <1>2, AttachAfterGood
<1> QED
  BY <1>3, FailGood DEF write_file

LEMMA AppendInGood ==
  ASSUME NEW d \in Disk, NEW t, Good(t), NEW q, NEW c \in SUBSET Chunk, NEW layer
  PROVE  Good(AppendIn(d, t, q, c, layer).tree)
<1> DEFINE up == copy_up_if_needed(d, t, q)
<1>1. Good(append_file(t, q, c).tree)
  BY append_fileGood
<1>2. Good(Then(up, append_file(up.tree, q, c)).tree)
  BY CopyUpGood, append_fileGood, ThenGood
<1>3. Good(AttachBelow(d, t, q, File(c, FileMode)).tree)
  BY FileType, AttachBelowGood, NodeAssumption
<1>4. CASE layer = "Upper"
  BY <1>1, <1>4 DEF AppendIn
<1>5. CASE layer = "Lower"
  BY <1>2, <1>5 DEF AppendIn
<1>6. CASE layer \notin {"Upper", "Lower"}
  BY <1>3, <1>6 DEF AppendIn
<1> QED
  BY <1>4, <1>5, <1>6

LEMMA AppendGood ==
  ASSUME NEW d \in Disk, NEW t, Good(t), NEW p, NEW c \in SUBSET Chunk
  PROVE  Good(overlay_append(d, t, p, c).tree)
<1>1. Good(AttachBelow(d, t, p, File(c, FileMode)).tree)
  BY FileType, AttachBelowGood, NodeAssumption
<1> QED
  BY <1>1, AppendInGood, FailGood DEF overlay_append

LEMMA RemovalsGood ==
  ASSUME NEW d \in Disk, NEW t, Good(t), NEW p
  PROVE  /\ Good(remove_file(d, t, p).tree)
         /\ Good(remove_dir(d, t, p).tree)
         /\ Good(remove_dir_all(d, t, p).tree)
BY RemoveWhereGood, FailGood DEF remove_file, remove_dir, remove_dir_all

LEMMA MkdirGood ==
  ASSUME NEW d \in Disk, NEW t, Good(t), NEW p
  PROVE  Good(mkdir(d, t, p).tree) /\ Good(mkdir_p(d, t, p).tree)
<1>1. Good(mkdir(d, t, p).tree)
  BY EnsureGood, FailGood DEF mkdir
<1>2. Good(mkdir_p(d, t, p).tree)
  BY ProbeType, ensure_dirsGood, FailGood DEF mkdir_p
<1> QED
  BY <1>1, <1>2

LEMMA ChmodGood ==
  ASSUME NEW d \in Disk, NEW t, Good(t), NEW p, NEW m \in Mode
  PROVE  Good(chmod(d, t, p, m).tree) /\ Good(utimes(d, t, p).tree)
<1>1. Good(chmod(d, t, p, m).tree)
  BY BringUpGood, set_modeGood, ThenGood, FailGood DEF chmod
<1>2. Good(utimes(d, t, p).tree)
  BY BringUpGood, FailGood DEF utimes
<1> QED
  BY <1>1, <1>2

LEMMA LinksGood ==
  ASSUME NEW d \in Disk, NEW t, Good(t), NEW p
  PROVE  /\ \A l \in Link : Good(symlink(d, t, l, p).tree)
         /\ \A q : Good(hardlink(d, t, q, p).tree)
<1>1. \A l \in Link : Symlink(l) \in LeafNode
  BY DEF Symlink, LeafNode
<1>2. \A l \in Link : Good(symlink(d, t, l, p).tree)
  BY <1>1, AttachNewGood DEF symlink
<1>3. \A q : Good(hardlink(d, t, q, p).tree)
  BY FileRead, AttachNewGood, FailGood DEF hardlink
<1> QED
  BY <1>2, <1>3

LEMMA CopyGood ==
  ASSUME NEW d \in Disk, NEW t, Good(t), NEW src, NEW dst
  PROVE  Good(copy(d, t, src, dst).tree)
<1> DEFINE n == read_file(d, t, src)
           w == write_file(d, t, dst, n.content)
           r == Then(w, chmod(d, w.tree, dst, n.mode))
<1>1. IsFile(n) => Good(r.tree)
  BY FileRead, WriteFileGood, ChmodGood, ThenGood
<1> QED
  BY <1>1, FailGood DEF copy

\* sync drops a node only together with everything below it.
LEMMA syncGood ==
  ASSUME NEW d, NEW t, Good(t)
  PROVE  Good(sync(d, t))
<1> DEFINE u == sync(d, t)
           Kept(p) == \E q \in Subtree(p) : /\ ~IsNone(t[q])
                                            /\ ~matches_disk(d, q, t[q])
<1>1. \A p \in NodePath : u[p] = IF Kept(p) THEN t[p] ELSE None
  BY DEF sync
<1>2. u \in Tree
  BY NodeTypes DEF Good, Tree, sync
<1>3. ASSUME NEW p \in NodePath, ~IsNone(u[p]), NEW r \in Above(p)
      PROVE  IsDir(u[r])
  <2>1. r \in NodePath /\ Kept(p) /\ ~IsNone(t[p])
    BY <1>1, <1>3, AboveType, NodeTypes
  <2>2. IsDir(t[r])
    BY <1>3, <2>1 DEF Good, TreeWF, Rooted
  <2>3. Kept(r)
    <3>1. PICK q \in Subtree(p) : ~IsNone(t[q]) /\ ~matches_disk(d, q, t[q])
      BY <2>1
    <3>2. q \in NodePath
      BY <3>1 DEF Subtree
    <3>3. q \in Subtree(r)
      BY <1>3, <2>1, <3>1, <3>2, SubtreeIsSelfAndBelow, BelowIsAbove, AboveTransitive
    <3> QED
      BY <3>1, <3>3
  <2> QED
    BY <1>1, <2>1, <2>2, <2>3
<1> QED
  BY <1>2, <1>3 DEF Good, TreeWF, Rooted

(***************************************************************************)
(* rename.                                                                 *)
(***************************************************************************)
\* Below a directory of the tree with no content entry in it, there is no
\* content at all.
LEMMA NothingBelow ==
  ASSUME NEW t, Good(t), NEW q \in NodePath, dir_entries(t, q) = {},
         NEW r \in Below(q)
  PROVE  ~IsContent(t[r])
<1> DEFINE c == SubSeq(r, 1, Len(q) + 1)
<1>1. /\ r \in NodePath /\ r \in Seq(Name) /\ Len(r) \in Nat /\ Len(r) <= MaxDepth
      /\ Len(q) \in Nat /\ Len(q) >= 1 /\ Len(q) < Len(r)
      /\ SubSeq(r, 1, Len(q)) = q
  BY NodePathType DEF Below, StartsWith
<1>2. /\ c \in Seq(Name) /\ Len(c) = Len(q) + 1
      /\ SubSeq(c, 1, Len(q)) = q
  BY <1>1, PrefixOfPrefix
<1>3. c \in NodePath
  <2>1. Len(c) >= 1 /\ Len(c) <= MaxDepth
    BY <1>1, <1>2, PathAssumption
  <2> QED
    BY <1>2, <2>1, NodePathIntro
<1>4. c \in Children(q)
  <2> HIDE DEF c
  <2> QED
    BY <1>1, <1>2, <1>3 DEF Children, StartsWith
<1>5. ~IsContent(t[c])
  BY <1>4 DEF dir_entries
<1>6. CASE Len(r) = Len(q) + 1
  <2>1. c = r
    BY <1>1, <1>6
  <2> QED
    BY <1>5, <2>1
<1>7. CASE Len(r) > Len(q) + 1
  <2>1. c \in Above(r)
    BY <1>1, <1>7, AboveIntro
  <2>2. ~IsDir(t[c])
    BY <1>5 DEF IsContent, IsDir
  <2>3. IsNone(t[r])
    BY <1>1, <2>1, <2>2 DEF Good, TreeWF, Rooted
  <2> QED
    BY <2>3 DEF IsNone, IsContent
<1> QED
  BY <1>1, <1>6, <1>7

\* The tree a rename leaves when it moves a directory.
LEMMA MoveDirGood ==
  ASSUME NEW d \in Disk, NEW t, Good(t), NEW s, NEW q
  PROVE  Good(MoveDir(d, t, s, q).tree)
<1> DEFINE seen    == SeenBelow(d, t, s)
           dirs    == DirsOf(d, t, seen)
           moved   == Rebased(seen, s, q)
           newdirs == Rebased(dirs, s, q)
           cleared == Cleared(d, t, q)
           S       == UpTo(q) \cup newdirs
           made    == EnsureAll(cleared, S, lower_mode_of(d), lower_entries_of(d))
           leaves  == moved \ newdirs
           res     == Landed(d, t, s, q, made, leaves)
           refused == \/ Occupied(d, t, q) /\ readdir_merged(d, t, q) # {}
                      \/ dir_entries(t, q) # {}
<1>1. MoveDir(d, t, s, q) =
        IF refused THEN Fail("DirectoryNotEmpty", t)
        ELSE IF ~({s, q} \cup moved \subseteq NodePath) THEN Fail("TooDeep", t)
        ELSE IF \E r \in UpTo(q) : IsLeaf(cleared[r])
        THEN Fail("NotADirectory", cleared)
        ELSE Ok(res)
  BY DEF MoveDir, MoveSeen
<1>2. Good(cleared)
  BY ProbeType, put_whiteoutGood DEF Cleared
<1>3. ASSUME ~refused, {s, q} \cup moved \subseteq NodePath,
             ~\E r \in UpTo(q) : IsLeaf(cleared[r])
      PROVE  Good(res)
  <2> HIDE DEF res, made, cleared
  <2>1. s \in NodePath /\ q \in NodePath /\ dir_entries(t, q) = {}
    BY <1>3
  <2>2. \A v \in seen : /\ v \in Below(s) /\ Rebase(v, s, q) \in Below(q)
                        /\ Rebase(Rebase(v, s, q), q, s) = v
    BY <1>3, <2>1, RebaseBack, RebaseBelow DEF SeenBelow, Rebased
  <2>3. \A r \in Below(q) : ~IsContent(cleared[r])
    <3>1. \A r \in Below(q) : ~IsContent(t[r])
      BY <2>1, NothingBelow
    <3>2. ASSUME NEW r \in Below(q), NEW m
          PROVE  put_whiteout(t, q, m)[r] \in {None, t[r]}
      <4>1. r \in NodePath /\ r # q
        BY <2>1, NodePathType DEF Below
      <4> QED
        BY <3>2, <4>1 DEF put_whiteout
    <3> QED
      BY <3>1, <3>2 DEF cleared, Cleared, None, IsContent
  <2>4. \A v \in seen : \A x \in Above(Rebase(v, s, q)) : x \in S
    <3>1. SUFFICES ASSUME NEW v \in seen, NEW x \in Above(Rebase(v, s, q)),
                          x \notin UpTo(q)
                   PROVE  x \in newdirs
      OBVIOUS
    <3>2. Rebase(v, s, q) \in NodePath /\ v \in Below(s)
      BY <1>3, <2>2 DEF Rebased
    <3>3. PICK y \in Above(v) \cap Below(s) : x = Rebase(y, s, q)
      BY <2>1, <3>1, <3>2, RebaseAbove
    <3>4. v \in NodePath /\ y \in NodePath
      BY <3>2, <3>3 DEF Below
    <3>5. IsDir(lstat_overlay(d, t, y))
      BY <3>1, <3>3 DEF SeenBelow
    <3>6. \A z \in Above(y) \cap Below(s) : IsDir(lstat_overlay(d, t, z))
      BY <3>1, <3>3, <3>4, AboveTransitive DEF SeenBelow
    <3>7. y \in dirs
      BY <3>3, <3>5, <3>6 DEF SeenBelow, DirsOf, IsDir, IsNone
    <3> QED
      BY <3>3, <3>7 DEF Rebased
  <2>5. S \subseteq NodePath
    BY <1>3, <2>1, UpToIsAboveAndSelf, AboveType DEF DirsOf, Rebased
  <2>6. ASSUME NEW x \in S PROVE Above(x) \subseteq S /\ ~IsLeaf(cleared[x])
    <3>1. CASE x \in UpTo(q)
      BY <1>3, <2>1, <3>1, UpToIsAboveAndSelf, AboveTransitive
    <3>2. CASE x \in newdirs
      <4>1. ~IsLeaf(cleared[x])
        BY <2>2, <2>3, <3>2 DEF DirsOf, Rebased, IsContent, IsLeaf
      <4>2. Above(x) \subseteq S
        BY <2>4, <3>2 DEF DirsOf, Rebased
      <4> QED
        BY <4>1, <4>2
    <3> QED
      BY <3>1, <3>2
  <2>7. /\ Good(made)
        /\ \A x \in S : IsDir(made[x])
        /\ \A x \in NodePath \ S : made[x] = cleared[x] \/ IsWhiteout(made[x])
    BY <1>2, <2>5, <2>6, ProbeType, EnsureAllGood DEF made
  <2>8. ASSUME NEW r \in leaves
        PROVE  /\ r \in NodePath \ S
               /\ lstat_overlay(d, t, Rebase(r, q, s)) \in LeafNode
               /\ Above(r) \subseteq S
               /\ ~IsDir(made[r])
    <3>1. PICK v \in seen : r = Rebase(v, s, q)
      BY DEF Rebased
    <3>2. r \in NodePath /\ r \in Below(q) /\ v = Rebase(r, q, s) /\ v \notin dirs
      BY <1>3, <2>2, <3>1 DEF Rebased
    <3>3. r \notin UpTo(q)
      BY <2>1, <3>2, UpToIsAboveAndSelf, AboveType, NodePathType DEF Below
    <3>4. lstat_overlay(d, t, v) \in LeafNode
      BY <3>2, OverlayAnswers, DiskNodeTypes DEF SeenBelow, DirsOf
    <3>5. ~IsDir(made[r])
      BY <2>3, <2>7, <3>2, <3>3 DEF IsDir, IsContent, IsWhiteout
    <3> QED
      BY <2>4, <3>1, <3>2, <3>3, <3>4, <3>5
  <2> HIDE DEF leaves, S
  <2>9. \A r \in NodePath :
          res[r] = IF r \in leaves THEN lstat_overlay(d, t, Rebase(r, q, s))
                   ELSE made[r]
    BY DEF res, Landed
  <2>10. res \in Tree
    <3>1. \A r \in NodePath : res[r] \in UpperNode \cup {None}
      BY <2>7, <2>8, <2>9 DEF Good, Tree, UpperNode, ContentNode
    <3> QED
      BY <3>1 DEF res, Landed, Tree
  <2>11. ASSUME NEW r \in NodePath, ~IsNone(res[r]), NEW x \in Above(r)
         PROVE  IsDir(res[x])
    <3>1. x \in NodePath
      BY AboveType
    <3>2. IsDir(made[x])
      <4>1. CASE r \in leaves
        BY <2>7, <2>8, <4>1
      <4>2. CASE r \notin leaves
        BY <2>7, <2>9, <2>11, <4>2 DEF Good, TreeWF, Rooted
      <4> QED
        BY <4>1, <4>2
    <3>3. x \notin leaves
      BY <2>8, <3>2
    <3> QED
      BY <2>9, <3>1, <3>2, <3>3
  <2> QED
    BY <2>10, <2>11 DEF Good, TreeWF, Rooted
<1> HIDE DEF refused, moved, cleared, res
<1> QED
  BY <1>1, <1>2, <1>3, FailGood

LEMMA RenameGood ==
  ASSUME NEW d \in Disk, NEW t, Good(t), NEW src, NEW dst
  PROVE  Good(rename(d, t, src, dst).tree)
<1> DEFINE from == resolve_path(d, t, src, FALSE)
           to   == resolve_write_target(d, t, dst, FALSE)
           node == lstat_overlay(d, t, from.path)
           made == MoveNode(d, t, from.path, to.path, node)
<1>1. ~IsNone(node) => Good(made.tree)
  <2>1. ~IsNone(node) /\ ~IsDir(node) => node \in LeafNode
    BY OverlayAnswers, DiskNodeTypes
  <2>2. node \in LeafNode => Good(MoveLeaf(d, t, to.path, node).tree)
    BY AttachBelowGood, FailGood DEF MoveLeaf
  <2> QED
    BY <2>1, <2>2, MoveDirGood DEF MoveNode
<1>2. ~IsNone(node) => Good(Then(made, Ok(Hide(d, made.tree, from.path))).tree)
  BY <1>1, HideGood, FailGood, ThenGood
<1> HIDE DEF made, node
<1> QED
  BY <1>2, FailGood DEF rename, made, node

(***************************************************************************)
(* The theorems.                                                           *)
(***************************************************************************)
IInv == lower \in Disks /\ Good(tree)

LEMMA DisksAreDisks == \A d \in Disks : d \in Disk
BY ArgAssumption

LEMMA InitGood == Init => IInv
BY EmptyTreeGood DEF Init, IInv

LEMMA RunGood ==
  ASSUME NEW r, Good(r.tree), lower \in Disks, Run(r)
  PROVE  IInv'
BY DEF Run, IInv

LEMMA MethodGood == IInv /\ Method => IInv'
<1> SUFFICES ASSUME IInv, Method PROVE IInv'
  OBVIOUS
<1> USE DisksAreDisks DEF IInv
<1>1. CASE WriteFile
  BY <1>1, ArgAssumption, WriteFileGood, RunGood DEF WriteFile
<1>2. CASE AppendFile
  BY <1>2, ArgAssumption, AppendGood, RunGood DEF AppendFile
<1>3. CASE RemoveFile
  BY <1>3, RemovalsGood, RunGood DEF RemoveFile
<1>4. CASE Mkdir
  BY <1>4, MkdirGood, RunGood DEF Mkdir
<1>5. CASE MkdirP
  BY <1>5, MkdirGood, RunGood DEF MkdirP
<1>6. CASE RemoveDir
  BY <1>6, RemovalsGood, RunGood DEF RemoveDir
<1>7. CASE RemoveDirAll
  BY <1>7, RemovalsGood, RunGood DEF RemoveDirAll
<1>8. CASE Chmod
  BY <1>8, ArgAssumption, ChmodGood, RunGood DEF Chmod
<1>9. CASE Utimes
  BY <1>9, ChmodGood, NodeAssumption, RunGood DEF Utimes
<1>10. CASE MakeSymlink
  BY <1>10, ArgAssumption, LinksGood, RunGood DEF MakeSymlink
<1>11. CASE MakeHardlink
  BY <1>11, LinksGood, RunGood DEF MakeHardlink
<1>12. CASE Copy
  BY <1>12, CopyGood, RunGood DEF Copy
<1>13. CASE Rename
  BY <1>13, RenameGood, RunGood DEF Rename
<1> QED
  BY <1>1, <1>2, <1>3, <1>4, <1>5, <1>6, <1>7, <1>8, <1>9, <1>10, <1>11,
     <1>12, <1>13 DEF Method

LEMMA StepGood == IInv /\ [Next \/ HostChange]_vars => IInv'
<1> SUFFICES ASSUME IInv, [Next \/ HostChange]_vars PROVE IInv'
  OBVIOUS
<1>1. CASE Method
  BY <1>1, MethodGood
<1>2. CASE Sync
  BY <1>2, syncGood, FailGood, RunGood DEF Sync, IInv
<1>3. CASE Reset
  BY <1>3, EmptyTreeGood, FailGood, RunGood DEF Reset, IInv
<1>4. CASE HostChange
  BY <1>4 DEF HostChange, IInv
<1>5. CASE UNCHANGED vars
  BY <1>5 DEF vars, IInv
<1> QED
  BY <1>1, <1>2, <1>3, <1>4, <1>5 DEF Next

LEMMA GoodIsTypedAndFormed == IInv => TypeOK /\ TreeStructure
BY DEF IInv, Good, TypeOK, TreeStructure

\* Whatever methods are called on it, the overlay holds a tree of upper nodes, and
\* the real directory stays one of those it can be.
THEOREM TypeCorrect == Spec => []TypeOK
<1>1. IInv /\ [Next]_vars => IInv'
  BY StepGood
<1> QED
  BY <1>1, InitGood, GoodIsTypedAndFormed, PTL DEF Spec

\* Invariants 1 to 4 of overlay_tree.rs: in every state a sequence of calls
\* reaches, each entry of the upper tree lies in directories of the tree, so
\* whiteouts are leaves, never nest, and never stand above content.
THEOREM TreeAlwaysWellFormed == Spec => []TreeStructure
<1>1. IInv /\ [Next]_vars => IInv'
  BY StepGood
<1> QED
  BY <1>1, InitGood, GoodIsTypedAndFormed, PTL DEF Spec

\* The same however the real directory changes under the overlay between two
\* calls.
THEOREM HostCannotBreakTheTree == HostSpec => [](TypeOK /\ TreeStructure)
<1>1. IInv /\ [Next \/ HostChange]_vars => IInv'
  BY StepGood
<1> QED
  BY <1>1, InitGood, GoodIsTypedAndFormed, PTL DEF HostSpec
=============================================================================
