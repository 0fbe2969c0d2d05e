---------------------------- MODULE OverlayTree ----------------------------
(***************************************************************************)
(* The overlay's upper layer, src/vfs/overlay_tree.rs: one tree of content *)
(* nodes and whiteout leaves.  A tree is a function from NodePath to the   *)
(* upper nodes and None; the nested children maps of the code are the      *)
(* paths below a Dir.  Each method is an operator from the tree it is      *)
(* called on to the tree it leaves; one that can fail returns              *)
(* [err, tree].  The loops over path segments are written as the set of    *)
(* nodes they touch (OverlayLoops checks this against the loops).      *)
(*                                                                         *)
(* modeOf and namesOf are the injected probes of the lower layer:          *)
(* modeOf[q] is lower_mode(q).unwrap_or(0o755), and namesOf[q] is          *)
(* lower_readdir(q).unwrap_or_default().                                   *)
(***************************************************************************)
EXTENDS VfsPath

UpperNode == ContentNode \cup {Whiteout}
Tree      == [NodePath -> UpperNode \cup {None}]

EmptyTree == [p \in NodePath |-> None]

With(t, p, node) == [q \in NodePath |-> IF q = p THEN node ELSE t[q]]

Ok(t)        == [err |-> "ok", tree |-> t]
Fail(e, t)   == [err |-> e, tree |-> t]
Succeeds(r)  == r.err = "ok"

(***************************************************************************)
(* descend: how far a walk down the tree gets.                             *)
(***************************************************************************)
Hidden(t, p) == \E r \in Above(p) : IsWhiteout(At(t, r))

descend(t, p) ==
  IF Hidden(t, p) THEN "Blocked"
  ELSE IF \E r \in Above(p) : IsLeaf(At(t, r)) THEN "NotDir"
  ELSE IF p = Root \/ IsNone(At(t, p)) THEN "Missing"
  ELSE "Found"

is_blocked_or_whiteout(t, p) ==
  \/ descend(t, p) = "Blocked"
  \/ descend(t, p) = "Found" /\ IsWhiteout(At(t, p))

has_content(t, p) == descend(t, p) = "Found" /\ IsContent(At(t, p))

(***************************************************************************)
(* attach a file or a symlink.  No caller attaches a directory: those come *)
(* from ensure_dirs.  "TooDeep" is the model's bound, not an error of the  *)
(* code.                                                                   *)
(***************************************************************************)
attach(t, p, leaf) ==
  IF p \notin NodePath THEN Fail("TooDeep", t)
  ELSE IF \E r \in Above(p) : ~IsContent(t[r]) THEN Fail("NotFound", t)
  ELSE IF \E r \in Above(p) : IsLeaf(t[r]) THEN Fail("NotADirectory", t)
  ELSE IF IsDir(t[p]) THEN Fail("IsADirectory", t)
  ELSE Ok(With(t, p, leaf))

(***************************************************************************)
(* put_whiteout: replace the subtree at p by one whiteout leaf, with       *)
(* scaffold directories above it; a no-op when p is hidden already.        *)
(***************************************************************************)
\* Mutant: the node is replaced and the subtree below it stays.
put_whiteout_leaf(t, p, modeOf) ==
  IF p \notin NodePath \/ \E r \in Above(p) : ~IsDir(t[r]) /\ ~IsNone(t[r])
  THEN t
  ELSE [q \in NodePath |->
          IF q = p THEN Whiteout
          ELSE IF q \in Above(p) /\ IsNone(t[q]) THEN Dir(modeOf[q])
          ELSE t[q]]

put_whiteout(t, p, modeOf) ==
  IF p \notin NodePath \/ \E r \in Above(p) : ~IsDir(t[r]) /\ ~IsNone(t[r])
  THEN t
  ELSE [q \in NodePath |->
          IF q = p THEN Whiteout
          ELSE IF q \in Below(p) THEN None
          ELSE IF q \in Above(p) /\ IsNone(t[q]) THEN Dir(modeOf[q])
          ELSE t[q]]

detach(t, p) ==
  IF p \notin NodePath THEN t
  ELSE [q \in NodePath |-> IF q \in Subtree(p) THEN None ELSE t[q]]

(***************************************************************************)
(* ensure_dirs: a directory at every path of S, S closed under ancestors.  *)
(* A directory that a whiteout hid comes back with a whiteout for every    *)
(* entry the lower layer has in it, so nothing deleted reappears.          *)
(***************************************************************************)
Resurrected(t, q) == \E r \in UpTo(q) : IsWhiteout(t[r])

\* Mutant: a directory comes back without whiteouts for what it held.
EnsureAll_bare(t, S, modeOf, namesOf) ==
  [q \in NodePath |->
     IF q \in S /\ ~IsDir(t[q]) THEN Dir(modeOf[q]) ELSE t[q]]

EnsureAll(t, S, modeOf, namesOf) ==
  [q \in NodePath |->
     IF q \in S THEN (IF IsDir(t[q]) THEN t[q] ELSE Dir(modeOf[q]))
     ELSE IF /\ Parent(q) \in S
             /\ Resurrected(t, Parent(q))
             /\ q[Len(q)] \in namesOf[Parent(q)]
          THEN Whiteout
     ELSE t[q]]

ensure_dirs(t, p, modeOf, namesOf) ==
  IF p \notin Path THEN Fail("TooDeep", t)
  ELSE IF \E r \in UpTo(p) : IsLeaf(t[r]) THEN Fail("NotADirectory", t)
  ELSE Ok(EnsureAll(t, UpTo(p), modeOf, namesOf))

(***************************************************************************)
(* The methods that edit one node in place.                                *)
(***************************************************************************)
append_file(t, p, c) ==
  IF has_content(t, p) /\ IsFile(At(t, p))
  THEN Ok(With(t, p, File(t[p].content \cup c, t[p].mode)))
  ELSE IF has_content(t, p) /\ IsDir(At(t, p)) THEN Fail("IsADirectory", t)
  ELSE Fail("NotFound", t)

set_mode(t, p, m) ==
  IF ~has_content(t, p) THEN Fail("NotFound", t)
  ELSE IF IsSymlink(At(t, p)) THEN Fail("InvalidPath", t)
  ELSE Ok(With(t, p, [t[p] EXCEPT !.mode = m]))

\* dir_entries without the whiteouts, and whiteout_children: the names.
dir_entries(t, p) ==
  {q[Len(q)] : q \in {c \in Children(p) : IsContent(t[c])}}
whiteout_children(t, p) ==
  {q[Len(q)] : q \in {c \in Children(p) : IsWhiteout(t[c])}}

(***************************************************************************)
(* The structural invariants the file's header states (1 to 4): whatever   *)
(* the tree holds lies in Dir nodes, so whiteouts are leaves and never     *)
(* nest, and a path is content or a whiteout, never both.                  *)
(***************************************************************************)
TreeWF(t) == Rooted(t)
=============================================================================
