------------------------------ MODULE VfsPath -------------------------------
(***************************************************************************)
(* Normalized absolute VFS paths, src/vfs/mod.rs and overlay_tree.rs.      *)
(*                                                                         *)
(* A path is the sequence of its segments (overlay_tree.rs `segments`), so *)
(* the root "/" is the empty sequence.  Segments are opaque: the model has *)
(* no "." and "..", which normalize() has removed from every path that     *)
(* reaches the layers modelled here.                                       *)
(***************************************************************************)
EXTENDS Naturals, Sequences

CONSTANTS
  Name,      \* the segment names a script can use
  MaxDepth   \* bound: no node lies deeper than this

ASSUME PathAssumption == MaxDepth \in Nat \ {0}

Root == <<>>

\* The paths that can carry a node: the root directory itself is not a node.
NodePath == UNION {[1..n -> Name] : n \in 1..MaxDepth}
Path == NodePath \cup {Root}

Parent(p) == SubSeq(p, 1, Len(p) - 1)

\* The proper ancestors of p that are nodes, and p with them.
Above(p) == {SubSeq(p, 1, n) : n \in 1..(Len(p) - 1)}
UpTo(p)  == {SubSeq(p, 1, n) : n \in 1..Len(p)}

\* Path::starts_with
StartsWith(p, q) == Len(q) <= Len(p) /\ SubSeq(p, 1, Len(q)) = q

Below(p)    == {q \in NodePath : Len(q) > Len(p) /\ StartsWith(q, p)}
Subtree(p)  == {q \in NodePath : StartsWith(q, p)}
Children(p) == {q \in NodePath : Len(q) = Len(p) + 1 /\ StartsWith(q, p)}

\* The path q of the subtree of `from`, moved to the subtree of `to`.
Rebase(q, from, to) == to \o SubSeq(q, Len(from) + 1, Len(q))

(***************************************************************************)
(* The nodes a filesystem layer holds, src/vfs/mod.rs (NodeType, Metadata) *)
(* and overlay_tree.rs (UpperNode).                                        *)
(*                                                                         *)
(* A layer is a total function on NodePath; None stands for "no entry".    *)
(* Content is the set of chunks a file holds: writing makes it the chunks  *)
(* written, appending adds to it, which is all the properties tell apart.  *)
(* Times are left out; modes are kept, since diff() reports them.          *)
(***************************************************************************)
CONSTANTS
  Chunk,     \* pieces of file content
  Mode,      \* permission modes
  FileMode,  \* 0o644, the mode of a fresh file
  DirMode,   \* 0o755, the mode of a fresh directory
  Link       \* symlink texts: records [abs |-> starts with "/", to |-> segments]

ASSUME NodeAssumption ==
  /\ FileMode \in Mode /\ DirMode \in Mode
  /\ Link \subseteq [abs : BOOLEAN, to : Seq(Name)]

None           == [type |-> "None"]
Whiteout       == [type |-> "Whiteout"]
File(c, m)     == [type |-> "File", content |-> c, mode |-> m]
Dir(m)         == [type |-> "Dir", mode |-> m]
Symlink(l)     == [type |-> "Symlink", target |-> l]

LeafNode    == [type : {"File"}, content : SUBSET Chunk, mode : Mode]
                 \cup [type : {"Symlink"}, target : Link]
DirNode     == [type : {"Dir"}, mode : Mode]
ContentNode == LeafNode \cup DirNode

IsNone(n)     == n.type = "None"
IsWhiteout(n) == n.type = "Whiteout"
IsDir(n)      == n.type = "Dir"
IsFile(n)     == n.type = "File"
IsSymlink(n)  == n.type = "Symlink"
IsLeaf(n)     == n.type \in {"File", "Symlink"}
IsContent(n)  == n.type \in {"File", "Symlink", "Dir"}

\* What a layer holds at a path of any depth; the root is a directory.
At(layer, p) == IF p = Root THEN Dir(DirMode)
                ELSE IF p \in NodePath THEN layer[p] ELSE None

\* Whatever exists lies in directories, all the way up.
Rooted(layer) == \A p \in NodePath :
                   ~IsNone(layer[p]) => \A r \in Above(p) : IsDir(layer[r])
=============================================================================
