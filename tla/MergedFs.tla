------------------------------ MODULE MergedFs -----------------------------
(***************************************************************************)
(* What an overlay promises: it behaves as ONE tree of files, links and    *)
(* directories, which starts as a copy of the base directory and from then *)
(* on changes only where an operation says.  No layers, no whiteouts and   *)
(* no resurrection can be seen from here; each step names the one place    *)
(* that changes and frames everything else.                                *)
(*                                                                         *)
(* Two liberties of the program are taken into account: creating an entry  *)
(* creates its missing parents, and the modes of directories that come     *)
(* into being are free.                                                    *)
(*                                                                         *)
(* One thing here is NOT what the program's comments promise: a file in    *)
(* the place of a parent is lost to a directory if it is still the base's. *)
(* overlay.rs:983 says such a path yields NotADirectory.  GivesWay admits  *)
(* the loss, so that everything else can be compared, and confines it to   *)
(* entries no script has written; MidPathFileIsRefused states the comment. *)
(***************************************************************************)
EXTENDS VfsPath

VARIABLES
  base,  \* the real directory
  view   \* the one tree

MergedInit == view = base

Unchanged(S) == \A p \in S : view'[p] = view[p]

\* Equal but for the mode, or but for the mode of a directory.
EqualButMode(m, n) ==
  /\ m.type = n.type
  /\ IsFile(m) => m.content = n.content
  /\ IsSymlink(m) => m.target = n.target
EqualButDirMode(m, n) == m = n \/ (IsDir(m) /\ IsDir(n))

\* Nothing is lost if a directory comes to be at r, or only an entry as the
\* base has it.
GivesWay(r) ==
  IsDir(view[r]) \/ IsNone(view[r]) \/ \E z \in NodePath : view[r] = base[z]

ParentsMade(p) ==
  \A r \in Above(p) : /\ IsDir(view'[r]) /\ GivesWay(r)
                      /\ IsDir(view[r]) => view'[r] = view[r]

\* A file or link comes to be, or is replaced, at p.
PutLeaf(p) == /\ IsLeaf(view'[p]) /\ ~IsDir(view[p])
              /\ ParentsMade(p)
              /\ Unchanged(NodePath \ UpTo(p))

\* An empty directory comes to be at p.
MakeDir(p) == /\ IsDir(view'[p]) /\ ~IsDir(view[p]) /\ GivesWay(p)
              /\ ParentsMade(p)
              /\ Unchanged(NodePath \ UpTo(p))

ChangeMode(p) == /\ ~IsNone(view[p]) /\ EqualButMode(view'[p], view[p])
                 /\ Unchanged(NodePath \ {p})

Remove(p) == /\ ~IsNone(view[p])
             /\ \A q \in Subtree(p) : IsNone(view'[q])
             /\ Unchanged(NodePath \ Subtree(p))

\* The subtree at s goes to q, which held no directory with entries.
Move(s, q) ==
  /\ ~IsNone(view[s]) /\ ~StartsWith(q, s)
  /\ IsDir(view[q]) => IsDir(view[s]) /\ \A r \in Below(q) : IsNone(view[r])
  /\ ParentsMade(q)
  /\ \A r \in Subtree(s) : IsNone(view'[r])
  /\ \A r \in Subtree(q) :
       EqualButDirMode(view'[r], At(view, Rebase(r, q, s)))
  /\ Unchanged(NodePath \ (UpTo(q) \cup Subtree(q) \cup Subtree(s)))

\* Reconciling with the base forgets at most modes, never an entry or its
\* content.
Reconcile == \A p \in NodePath : EqualButMode(view'[p], view[p])

Discard == view' = base

MergedNext ==
  /\ UNCHANGED base
  /\ \/ \E p \in NodePath : PutLeaf(p) \/ MakeDir(p) \/ ChangeMode(p) \/ Remove(p)
     \/ \E s, q \in NodePath : Move(s, q)
     \/ Reconcile
     \/ Discard

MergedSpec == MergedInit /\ [][MergedNext]_<<base, view>>
=============================================================================
