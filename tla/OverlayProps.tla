---------------------------- MODULE OverlayProps ---------------------------
(***************************************************************************)
(* What the overlay filesystem of OverlayFs promises.                      *)
(*                                                                         *)
(* A contract of a method is stated as an invariant over its arguments: in *)
(* every reachable state, whatever it is called on, its result relates to  *)
(* the state as the contract says.                                         *)
(***************************************************************************)
EXTENDS OverlayFs

(***************************************************************************)
(* The merged view: what a script can see at each path.                    *)
(***************************************************************************)
Merged(d, t) ==
  [p \in NodePath |->
     IF \A r \in Above(p) : IsDir(lstat_overlay(d, t, r))
     THEN lstat_overlay(d, t, p) ELSE None]

Merge == INSTANCE MergedFs WITH base <- lower, view <- Merged(lower, tree)

\* The two layers behave as one tree (overlay.rs and overlay_tree.rs against
\* MergedFs): every method changes one place and frames the rest, so nothing
\* deleted comes back, sync() never changes what a script sees, and nothing
\* that a script wrote gives way to a directory.  An entry the script has not
\* touched may: a file of the disk in the middle of a path
\* (MidPathFileIsRefused).
ImplementsMergedFs == Merge!MergedSpec

\* readdir_merged lists exactly the names at which lstat finds an entry: the
\* listing and the lookups agree on which lower entries are hidden.
ListingAgreesAt(view, p) ==
  IsDir(At(view, p)) =>
    readdir_merged(lower, tree, p) =
      {q[Len(q)] : q \in {c \in Children(p) : ~IsNone(view[c])}}
ListingAgreesWithLookup ==
  LET view == Merged(lower, tree)
  IN  \A p \in Path : ListingAgreesAt(view, p)

(***************************************************************************)
(* Path resolution over the one tree: POSIX, with absolute links rooted at *)
(* the VFS root.                                                           *)
(***************************************************************************)
ViewWalk(view, p, follow) ==
  LET W[w \in Places] ==
        LET at   == w[1]
            todo == w[2]
            hops == w[3]
            next == Append(at, Head(todo))
            rest == Tail(todo)
            node == At(view, next)
        IN  IF todo = <<>> THEN at
            ELSE IF IsSymlink(node) /\ (follow \/ rest # <<>>)
            THEN IF hops = 0 THEN Nowhere
                 ELSE W[<<Root, LinkTarget(at, node.target) \o rest, hops - 1>>]
            ELSE IF IsNone(node) \/ (IsFile(node) /\ rest # <<>>)
            THEN Nowhere
            ELSE W[<<next, rest, hops>>]
  IN  W[<<Root, p, MaxHops>>]

\* The readers' resolver and the writers' resolver lead to the same entry,
\* the one POSIX resolution finds in the merged view, whichever layer the
\* links on the way live in: resolve_path, and resolve_write_target wherever
\* the entry exists.
ResolversAgree ==
  LET view == Merged(lower, tree)
  IN  \A p \in Path, follow \in BOOLEAN :
        LET w == ViewWalk(view, p, follow)
            r == resolve_path(lower, tree, p, follow)
            found == r.err = "ok" /\ ~IsNone(lstat_overlay(lower, tree, r.path))
        IN  IF w = Nowhere THEN ~found
            ELSE /\ found /\ r.path = w
                 /\ resolve_write_target(lower, tree, p, follow) = Resolved(w)

\* Every way to ask what is at a path has the same answer.
LookupsAgree == ListingAgreesWithLookup /\ ResolversAgree

(***************************************************************************)
(* Contracts of the methods.                                               *)
(***************************************************************************)
\* What a call reports as done can be read back through the same path:
\* write_file, append_file, mkdir, mkdir_p, copy and hardlink leave what they
\* were given there, and a removed path is gone.
SuccessIsVisible ==
  \A p \in Arg :
    /\ \A c \in Written :
         LET w == write_file(lower, tree, p, c)
             a == overlay_append(lower, tree, p, c)
             old == read_file(lower, tree, p)
         IN  /\ Succeeds(w) => read_file(lower, w.tree, p).content = c
             /\ Succeeds(a) => read_file(lower, a.tree, p).content =
                                 c \cup (IF IsFile(old) THEN old.content ELSE {})
    /\ \A r \in {mkdir(lower, tree, p), mkdir_p(lower, tree, p)} :
         Succeeds(r) => IsDir(stat(lower, r.tree, p))
    /\ \A r \in {remove_file(lower, tree, p), remove_dir(lower, tree, p),
                 remove_dir_all(lower, tree, p)} :
         Succeeds(r) => IsNone(stat(lower, r.tree, p))
    /\ \A q \in Arg :
         LET n == read_file(lower, tree, q)
         IN  \A r \in {copy(lower, tree, q, p), hardlink(lower, tree, q, p)} :
               Succeeds(r) => read_file(lower, r.tree, p) = n

\* A call that reports an error changed nothing a script can see, although
\* several of them fail after their first edits (parents created for an
\* append that fails, a destination cleared by a rename that fails).
FailureIsSilent ==
  LET Silent(r) ==
        \/ Succeeds(r) \/ r.tree = tree
        \/ Merged(lower, r.tree) = Merged(lower, tree)
  IN  \A p \in Arg :
        /\ \A c \in Written : /\ Silent(write_file(lower, tree, p, c))
                              /\ Silent(overlay_append(lower, tree, p, c))
        /\ Silent(mkdir(lower, tree, p)) /\ Silent(mkdir_p(lower, tree, p))
        /\ Silent(remove_dir(lower, tree, p))
        /\ Silent(utimes(lower, tree, p))
        /\ \A m \in NewMode : Silent(chmod(lower, tree, p, m))
        /\ \A l \in NewLink : Silent(symlink(lower, tree, l, p))
        /\ \A q \in Arg : /\ Silent(rename(lower, tree, p, q))
                          /\ Silent(copy(lower, tree, p, q))
                          /\ Silent(hardlink(lower, tree, p, q))

\* What a call reports is what a script sees of it.
CallsAreHonest == SuccessIsVisible /\ FailureIsSilent

\* A rename that reports success moved the source: everything below it is at
\* the destination with its content and nothing is left where it was.  The
\* paths are the ones the links of both arguments lead to; where one of them
\* lies in the other there is nothing to move (RenameOntoItselfKeeps), and a
\* file deeper than the model's MaxDepth, which only a link of the disk can
\* show, is no part of the merged view.
RenameMoves ==
  LET before == Merged(lower, tree)
  IN  \A src, dst \in Arg :
        LET s == resolve_path(lower, tree, src, FALSE).path
            q == resolve_write_target(lower, tree, dst, FALSE).path
            r == rename(lower, tree, src, dst)
            after == Merged(lower, r.tree)
        IN  Succeeds(r) /\ s \in NodePath /\ ~StartsWith(s, q) /\ ~StartsWith(q, s) =>
              /\ \A p \in Subtree(s) : IsNone(after[p])
              /\ \A p \in Subtree(q) :
                   Merge!EqualButDirMode(after[p], At(before, Rebase(p, q, s)))

\* overlay.rs:1346 says "POSIX rename(2) onto itself is a no-op success."
\* That the two arguments are the same entry can also be due to a link on
\* the way to one of them.
RenameOntoItselfKeeps ==
  \A src, dst \in Arg :
    LET s == ViewWalk(Merged(lower, tree), src, FALSE)
        r == rename(lower, tree, src, dst)
    IN  /\ s # Nowhere /\ s = ViewWalk(Merged(lower, tree), dst, FALSE)
        /\ Succeeds(r)
        => Merged(lower, r.tree) = Merged(lower, tree)

\* overlay.rs:983 says of mkdir's last step: "a mid-path file yields
\* NotADirectory."  A path through a file names nothing that could be made.
MidPathFileIsRefused ==
  \A p \in Arg : \A r \in Above(p) :
    IsFile(Merged(lower, tree)[r]) =>
      mkdir(lower, tree, p).err = "NotADirectory"

(***************************************************************************)
(* diff and sync, the two calls a harness makes to bring the disk and the  *)
(* overlay together.                                                       *)
(***************************************************************************)
\* The disk after every write and every deletion of the diff has been done,
\* each at its path: a written entry replaces what is in its way.
Patched(d, t) ==
  LET w       == diff(d, t).writes
      removed == diff(d, t).deletions
                   \cup {p \in w : IsLeaf(t[p]) \/ ~IsDir(d[p])}
  IN  [p \in NodePath |->
         IF p \in w /\ IsLeaf(t[p]) THEN t[p]
         ELSE IF \E q \in w : p \in UpTo(q)
         THEN (IF IsDir(d[p]) THEN d[p] ELSE t[p])
         ELSE IF UpTo(p) \cap removed # {} THEN None
         ELSE d[p]]

\* No directory of the tree stands where the disk has a link.
NoDirOverLink(d, t) == \A p \in NodePath : ~(IsDir(t[p]) /\ IsSymlink(d[p]))

\* diff is exact: a host that performs it gets the files, links and
\* directories the script saw, no more and no less.
DiffIsThePatch ==
  NoDirOverLink(lower, tree) =>
    \A p \in NodePath :
      Merge!EqualButDirMode(Patched(lower, tree)[p], Merged(lower, tree)[p])

\* sync() after such a host leaves nothing pending: every node of the tree
\* is recognised as applied, whiteouts and directories included.
ApplyThenSyncIsClean ==
  NoDirOverLink(lower, tree) => sync(Patched(lower, tree), tree) = EmptyTree

\* One turn of the harness: diff, apply, sync.
HarnessIsExact == DiffIsThePatch /\ ApplyThenSyncIsClean

\* sync() never changes what a script sees but for modes, however the real
\* directory has been changed under the overlay: a node is dropped only
\* where the disk shows the same without it.
SyncKeepsView ==
  \A p \in NodePath :
    Merge!EqualButMode(Merged(lower, sync(lower, tree))[p],
                       Merged(lower, tree)[p])
=============================================================================
