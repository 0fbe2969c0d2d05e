------------------------------ MODULE MemoryFs -----------------------------
(***************************************************************************)
(* InMemoryFs, src/vfs/memory.rs: one tree of files, directories and       *)
(* symlinks under one lock.                                                *)
(*                                                                         *)
(* Each operator is what a method does while it holds the lock once; the   *)
(* methods that take the lock several times are put together from these in *)
(* MountableFs.  A result is [err, tree].                                  *)
(***************************************************************************)
EXTENDS VfsPath, FiniteSetsExt

CONSTANT MaxHops  \* bound on symlink traversals (MAX_SYMLINK_DEPTH is 40)

ASSUME HopAssumption == MaxHops \in Nat \ {0}

Ok(t)       == [err |-> "ok", tree |-> t]
Fail(e, t)  == [err |-> e, tree |-> t]
Succeeds(r) == r.err = "ok"

MemFile(c, m, i) == [type |-> "File", content |-> c, mode |-> m, id |-> i]
MemNode == [type : {"File"}, content : SUBSET Chunk, mode : Mode, id : Nat]
             \cup [type : {"Symlink"}, target : Link] \cup DirNode \cup {None}

EmptyMemory == [p \in NodePath |-> None]
With(t, p, node) == [t EXCEPT ![p] = node]
Without(t, p)    == [q \in NodePath |-> IF StartsWith(q, p) THEN None ELSE t[q]]

\* One more than the largest id in the tree.
next_file_id(t) ==
  1 + Max({0} \cup {t[p].id : p \in {q \in NodePath : IsFile(t[q])}})

(***************************************************************************)
(* navigate, resolve_canonical and resolve_canonical_from_root walk alike: *)
(* links in the middle of a path are followed always, a link at its end if *)
(* follow.  A link's text goes through vfs_normalize_checked, which        *)
(* refuses a relative one, so only absolute links can be walked.           *)
(***************************************************************************)
At_(p)    == [err |-> "ok", path |-> p]
Stuck(e)  == [err |-> e, path |-> Root]

WalkPlace == Seq(Name) \X Seq(Name) \X (0..MaxHops)

navigate(t, p, follow) ==
  LET W[w \in WalkPlace] ==
        LET at   == w[1]
            todo == w[2]
            hops == w[3]
            next == Append(at, Head(todo))
            rest == Tail(todo)
            node == At(t, next)
        IN  IF todo = <<>> THEN At_(at)
            ELSE IF ~IsDir(At(t, at)) THEN Stuck("NotADirectory")
            ELSE IF IsNone(node) THEN Stuck("NotFound")
            ELSE IF ~(IsSymlink(node) /\ (follow \/ rest # <<>>))
            THEN W[<<next, rest, hops>>]
            ELSE IF ~node.target.abs THEN Stuck("InvalidPath")
            ELSE IF hops = 0 THEN Stuck("SymlinkLoop")
            ELSE W[<<Root, node.target.to \o rest, hops - 1>>]
  IN  W[<<Root, p, MaxHops>>]

NodeOf(t, r) == IF r.err = "ok" THEN At(t, r.path) ELSE None

mem_lstat(t, p)  == NodeOf(t, navigate(t, p, FALSE))
mem_stat(t, p)   == NodeOf(t, navigate(t, p, TRUE))
mem_exists(t, p) == navigate(t, p, TRUE).err = "ok"
mem_read(t, p)   == LET n == mem_stat(t, p) IN IF IsFile(n) THEN n ELSE None

\* The names in a directory, {} where there is none.
mem_readdir(t, p) ==
  LET r == navigate(t, p, TRUE)
  IN  IF ~IsDir(NodeOf(t, r)) THEN {}
      ELSE {q[Len(q)] : q \in {c \in Children(r.path) : ~IsNone(t[c])}}

(***************************************************************************)
(* with_parent_mut: the entry p names, its parent's links followed.        *)
(* "TooDeep" is the model's bound, not an error of the code.               *)
(***************************************************************************)
with_parent_mut(t, p) ==
  LET Entry(r) ==
        IF r.err # "ok" THEN r
        ELSE IF ~IsDir(At(t, r.path)) THEN Stuck("NotADirectory")
        ELSE IF Len(r.path) >= MaxDepth THEN Stuck("TooDeep")
        ELSE At_(Append(r.path, p[Len(p)]))
  IN  IF p = Root THEN Stuck("InvalidPath")
      ELSE Entry(navigate(t, Parent(p), TRUE))

\* A new entry where there is none: mkdir, symlink.
InsertNew(t, p, node) ==
  LET Insert(r) == IF r.err # "ok" THEN Fail(r.err, t)
                   ELSE IF ~IsNone(t[r.path]) THEN Fail("AlreadyExists", t)
                   ELSE Ok(With(t, r.path, node))
  IN  Insert(with_parent_mut(t, p))

\* remove_file, remove_dir and remove_dir_all: the entry goes with all that
\* lies below it, if its type is one of types and, unless full, it is empty.
RemoveEntry(t, p, types, full) ==
  LET Remove(r) ==
        IF r.err # "ok" THEN Fail(r.err, t)
        ELSE IF IsNone(t[r.path]) THEN Fail("NotFound", t)
        ELSE IF t[r.path].type \notin types THEN Fail("WrongType", t)
        ELSE IF ~full /\ mem_readdir(t, r.path) # {}
        THEN Fail("DirectoryNotEmpty", t)
        ELSE Ok(Without(t, r.path))
  IN  Remove(with_parent_mut(t, p))

\* mkdir_p walks the components themselves: a link on the way is not followed.
mem_mkdir_p(t, p) ==
  IF p \notin Path THEN Fail("TooDeep", t)
  ELSE IF \E r \in UpTo(p) : IsLeaf(t[r]) THEN Fail("NotADirectory", t)
  ELSE Ok([q \in NodePath |-> IF q \in UpTo(p) /\ IsNone(t[q])
                              THEN Dir(DirMode) ELSE t[q]])

\* with_node_mut: an edit of the node that p leads to.
Edit(t, p, new(_)) ==
  LET Change(r) == IF r.err # "ok" THEN Fail(r.err, t)
                   ELSE IF r.path = Root THEN Ok(t)
                   ELSE Ok(With(t, r.path, new(t[r.path])))
  IN  Change(navigate(t, p, TRUE))

mem_chmod(t, p, m) == LET New(n) == [n EXCEPT !.mode = m] IN Edit(t, p, New)
mem_utimes(t, p)   == LET New(n) == n IN Edit(t, p, New)

AppendNode(t, p, c) ==
  LET New(n) == [n EXCEPT !.content = @ \cup c]
  IN  IF IsDir(mem_stat(t, p)) THEN Fail("IsADirectory", t) ELSE Edit(t, p, New)

(***************************************************************************)
(* write_file's two critical sections: the first overwrites a file that is *)
(* there (which keeps its mode and id); where it finds nothing, the second *)
(* inserts a fresh file, over whatever is there by then.                   *)
(***************************************************************************)
OverwriteNode(t, p, c) ==
  LET Overwrite(q) ==
        IF q.err # "ok" THEN Fail("NotThere", t)
        ELSE IF IsDir(At(t, q.path)) THEN Fail("IsADirectory", t)
        ELSE Ok([t EXCEPT ![q.path].content = c])
  IN  Overwrite(navigate(t, p, TRUE))

InsertNode(t, p, c, i) ==
  LET Insert(r) == IF r.err # "ok" THEN Fail(r.err, t)
                   ELSE Ok(With(Without(t, r.path), r.path,
                                MemFile(c, FileMode, i)))
  IN  Insert(with_parent_mut(t, p))

(***************************************************************************)
(* resolve_through_dangling (vfs/mod.rs): follow trailing links that lead  *)
(* nowhere.  It resolves a relative text against the link's parent, which  *)
(* navigate does not: every relative link dangles for stat().              *)
(***************************************************************************)
LinkPlace(p, l) == IF l.abs THEN l.to ELSE Parent(p) \o l.to

resolve_through_dangling(t, p) ==
  LET W[w \in Seq(Name) \X (0..MaxHops)] ==
        LET at == w[1]
            n  == mem_lstat(t, at)
        IN  IF w[2] = 0 THEN Stuck("SymlinkLoop")
            ELSE IF IsSymlink(n) /\ ~mem_exists(t, at)
            THEN W[<<LinkPlace(at, n.target), w[2] - 1>>]
            ELSE At_(at)
  IN  W[<<p, MaxHops>>]

(***************************************************************************)
(* rename walks the components themselves, takes the source out of the     *)
(* tree and then looks for the destination's directory.  What was at the   *)
(* destination is dropped, a directory with all it holds.                  *)
(***************************************************************************)
RawParent(t, p) ==
  IF \E r \in Above(p) : IsNone(t[r]) /\ \A a \in Above(r) : IsDir(t[a])
  THEN Stuck("NotFound")
  ELSE IF \E r \in Above(p) : ~IsDir(t[r]) THEN Stuck("NotADirectory")
  ELSE At_(Parent(p))

Moved(t, src, dst) ==
  [q \in NodePath |-> IF StartsWith(q, dst) THEN At(t, Rebase(q, dst, src))
                      ELSE IF StartsWith(q, src) THEN None ELSE t[q]]

TooDeepToMove(t, src, dst) ==
  \E q \in Subtree(src) : ~IsNone(t[q]) /\ Rebase(q, src, dst) \notin NodePath

\* Mutant: the destination's directory is not looked up again.
mem_rename_blind(t, src, dst) ==
  IF src = Root \/ dst = Root \/ TooDeepToMove(t, src, dst)
  THEN Fail("InvalidPath", t)
  ELSE IF ~Succeeds(RawParent(t, src)) \/ IsNone(t[src])
  THEN Fail("NotFound", t)
  ELSE Ok(Moved(t, src, dst))

mem_rename(t, src, dst) ==
  LET gone == Without(t, src)
      Take(from, to) == IF from.err # "ok" THEN Fail(from.err, t)
                        ELSE IF IsNone(At(t, src)) THEN Fail("NotFound", t)
                        ELSE IF to.err # "ok" THEN Fail(to.err, gone)
                        ELSE Ok(Moved(t, src, dst))
  IN  IF src = Root \/ dst = Root THEN Fail("InvalidPath", t)
      ELSE IF TooDeepToMove(t, src, dst) THEN Fail("TooDeep", t)
      ELSE Take(RawParent(t, src), RawParent(gone, dst))
=============================================================================
