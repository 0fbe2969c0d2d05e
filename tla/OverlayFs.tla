----------------------------- MODULE OverlayFs -----------------------------
(***************************************************************************)
(* The copy-on-write filesystem of src/vfs/overlay.rs: reads fall through  *)
(* an in-memory upper tree to a real directory, writes go to the tree.     *)
(*                                                                         *)
(* Every method of VirtualFs that changes state is an operator on the disk *)
(* d and the tree t returning [err, tree], and an action that applies it.  *)
(* A method runs here as one step: the callers hold the filesystem one at  *)
(* a time (the interpreter is single threaded, and sync() documents its    *)
(* single-writer assumption).                                              *)
(***************************************************************************)
EXTENDS OverlayTree

(***************************************************************************)
(* The lower layer: a real directory, reached through std::fs as the       *)
(* helpers of overlay.rs reach it (lower_exists, lstat_lower, stat_lower,  *)
(* readdir_lower).  The kernel's path walk is external: it follows links   *)
(* in the middle of a path always, and at its end for metadata and         *)
(* read_dir but not for symlink_metadata.                                  *)
(*                                                                         *)
(* A disk d is a function from NodePath to content nodes and None.  A link *)
(* of the disk with an absolute text names a place outside the lower       *)
(* directory where, in this model, nothing exists.                         *)
(***************************************************************************)
CONSTANT MaxHops  \* bound on symlink traversals (the kernel's and the
                  \* code's MAX_SYMLINK_DEPTH are both 40)

Nowhere == <<"nowhere">>   \* the walk failed: ENOENT, ENOTDIR or ELOOP

ASSUME HopAssumption == MaxHops \in Nat \ {0} /\ Nowhere \notin Seq(Name)

DiskNode == ContentNode \cup {None}
Disk     == [NodePath -> DiskNode]

\* How far a walk is: where it stands, what is left of the path, and how many
\* links it may still follow.
Places == Seq(Name) \X Seq(Name) \X (0..MaxHops)

\* Where the kernel's walk of p ends: a Path of the disk, or Nowhere.
Walk(d, p, follow) ==
  LET W[w \in Places] ==
        LET at   == w[1]
            todo == w[2]
            hops == w[3]
            next == Append(at, Head(todo))
            rest == Tail(todo)
            Past(node) ==
              IF IsSymlink(node) /\ (follow \/ rest # <<>>)
              THEN IF node.target.abs \/ hops = 0 THEN Nowhere
                   ELSE W[<<at, node.target.to \o rest, hops - 1>>]
              ELSE IF IsNone(node) \/ (IsFile(node) /\ rest # <<>>)
              THEN Nowhere
              ELSE W[<<next, rest, hops>>]
        IN  IF todo = <<>> THEN at ELSE Past(At(d, next))
  IN  W[<<Root, p, MaxHops>>]

\* The node a probe of p answers for, None where it fails.
Entry(d, w)       == IF w = Nowhere THEN None ELSE At(d, w)
lstat_lower(d, p) == Entry(d, Walk(d, p, FALSE))
stat_lower(d, p)  == Entry(d, Walk(d, p, TRUE))

lower_exists(d, p) == ~IsNone(lstat_lower(d, p))

\* The names in the directory p: {} where read_dir fails.
Entries(d, w) ==
  IF w = Nowhere THEN {}
  ELSE {q[Len(q)] : q \in {c \in Children(w) : ~IsNone(d[c])}}
readdir_lower(d, p) == Entries(d, Walk(d, p, TRUE))

ModeOr(n, default) == IF IsFile(n) \/ IsDir(n) THEN n.mode ELSE default

\* Mutant: unwrap_or_default() for the mode of a path the disk does not have.
lower_mode_of_default(d) ==
  [p \in NodePath |-> ModeOr(stat_lower(d, p), "000")]

\* The two closures overlay.rs hands to the tree, their defaults applied.
lower_mode_of(d) ==
  [p \in NodePath |-> ModeOr(stat_lower(d, p), DirMode)]
lower_entries_of(d) == [p \in NodePath |-> readdir_lower(d, p)]

(***************************************************************************)
(* Lookups, without and with path resolution.                              *)
(***************************************************************************)
is_whiteout(t, p)     == is_blocked_or_whiteout(t, p)
upper_has_entry(t, p) == has_content(t, p)

\* The node the overlay shows at exactly p, None when it shows none.
lstat_overlay(d, t, p) ==
  IF descend(t, p) = "Missing" THEN lstat_lower(d, p)
  ELSE IF has_content(t, p) THEN t[p] ELSE None

resolve_layer(d, t, p) ==
  IF has_content(t, p) THEN "Upper"
  ELSE IF is_whiteout(t, p) THEN "Whiteout"
  ELSE IF descend(t, p) = "Missing" /\ lower_exists(d, p) THEN "Lower"
  ELSE "NotFound"

Resolved(p)      == [err |-> "ok", path |-> p]
Unresolved(e)    == [err |-> e, path |-> Root]
LinkTarget(at, link) == IF link.abs THEN link.to ELSE at \o link.to

(***************************************************************************)
(* resolve_path: follow the links of both layers, component by component;  *)
(* a deleted component ends it.  `depth` is the recursion budget of        *)
(* resolve_path_depth.                                                     *)
(***************************************************************************)
resolve_path(d, t, p, follow_final) ==
  LET R[r \in Seq(Name) \X Seq(Name) \X BOOLEAN \X (0..MaxHops)] ==
        LET at     == r[1]
            todo   == r[2]
            follow == r[3]
            depth  == r[4]
            next == Append(at, Head(todo))
            rest == Tail(todo)
            From(there) == IF there.err # "ok" THEN there
                           ELSE R[<<there.path, rest, follow, depth>>]
            Past(node) ==
              IF IsSymlink(node) /\ (follow \/ rest # <<>>)
              THEN From(R[<<Root, LinkTarget(at, node.target), TRUE, depth - 1>>])
              ELSE R[<<next, rest, follow, depth>>]
        IN  IF depth = 0 THEN Unresolved("SymlinkLoop")
            ELSE IF todo = <<>> THEN Resolved(at)
            ELSE IF is_whiteout(t, next) THEN Unresolved("NotFound")
            ELSE IF descend(t, next) = "NotDir"
            THEN Unresolved("NotADirectory")
            ELSE Past(lstat_overlay(d, t, next))
  IN  R[<<Root, p, follow_final, MaxHops>>]

(***************************************************************************)
(* resolve_write_target: splice each link's text into the path and scan    *)
(* again; deleted and missing components stand for themselves.             *)
(***************************************************************************)
\* Mutant: the text of a link is not scanned for further links.
resolve_write_target_once(d, t, p, follow_final) ==
  LET W[w \in Places] ==
        LET done == w[1]
            todo == w[2]
            hops == w[3]
            next == Append(done, Head(todo))
            rest == Tail(todo)
            Past(node) ==
              IF IsSymlink(node) /\ (follow_final \/ rest # <<>>)
              THEN IF hops = 0 THEN Unresolved("SymlinkLoop")
                   ELSE W[<<LinkTarget(done, node.target), rest, hops - 1>>]
              ELSE W[<<next, rest, hops>>]
        IN  IF todo = <<>> THEN Resolved(done)
            ELSE Past(lstat_overlay(d, t, next))
  IN  W[<<Root, p, MaxHops>>]

resolve_write_target(d, t, p, follow_final) ==
  LET W[w \in Places] ==
        LET done == w[1]
            todo == w[2]
            hops == w[3]
            next == Append(done, Head(todo))
            rest == Tail(todo)
            Past(node) ==
              IF IsSymlink(node) /\ (follow_final \/ rest # <<>>)
              THEN IF hops = 0 THEN Unresolved("SymlinkLoop")
                   ELSE W[<<Root, LinkTarget(done, node.target) \o rest,
                            hops - 1>>]
              ELSE W[<<next, rest, hops>>]
        IN  IF todo = <<>> THEN Resolved(done)
            ELSE Past(lstat_overlay(d, t, next))
  IN  W[<<Root, p, MaxHops>>]

\* What is at a resolved path, of which the layer is known.
InLayer(d, t, p, layer) == CASE layer = "Upper" -> t[p]
                             [] layer = "Lower" -> stat_lower(d, p)
                             [] OTHER -> None

StatAt(d, t, r) == IF r.err # "ok" THEN None
                   ELSE InLayer(d, t, r.path, resolve_layer(d, t, r.path))

stat(d, t, p) == StatAt(d, t, resolve_path(d, t, p, TRUE))

\* The file node read_file reads, None when it fails.
FileOnly(n)        == IF IsFile(n) THEN n ELSE None
read_file(d, t, p) == FileOnly(stat(d, t, p))

ResolvedOr(r, p) == IF r.err = "ok" THEN r.path ELSE p

\* The names readdir lists for a directory.
readdir_merged(d, t, p) ==
  LET Names(q) ==
        ({n \in readdir_lower(d, q) : ~is_whiteout(t, Append(q, n))}
           \cup dir_entries(t, q)) \ whiteout_children(t, q)
  IN  Names(ResolvedOr(resolve_path(d, t, p, TRUE), p))

(***************************************************************************)
(* The steps the methods share.                                            *)
(***************************************************************************)
Then(first, second) == IF Succeeds(first) THEN second ELSE first

ensure_upper_dir_path(d, t, p) ==
  LET Ensure(r) ==
        IF r.err # "ok" THEN Fail(r.err, t)
        ELSE ensure_dirs(t, r.path, lower_mode_of(d), lower_entries_of(d))
  IN  Ensure(resolve_write_target(d, t, p, TRUE))

EnsureParent(d, t, p) ==
  IF Len(p) <= 1 THEN Ok(t) ELSE ensure_upper_dir_path(d, t, Parent(p))

\* attach a leaf below parents made on demand.
AttachAfter(a, p, leaf) == Then(a, attach(a.tree, p, leaf))

AttachBelow(d, t, p, leaf) == AttachAfter(EnsureParent(d, t, p), p, leaf)

\* Remove p from view: a whiteout where the lower layer has something to
\* hide, nothing at all where it has not.
Hide(d, t, p) ==
  IF lower_exists(d, p) THEN put_whiteout(t, p, lower_mode_of(d))
  ELSE detach(t, p)

\* A directory of the lower layer shows at p.
IsLowerDir(d, t, p) == /\ ~is_whiteout(t, p) /\ ~upper_has_entry(t, p)
                       /\ IsDir(lstat_lower(d, p))

\* Some entry is at p in either layer and not deleted (the EEXIST tests).
Occupied(d, t, p) ==
  ~is_whiteout(t, p) /\ (upper_has_entry(t, p) \/ lower_exists(d, p))

\* Mutant: only the metadata is copied.
copy_up_metadata(d, t, p) ==
  LET Copy(a, n) == IF IsFile(n) THEN AttachAfter(a, p, File({}, n.mode))
                    ELSE Then(a, Fail("IoError", a.tree))
  IN  IF upper_has_entry(t, p) THEN Ok(t)
      ELSE Copy(EnsureParent(d, t, p), stat_lower(d, p))

copy_up_if_needed(d, t, p) ==
  LET Copy(a, n) == IF IsFile(n) THEN AttachAfter(a, p, n)
                    ELSE Then(a, Fail("IoError", a.tree))
  IN  IF upper_has_entry(t, p) THEN Ok(t)
      ELSE Copy(EnsureParent(d, t, p), stat_lower(d, p))

(***************************************************************************)
(* write_file.  A file already shown keeps its mode (O_TRUNC), a deleted   *)
(* one does not.  resolve_through_dangling, which the code calls on the    *)
(* resolved path, finds no link left there and returns it.                 *)
(***************************************************************************)
FileModeOf(n) == IF IsFile(n) THEN n.mode ELSE FileMode

WriteMode(d, t, p) ==
  CASE descend(t, p) = "Found"   -> FileModeOf(At(t, p))
    [] descend(t, p) = "Missing" -> FileModeOf(lstat_lower(d, p))
    [] OTHER -> FileMode

write_file(d, t, p, c) ==
  LET Attach(a, q) == AttachAfter(a, q, File(c, WriteMode(d, a.tree, q)))
      Write(w) ==
        IF w.err # "ok" THEN Fail(w.err, t)
        ELSE IF IsDir(lstat_overlay(d, t, w.path)) \/ IsLowerDir(d, t, w.path)
        THEN Fail("IsADirectory", t)
        ELSE Attach(EnsureParent(d, t, w.path), w.path)
  IN  Write(resolve_write_target(d, t, p, TRUE))

(***************************************************************************)
(* append_file: in place in the upper tree, after a copy-up from the lower *)
(* layer, or to a fresh file where the path is missing or deleted.         *)
(***************************************************************************)
AppendIn(d, t, q, c, layer) ==
  LET AppendAfter(up) == Then(up, append_file(up.tree, q, c))
  IN  CASE layer = "Upper" -> append_file(t, q, c)
        [] layer = "Lower" -> AppendAfter(copy_up_if_needed(d, t, q))
        [] OTHER -> AttachBelow(d, t, q, File(c, FileMode))

overlay_append(d, t, p, c) ==
  LET To(q) == AppendIn(d, t, q, c, resolve_layer(d, t, q))
      From(w, r) ==
        IF w.err # "ok" THEN Fail(w.err, t)
        ELSE IF r.err \notin {"ok", "NotFound"} THEN Fail(r.err, t)
        ELSE To(ResolvedOr(r, w.path))
      Through(w) == From(w, resolve_path(d, t, w.path, TRUE))
  IN  IF is_whiteout(t, p) THEN AttachBelow(d, t, p, File(c, FileMode))
      ELSE Through(resolve_write_target(d, t, p, TRUE))

(***************************************************************************)
(* The removals.  Links in the middle of the path are followed, a link at  *)
(* its end never is.                                                       *)
(***************************************************************************)
\* Resolve p for removal and hide it when Fits allows the node there.
RemoveWhere(d, t, p, fits) ==
  LET Remove(r) ==
        IF r.err # "ok" THEN Fail(r.err, t)
        ELSE IF lstat_overlay(d, t, r.path).type \notin fits
        THEN Fail("Refused", t)
        ELSE Ok(Hide(d, t, r.path))
  IN  IF is_whiteout(t, p) THEN Fail("NotFound", t)
      ELSE Remove(resolve_path(d, t, p, FALSE))

remove_file(d, t, p) == RemoveWhere(d, t, p, {"File", "Symlink"})

HasEntries(d, t, r) == /\ r.err = "ok" /\ IsDir(lstat_overlay(d, t, r.path))
                       /\ readdir_merged(d, t, r.path) # {}

remove_dir(d, t, p) ==
  IF p = Root THEN Fail("InvalidPath", t)
  ELSE IF HasEntries(d, t, resolve_path(d, t, p, FALSE))
  THEN Fail("DirectoryNotEmpty", t)
  ELSE RemoveWhere(d, t, p, {"Dir"})

remove_dir_all(d, t, p) ==
  IF p = Root THEN Fail("InvalidPath", t)
  ELSE RemoveWhere(d, t, p, {"Dir", "Symlink"})

(***************************************************************************)
(* mkdir refuses a path that is occupied; mkdir_p accepts the directories  *)
(* that are there and creates from the first missing component down.  Both *)
(* bring a deleted directory back without its deleted entries.             *)
(***************************************************************************)
mkdir(d, t, p) ==
  LET Make(w) ==
        IF w.err # "ok" THEN Fail(w.err, t)
        ELSE IF Occupied(d, t, w.path) THEN Fail("AlreadyExists", t)
        ELSE ensure_upper_dir_path(d, t, w.path)
  IN  Make(resolve_write_target(d, t, p, FALSE))

mkdir_p(d, t, p) ==
  LET Make(w) ==
        IF w.err # "ok" THEN Fail(w.err, t)
        ELSE IF \E b \in UpTo(w.path) : IsLeaf(lstat_overlay(d, t, b))
        THEN Fail("NotADirectory", t)
        ELSE IF IsNone(lstat_overlay(d, t, w.path))
        THEN ensure_dirs(t, w.path, lower_mode_of(d), lower_entries_of(d))
        ELSE Ok(t)
  IN  Make(resolve_write_target(d, t, p, TRUE))

(***************************************************************************)
(* chmod and utimes copy what they change up first; the time itself is     *)
(* left out, so utimes is the copy-up.                                     *)
(***************************************************************************)
\* The tree with p in it, ready for an edit of its metadata.
BringUp(d, t, p) ==
  LET From(layer, n) ==
        CASE p # Root /\ layer = "Upper" -> Ok(t)
          [] p # Root /\ layer = "Lower" /\ IsFile(n) ->
               copy_up_if_needed(d, t, p)
          [] p # Root /\ layer = "Lower" /\ IsDir(n) ->
               ensure_upper_dir_path(d, t, p)
          [] OTHER -> Fail("Refused", t)
  IN  From(resolve_layer(d, t, p), lstat_lower(d, p))

chmod(d, t, p, m) ==
  LET SetMode(a, q) == Then(a, set_mode(a.tree, q, m))
      Change(r) == IF r.err # "ok" THEN Fail(r.err, t)
                   ELSE SetMode(BringUp(d, t, r.path), r.path)
  IN  Change(resolve_path(d, t, p, TRUE))

utimes(d, t, p) ==
  LET Touch(r) == IF r.err # "ok" THEN Fail(r.err, t)
                  ELSE BringUp(d, t, r.path)
  IN  Touch(resolve_path(d, t, p, TRUE))

(***************************************************************************)
(* symlink and hardlink test for an existing entry twice: at the path as   *)
(* given, and at the path the parent's links lead to.  A hardlink is a     *)
(* copy.                                                                   *)
(***************************************************************************)
AttachNew(d, t, p, leaf) ==
  LET Attach(w) ==
        IF w.err # "ok" THEN Fail(w.err, t)
        ELSE IF Occupied(d, t, w.path) THEN Fail("AlreadyExists", t)
        ELSE AttachBelow(d, t, w.path, leaf)
  IN  IF Occupied(d, t, p) THEN Fail("AlreadyExists", t)
      ELSE Attach(resolve_write_target(d, t, p, FALSE))

symlink(d, t, text, link) == AttachNew(d, t, link, Symlink(text))

hardlink(d, t, src, dst) ==
  LET Attach(n) == IF IsFile(n) THEN AttachNew(d, t, dst, n)
                   ELSE Fail("NotFound", t)
  IN  Attach(read_file(d, t, src))

copy(d, t, src, dst) ==
  LET SetMode(w, m) == Then(w, chmod(d, w.tree, dst, m))
      Write(n) == IF IsFile(n)
                  THEN SetMode(write_file(d, t, dst, n.content), n.mode)
                  ELSE Fail("NotFound", t)
  IN  Write(read_file(d, t, src))

(***************************************************************************)
(* rename copies the source to the destination and then hides the source.  *)
(* A link at the end of either path is not followed.  For a directory the  *)
(* code calls itself once per entry; MoveDir is what those calls leave     *)
(* (OverlayLoops checks it against the recursion): a directory per     *)
(* directory seen below the source, whatever was deleted there whiteouted, *)
(* and every file and link seen attached in it.  (That dir_entries is      *)
(* empty follows from the test before it, since the path of an upper       *)
(* directory resolves to itself; it is written out for the proofs.)        *)
(***************************************************************************)
MoveLeaf(d, t, q, leaf) ==
  IF IsLowerDir(d, t, q) THEN Fail("IsADirectory", t)
  ELSE AttachBelow(d, t, q, leaf)

\* Mutant: only the entries of the upper layer are moved.
SeenBelow_upper(d, t, s) == {v \in Below(s) : IsContent(t[v])}

SeenBelow(d, t, s) ==
  {v \in Below(s) : /\ ~IsNone(lstat_overlay(d, t, v))
                    /\ \A r \in Above(v) \cap Below(s) :
                         IsDir(lstat_overlay(d, t, r))}

DirsOf(d, t, paths)   == {v \in paths : IsDir(lstat_overlay(d, t, v))}
Rebased(paths, s, q)  == {Rebase(v, s, q) : v \in paths}

\* The destination, unlinked where the lower layer shows something at it.
Cleared(d, t, q) == IF Occupied(d, t, q) /\ lower_exists(d, q)
                    THEN put_whiteout(t, q, lower_mode_of(d)) ELSE t

\* Attach at the given paths what is seen at the paths they come from.
Landed(d, t, s, q, made, leaves) ==
  [r \in NodePath |-> IF r \in leaves THEN lstat_overlay(d, t, Rebase(r, q, s))
                      ELSE made[r]]

MoveSeen(d, t, s, q, cleared, moved, dirs) ==
  IF ~({s, q} \cup moved \subseteq NodePath) THEN Fail("TooDeep", t)
  ELSE IF \E r \in UpTo(q) : IsLeaf(cleared[r])
  THEN Fail("NotADirectory", cleared)
  ELSE Ok(Landed(d, t, s, q,
                 EnsureAll(cleared, UpTo(q) \cup dirs,
                           lower_mode_of(d), lower_entries_of(d)),
                 moved \ dirs))

MoveDir(d, t, s, q) ==
  LET Move(seen) == MoveSeen(d, t, s, q, Cleared(d, t, q), Rebased(seen, s, q),
                             Rebased(DirsOf(d, t, seen), s, q))
  IN  IF \/ Occupied(d, t, q) /\ readdir_merged(d, t, q) # {}
         \/ dir_entries(t, q) # {}
      THEN Fail("DirectoryNotEmpty", t)
      ELSE Move(SeenBelow(d, t, s))

MoveNode(d, t, s, q, node) == IF IsDir(node) THEN MoveDir(d, t, s, q)
                              ELSE MoveLeaf(d, t, q, node)

rename(d, t, src, dst) ==
  LET Unlink(made, s) == Then(made, Ok(Hide(d, made.tree, s)))
      Move(from, to, node) ==
        IF from.err # "ok" THEN Fail(from.err, t)
        ELSE IF IsNone(node) THEN Fail("NotFound", t)
        ELSE IF to.err # "ok" THEN Fail(to.err, t)
        ELSE IF StartsWith(to.path, from.path) /\ IsDir(node)
        THEN Fail("InvalidPath", t)
        ELSE Unlink(MoveNode(d, t, from.path, to.path, node), from.path)
      MoveFrom(from) == Move(from, resolve_write_target(d, t, dst, FALSE),
                             lstat_overlay(d, t, from.path))
  IN  IF src = dst THEN Ok(t)
      ELSE IF is_whiteout(t, src) THEN Fail("NotFound", t)
      ELSE MoveFrom(resolve_path(d, t, src, FALSE))

(***************************************************************************)
(* diff: the writes and deletions that separate the view from the disk.    *)
(* A directory is a write when it is empty in the tree or holds a file or  *)
(* a link somewhere below it.                                              *)
(***************************************************************************)
subtree_has_content(t, p) == \E q \in Below(p) : IsLeaf(t[q])

\* Mutant: an empty directory is taken for scaffolding.
IsScaffold_empty(t, p) == ~subtree_has_content(t, p)

IsScaffold(t, p) ==
  (\E q \in Children(p) : ~IsNone(t[q])) /\ ~subtree_has_content(t, p)

diff(d, t) ==
  [writes    |-> {p \in NodePath : \/ IsLeaf(t[p])
                                    \/ (IsDir(t[p]) /\ ~IsScaffold(t, p))},
   deletions |-> {p \in NodePath : IsWhiteout(t[p]) /\ lower_exists(d, p)}]

(***************************************************************************)
(* sync: drop what the disk already has.  The code walks the tree from the *)
(* leaves up and keeps a matching directory while something is left in it, *)
(* so a node survives when it, or a node below it, differs from the disk.  *)
(***************************************************************************)
\* Mutant: a directory matches whatever exists.
matches_disk_exists(d, p, node) ==
  LET n == lstat_lower(d, p)
  IN  CASE IsFile(node)    -> IsFile(n) /\ n.content = node.content
        [] IsDir(node)     -> ~IsNone(n)
        [] IsSymlink(node) -> IsSymlink(n) /\ n.target = node.target
        [] OTHER           -> IsNone(n)

matches_disk(d, p, node) ==
  LET n == lstat_lower(d, p)
  IN  CASE IsFile(node)    -> IsFile(n) /\ n.content = node.content
        [] IsDir(node)     -> IsDir(n)
        [] IsSymlink(node) -> IsSymlink(n) /\ n.target = node.target
        [] OTHER           -> IsNone(n)

sync(d, t) ==
  [p \in NodePath |->
     IF \E q \in Subtree(p) : ~IsNone(t[q]) /\ ~matches_disk(d, q, t[q])
     THEN t[p] ELSE None]

-----------------------------------------------------------------------------
(***************************************************************************)
(* The state machine.                                                      *)
(***************************************************************************)
CONSTANTS
  Disks,    \* the contents the real directory can have
  Arg,      \* the paths scripts pass
  Written,  \* the contents they write
  NewMode,  \* the modes they chmod to
  NewLink   \* the texts they symlink

ASSUME ArgAssumption ==
  /\ Disks \subseteq Disk /\ \A d \in Disks : Rooted(d)
  /\ Arg \subseteq Path
  /\ Written \subseteq SUBSET Chunk
  /\ NewMode \subseteq Mode
  /\ NewLink \subseteq Link

VARIABLES
  lower,  \* the real directory
  tree    \* OverlayFs.tree

vars == <<lower, tree>>

Init == lower \in Disks /\ tree = EmptyTree

\* A method ran on the overlay; the real directory is never touched.
Run(result) == tree' = result.tree /\ UNCHANGED lower

WriteFile    == \E p \in Arg, c \in Written : Run(write_file(lower, tree, p, c))
AppendFile   == \E p \in Arg, c \in Written :
                  Run(overlay_append(lower, tree, p, c))
RemoveFile   == \E p \in Arg : Run(remove_file(lower, tree, p))
Mkdir        == \E p \in Arg : Run(mkdir(lower, tree, p))
MkdirP       == \E p \in Arg : Run(mkdir_p(lower, tree, p))
RemoveDir    == \E p \in Arg : Run(remove_dir(lower, tree, p))
RemoveDirAll == \E p \in Arg : Run(remove_dir_all(lower, tree, p))
Chmod        == \E p \in Arg, m \in NewMode : Run(chmod(lower, tree, p, m))
Utimes       == \E p \in Arg : Run(utimes(lower, tree, p))
MakeSymlink  == \E p \in Arg, l \in NewLink : Run(symlink(lower, tree, l, p))
MakeHardlink == \E p, q \in Arg : Run(hardlink(lower, tree, p, q))
Copy         == \E p, q \in Arg : Run(copy(lower, tree, p, q))
Rename       == \E p, q \in Arg : Run(rename(lower, tree, p, q))
Sync         == Run(Ok(sync(lower, tree)))
Reset        == Run(Ok(EmptyTree))

Method == \/ WriteFile \/ AppendFile \/ RemoveFile
          \/ Mkdir \/ MkdirP \/ RemoveDir \/ RemoveDirAll
          \/ Chmod \/ Utimes \/ MakeSymlink \/ MakeHardlink
          \/ Copy \/ Rename

Next == Method \/ Sync \/ Reset

Spec == Init /\ [][Next]_vars

\* The same with the real directory changing under the overlay between two
\* methods (the user's own tools, or the harness applying a diff).
HostChange == lower' \in Disks /\ UNCHANGED tree

HostSpec == Init /\ [][Next \/ HostChange]_vars
-----------------------------------------------------------------------------
TypeOK == lower \in Disks /\ tree \in Tree

\* The structural invariants 1 to 4 of overlay_tree.rs hold in every state a
\* sequence of methods reaches, whatever the disk does meanwhile.
TreeStructure == TreeWF(tree)
=============================================================================
