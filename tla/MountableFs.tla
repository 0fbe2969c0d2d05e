---------------------------- MODULE MountableFs ----------------------------
(***************************************************************************)
(* MountableFs, src/vfs/mountable.rs, over InMemoryFs backends, as several *)
(* threads use it at once.                                                 *)
(*                                                                         *)
(* A method finds the backend that owns its path and delegates.  What a    *)
(* backend does under one hold of its lock is one step here; a method that *)
(* takes locks one after the other (write_file, append_file, copy,         *)
(* hardlink, rename across mounts) is the sequence `todo` of steps its thread has left, and *)
(* other threads run between them.                                         *)
(***************************************************************************)
EXTENDS MemoryFs

CONSTANTS
  Thread,
  Tables,   \* the mount tables to explore: sets of mount points
  Arg,      \* the paths methods are called on
  Written,  \* the contents scripts write
  NewMode,  \* the modes scripts set
  NewLink   \* the link texts scripts create

ASSUME MountAssumption == \A T \in Tables : T \subseteq Path

\* Any text can be a link's, with or without a mount point in front of it.
ASSUME CallAssumption ==
  /\ Arg \subseteq Path /\ Written \subseteq SUBSET Chunk /\ NewMode \subseteq Mode
  /\ NewLink \subseteq Link
  /\ \A l \in NewLink, T \in Tables : \A m \in T : StartsWith(l.to, m) =>
       [l EXCEPT !.to = SubSeq(l.to, Len(m) + 1, Len(l.to))] \in Link

VARIABLES
  fs,    \* each mount point's backend
  todo   \* per thread, the steps its call has left

vars == <<fs, todo>>

(***************************************************************************)
(* The mount table.                                                        *)
(***************************************************************************)
Owners(mounts, p) == {m \in mounts : StartsWith(p, m)}

\* The owner of a path is its longest mount point; Nobody where there is none.
Nobody == <<"nobody">>
ASSUME NobodyAssumption == Nobody \notin Path

resolve_mount(mounts, p) ==
  IF Owners(mounts, p) = {} THEN Nobody
  ELSE CHOOSE m \in Owners(mounts, p) :
         \A o \in Owners(mounts, p) : Len(o) <= Len(m)

Rel(p, m) == SubSeq(p, Len(m) + 1, Len(p))

is_mount_point_or_ancestor(mounts, p) == \E m \in mounts : StartsWith(m, p)

\* The names mount points add to a listing.
synthetic_mount_entries(mounts, p) ==
  {m[Len(p) + 1] : m \in {k \in mounts : StartsWith(k, p) /\ k # p}}

(***************************************************************************)
(* The read methods: the backend's answer, or a directory made up for a    *)
(* mount point and for what leads to one.                                  *)
(***************************************************************************)
Synthetic(mounts, p) ==
  IF is_mount_point_or_ancestor(mounts, p) THEN Dir(DirMode) ELSE None

Probe(F, p, Ask(_, _)) ==
  LET mounts == DOMAIN F
      m == resolve_mount(mounts, p)
      Or(n) == IF IsNone(n) THEN Synthetic(mounts, p) ELSE n
  IN  IF m = Nobody THEN Synthetic(mounts, p) ELSE Or(Ask(F[m], Rel(p, m)))

stat(F, p)  == Probe(F, p, mem_stat)
lstat(F, p) == Probe(F, p, mem_lstat)
exists(F, p) ==
  LET m == resolve_mount(DOMAIN F, p)
  IN  \/ m # Nobody /\ mem_exists(F[m], Rel(p, m))
      \/ is_mount_point_or_ancestor(DOMAIN F, p)

read_file(F, p) ==
  LET m == resolve_mount(DOMAIN F, p)
  IN  IF m = Nobody THEN None ELSE mem_read(F[m], Rel(p, m))

\* Mutant: the synthetic entries are left out.
readdir_real(F, p) ==
  LET m == resolve_mount(DOMAIN F, p)
  IN  IF m = Nobody THEN {} ELSE mem_readdir(F[m], Rel(p, m))

\* {} where the code answers NotFound or an empty directory.
readdir(F, p) ==
  LET m == resolve_mount(DOMAIN F, p)
  IN  synthetic_mount_entries(DOMAIN F, p)
        \cup (IF m = Nobody THEN {} ELSE mem_readdir(F[m], Rel(p, m)))

\* The text of a link, an absolute one put back under its mount point.
readlink(F, p) ==
  LET m == resolve_mount(DOMAIN F, p)
      Text(n) == IF ~IsSymlink(n) THEN None
                 ELSE IF n.target.abs
                 THEN Symlink([abs |-> TRUE, to |-> m \o n.target.to])
                 ELSE n
  IN  IF m = Nobody THEN None ELSE Text(mem_lstat(F[m], Rel(p, m)))

canonicalize(F, p) ==
  LET m == resolve_mount(DOMAIN F, p)
      Back(r) == [r EXCEPT !.path = m \o @]
  IN  IF m = Nobody THEN Stuck("NotFound")
      ELSE Back(navigate(F[m], Rel(p, m), TRUE))

(***************************************************************************)
(* The steps: what is done, to which backend, at which path.               *)
(***************************************************************************)
Step(F, do, p) == LET m == resolve_mount(DOMAIN F, p)
                  IN  [do |-> do, m |-> m, p |-> IF m = Nobody THEN Root
                                                 ELSE Rel(p, m)]

\* The step s with one more part.
Also(s, f, v) == [x \in DOMAIN s \cup {f} |-> IF x = f THEN v ELSE s[x]]

Left(r, next)  == [err |-> r.err, tree |-> r.tree, next |-> next]
Onward(t, s)   == Left(Ok(t), <<s>>)
OnlyIf(n, t, next) == IF IsNone(n) THEN Left(Fail("NotFound", t), <<>>)
                      ELSE Left(Ok(t), next)

\* Where the file to write is; the first critical section; its number; the
\* second critical section.
Resolved(t, s, r) == IF r.err # "ok" THEN Left(Fail(r.err, t), <<>>)
                     ELSE Onward(t, [s EXCEPT !.do = "over", !.p = r.path])
Looked(t, s, r) == IF r.err = "NotThere"
                   THEN Onward(t, [s EXCEPT !.do = "number"])
                   ELSE Left(r, <<>>)
Numbered(t, s) == Onward(t, Also([s EXCEPT !.do = "insert"],
                                 "id", next_file_id(t)))

\* append_file looks whether the file is there before it takes the lock.
AppendBy(t, s) == IF mem_exists(t, s.p) THEN "extend" ELSE "write"

\* The read of the content, of copy, hardlink and rename; what goes on with it.
Read(t, s, n) == OnlyIf(n, t, <<Also(s.into, "c", n.content)>>)

\* copy's read of the mode, and what is left to do.
ReadMode(t, s, n) ==
  OnlyIf(n, t, <<[do |-> "write", m |-> s.m, p |-> s.dst, c |-> s.c],
                 [do |-> "chmod", m |-> s.m, p |-> s.dst, mode |-> n.mode]>>)

\* hardlink's read of the mode and the file_id, which may by now be another
\* node's; a directory's file_id is 0.
file_id(n) == IF IsFile(n) THEN n.id ELSE 0
ReadMeta(t, s, n) ==
  OnlyIf(n, t, <<[do |-> "new", m |-> s.m, p |-> s.dst,
                  node |-> MemFile(s.c, n.mode, file_id(n))]>>)

\* The methods of one critical section.
Single(t, s) ==
  CASE s.do = "insert"  -> InsertNode(t, s.p, s.c, s.id)
    [] s.do = "extend"  -> AppendNode(t, s.p, s.c)
    [] s.do = "chmod"   -> mem_chmod(t, s.p, s.mode)
    [] s.do = "utimes"  -> mem_utimes(t, s.p)
    [] s.do = "remove"  -> RemoveEntry(t, s.p, s.types, s.full)
    [] s.do = "new"     -> InsertNew(t, s.p, s.node)
    [] s.do = "mkdir_p" -> mem_mkdir_p(t, s.p)
    [] s.do = "rename"  -> mem_rename(t, s.p, s.dst)
    [] s.do = "no dir"  -> IF IsDir(mem_stat(t, s.p)) THEN Fail("IoError", t)
                           ELSE Ok(t)
    [] s.do = "refuse"  -> Fail("IoError", t)

\* What one step does to its backend t and what it leaves to be done next.
Effect(t, s) ==
  CASE s.do = "write"  -> Resolved(t, s, resolve_through_dangling(t, s.p))
    [] s.do = "over"   -> Looked(t, s, OverwriteNode(t, s.p, s.c))
    [] s.do = "number" -> Numbered(t, s)
    [] s.do = "append" -> Onward(t, [s EXCEPT !.do = AppendBy(t, s)])
    [] s.do = "read"   -> Read(t, s, mem_read(t, s.p))
    [] s.do = "mode"   -> ReadMode(t, s, mem_stat(t, s.p))
    [] s.do = "meta"   -> ReadMeta(t, s, mem_stat(t, s.p))
    [] OTHER           -> Left(Single(t, s), <<>>)

Run(st) ==
  LET After(s, r) == [fs   |-> [st.fs EXCEPT ![s.m] = r.tree],
                      err  |-> r.err,
                      todo |-> IF r.err # "ok" THEN <<>>
                               ELSE r.next \o Tail(st.todo)]
      Do(s) == IF s.m = Nobody THEN [fs |-> st.fs, err |-> "NotFound",
                                     todo |-> <<>>]
               ELSE After(s, Effect(st.fs[s.m], s))
  IN  IF st.todo = <<>> THEN st ELSE Do(Head(st.todo))

(***************************************************************************)
(* The methods, as the steps they start with.                              *)
(***************************************************************************)
utimes(F, p)         == <<Step(F, "utimes", p)>>
mkdir_p(F, p)        == <<Step(F, "mkdir_p", p)>>
New(F, p, node)      == <<Also(Step(F, "new", p), "node", node)>>
mkdir(F, p)          == New(F, p, Dir(DirMode))
Removal(F, p, types, full) ==
  <<Also(Also(Step(F, "remove", p), "types", types), "full", full)>>
remove_file(F, p)    == Removal(F, p, {"File", "Symlink"}, TRUE)
remove_dir(F, p)     == Removal(F, p, {"Dir"}, FALSE)
remove_dir_all(F, p) == Removal(F, p, {"Dir"}, TRUE)
write_file(F, p, c)  == <<Also(Step(F, "write", p), "c", c)>>
append_file(F, p, c) == <<Also(Step(F, "append", p), "c", c)>>
chmod(F, p, mode)    == <<Also(Step(F, "chmod", p), "mode", mode)>>

\* Mutant: the target is stored as it was given.
symlink_raw(F, l, p) == New(F, p, Symlink(l))

\* An absolute target in the link's own mount is stored as the backend sees it.
symlink(F, l, p) ==
  LET m == resolve_mount(DOMAIN F, p)
      Within == m # Nobody /\ l.abs /\ resolve_mount(DOMAIN F, l.to) = m
      Text == IF Within THEN [l EXCEPT !.to = Rel(l.to, m)] ELSE l
  IN  New(F, p, Symlink(Text))

\* resolve_two: both paths must have an owner.
Two(F, src, dst, same(_, _), across(_, _)) ==
  LET s == Step(F, "read", src)
      d == Step(F, "write", dst)
  IN  IF s.m = Nobody THEN <<s>> ELSE IF d.m = Nobody THEN <<d>>
      ELSE IF s.m = d.m THEN same(s, d) ELSE across(s, d)

copy(F, src, dst) ==
  LET Same(s, d) == <<Also(s, "into", Also([s EXCEPT !.do = "mode"],
                                             "dst", d.p))>>
      Across(s, d) == <<Also(s, "into", d)>>
  IN  Two(F, src, dst, Same, Across)

hardlink(F, src, dst) ==
  LET Same(s, d) == <<Also(s, "into", Also([s EXCEPT !.do = "meta"],
                                             "dst", d.p))>>
      Across(s, d) == <<[s EXCEPT !.do = "refuse"]>>
  IN  Two(F, src, dst, Same, Across)

\* Mutant: the source goes first.
rename_eager(F, src, dst) ==
  LET Same(s, d) == <<Also([s EXCEPT !.do = "rename"], "dst", d.p)>>
      Across(s, d) == <<[s EXCEPT !.do = "no dir"],
                        Also(s, "into", remove_file(F, src)[1]),
                        Also(d, "c", {})>>
  IN  Two(F, src, dst, Same, Across)

\* Across mounts, a file is read, written and then removed.
rename(F, src, dst) ==
  LET Same(s, d) == <<Also([s EXCEPT !.do = "rename"], "dst", d.p)>>
      Across(s, d) == <<[s EXCEPT !.do = "no dir"], Also(s, "into", d)>>
                        \o remove_file(F, src)
  IN  Two(F, src, dst, Same, Across)

(***************************************************************************)
(* The specification.                                                      *)
(***************************************************************************)
Init ==
  /\ \E T \in Tables : fs = [m \in T |-> EmptyMemory]
  /\ todo = [h \in Thread |-> <<>>]

\* A thread calls a method.
Call(h, steps) == /\ todo[h] = <<>>
                  /\ todo' = [todo EXCEPT ![h] = steps]
                  /\ UNCHANGED fs

WriteFile(h)    == \E p \in Arg, c \in Written : Call(h, write_file(fs, p, c))
AppendFile(h)   == \E p \in Arg, c \in Written : Call(h, append_file(fs, p, c))
RemoveFile(h)   == \E p \in Arg : Call(h, remove_file(fs, p))
RemoveDir(h)    == \E p \in Arg : Call(h, remove_dir(fs, p))
RemoveDirAll(h) == \E p \in Arg : Call(h, remove_dir_all(fs, p))
Mkdir(h)        == \E p \in Arg : Call(h, mkdir(fs, p))
MkdirP(h)       == \E p \in Arg : Call(h, mkdir_p(fs, p))
Utimes(h)       == \E p \in Arg : Call(h, utimes(fs, p))
Chmod(h)        == \E p \in Arg, m \in NewMode : Call(h, chmod(fs, p, m))
SymlinkTo(h)    == \E p \in Arg, l \in NewLink : Call(h, symlink(fs, l, p))
Hardlink(h)     == \E p, q \in Arg : Call(h, hardlink(fs, p, q))
Copy(h)         == \E p, q \in Arg : Call(h, copy(fs, p, q))
Rename(h)       == \E p, q \in Arg : Call(h, rename(fs, p, q))

\* A thread goes on with its call.
Ran(h, r) == fs' = r.fs /\ todo' = [todo EXCEPT ![h] = r.todo]
Proceed(h) ==
  /\ todo[h] # <<>>
  /\ Ran(h, Run([fs |-> fs, err |-> "ok", todo |-> todo[h]]))

Next == \E h \in Thread :
  \/ WriteFile(h) \/ AppendFile(h) \/ RemoveFile(h) \/ RemoveDir(h)
  \/ RemoveDirAll(h) \/ Mkdir(h) \/ MkdirP(h) \/ Utimes(h) \/ Chmod(h)
  \/ SymlinkTo(h) \/ Hardlink(h) \/ Copy(h) \/ Rename(h) \/ Proceed(h)

Spec == Init /\ [][Next]_vars
=============================================================================
