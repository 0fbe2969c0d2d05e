---------------------------- MODULE FileCommands ----------------------------
(***************************************************************************)
(* The commands that change files, src/commands/file_ops.rs and mod.rs:    *)
(* cp, mv, rm, rmdir, mkdir, touch, tee, chmod, mkfifo, ln and readlink,   *)
(* over one InMemoryFs.                                                    *)
(*                                                                         *)
(* An operand is [abs |-> starts with "/", to |-> components], where a     *)
(* component may be ".."; "." is the relative operand without components.  *)
(* A command is what it makes of a tree: [tree, code].                     *)
(***************************************************************************)
EXTENDS MemoryFs, SequencesExt

CONSTANTS
  Listing,   \* the names in the order of their bytes, in which readdir lists
  FifoMode   \* 0o10644, the mode of a named pipe

ASSUME ListingAssumption == Range(Listing) = Name /\ FifoMode \in Mode

Up == ".."

\* vfs_resolve and the normalization every method starts with.
vfs_resolve(cwd, o) ==
  LET Walked(p, c) == IF c = Up THEN Parent(p) ELSE Append(p, c)
  IN  FoldLeft(Walked, IF o.abs THEN Root ELSE cwd, o.to)

Whole(p) == [abs |-> TRUE, to |-> p]
In_(S)   == SelectSeq(Listing, LAMBDA n : n \in S)

(***************************************************************************)
(* Methods of InMemoryFs that take its lock more than once; a command runs *)
(* alone, so that they are one step here.                                  *)
(***************************************************************************)
Written_(t, p, c) ==
  LET Insert(o) == IF o.err = "NotThere" THEN InsertNode(t, p, c, next_file_id(t)) ELSE o
  IN  Insert(OverwriteNode(t, p, c))

write_file(t, p, c) ==
  LET Through(r) == IF r.err # "ok" THEN Fail(r.err, t) ELSE Written_(t, r.path, c)
  IN  Through(resolve_through_dangling(t, p))

append_file(t, p, c) ==
  IF mem_exists(t, p) THEN AppendNode(t, p, c) ELSE write_file(t, p, c)

copy(t, src, dst) ==
  LET Mode_(w, m) == IF Succeeds(w) THEN mem_chmod(w.tree, dst, m) ELSE w
      Copied(n) == IF IsNone(n) THEN Fail("NotFound", t)
                   ELSE Mode_(write_file(t, dst, n.content), n.mode)
  IN  Copied(mem_read(t, src))

\* hardlink copies the content, the mode and the id of a file; there is no
\* count of links.
hardlink(t, src, dst) ==
  LET Linked(n) == IF IsNone(n) THEN Fail("NotFound", t) ELSE InsertNew(t, dst, n)
  IN  Linked(mem_read(t, src))

remove_file(t, p)    == RemoveEntry(t, p, {"File", "Symlink"}, TRUE)
remove_dir(t, p)     == RemoveEntry(t, p, {"Dir"}, FALSE)
remove_dir_all(t, p) == RemoveEntry(t, p, {"Dir"}, TRUE)
IsADir(t, p)  == IsDir(mem_stat(t, p))
IsEmpty(t, p) == IsADir(t, p) /\ mem_readdir(t, p) = {}

(***************************************************************************)
(* One operand of a command, at the path p.                                *)
(***************************************************************************)
Status(c, t) == [tree |-> t, code |-> c]
Result(r)    == Status(IF Succeeds(r) THEN 0 ELSE 1, r.tree)

\* copy_dir_recursive: depth first, up to the first error.  A directory is
\* listed after its copy has been made, so that one that is copied into
\* itself is copied for ever: "TooDeep" where the model ends.
RECURSIVE copy_dir_recursive(_, _, _)
\* Mutant: what lies in a directory is copied next to it.
CopyChild_flat(t, src, dst, n) ==
  IF IsDir(At(t, Append(src, n)))
  THEN copy_dir_recursive(t, Append(src, n), dst)
  ELSE copy(t, Append(src, n), Append(dst, n))

CopyChild(t, src, dst, n) ==
  LET from == navigate(t, src, TRUE).path \o <<n>>
  IN  IF IsDir(At(t, from)) THEN copy_dir_recursive(t, Append(src, n), Append(dst, n))
      ELSE copy(t, Append(src, n), Append(dst, n))

copy_dir_recursive(t, src, dst) ==
  LET Child(r, n) == IF Succeeds(r) THEN CopyChild(r.tree, src, dst, n) ELSE r
      All(m) == IF ~Succeeds(m) THEN m
                ELSE IF ~IsADir(m.tree, src) THEN Fail("NotADirectory", m.tree)
                ELSE FoldLeft(Child, m, In_(mem_readdir(m.tree, src)))
  IN  All(mem_mkdir_p(t, dst))

cp(t, src, dst, recursive) ==
  CASE IsNone(mem_stat(t, src)) -> Status(1, t)
    [] IsFile(mem_stat(t, src)) -> Result(copy(t, src, dst))
    [] OTHER -> IF recursive THEN Result(copy_dir_recursive(t, src, dst)) ELSE Status(1, t)

\* rm looks through a link and then removes the entry itself: a link to a
\* directory is not removed, one that leads nowhere is not found.
Removed(t, p, recursive, force) ==
  CASE IsNone(mem_stat(t, p)) -> Status(IF force THEN 0 ELSE 1, t)
    [] IsADir(t, p) /\ ~recursive -> Status(1, t)
    [] IsADir(t, p) -> Result(remove_dir_all(t, p))
    [] OTHER        -> Result(remove_file(t, p))

\* rmdir -p goes on with the directories above, up to one that holds something.
RmdirAbove(t, p) ==
  LET Rm(r, k) == LET q == SubSeq(p, 1, k)
                  IN  IF ~Succeeds(r) \/ ~IsEmpty(r.tree, q) THEN Fail("stop", r.tree)
                      ELSE remove_dir(r.tree, q)
      Upwards == [i \in 1..(IF p = Root THEN 0 ELSE Len(p) - 1) |-> Len(p) - i]
  IN  FoldLeft(Rm, Ok(t), Upwards).tree

rmdir(t, p, parents) ==
  LET Above_(r) == IF Succeeds(r) /\ parents THEN Status(0, RmdirAbove(r.tree, p)) ELSE Result(r)
  IN  IF ~IsEmpty(t, p) THEN Status(1, t) ELSE Above_(remove_dir(t, p))

mkdir(t, p, parents) ==
  Result(IF parents THEN mem_mkdir_p(t, p) ELSE InsertNew(t, p, Dir(DirMode)))

touch(t, p) == Result(IF mem_exists(t, p) THEN mem_utimes(t, p) ELSE write_file(t, p, {}))

tee(t, p, data, append) ==
  Result(IF append THEN append_file(t, p, data) ELSE write_file(t, p, data))

\* cat: the contents of the files there are.
cat(t, cwd, ops) == UNION {mem_read(t, vfs_resolve(cwd, o)).content :
                             o \in {x \in Range(ops) : IsFile(mem_read(t, vfs_resolve(cwd, x)))}}

\* parse_chmod_mode: [set |-> mode], or [add |-> BOOLEAN, mask |-> bits].
chmod(t, p, mode) ==
  LET Wanted(n) == CASE "set" \in DOMAIN mode -> mode.set
                     [] "add" \in DOMAIN mode -> IF mode.add THEN n.mode \cup mode.mask
                                                 ELSE n.mode \ mode.mask
      On(n) == IF IsNone(n) THEN Status(1, t) ELSE Result(mem_chmod(t, p, Wanted(n)))
  IN  On(mem_stat(t, p))

mkfifo(t, p) ==
  LET Made(r) == IF Succeeds(r) THEN Result(mem_chmod(r.tree, p, FifoMode)) ELSE Result(r)
  IN  IF mem_exists(t, p) THEN Status(1, t) ELSE Made(write_file(t, p, {}))

\* ln takes its first two operands; the target of a link is made absolute.
ln(t, target, link, symbolic) ==
  Result(IF symbolic THEN InsertNew(t, link, Symlink(Whole(target)))
         ELSE hardlink(t, target, link))

\* readlink -f, readlink -e and realpath.
canonicalize(t, p) == navigate(t, p, TRUE)

(***************************************************************************)
(* A command line: each operand is tried, whatever became of the others,   *)
(* and one failure makes the status 1.  Of cp and mv the last operand is   *)
(* the destination, a directory if there are several sources, and in a     *)
(* directory a source keeps its name.                                      *)
(***************************************************************************)
Transfers(c) == c.c \in {"cp", "mv"}
Operands(c)  == IF Transfers(c) THEN Front(c.ops) ELSE c.ops
DestOf(t, cwd, c) == LET p == vfs_resolve(cwd, Last(c.ops)) IN [path |-> p, is_dir |-> IsADir(t, p)]
\* An operand that has no file name ("..", "/") is itself what is joined.
Into(dest, o) ==
  CASE ~dest.is_dir -> dest.path
    [] dest.is_dir /\ (o.to = <<>> \/ Last(o.to) = Up) -> vfs_resolve(dest.path, [o EXCEPT !.abs = FALSE])
    [] OTHER -> Append(dest.path, Last(o.to))

\* c at the operand o, whose path is p.
Act(t, c, o, p, dest) ==
  CASE c.c = "cp"     -> cp(t, p, Into(dest, o), c.r)
    [] c.c = "mv"     -> Result(mem_rename(t, p, Into(dest, o)))
    [] c.c = "rm"     -> Removed(t, p, c.r, c.f)
    [] c.c = "rmdir"  -> rmdir(t, p, c.p)
    [] c.c = "mkdir"  -> mkdir(t, p, c.p)
    [] c.c = "touch"  -> touch(t, p)
    [] c.c = "tee"    -> tee(t, p, c.data, c.a)
    [] c.c = "chmod"  -> chmod(t, p, c.mode)
    [] c.c = "mkfifo" -> mkfifo(t, p)

Follows(s, r) == Status(IF r.code = 0 THEN s.code ELSE 1, r.tree)
\* CHOOSE takes the one element: r is worked out once.
RECURSIVE Each(_, _, _, _, _)
Each(s, cwd, c, ops, dest) ==
  IF ops = <<>> THEN s
  ELSE CHOOSE end \in
         {Each(Follows(s, r), cwd, c, Tail(ops), dest) :
            r \in {Act(s.tree, c, Head(ops), vfs_resolve(cwd, Head(ops)), dest)}} : TRUE

\* Output that goes to files is written when the command is over.
Writes(t, cwd, c) == IF c.c = "cat" THEN [c EXCEPT !.c = "tee", !.data = cat(t, cwd, c.from)] ELSE c

Aimed(t, cwd, c, dest) ==
  IF Transfers(c) /\ (Len(c.ops) < 2 \/ (Len(c.ops) > 2 /\ ~dest.is_dir)) THEN Status(1, t)
  ELSE Each(Status(0, t), cwd, Writes(t, cwd, c), Operands(c), dest)

Run(t, cwd, c) ==
  CASE c.ops = <<>> -> Status(IF c.c \in {"tee", "cat"} \/ (c.c = "rm" /\ c.f) THEN 0 ELSE 1, t)
    [] c.c = "ln"   -> IF Len(c.ops) < 2 THEN Status(1, t)
                       ELSE ln(t, vfs_resolve(cwd, c.ops[1]), vfs_resolve(cwd, c.ops[2]), c.s)
    [] OTHER        -> Aimed(t, cwd, c, DestOf(t, cwd, c))

(***************************************************************************)
(* test, [ and the file tests of [[, src/commands/test_cmd.rs.             *)
(*                                                                         *)
(* An argument is a word: an operator, a parenthesis or a text, which the  *)
(* constant Operand reads as a path.  x is [tree, cwd].  Numbers, times,   *)
(* variables and shell options are left out.                               *)
(***************************************************************************)
CONSTANTS
  Word,      \* the arguments a script passes to test
  Operand    \* and the paths they are

EmptyWord == ""
PathOf(x, w) == vfs_resolve(x.cwd, Operand[w])
StatOf(x, w) == mem_stat(x.tree, PathOf(x, w))

LstatOf(x, w) == mem_lstat(x.tree, PathOf(x, w))

\* n is what is at the operand, l the same without going through a link.
FileTest(op, n, l) ==
  CASE op \in {"-e", "-a", "-O"} -> ~IsNone(n)
    [] op = "-f" -> IsFile(n)
    [] op = "-d" -> IsDir(n)
    [] op \in {"-L", "-h"} -> IsSymlink(l)
    [] op = "-s" -> IsFile(n) /\ n.content # {}

HasBit(b, n) == ~IsNone(n) /\ b \in n.mode

UnaryOps == {"-z", "-n", "-e", "-a", "-O", "-f", "-d", "-L", "-h", "-s", "-x", "-p", "-o"}
UnaryTest(op, w, n, l) ==
  CASE op = "-z" -> w = EmptyWord
    [] op = "-n" -> w # EmptyWord
    [] op = "-x" -> HasBit("x", n)
    [] op = "-p" -> HasBit("p", n)
    [] op = "-o" -> FALSE
    [] OTHER     -> FileTest(op, n, l)
try_unary(x, op, w) == UnaryTest(op, w, StatOf(x, w), LstatOf(x, w))

\* -ef: the numbers of files, which copies made by ln share, or the paths.
SamePath(x, l, r) ==
  canonicalize(x.tree, PathOf(x, l)) = canonicalize(x.tree, PathOf(x, r))
SameFile(a, b, same) ==
  /\ ~IsNone(a) /\ ~IsNone(b)
  /\ (IsFile(a) /\ IsFile(b) /\ a.id = b.id) \/ same
file_same_device_and_inode(x, l, r) == SameFile(StatOf(x, l), StatOf(x, r), SamePath(x, l, r))

BinaryOps == {"=", "!=", "-ef"}
try_binary(x, l, op, r) ==
  CASE op = "="   -> l = r
    [] op = "!="  -> l # r
    [] op = "-ef" -> file_same_device_and_inode(x, l, r)

(***************************************************************************)
(* The parser: [err, v, used], used being the number of arguments read.    *)
(***************************************************************************)
Reads_(v, n) == [err |-> FALSE, v |-> v, used |-> n]
Unreadable   == [err |-> TRUE, v |-> FALSE, used |-> 0]
Drop(args, n) == SubSeq(args, n + 1, Len(args))
At_arg(args, n, w) == n <= Len(args) /\ args[n] = w

RECURSIVE eval_or(_, _, _)
RECURSIVE eval_and(_, _, _)
RECURSIVE eval_not(_, _, _)
RECURSIVE MoreAnd(_, _, _)
RECURSIVE MoreOr(_, _, _)

Parenthesized(x, args) ==
  LET Closed(r) == IF r.err \/ ~At_arg(args, r.used + 2, ")") THEN Unreadable
                   ELSE Reads_(r.v, r.used + 2)
  IN  Closed(eval_or(x, Tail(args), TRUE))

\* Mutant: a parenthesis is always one.
eval_primary_paren(x, args, prefer) ==
  CASE args[1] = "(" -> Parenthesized(x, args)
    [] Len(args) >= 3 /\ args[2] \in BinaryOps ->
         Reads_(try_binary(x, args[1], args[2], args[3]), 3)
    [] Len(args) >= 2 /\ args[1] \in UnaryOps -> Reads_(try_unary(x, args[1], args[2]), 2)
    [] OTHER -> Reads_(args[1] # EmptyWord, 1)

eval_primary(x, args, prefer) ==
  CASE prefer /\ args[1] = "(" -> Parenthesized(x, args)
    [] Len(args) >= 3 /\ args[2] \in BinaryOps ->
         Reads_(try_binary(x, args[1], args[2], args[3]), 3)
    [] args[1] = "(" -> Parenthesized(x, args)
    [] Len(args) >= 2 /\ args[1] \in UnaryOps -> Reads_(try_unary(x, args[1], args[2]), 2)
    [] OTHER -> Reads_(args[1] # EmptyWord, 1)

eval_not(x, args, prefer) ==
  LET Negated(r) == IF r.err THEN r ELSE Reads_(~r.v, r.used + 1)
  IN  CASE args = <<>> -> Unreadable
        [] args[1] # "!" -> eval_primary(x, args, prefer)
        [] Len(args) < 2 -> Reads_(TRUE, 1)
        [] OTHER -> Negated(eval_not(x, Tail(args), TRUE))

\* Both sides are evaluated, whatever the first one says.
MoreAnd(x, args, r) ==
  LET With_(s) == IF s.err THEN s ELSE MoreAnd(x, args, Reads_(r.v /\ s.v, r.used + 1 + s.used))
  IN  IF r.err \/ ~At_arg(args, r.used + 1, "-a") THEN r
      ELSE With_(eval_not(x, Drop(args, r.used + 1), TRUE))
eval_and(x, args, prefer) == MoreAnd(x, args, eval_not(x, args, prefer))

MoreOr(x, args, r) ==
  LET With_(s) == IF s.err THEN s ELSE MoreOr(x, args, Reads_(r.v \/ s.v, r.used + 1 + s.used))
  IN  IF r.err \/ ~At_arg(args, r.used + 1, "-o") THEN r
      ELSE With_(eval_and(x, Drop(args, r.used + 1), TRUE))
eval_or(x, args, prefer) == MoreOr(x, args, eval_and(x, args, prefer))

Exit(v) == IF v THEN 0 ELSE 1
evaluate_test_args(x, args) ==
  LET Whole_(r) == IF r.err \/ r.used # Len(args) THEN 2 ELSE Exit(r.v)
  IN  CASE args = <<>> -> 1
        [] Len(args) = 3 /\ args[2] = "-a" -> Exit(args[1] # EmptyWord /\ args[3] # EmptyWord)
        [] Len(args) = 3 /\ args[2] = "-o" -> Exit(args[1] # EmptyWord \/ args[3] # EmptyWord)
        [] OTHER -> Whole_(eval_or(x, args, FALSE))
=============================================================================
