------------------------------ MODULE FileProps -----------------------------
(***************************************************************************)
(* What is expected of the file commands.  Most properties ask, in every   *)
(* state a session reaches, what a command would do there.                 *)
(***************************************************************************)
EXTENDS FileShell

CONSTANTS
  Args,       \* the operands the properties ask about
  Questions   \* the arguments of test

PathsOf(ops) == {vfs_resolve(dir.cwd, o) : o \in ops}
Links  == {p \in NodePath : IsSymlink(tree[p])}
Apart(p, q) == ~StartsWith(p, q) /\ ~StartsWith(q, p)

(***************************************************************************)
(* Walks: find is to visit what can be reached through directories and     *)
(* links to them, each place at least once, as far as the bound on links   *)
(* allows.  Reachable is that set, worked out place by place.              *)
(***************************************************************************)
Entered_from(t, d) == {canonicalize(t, Append(d, n)).path :
                         n \in {m \in mem_readdir(t, d) : mem_exists(t, Append(d, m))}}
RECURSIVE Reach(_, _, _)
Reach(t, D, new) ==
  IF new \subseteq D THEN D
  ELSE Reach(t, D \cup new, UNION {Entered_from(t, d) : d \in {e \in new : IsADir(t, e)}})
Reachable(t, p) == IF mem_exists(t, p) THEN Reach(t, {}, {canonicalize(t, p).path}) ELSE {}

Everything == [f |-> "true"]
FindAll(o) == [from |-> <<o>>, e |-> Everything, min |-> 0, max |-> 99]
Unlinked(p, q) == \A k \in (Len(p) + 1)..(Len(q) - 1) : IsDir(NodeAt(tree, SubSeq(q, 1, k)))

\* Where the paths that find displays lead.
Leading(shown) == [i \in DOMAIN shown |-> vfs_resolve(dir.cwd, shown[i])]

\* The four walks, written four times over, see the same files: what find
\* prints leads to each path once and to every reachable place; ls -R and tree print
\* what find prints without going through a link; du adds up their files.
FindAgrees(p, shown) ==
  /\ IsInjective(shown)
  /\ Reachable(tree, p) =
       {canonicalize(tree, q).path : q \in {x \in Range(shown) : mem_exists(tree, x)}}
ListsAgree(p, shown, listed) ==
  LET Add(n, q) == n + Size(mem_stat(tree, q))
  IN  /\ Range(listed) = {q \in Range(shown) : q # p /\ Unlinked(p, q)}
      /\ Range(ls_dir(tree, p)) = Range(listed) /\ IsInjective(listed)
      /\ du_walk(tree, p) =
           FoldLeft(Add, 0, SelectSeq(listed, LAMBDA q : ~IsDir(NodeAt(tree, q))))
WalkAgrees(p, shown) ==
  FindAgrees(p, shown) /\ (IsADir(tree, p) => ListsAgree(p, shown, tree_recursive(tree, p)))
WalksAgree ==
  Cardinality(Links) < MaxHops =>
    \A o \in Args : WalkAgrees(vfs_resolve(dir.cwd, o), Leading(find(tree, dir.cwd, FindAll(o)).shown))

(***************************************************************************)
(* A find that removes the files it finds, with -exec or with -exec +,     *)
(* while it walks: when it is over no file can be reached from where it    *)
(* started, although the directories were read before their files went.    *)
(***************************************************************************)
RmIt == [c |-> "rm", ops |-> <<Braces>>, r |-> FALSE, f |-> FALSE]
AndFile(e) == [f |-> "and", a |-> [f |-> "type", type |-> "File"], b |-> e]
Removing == {AndFile([f |-> "exec", cmd |-> RmIt]), AndFile([f |-> "batch", cmd |-> RmIt])}

FindIsThorough ==
  [][(job # NoJob /\ job' = NoJob) =>
       ((job.e \in Removing /\ job.min = 0 /\ job.max = 99
           /\ Cardinality({p \in NodePath : IsSymlink(tree'[p])}) < MaxHops) =>
        \A o \in Range(job.from) : \A q \in Reachable(tree', vfs_resolve(dir.cwd, o)) :
          ~IsFile(At(tree', q)))]_vars

\* Every find comes to an end, whatever links it meets and whatever the
\* commands it runs do to the directories it has not read yet.
FindEnds == (job # NoJob) ~> (job = NoJob)

(***************************************************************************)
(* cp -r and mv.                                                           *)
(***************************************************************************)
TargetOf(src, dst) == Into(DestOf(tree, dir.cwd, [ops |-> <<Whole(dst)>>]), Whole(src))

\* Where the destination has no link in it and lies apart from the source, a
\* successful cp -r leaves at the destination what can be read below the
\* source, and a successful mv the very nodes; the source stays, or goes, and
\* nothing else changes but the directories made on the way.
Others(r, src, to) ==
  \A q \in NodePath : ~StartsWith(q, to) /\ ~StartsWith(q, src) /\ ~StartsWith(to, q) =>
                       r.tree[q] = tree[q]
Unlinking(to) == \A l \in Links : ~StartsWith(l, to) /\ ~StartsWith(to, l)
CopyIsFaithful(c, src, to) ==
  c.code = 0 /\ Unlinking(to) =>
    /\ \A q \in {src} \cup Range(tree_recursive(tree, src)) :
         IF IsADir(tree, q) THEN IsADir(c.tree, Rebase(q, src, to))
         ELSE mem_read(c.tree, Rebase(q, src, to)).content = mem_read(tree, q).content
    /\ \A q \in Subtree(src) : c.tree[q] = tree[q]
    /\ Others(c, src, to)
MoveIsFaithful(m, src, to) ==
  m.code = 0 =>
    /\ \A q \in Subtree(src) : At(m.tree, Rebase(q, src, to)) = tree[q] /\ IsNone(m.tree[q])
    /\ Others(m, src, to)
TransfersAreFaithful ==
  \A src, dst \in PathsOf(Args) :
    Apart(src, TargetOf(src, dst)) =>
      /\ CopyIsFaithful(Run(tree, dir.cwd, [c |-> "cp", ops |-> <<Whole(src), Whole(dst)>>, r |-> TRUE]), src, TargetOf(src, dst))
      /\ MoveIsFaithful(Run(tree, dir.cwd, [c |-> "mv", ops |-> <<Whole(src), Whole(dst)>>]), src, TargetOf(src, dst))

(***************************************************************************)
(* rm and rmdir.                                                           *)
(***************************************************************************)
\* rm -r that succeeds has removed the name and what lies below it, and
\* nothing else, not even what a removed link led to; with -f it succeeds on
\* names there are not, and on links that lead nowhere, which stay.  rmdir -p
\* only removes directories, and only ones with nothing in them that stays.
RmIsExact(r, p) ==
  r.code = 0 =>
    IF mem_exists(tree, p)
    THEN /\ IsNone(mem_lstat(r.tree, p))
         /\ \A q \in NodePath : ~StartsWith(q, with_parent_mut(tree, p).path) => r.tree[q] = tree[q]
    ELSE r.tree = tree
RmdirIsExact(d, went) ==
  /\ \A q \in went : IsDir(tree[q]) /\ IsNone(d.tree[q])
  /\ \A q, s \in went : StartsWith(q, s) \/ StartsWith(s, q)
  /\ d.code # 0 => went = {}
Went(t) == {q \in NodePath : t[q] # tree[q]}
RemovalsAreExact ==
  \A p \in PathsOf(Args) :
    /\ RmIsExact(Removed(tree, p, TRUE, TRUE), p)
    /\ \E d \in {rmdir(tree, p, TRUE)} : RmdirIsExact(d, Went(d.tree))

\* cp, mv, rm and rmdir do what they report and nothing else.
CommandsAreExact == TransfersAreFaithful /\ RemovalsAreExact

(***************************************************************************)
(* Directories.                                                            *)
(***************************************************************************)
\* What leads away leads back: cd - returns from a cd, popd from a pushd with
\* the stack as it was, and an exchange is undone by the next, as long as the
\* directory is still there; all of them end in a directory; and pushd +n
\* brings to the front what dirs shows at n, with the others in their order.
Here(r) == IsADir(tree, dir.cwd) => r.code = 0 /\ r.d.cwd = dir.cwd
In(r)   == r.code = 0 => IsADir(tree, r.d.cwd)
As(r)   == r.code = 0 => r.d.stack = dir.stack
CdComesBack(r)    == In(r) /\ (r.code = 0 => Here(builtin_cd(tree, r.d, Back)))
PopComesBack(r)   == Here(r) /\ As(r)
PushdComesBack(r) == In(r) /\ (r.code = 0 => PopComesBack(popd(tree, r.d)))
SwapComesBack(r)  == In(r) /\ (r.code = 0 => PopComesBack(pushd_swap(tree, r.d)))
Rotated(d, n)     == /\ d.cwd = Full(dir)[n + 1]
                     /\ d.stack # <<>> => Full(popd_nth(d, 0, TRUE).d) = d.stack
DirectoriesComeBack ==
  /\ \A k \in {To(o) : o \in Args} \cup {Back, Home} :
       CdComesBack(builtin_cd(tree, dir, k)) /\ PushdComesBack(pushd(tree, dir, k))
  /\ SwapComesBack(pushd_swap(tree, dir))
  /\ \A n \in 0..Len(dir.stack) : Rotated(pushd_nth(dir, n, TRUE).d, n)

(***************************************************************************)
(* test.                                                                   *)
(***************************************************************************)
Here_ == [tree |-> tree, cwd |-> dir.cwd]

\* POSIX: what an argument list of up to four means by its length; {} where
\* that is left open.
PosixOne(a)  == {a # EmptyWord}
PosixTwo(a, b) == IF a = "!" THEN {~v : v \in PosixOne(b)}
                  ELSE IF a \in UnaryOps THEN {try_unary(Here_, a, b)} ELSE {}
PosixThree(a, b, c) ==
  CASE b = "-a" -> {a # EmptyWord /\ c # EmptyWord}
    [] b = "-o" -> {a # EmptyWord \/ c # EmptyWord}
    [] b \in BinaryOps -> {try_binary(Here_, a, b, c)}
    [] a = "!" -> {~v : v \in PosixTwo(b, c)}
    [] a = "(" /\ c = ")" -> PosixOne(b)
    [] OTHER -> {}
PosixFour(a, b, c, d) ==
  CASE a = "!" -> {~v : v \in PosixThree(b, c, d)}
    [] a = "(" /\ d = ")" -> PosixTwo(b, c)
    [] OTHER -> {}
Posix(args) == CASE Len(args) = 1 -> PosixOne(args[1])
                 [] Len(args) = 2 -> PosixTwo(args[1], args[2])
                 [] Len(args) = 3 -> PosixThree(args[1], args[2], args[3])
                 [] Len(args) = 4 -> PosixFour(args[1], args[2], args[3], args[4])
                 [] OTHER -> {}

Text(w)  == w \notin UnaryOps \cup BinaryOps \cup {"!", "(", ")"}
Clear(args) ==
  LET n == Len(args)
  IN  /\ \A i \in 1..(n - 1) : args[i] = "!" => args[i + 1] \notin BinaryOps
      /\ n = 4 /\ args[1] = "!" => args[3] \notin {"-a", "-o"}
      /\ "(" \in Range(args) /\ ~(n = 3 /\ args[2] \in BinaryOps) =>
           /\ args[n] = ")" /\ n > 2 /\ Text(args[n - 1])
           /\ Cardinality({i \in 1..n : args[i] = "("}) = 1

\* test reads its arguments as POSIX says by their number, but for what Clear
\* leaves out: "!" as the operand of an operator, which it takes for a
\* negation, "!" before a conjunction, of which it negates the first half
\* only, and parentheses that are operands or end on an operator.
TestReadsPosix ==
  \A args \in Questions :
    \A v \in Posix(args) : Clear(args) => evaluate_test_args(Here_, args) = Exit(v)
=============================================================================
