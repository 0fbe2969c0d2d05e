----------------------------- MODULE FileShell ------------------------------
(***************************************************************************)
(* A session of file commands: the commands of FileCommands, find with the *)
(* commands it runs, xargs on what the last find has printed, and the      *)
(* builtins of src/interpreter/builtins.rs that change the directory: cd,  *)
(* pushd, popd and dirs -c.                                                *)
(***************************************************************************)
EXTENDS FileCommands

(***************************************************************************)
(* The commands that walk a directory: find and xargs (commands/           *)
(* exec_cmds.rs), ls -R (commands/mod.rs), tree (navigation.rs) and du     *)
(* (file_ops.rs).                                                          *)
(*                                                                         *)
(* find reads a directory when it comes to it and then visits what it has  *)
(* read; its -exec runs commands in between, which may have removed or     *)
(* moved what is still to be visited.  A walk is therefore a state that    *)
(* goes from one path to the next:                                         *)
(*   agenda  the paths to visit, with their depths, the next one first     *)
(*   shown   what has been printed, batch what -exec + has collected       *)
(*   code    the status so far                                             *)
(* A visit carries two paths: the absolute one, which the walk looks at,   *)
(* and the one to display, which starts as find was given it; what is      *)
(* printed and what a command is given is the latter, an operand.          *)
(***************************************************************************)
Visit(p, o, depth) == [path |-> p, display |-> o, depth |-> depth]
Child(v, n) == Visit(Append(v.path, n), [v.display EXCEPT !.to = Append(@, n)], v.depth + 1)
NoWalk == [agenda |-> <<>>, shown |-> <<>>, batch |-> <<>>, code |-> 0]

\* A command of -exec or xargs: what "{}" stands for, or what comes last.
Braces == [abs |-> FALSE, to |-> <<"{}">>]
Filled(c, words) ==
  LET Fill(ops) == IF Braces \in Range(ops)
                   THEN FlattenSeq([i \in 1..Len(ops) |-> IF ops[i] = Braces THEN words
                                                          ELSE <<ops[i]>>])
                   ELSE ops \o words
  IN  [c EXCEPT !.ops = Fill(@)]

\* -exec ... ; puts the path where "{}" is, and nowhere if it is not there.
FilledEach(c, word) == IF Braces \in Range(c.ops) THEN Filled(c, <<word>>) ELSE c

(***************************************************************************)
(* eval_find: an expression at a visit v, with what it prints, collects    *)
(* and executes.  r is [tree, shown, batch, code, v].                      *)
(***************************************************************************)
Says(r, v) == [r EXCEPT !.v = v]
Matches_type(t, p, type) ==
  LET n == mem_stat(t, p)
  IN  ~IsNone(n) /\ (IF type = "Symlink" THEN IsSymlink(mem_lstat(t, p)) ELSE n.type = type)
Empty_(t, p) == IF IsADir(t, p) THEN mem_readdir(t, p) = {}
                ELSE IsFile(mem_stat(t, p)) /\ mem_stat(t, p).content = {}

ExecEach(r, cwd, word, c) ==
  LET After(x) == [r EXCEPT !.tree = x.tree, !.code = IF x.code # 0 THEN x.code ELSE @, !.v = (x.code = 0)]
  IN  After(Run(r.tree, cwd, FilledEach(c, word)))

Once(v, Of(_)) == CHOOSE y \in {Of(x) : x \in {v}} : TRUE  \* Of(v), v worked out once

RECURSIVE eval_find(_, _, _, _)
eval_find(r, cwd, v, e) ==
  LET First(x) == eval_find(x, cwd, v, e.a)
      Second(x) == eval_find(x, cwd, v, e.b)
      And_(x) == IF x.v THEN Second(x) ELSE x
      Or_(x)  == IF x.v THEN x ELSE Second(x)
      Not_(x) == Says(x, ~x.v)
  IN  CASE e.f = "true"  -> Says(r, TRUE)
        [] e.f = "name"  -> Says(r, v.path # Root /\ Last(v.path) \in e.names)
        [] e.f = "type"  -> Says(r, Matches_type(r.tree, v.path, e.type))
        [] e.f = "empty" -> Says(r, Empty_(r.tree, v.path))
        [] e.f = "print" -> [r EXCEPT !.shown = Append(@, v.display), !.v = TRUE]
        [] e.f = "exec"  -> ExecEach(r, cwd, v.display, e.cmd)
        [] e.f = "batch" -> [r EXCEPT !.batch = Append(@, v.display), !.v = TRUE]
        [] e.f = "not"   -> Not_(First(r))
        [] e.f = "and"   -> Once(First(r), And_)
        [] e.f = "or"    -> Once(First(r), Or_)

RECURSIVE Actions(_)
Actions(e) == CASE e.f \in {"and", "or"} -> Actions(e.a) \o Actions(e.b)
                [] e.f = "not" -> Actions(e.a)
                [] e.f \in {"print", "exec", "batch"} -> <<e>>
                [] OTHER -> <<>>
has_action(e) == Actions(e) # <<>>

(***************************************************************************)
(* walk_find, one path at a time.  f is [from, e, min, max]; of the paths  *)
(* it starts from, each one must exist when its turn comes.                *)
(***************************************************************************)
StartFind(cwd, f) ==
  [NoWalk EXCEPT !.agenda = [i \in 1..Len(f.from) |-> Visit(vfs_resolve(cwd, f.from[i]), f.from[i], 0)]]

\* Its expression, and the path itself where that has no action.
Looked(w, t, cwd, f, v) ==
  LET r == [tree |-> t, shown |-> w.shown, batch |-> w.batch, code |-> w.code, v |-> TRUE]
      Show(x) == IF x.v /\ ~has_action(f.e)
                  THEN [x EXCEPT !.shown = Append(@, v.display)] ELSE x
  IN  IF v.depth >= f.min THEN Once(eval_find(r, cwd, v, f.e), Show) ELSE r

\* Mutant: a link to a directory is not gone into.
Entries_unfollowed(t, f, v) ==
  IF v.depth < f.max /\ IsDir(mem_lstat(t, v.path))
  THEN LET names == In_(mem_readdir(t, v.path))
       IN  [i \in 1..Len(names) |-> Child(v, names[i])]
  ELSE <<>>

Entries(t, f, v) ==
  IF v.depth < f.max /\ IsADir(t, v.path)
  THEN LET names == In_(mem_readdir(t, v.path))
       IN  [i \in 1..Len(names) |-> Child(v, names[i])]
  ELSE <<>>

\* A path that find was given and that is not there is an error; r is what
\* Looked makes of any other.
Missing(w, t) == Head(w.agenda).depth = 0 /\ ~mem_exists(t, Head(w.agenda).path)
\* Mutant: the find is over then.
Passed_over(w) == [w EXCEPT !.agenda = <<>>, !.code = 1]
Passed(w) == [w EXCEPT !.agenda = Tail(@), !.code = 1]
\* Mutant: where a command fails the path is tried again.
Past_again(w, f, r) ==
  [agenda |-> Entries(r.tree, f, Head(w.agenda)) \o (IF r.code = 0 THEN Tail(w.agenda) ELSE w.agenda),
   shown |-> r.shown, batch |-> r.batch, code |-> r.code]
Past_(w, f, r) ==
  [agenda |-> Entries(r.tree, f, Head(w.agenda)) \o Tail(w.agenda),
   shown |-> r.shown, batch |-> r.batch, code |-> r.code]

\* The -exec ... + of an expression, all of them with all that was collected.
EndFind(w, t, cwd, f) ==
  LET batches == SelectSeq(Actions(f.e), LAMBDA a : a.f = "batch")
      One(r, a) == Follows(r, Run(r.tree, cwd, Filled(a.cmd, w.batch)))
  IN  IF w.batch = <<>> THEN Status(w.code, t)
      ELSE FoldLeft(One, Status(w.code, t), batches)

\* A find that runs no command, in one go.
RECURSIVE Walked(_, _, _, _)
Walked(w, t, cwd, f) ==
  CASE w.agenda = <<>> -> w
    [] w.agenda # <<>> /\ Missing(w, t) -> Walked(Passed(w), t, cwd, f)
    [] OTHER -> Walked(Past_(w, f, Looked(w, t, cwd, f, Head(w.agenda))), t, cwd, f)
find(t, cwd, f) == Walked(StartFind(cwd, f), t, cwd, f)

(***************************************************************************)
(* xargs: the words of the input in one command, n at a time or, with -I,  *)
(* one by one where the replacement string is.  The status is the last     *)
(* command's.                                                              *)
(***************************************************************************)
Chunks(words, n) ==
  [i \in 1..((Len(words) + n - 1) \div n) |->
     SubSeq(words, (i - 1) * n + 1, IF i * n < Len(words) THEN i * n ELSE Len(words))]

xargs(t, cwd, c, words, how) ==
  LET Ran(r, ws) == Run(r.tree, cwd, IF how.k = "replace" THEN FilledEach(c, ws[1])
                                      ELSE [c EXCEPT !.ops = @ \o ws])
      Size_ == CASE how.k = "replace" -> 1 [] how.k = "all" -> Len(words) [] how.k = "n" -> how.n
      Batches == IF words = <<>> THEN (IF how.k = "replace" THEN <<>> ELSE <<words>>)
                 ELSE Chunks(words, Size_)
  IN  FoldLeft(Ran, Status(0, t), Batches)

(***************************************************************************)
(* ls -R, tree and du go down by the types a listing gives, which a link   *)
(* to a directory is not.  du stops at an error, the others skip it.       *)
(***************************************************************************)
Listed(t, p) ==
  LET names == In_(mem_readdir(t, p)) IN [i \in 1..Len(names) |-> Append(p, names[i])]
NodeAt(t, p) == mem_lstat(t, p)

RECURSIVE ls_dir(_, _)
ls_dir(t, p) ==
  LET Below_(q) == IF IsDir(NodeAt(t, q)) THEN ls_dir(t, q) ELSE <<>>
      Sub == Listed(t, p)
  IN  IF ~IsADir(t, p) THEN (IF IsNone(mem_stat(t, p)) THEN <<>> ELSE <<p>>)
      ELSE Sub \o FlattenSeq([i \in 1..Len(Sub) |-> Below_(Sub[i])])

RECURSIVE tree_recursive(_, _)
tree_recursive(t, p) ==
  LET Below_(q) == <<q>> \o (IF IsDir(NodeAt(t, q)) THEN tree_recursive(t, q) ELSE <<>>)
      Sub == Listed(t, p)
  IN  FlattenSeq([i \in 1..Len(Sub) |-> Below_(Sub[i])])

Size(n) == IF IsFile(n) THEN Cardinality(n.content) ELSE 0
RECURSIVE du_walk(_, _)
du_walk(t, p) ==
  LET Of(q) == IF IsDir(NodeAt(t, q)) THEN du_walk(t, q) ELSE Size(mem_stat(t, q))
      Sub == Listed(t, p)
      Add(n, q) == n + Of(q)
  IN  IF ~IsADir(t, p) THEN Size(mem_stat(t, p)) ELSE FoldLeft(Add, 0, Sub)

(***************************************************************************)
(* The session.                                                            *)
(***************************************************************************)
CONSTANTS
  Starts,      \* the trees a session starts from
  Commands,    \* the command lines a session runs
  Finds,       \* its calls of find, [from, e, min, max]
  Xargs_,      \* its calls of xargs, [cmd, how]
  Places,      \* the operands of cd and pushd
  HOME,        \* operands: $HOME
  CDPATH,      \* and the directories of $CDPATH
  MaxCommands  \* bound: commands of a session

VARIABLES
  tree,    \* the file system
  dir,     \* the directories: [cwd, old (OLDPWD), stack (dir_stack)]
  job,     \* the find that is running
  walk,    \* how far it has come; afterwards, what it has printed
  gone,    \* the shell has panicked
  count

vars == <<tree, dir, job, walk, gone, count>>

Unset == <<"unset">>
NoJob == [f |-> "none"]

(***************************************************************************)
(* cd.  d is [cwd, old, stack]; the result is [d, code].                   *)
(***************************************************************************)
Stays(d)  == [d |-> d, code |-> 1]
Home == [k |-> "home"]
Back == [k |-> "back"]
To(o)  == [k |-> "to", o |-> o]

\* Only names below the current directory are looked for in CDPATH.
Searches(o) == ~o.abs /\ o.to # <<>> /\ o.to[1] # Up
Found(t, d, o) ==
  LET places == [i \in DOMAIN CDPATH |-> vfs_resolve(vfs_resolve(d.cwd, CDPATH[i]), o)]
      First(there) == IF Searches(o) /\ there # <<>> THEN Head(there) ELSE vfs_resolve(d.cwd, o)
  IN  First(SelectSeq(places, LAMBDA p : IsADir(t, p)))

\* Of a relative path, what comes before the last component must exist; ".."
\* is passed over without going up.
Passable(t, d, o) ==
  LET down(i) == SelectSeq(SubSeq(o.to, 1, i), LAMBDA c : c # Up)
  IN  o.abs \/ \A i \in 1..(Len(o.to) - 1) : o.to[i] # Up => mem_exists(t, d.cwd \o down(i))

Entered(d, p) == [d |-> [d EXCEPT !.cwd = p, !.old = d.cwd], code |-> 0]

Target(d, k) == CASE k.k = "home" -> HOME
                  [] k.k = "back" -> Whole(d.old)
                  [] k.k = "to"   -> k.o
Landed(t, d, o, p) == IF Passable(t, d, o) /\ IsADir(t, p) THEN Entered(d, p) ELSE Stays(d)
Going(t, d, o) == Landed(t, d, o, Found(t, d, o))
builtin_cd(t, d, k) ==
  IF k.k = "back" /\ d.old = Unset THEN Stays(d) ELSE Going(t, d, Target(d, k))

(***************************************************************************)
(* The directory stack.  Only pushd DIR, the exchange and the plain popd   *)
(* go through cd; +N and -N make an entry the current directory as it is,  *)
(* and leave OLDPWD.                                                       *)
(***************************************************************************)
\* What cd makes of an entry that has been taken off the stack.
Goes(t, d, p, under) ==
  LET Onto_(r) == IF r.code = 0 THEN [r EXCEPT !.d.stack = under] ELSE Stays(d)
  IN  Onto_(Going(t, d, Whole(p)))

pushd_swap(t, d) == IF d.stack = <<>> THEN Stays(d)
                    ELSE Goes(t, d, d.stack[1], <<d.cwd>> \o Tail(d.stack))

\* Mutant: the directory that is entered is pushed.
pushd_there(t, d, k) ==
  LET Push(r) == IF r.code # 0 THEN r ELSE [r EXCEPT !.d.stack = <<r.d.cwd>> \o d.stack]
  IN  Push(builtin_cd(t, d, k))

pushd(t, d, k) ==
  LET Push(r) == IF r.code # 0 THEN r ELSE [r EXCEPT !.d.stack = <<d.cwd>> \o d.stack]
  IN  Push(builtin_cd(t, d, k))

Full(d) == <<d.cwd>> \o d.stack
Shows(d, full) == [d |-> [d EXCEPT !.cwd = full[1], !.stack = Tail(full)], code |-> 0]
pushd_nth(d, n, plus) ==
  LET size == Len(d.stack) + 1
      by == IF plus THEN n ELSE size - n
      rotated == [i \in 1..size |-> Full(d)[((i - 1 + by) % size) + 1]]
  IN  IF n >= size THEN Stays(d) ELSE Shows(d, rotated)

popd(t, d) == IF d.stack = <<>> THEN Stays(d) ELSE Goes(t, d, d.stack[1], Tail(d.stack))

\* The entry that goes; where it is the only one the code takes the next from
\* an empty stack, which panics.
PoppedAt(d, n, plus) == IF plus THEN n ELSE Len(d.stack) - n
Panics(d, n) == n = 0 /\ d.stack = <<>>
popd_nth(d, n, plus) ==
  IF n > Len(d.stack) THEN Stays(d)
  ELSE Shows(d, RemoveAt(Full(d), PoppedAt(d, n, plus) + 1))

(***************************************************************************)
(* The session.                                                            *)
(***************************************************************************)
Init ==
  /\ tree \in Starts
  /\ dir = [cwd |-> Root, old |-> Unset, stack |-> <<>>]
  /\ job = NoJob /\ walk = NoWalk /\ gone = FALSE /\ count = 0

Ready == job = NoJob /\ ~gone /\ count < MaxCommands /\ count' = count + 1

Command ==
  /\ Ready
  /\ \E c \in Commands : tree' = Run(tree, dir.cwd, c).tree
  /\ UNCHANGED <<dir, job, walk, gone>>

Xargs ==
  /\ Ready /\ walk.shown # <<>>
  /\ \E x \in Xargs_ : tree' = xargs(tree, dir.cwd, x.cmd, walk.shown, x.how).tree
  /\ UNCHANGED <<dir, job, walk, gone>>

BeginFind ==
  /\ Ready
  /\ \E f \in Finds : job' = f /\ walk' = StartFind(dir.cwd, f)
  /\ UNCHANGED <<tree, dir, gone>>

VisitNext ==
  /\ job # NoJob /\ walk.agenda # <<>> /\ ~Missing(walk, tree)
  /\ \E r \in {Looked(walk, tree, dir.cwd, job, Head(walk.agenda))} :
       tree' = r.tree /\ walk' = Past_(walk, job, r)
  /\ UNCHANGED <<dir, job, gone, count>>

VisitMissing ==
  /\ job # NoJob /\ walk.agenda # <<>> /\ Missing(walk, tree)
  /\ walk' = Passed(walk)
  /\ UNCHANGED <<tree, dir, job, gone, count>>

FinishFind ==
  /\ job # NoJob /\ walk.agenda = <<>>
  /\ \E r \in {EndFind(walk, tree, dir.cwd, job)} :
       tree' = r.tree /\ walk' = [NoWalk EXCEPT !.shown = walk.shown, !.code = r.code]
  /\ job' = NoJob
  /\ UNCHANGED <<dir, gone, count>>

Moves(r) == Ready /\ dir' = r.d /\ UNCHANGED <<tree, job, walk, gone>>

Cd         == \E k \in {Home, Back} \cup {To(o) : o \in Places} : Moves(builtin_cd(tree, dir, k))
Pushd      == \E k \in {Back} \cup {To(o) : o \in Places} : Moves(pushd(tree, dir, k))
PushdSwap  == Moves(pushd_swap(tree, dir))
PushdNth   == \E n \in 0..2, plus \in BOOLEAN : Moves(pushd_nth(dir, n, plus))
Popd       == Moves(popd(tree, dir))
PopdNth    == \E n \in 0..2, plus \in BOOLEAN :
                ~Panics(dir, n) /\ Moves(popd_nth(dir, n, plus))
PopdPanics == /\ Ready /\ Panics(dir, 0) /\ gone' = TRUE
              /\ UNCHANGED <<tree, dir, job, walk>>
DirsClear  == Moves([d |-> [dir EXCEPT !.stack = <<>>], code |-> 0])

Next == \/ Command \/ Xargs \/ BeginFind \/ VisitNext \/ VisitMissing \/ FinishFind
        \/ Cd \/ Pushd \/ PushdSwap \/ PushdNth \/ Popd \/ PopdNth \/ PopdPanics \/ DirsClear

\* A command that runs goes on: the walker waits for nothing.
Spec == Init /\ [][Next]_vars /\ WF_vars(VisitNext \/ VisitMissing \/ FinishFind)
=============================================================================
