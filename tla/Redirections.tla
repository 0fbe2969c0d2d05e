---------------------------- MODULE Redirections -----------------------------
(***************************************************************************)
(* A script that redirects: simple commands with their redirections, the   *)
(* forms of the exec builtin that change descriptors, read, and the        *)
(* commands that run others under redirections of their own: groups,       *)
(* function calls and subshells.                                           *)
(*                                                                         *)
(* shell is the shell's state s of Descriptors.  frames is the stack of    *)
(* open commands, the program first: the text of its stdin, the result it  *)
(* has gathered, its redirections and what it gives back when it ends.     *)
(***************************************************************************)
EXTENDS Descriptors

CONSTANTS
  Files,       \* the files a script starts with: path -> text
  Input,       \* the stdin of the script
  Emits,       \* what a command can write, [stdout, stderr, code]
  Simple,      \* lists of redirections of simple commands,
  Persistent,  \* of exec,
  Allocated,   \* of exec {var},
  Compound,    \* and of groups, calls and subshells
  MaxFrames,   \* bound: open commands
  MaxSteps     \* bound: steps of a script

Texts      == Seq(Line)
Result     == [stdout : Texts, stderr : Texts, code : Nat]
Partial(f, S, T) == f \in [DOMAIN f -> T] /\ DOMAIN f \subseteq S

ASSUME LineAssumption == Message \in Line /\ Pad \in Line
ASSUME ScriptAssumption ==
  /\ Partial(Files, Target, Texts) /\ {Null, Zero, Stdin, Stdout, Stderr} \subseteq DOMAIN Files
  /\ Input \in Texts /\ Emits \subseteq Result
  /\ Simple \cup Persistent \cup Allocated \cup Compound \subseteq Seq(Redirection)
  /\ MaxSteps \in Nat
\* exec ends the script when it is given a directory, and a compound command gives
\* up half-way through its own set-up: both are left out.
ASSUME NoDirectoryAssumption ==
  \A rs \in Persistent \cup Allocated \cup Compound : \A i \in DOMAIN rs : rs[i].to # Directory

VARIABLES shell, frames, steps

vars == <<shell, frames, steps>>

Silent == [stdout |-> <<>>, stderr |-> <<>>, code |-> 0]
Fails  == [Silent EXCEPT !.code = 1]

(***************************************************************************)
(* The exec builtin without a command: exec_persistent_redirects.          *)
(***************************************************************************)
\* A descriptor is sent to a file, to nothing, or back to where it started.
Opened(s, n, p) ==
  CASE p = Null               -> Point(s, n, DevNull, 0)
    [] p \in {Stdout, Stderr} -> Forget(s, n)
    [] OTHER                  -> Point(write_file(s, p, <<>>), n, OutputFile(p), 0)
OpenedAtEnd(s, n, p) ==
  CASE p = Null               -> Point(s, n, DevNull, 0)
    [] p \in {Stdout, Stderr} -> Forget(s, n)
    [] OTHER                  -> Point(s, n, OutputFile(p), Len(read_file(s, p)))
OpenedForInput(s, n, p) ==
  IF p = Null THEN Point(s, n, DevNull, 0) ELSE Point(s, n, InputFile(p), 0)
OpenedForBoth(s, n, p) ==
  Point(IF exists(s, p) THEN s ELSE write_file(s, p, <<>>), n, ReadWriteFile(p), 0)

Copied(s, n, m) == Point(s, n, s.fds[m], Offset(s, m))
\* Mutant: a duplicate of stdout or stderr misses what exec has made of them.
CopiedOutput_first(s, n, m) ==
  CASE m \in {1, 2} -> [s EXCEPT !.fds = Put(@, n, DupStdFd(m)), !.offsets = Without(@, n)]
    [] m \in DOMAIN s.fds \ {1, 2} -> Copied(s, n, m)
    [] m = 0 /\ m \notin DOMAIN s.fds -> Point(s, n, DupStdFd(0), s.at)
    [] OTHER -> Forget(s, n)
CopiedOutput(s, n, m) ==
  CASE m \in DOMAIN s.fds -> Copied(s, n, m)
    [] m = 0 /\ m \notin DOMAIN s.fds -> Point(s, n, DupStdFd(0), s.at)
    [] m \in {1, 2} \ DOMAIN s.fds ->
         [s EXCEPT !.fds = Put(@, n, DupStdFd(m)), !.offsets = Without(@, n)]
    [] OTHER -> Forget(s, n)
CopiedInput(s, n, m) ==
  CASE m \in DOMAIN s.fds -> Copied(s, n, m)
    [] m = 0 /\ m \notin DOMAIN s.fds -> Point(s, n, DupStdFd(0), s.at)
    [] OTHER -> s
MovedFd(s, n, m) == Close(IF m \in DOMAIN s.fds THEN Copied(s, n, m) ELSE s, m)

PersistentDup(s, r) ==
  LET n == FdOr(r, IF r.kind = "DuplicateOutput" THEN 1 ELSE 0) IN
  CASE r.how = "close" -> Close(s, n)
    [] r.how = "fd" -> IF r.kind = "DuplicateOutput" THEN CopiedOutput(s, n, r.from)
                       ELSE CopiedInput(s, n, r.from)
    [] r.how = "move" -> IF r.kind = "DuplicateOutput" THEN MovedFd(s, n, r.from) ELSE s
    [] r.how = "word" -> s

PersistentBoth(s, p) ==
  LET d == IF p = Null THEN DevNull ELSE OutputFile(p) IN Point(Point(s, 1, d, 0), 2, d, 0)

PersistentRedirect(s, r) ==
  CASE r.kind \in {"Write", "Clobber"} -> Opened(s, FdOr(r, 1), r.to)
    [] r.kind = "Append"       -> OpenedAtEnd(s, FdOr(r, 1), r.to)
    [] r.kind = "Read"         -> OpenedForInput(s, FdOr(r, 0), r.to)
    [] r.kind = "ReadAndWrite" -> OpenedForBoth(s, FdOr(r, 0), r.to)
    [] r.kind \in DupKinds     -> PersistentDup(s, r)
    [] r.kind \in {"Both", "BothAppend"} -> PersistentBoth(s, r.to)
    [] OTHER                   -> s
exec_persistent_redirects(rs, s) ==
  LET upto[i \in 0..Len(rs)] == IF i = 0 THEN s ELSE PersistentRedirect(upto[i - 1], rs[i])
  IN  upto[Len(rs)]

(***************************************************************************)
(* exec {var}: the next descriptor is taken and the first redirection to a *)
(* file opens it; >&- closes the one the variable holds.                   *)
(***************************************************************************)
Closes(rs) == \E i \in DOMAIN rs : rs[i].kind = "DuplicateOutput" /\ rs[i].how = "close"
Opens(s, n, r) ==
  CASE r.kind \in {"Write", "Clobber"} -> Opened(s, n, r.to)
    [] r.kind = "Append"       -> OpenedAtEnd(s, n, r.to)
    [] r.kind = "Read"         -> OpenedForInput(s, n, r.to)
    [] r.kind = "ReadAndWrite" -> IF r.to = Null THEN Point(s, n, DevNull, 0)
                                  ELSE OpenedForBoth(s, n, r.to)
    [] OTHER                   -> s
exec_fd_variable_alloc(rs, s) ==
  LET taken == [s EXCEPT !.next = @ + 1, !.var = s.next]
      named == {i \in DOMAIN rs : rs[i].kind \notin {"Both", "BothAppend", "Here"}}
  IN  IF Closes(rs) THEN (IF s.var = NoFd THEN s ELSE Close(s, s.var))
      ELSE IF named = {} THEN taken ELSE Opens(taken, s.next, rs[Min(named)])

(***************************************************************************)
(* read, from a descriptor or from stdin.  The first line is taken; how    *)
(* far the text has been read is kept with the descriptor it came from.    *)
(***************************************************************************)
From(text, at) == SubSeq(text, at + 1, Len(text))
Unread(s, n, stdin) ==
  LET d == IF n \in DOMAIN s.fds THEN s.fds[n] ELSE Closed IN
  CASE d.type \in {"InputFile", "ReadWriteFile"} -> From(read_file(s, d.path), Offset(s, n))
    [] d.type = "DupStdFd" -> IF d.fd = 0 THEN From(stdin, Offset(s, n)) ELSE <<>>
    [] OTHER -> <<>>
FromFd(s, n, stdin) == [data |-> Unread(s, n, stdin), origin |-> n]
AtStdin   == -2
Temporary == -3
default_read_input(s, stdin) ==
  IF s.source # NoFd THEN FromFd(s, s.source, stdin)
  ELSE [data |-> From(stdin, s.at), origin |-> AtStdin]
resolve_read_input(u, s, stdin, in) ==
  CASE u = NoFd -> default_read_input(s, stdin)
    [] u # NoFd /\ u \in DOMAIN in.texts -> [data |-> in.texts[u], origin |-> Temporary]
    [] u = 0 /\ u \notin DOMAIN in.texts -> default_read_input(s, stdin)
    [] OTHER -> IF u \in DOMAIN s.fds THEN FromFd(s, u, stdin)
                ELSE [data |-> <<>>, origin |-> Temporary]
commit_read_input_consumption(s, origin) ==
  CASE origin = AtStdin   -> [s EXCEPT !.at = @ + 1]
    [] origin = Temporary -> s
    [] OTHER              -> [s EXCEPT !.offsets = Put(@, origin, Offset(s, origin) + 1)]
builtin_read(u, s, stdin, in) ==
  LET input == resolve_read_input(u, s, stdin, in)
  IN  IF input.data = <<>> THEN [s |-> s, r |-> Fails]
      ELSE [s |-> commit_read_input_consumption(s, input.origin), r |-> Silent]

(***************************************************************************)
(* A simple command.  Its input is found, fd 2 is sent to stdout for as    *)
(* long as it runs if 2>&1 is among its redirections, and what it returned *)
(* is moved.                                                               *)
(***************************************************************************)
dispatch_command(cmd, rs, s, stdin, in) ==
  CASE cmd.c = "emit"  -> [s |-> s, r |-> cmd.r]
    [] cmd.c = "cat"   -> [s |-> s, r |-> [Silent EXCEPT !.stdout = stdin]]
    [] cmd.c = "read"  -> builtin_read(cmd.u, s, stdin, in)
    [] cmd.c = "exec"  -> [s |-> exec_persistent_redirects(rs, s), r |-> Silent]
    [] cmd.c = "alloc" -> [s |-> exec_fd_variable_alloc(rs, s), r |-> Silent]

Merged(rs, fds) == IF MergesStderr(rs) THEN Put(fds, 2, DupStdFd(1)) ELSE fds
Before(rs, s, in) ==
  [s EXCEPT !.fds = Merged(rs, @),
            !.at  = IF 0 \in DOMAIN in.texts THEN 0 ELSE @,
            !.source = redirected_stdin_persistent_fd(rs, [s EXCEPT !.fds = Merged(rs, @)])]
\* What is given back once it has run; was is the state before it.
After(rs, s, was, fresh) ==
  [s EXCEPT !.fds = IF ~MergesStderr(rs) THEN @
                    ELSE IF 2 \in DOMAIN was.fds THEN Put(@, 2, was.fds[2]) ELSE Without(@, 2),
            !.at  = IF fresh THEN was.at ELSE @,
            !.source = was.source]

execute_simple_command(cmd, rs, s, stdin) ==
  LET in == collect_input_redirects(rs, s, stdin)
      done == dispatch_command(cmd, rs, Before(rs, s, in), Effective(in, stdin), in)
  IN  IF ~in.ok THEN apply_output_redirects(rs, [Fails EXCEPT !.stderr = <<Message>>], s)
      ELSE apply_output_redirects(rs, done.r, After(rs, done.s, s, 0 \in DOMAIN in.texts))

(***************************************************************************)
(* The script.                                                             *)
(***************************************************************************)
Top == Last(frames)
Gathered(r) ==
  [frames EXCEPT ![Len(frames)].r =
     [stdout |-> @.stdout \o r.stdout, stderr |-> @.stderr \o r.stderr, code |-> r.code]]

Init ==
  /\ \E c \in BOOLEAN :
       shell = [files |-> Files, fds |-> << >>, offsets |-> << >>, next |-> FirstAutoFd,
                var |-> NoFd, at |-> 0, source |-> NoFd, noclobber |-> c]
  /\ frames = <<[kind |-> "program", rs |-> <<>>, stdin |-> Input, fresh |-> TRUE, r |-> Silent,
                 was |-> shell]>>
  /\ steps = 0

Runs(cmd, rs) ==
  LET done == execute_simple_command(cmd, rs, shell, Top.stdin)
  IN  /\ steps < MaxSteps
      /\ shell' = done.s
      /\ frames' = Gathered(done.r)
      /\ steps' = steps + 1

Emit == \E r \in Emits, rs \in Simple : Runs([c |-> "emit", r |-> r], rs)
Cat  == \E rs \in Simple : Runs([c |-> "cat"], rs)
Read == \E u \in {NoFd} \cup DOMAIN shell.fds, rs \in Simple : Runs([c |-> "read", u |-> u], rs)
Exec == \E rs \in Persistent : Runs([c |-> "exec"], rs)
Alloc == \E rs \in Allocated : shell.next <= MaxFd /\ Runs([c |-> "alloc"], rs)

\* A group takes its stdin and empties its files; a call is a simple command
\* around a group, its body; a subshell is a group on a copy of the files and of
\* the shell.
Begins(kind, rs, in) ==
  CASE kind = "call" -> [Before(rs, shell, in) EXCEPT !.source = NoFd]
    [] kind = "group" ->
         pre_truncate_output_files(rs,
           [shell EXCEPT !.at = IF 0 \in DOMAIN in.texts THEN 0 ELSE @,
                         !.source = redirected_stdin_persistent_fd(rs, shell)])
    [] kind = "subshell" ->
         [pre_truncate_output_files(rs, shell) EXCEPT !.at = 0, !.source = NoFd]

\* What an open command leaves behind; s is the state its body ended in.
Ends(f, s) ==
  CASE f.kind = "call"     -> After(f.rs, [s EXCEPT !.at = f.was.at], f.was, f.fresh)
    [] f.kind = "group"    -> [s EXCEPT !.at = f.was.at, !.source = f.was.source]
    [] f.kind = "subshell" -> pre_truncate_output_files(f.rs, f.was)

Enter(kind) ==
  \E rs \in Compound :
    LET in == collect_input_redirects(rs, shell, Top.stdin) IN
    /\ steps < MaxSteps /\ Len(frames) < MaxFrames
    /\ in.ok
    /\ shell' = Begins(kind, rs, in)
    /\ frames' = Append(frames, [kind |-> kind, rs |-> rs, stdin |-> Effective(in, Top.stdin),
                                 fresh |-> 0 \in DOMAIN in.texts, r |-> Silent, was |-> shell])
    /\ steps' = steps + 1

Leave ==
  LET left == apply_output_redirects(Top.rs, Top.r, Ends(Top, shell))
      below == frames[Len(frames) - 1]
  IN  /\ Len(frames) > 1
      /\ shell' = left.s
      /\ frames' = [Front(frames) EXCEPT ![Len(frames) - 1].r =
                      [stdout |-> below.r.stdout \o left.r.stdout,
                       stderr |-> below.r.stderr \o left.r.stderr, code |-> left.r.code]]
      /\ UNCHANGED steps

Next == Emit \/ Cat \/ Read \/ Exec \/ Alloc
        \/ Enter("group") \/ Enter("call") \/ Enter("subshell") \/ Leave

Spec == Init /\ [][Next]_vars
=============================================================================
