----------------------------- MODULE Descriptors -----------------------------
(***************************************************************************)
(* Redirections and descriptors of src/interpreter/walker.rs.  A command   *)
(* does not write through descriptors: it returns what it wrote to stdout  *)
(* and to stderr, and its redirections move these two texts, from left to  *)
(* right, once it has ended.  What `exec` redirects is kept in a table of  *)
(* persistent descriptors, which takes what the redirections have left.    *)
(*                                                                         *)
(* A text is a sequence of lines.  A shell state s is a record with        *)
(*   files    the text of each file of the file system                     *)
(*   fds      persistent_fds, offsets  persistent_fd_offsets               *)
(*   next     next_auto_fd, var        the variable of `exec {var}`        *)
(*   at       stdin_offset, source     current_stdin_persistent_fd         *)
(*   noclobber  whether `set -C` is on                                     *)
(***************************************************************************)
EXTENDS Integers, Sequences, SequencesExt

CONSTANTS
  Line,        \* the lines of the texts of a script
  Paths,       \* the files a script can name
  Directory,   \* a directory it can name
  MaxFd,       \* bound: the highest descriptor
  FirstAutoFd  \* the first descriptor `exec {var}` takes: 10 in the code

ASSUME FdAssumption == MaxFd \in Nat /\ FirstAutoFd \in 3..MaxFd

NoFd == -1
Fds  == 0..MaxFd

Null   == "/dev/null"
Stdin  == "/dev/stdin"
Stdout == "/dev/stdout"
Stderr == "/dev/stderr"
Zero   == "/dev/zero"
Full   == "/dev/full"
Devices == {Null, Stdin, Stdout, Stderr, Zero, Full}
ASSUME DirectoryAssumption == Directory \notin Paths \cup Devices
is_special_dev_path(p) == p \in Devices
Target == Paths \cup {Directory} \cup Devices

OutputFile(p)    == [type |-> "OutputFile", path |-> p]
InputFile(p)     == [type |-> "InputFile", path |-> p]
ReadWriteFile(p) == [type |-> "ReadWriteFile", path |-> p]
DevNull          == [type |-> "DevNull"]
Closed           == [type |-> "Closed"]
DupStdFd(n)      == [type |-> "DupStdFd", fd |-> n]

(***************************************************************************)
(* A redirection is a record: kind, fd (NoFd when the script gives none),  *)
(* to (a path), text (of a here-document) and, for `>&` and `<&`, from,    *)
(* which is a descriptor, and how: "fd", "close" (>&-), "move" (>&N-) or   *)
(* "word".                                                                 *)
(***************************************************************************)
FdArg == Fds \cup {NoFd}
FileKinds == {"Write", "Clobber", "Append", "Read", "ReadAndWrite", "Both", "BothAppend"}
DupKinds  == {"DuplicateOutput", "DuplicateInput"}
Redirection ==
  [kind : FileKinds, fd : FdArg, to : Target]
    \cup [kind : DupKinds, fd : FdArg, how : {"fd", "close", "move"}, from : Fds, to : {""}]
    \cup [kind : DupKinds, fd : FdArg, how : {"word"}, from : {0}, to : Target]
    \cup [kind : {"Here"}, fd : FdArg, to : {""}, text : Seq(Line)]

FdOr(r, default) == IF r.fd = NoFd THEN default ELSE r.fd
IsInput(r)  == r.kind \in {"Read", "ReadAndWrite", "DuplicateInput", "Here"}
IsFileInput(r) == r.kind \in {"Read", "ReadAndWrite", "DuplicateInput"}
\* redirects_dup_stderr_to_stdout: is 2>&1 among them?
MergesStderr(rs) == \E i \in DOMAIN rs : /\ rs[i].kind = "DuplicateOutput" /\ rs[i].how = "fd"
                                         /\ rs[i].fd = 2 /\ rs[i].from = 1

(***************************************************************************)
(* Files.                                                                  *)
(***************************************************************************)
exists(s, p)        == p \in DOMAIN s.files \/ p = Directory
read_file(s, p)     == IF p \in DOMAIN s.files THEN s.files[p] ELSE <<>>
Put(f, a, b) == [x \in DOMAIN f \cup {a} |-> IF x = a THEN b ELSE f[x]]
write_file(s, p, t) == [s EXCEPT !.files = Put(@, p, t)]
write_or_append(s, p, t, append) == write_file(s, p, IF append THEN read_file(s, p) \o t ELSE t)

Offset(s, n) == IF n \in DOMAIN s.offsets THEN s.offsets[n] ELSE 0
Point(s, n, d, offset) == [s EXCEPT !.fds = Put(@, n, d), !.offsets = Put(@, n, offset)]
Without(f, n) == Restrict(f, DOMAIN f \ {n})
Forget(s, n) == [s EXCEPT !.fds = Without(s.fds, n), !.offsets = Without(s.offsets, n)]
Close(s, n)  == [s EXCEPT !.fds = Put(@, n, Closed), !.offsets = Without(@, n)]

\* write_to_persistent_fd_at_offset: the text is overwritten, and padded first.
Pad == "0"
Overwritten(text, at, new) ==
  [i \in 1..(IF at + Len(new) > Len(text) THEN at + Len(new) ELSE Len(text)) |->
     IF i > at /\ i <= at + Len(new) THEN new[i - at]
     ELSE IF i <= Len(text) THEN text[i] ELSE Pad]

(***************************************************************************)
(* Input.  The texts the redirections of a command give to descriptors, or *)
(* the failure of the first that cannot be read.                           *)
(***************************************************************************)
Gives(t) == [ok |-> TRUE, some |-> TRUE, text |-> t]
Nothing  == [ok |-> TRUE, some |-> FALSE]
Missing  == [ok |-> FALSE]

PersistentInput(s, n) ==
  LET d == s.fds[n] IN
  CASE d.type \in {"InputFile", "ReadWriteFile"} -> Gives(read_file(s, d.path))
    [] d.type \in {"DevNull", "Closed"}          -> Gives(<<>>)
    [] d.type \in {"OutputFile", "DupStdFd"}     -> Nothing

\* A duplicate gives the whole text, wherever the descriptor has come to.
DuplicateInput(r, resolved, s) ==
  CASE r.how # "fd"             -> Nothing
    [] r.from \in DOMAIN resolved -> Gives(resolved[r.from])
    [] OTHER -> IF r.from \in DOMAIN s.fds THEN PersistentInput(s, r.from) ELSE Nothing

ReadPath(p, s, stdin) ==
  CASE p = Stdin                 -> Gives(stdin)
    [] p \in {Null, Zero, Full}  -> Gives(<<>>)
    [] p \in DOMAIN s.files      -> Gives(s.files[p])
    [] OTHER                     -> Missing

read_input_redirect(r, resolved, s, stdin) ==
  CASE r.kind = "Here"           -> Gives(r.text)
    [] r.kind = "DuplicateInput" -> DuplicateInput(r, resolved, s)
    [] OTHER                     -> ReadPath(r.to, s, stdin)

InputTaken(in, r, s, stdin) ==
  LET got == read_input_redirect(r, in.texts, s, stdin)
  IN  IF ~in.ok \/ ~IsInput(r) THEN in
      ELSE [ok    |-> got.ok,
            texts |-> IF got.ok /\ got.some THEN Put(in.texts, FdOr(r, 0), got.text)
                      ELSE in.texts]
collect_input_redirects(rs, s, stdin) ==
  LET upto[i \in 0..Len(rs)] ==
        IF i = 0 THEN [ok |-> TRUE, texts |-> << >>]
        ELSE InputTaken(upto[i - 1], rs[i], s, stdin)
  IN  upto[Len(rs)]

Effective(in, stdin) == IF 0 \in DOMAIN in.texts THEN in.texts[0] ELSE stdin

\* The persistent descriptor stdin is read through: that of the last <&N, if
\* nothing after it gives stdin another text.
redirected_stdin_persistent_fd(rs, s) ==
  LET Feeds(i) == IsInput(rs[i]) /\ FdOr(rs[i], 0) = 0
      Kept(i)  == /\ Feeds(i) /\ \A j \in DOMAIN rs : j > i => ~Feeds(j)
                  /\ rs[i].kind = "DuplicateInput" /\ rs[i].how = "fd"
                  /\ rs[i].from \in DOMAIN s.fds
  IN  IF \E i \in DOMAIN rs : Kept(i) THEN rs[CHOOSE i \in DOMAIN rs : Kept(i)].from ELSE NoFd

(***************************************************************************)
(* Output.  r is what a command returns, [stdout, stderr, code].  The      *)
(* redirections carry c, a record of the shell's state s and r, what is    *)
(* reported after them (late), the descriptors they name (seen) and        *)
(* whether they go on.                                                     *)
(***************************************************************************)
Message == "m"
Failed(c)    == [c EXCEPT !.r.code = 1]
Complain(c)  == [Failed(c) EXCEPT !.r.stderr = Append(@, Message)]
Stop(c)      == [c EXCEPT !.go = FALSE]
Late(c)      == [Failed(c) EXCEPT !.late = Append(@, Message)]
\* write_or_append cannot write a directory: the command fails, what it wrote is
\* dropped, and nothing else is done with its redirections.
Breaks(c) ==
  [c EXCEPT !.r = [stdout |-> <<>>, stderr |-> <<Message>>, code |-> 1],
            !.late = <<>>, !.seen = {1, 2}, !.go = FALSE]
Text(c, n)   == CASE n = 1 -> c.r.stdout [] n = 2 -> c.r.stderr [] OTHER -> <<>>
Clear(c, n)  == CASE n = 1 -> [c EXCEPT !.r.stdout = <<>>]
                  [] n = 2 -> [c EXCEPT !.r.stderr = <<>>]
                  [] OTHER -> c
ClearBoth(c) == Clear(Clear(c, 1), 2)
\* One text moves behind, or before, the other.
OutToErr(c)       == Clear([c EXCEPT !.r.stderr = @ \o c.r.stdout], 1)
ErrToOut(c)       == Clear([c EXCEPT !.r.stdout = @ \o c.r.stderr], 2)
ErrBeforeOut(c)   == Clear([c EXCEPT !.r.stdout = c.r.stderr \o @], 2)
ToFile(c, n, p, append) ==
  Clear([c EXCEPT !.s = write_or_append(c.s, p, Text(c, n), append)], n)
\* Mutant: &> leaves stderr where it was.
BothTo_leaves(c, p, append) ==
  CASE p = Null      -> Clear(c, 1)
    [] p = Directory -> Breaks(c)
    [] OTHER ->
         Clear([c EXCEPT !.s = write_or_append(c.s, p, c.r.stdout \o c.r.stderr, append)], 1)
BothTo(c, p, append) ==
  CASE p = Null      -> ClearBoth(c)
    [] p = Directory -> Breaks(c)
    [] OTHER ->
         ClearBoth([c EXCEPT !.s = write_or_append(c.s, p, c.r.stdout \o c.r.stderr, append)])

apply_write_redirect(c, n, p, append) ==
  CASE p \in {Null, Zero} -> Clear(c, n)
    [] p = Stdout -> IF n = 2 THEN ErrToOut(c) ELSE c
    [] p = Stderr -> IF n = 1 THEN OutToErr(c) ELSE c
    [] p \in {Full, Directory} -> Late(Clear(c, n))
    [] OTHER -> IF n \in {1, 2} THEN ToFile(c, n, p, append) ELSE c

\* Mutant: a closed descriptor lets the text pass.
IntoFd_open(c, n, m) ==
  LET d == c.s.fds[m] IN
  CASE d.type \in {"OutputFile", "ReadWriteFile"} ->
         Clear([c EXCEPT !.s = write_or_append(c.s, d.path, Text(c, n), TRUE)], n)
    [] OTHER -> c
\* A text moves into a persistent descriptor.
IntoFd(c, n, m) ==
  LET d == c.s.fds[m]
      text == Text(c, n)
      Moved(file, offset) == Clear([c EXCEPT !.s = [file EXCEPT !.offsets = Put(@, m, offset)]], n)
  IN  CASE d.type = "OutputFile" ->
             Moved(write_or_append(c.s, d.path, text, TRUE), Offset(c.s, m) + Len(text))
        [] d.type = "ReadWriteFile" ->
             Moved(write_file(c.s, d.path, Overwritten(read_file(c.s, d.path), Offset(c.s, m), text)),
                   Offset(c.s, m) + Len(text))
        [] d.type \in {"DevNull", "Closed"} -> Clear(c, n)
        [] d.type = "DupStdFd" -> IF d.fd = 1 /\ n = 2 THEN ErrToOut(c)
                                  ELSE IF d.fd = 2 /\ n = 1 THEN OutToErr(c) ELSE c
        [] d.type = "InputFile" -> c

apply_dup_fd(c, n, m) ==
  CASE n = 2 /\ m = 1 -> ErrBeforeOut(c)
    [] n = 1 /\ m = 2 -> OutToErr(c)
    [] OTHER -> IF n \in {1, 2} /\ m \in DOMAIN c.s.fds THEN IntoFd(c, n, m) ELSE c

CloseSource(c, m) == IF m \in {1, 2} THEN Clear(c, m)
                     ELSE [c EXCEPT !.s.fds = Put(@, m, Closed)]

apply_duplicate_output(c, r) ==
  LET n == FdOr(r, 1) IN
  CASE r.how = "close" -> Clear(c, n)
    [] r.how = "move"  -> CloseSource(apply_dup_fd(c, n, r.from), r.from)
    [] r.how = "fd"    -> IF r.from \in 0..2 \cup DOMAIN c.s.fds THEN apply_dup_fd(c, n, r.from)
                          ELSE Stop(Complain(IF n = 1 THEN Clear(c, 1) ELSE c))
    [] r.how = "word"  -> IF r.fd = NoFd THEN BothTo(c, r.to, FALSE)
                          ELSE LET d == apply_write_redirect([c EXCEPT !.late = <<>>], n, r.to, FALSE)
                               IN  [d EXCEPT !.r.stderr = @ \o d.late, !.late = c.late]

Clobbers(c, p) == c.s.noclobber /\ ~is_special_dev_path(p) /\ exists(c.s, p)

WriteKind(c, r) ==
  LET n == FdOr(r, 1) IN
  IF r.kind = "Write" /\ Clobbers(c, r.to)
  THEN Stop(Complain(IF n = 1 THEN Clear(c, 1) ELSE c))
  ELSE apply_write_redirect(c, n, r.to, r.kind = "Append")

Created(c, p) == IF exists(c.s, p) THEN c ELSE [c EXCEPT !.s = write_file(c.s, p, <<>>)]
ReadAndWriteKind(c, r) ==
  LET n == FdOr(r, 0) IN
  IF n \notin {1, 2} THEN Created(c, r.to)
  ELSE IF r.to = Directory THEN Breaks(c) ELSE ToFile(Created(c, r.to), n, r.to, FALSE)

apply_file_redirect(c, r) ==
  CASE r.kind \in {"Write", "Clobber", "Append"} -> WriteKind(c, r)
    [] r.kind = "DuplicateOutput" -> apply_duplicate_output(c, r)
    [] r.kind = "DuplicateInput"  -> IF FdOr(r, 0) = 0 THEN c ELSE apply_duplicate_output(c, r)
    [] r.kind = "ReadAndWrite"    -> ReadAndWriteKind(c, r)
    [] OTHER                      -> c

\* &> and &>>.  Of the devices only /dev/null may be written under `set -C`.
ClobbersBoth(c, p) == c.s.noclobber /\ p # Null /\ exists(c.s, p)
OutputAndError(c, r) ==
  IF r.kind = "Both" /\ ClobbersBoth(c, r.to)
  THEN Stop(Complain(Clear(c, 1)))
  ELSE BothTo(c, r.to, r.kind = "BothAppend")

Named(r) == CASE r.kind \in {"Both", "BothAppend"} -> {1, 2}
              [] r.kind = "Here"                   -> {}
              [] IsFileInput(r)                    -> {FdOr(r, 0)}
              [] OTHER                             -> {FdOr(r, 1)}

\* What no redirection of the command has named goes where `exec` has sent it:
\* first stdout, then stderr.
KeptType(c, n) == IF n \in c.seen \/ n \notin DOMAIN c.s.fds THEN "none" ELSE c.s.fds[n].type
SentOn(c, n) ==
  CASE KeptType(c, n) = "OutputFile" ->
         IF Text(c, n) = <<>> THEN c ELSE ToFile(c, n, c.s.fds[n].path, TRUE)
    [] KeptType(c, n) = "DupStdFd" ->
         IF n = 1 /\ c.s.fds[n].fd = 2 THEN OutToErr(c)
         ELSE IF n = 2 /\ c.s.fds[n].fd = 1 THEN ErrBeforeOut(c) ELSE c
    [] KeptType(c, n) \in {"DevNull", "Closed"} -> Clear(c, n)
    [] OTHER -> c
apply_persistent_fd_fallback(c) == SentOn(SentOn(c, 1), 2)

Start(r, s) == [s |-> s, r |-> r, late |-> <<>>, seen |-> {}, go |-> TRUE]
OutputMoved(c, x) ==
  LET d == [c EXCEPT !.seen = @ \cup Named(x)]
  IN  IF ~c.go THEN c
      ELSE IF x.kind \in {"Both", "BothAppend"} THEN OutputAndError(d, x)
      ELSE apply_file_redirect(d, x)
apply_output_redirects(rs, r, s) ==
  LET upto[i \in 0..Len(rs)] ==
        IF i = 0 THEN Start(r, s) ELSE OutputMoved(upto[i - 1], rs[i])
      done == apply_persistent_fd_fallback(upto[Len(rs)])
  IN  [s |-> done.s, r |-> [done.r EXCEPT !.stderr = @ \o done.late]]

\* A compound command empties its files before it runs, whatever `set -C` says.
pre_truncate_output_files(rs, s) ==
  LET emptied == {rs[i].to : i \in {j \in DOMAIN rs :
                                       /\ rs[j].kind \in {"Write", "Clobber", "Both"}
                                       /\ ~is_special_dev_path(rs[j].to)}}
  IN  [s EXCEPT !.files = [p \in emptied \cup DOMAIN @ |-> IF p \in emptied THEN <<>> ELSE @[p]]]
=============================================================================
