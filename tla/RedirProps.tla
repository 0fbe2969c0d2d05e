----------------------------- MODULE RedirProps ------------------------------
(***************************************************************************)
(* What redirections should do: where a descriptor table in the sense of   *)
(* POSIX would send what a command writes, compared with where moving its  *)
(* texts sends it.                                                         *)
(***************************************************************************)
EXTENDS Redirections

CONSTANT Lists  \* the lists of redirections a command is given

ASSUME ListsAssumption == Lists \subseteq Seq(Redirection)

\* What exec has kept and what an open command will give back is of its type.
Descriptor ==
  [type : {"OutputFile", "InputFile", "ReadWriteFile"}, path : Target]
    \cup [type : {"DevNull", "Closed"}] \cup [type : {"DupStdFd"}, fd : 0..2]
ShellOK(s) ==
  /\ s \in [files : {s.files}, fds : {s.fds}, offsets : {s.offsets},
            next : FirstAutoFd..(MaxFd + 1), var : FdArg, at : Nat, source : FdArg,
            noclobber : BOOLEAN]
  /\ Partial(s.files, Target, Texts) /\ Partial(s.fds, Fds, Descriptor)
  /\ Partial(s.offsets, Fds, Nat)
FrameOK(f) ==
  /\ f \in [kind : {"program", "group", "call", "subshell"}, rs : Seq(Redirection),
            stdin : Texts, fresh : BOOLEAN, r : Result, was : {f.was}]
  /\ ShellOK(f.was)
TypeOK ==
  /\ ShellOK(shell) /\ steps \in 0..MaxSteps
  /\ frames \in Seq({f \in {frames[i] : i \in DOMAIN frames} : FrameOK(f)}) /\ frames # <<>>
  /\ \A i \in DOMAIN frames : frames[i].kind = "program" <=> i = 1

(***************************************************************************)
(* A table says of each descriptor where it leads: to a stream of the      *)
(* shell, to a file, to nothing, to an input, or that it is not open.      *)
(***************************************************************************)
Lost == "lost"
In   == "in"
Bad  == "bad"
Streams == {"stdout", "stderr"}

ASSUME NameAssumption == (Streams \cup {Lost, In, Bad, ""}) \cap Target = {}
Stream(n) == CASE n = 0 -> In [] n = 1 -> "stdout" [] n = 2 -> "stderr" [] OTHER -> Bad

Leading(d) ==
  CASE d.type \in {"OutputFile", "ReadWriteFile"} -> d.path
    [] d.type = "InputFile"             -> In
    [] d.type \in {"DevNull", "Closed"} -> Lost
    [] d.type = "DupStdFd"              -> Stream(d.fd)
Lead(s) == [n \in Fds |-> IF n \in DOMAIN s.fds THEN Leading(s.fds[n]) ELSE Stream(n)]

PathLeads(table, p) ==
  CASE p \in {Null, Zero} -> Lost
    [] p = Stdout -> table[1]
    [] p = Stderr -> table[2]
    [] OTHER -> p

\* One redirection makes of a table this table.
Redirected(table, r) ==
  LET n == FdOr(r, IF IsInput(r) THEN 0 ELSE 1) IN
  CASE r.kind \in {"Write", "Clobber", "Append", "ReadAndWrite"} ->
         [table EXCEPT ![n] = PathLeads(table, r.to)]
    [] r.kind = "Read" -> [table EXCEPT ![n] = IF r.to = Null THEN Lost ELSE In]
    [] r.kind = "Here" -> [table EXCEPT ![n] = In]
    [] r.kind \in {"Both", "BothAppend"} ->
         [table EXCEPT ![1] = PathLeads(table, r.to), ![2] = PathLeads(table, r.to)]
    [] r.kind \in {"DuplicateOutput", "DuplicateInput"} /\ r.how = "close" ->
         [table EXCEPT ![n] = Lost]
    [] r.kind \in {"DuplicateOutput", "DuplicateInput"} /\ r.how = "fd" ->
         [table EXCEPT ![n] = table[r.from]]
    [] r.kind \in {"DuplicateOutput", "DuplicateInput"} /\ r.how = "move" ->
         [table EXCEPT ![n] = table[r.from], ![r.from] = Lost]
    [] r.kind \in {"DuplicateOutput", "DuplicateInput"} /\ r.how = "word" ->
         IF r.fd = NoFd
         THEN [table EXCEPT ![1] = PathLeads(table, r.to), ![2] = PathLeads(table, r.to)]
         ELSE [table EXCEPT ![n] = PathLeads(table, r.to)]
Table(rs, table) ==
  LET upto[i \in 0..Len(rs)] == IF i = 0 THEN table ELSE Redirected(upto[i - 1], rs[i])
  IN  upto[Len(rs)]

(***************************************************************************)
(* Where the texts of a command went.                                      *)
(***************************************************************************)
ASSUME ProbeAssumption == {"O", "E"} \subseteq Line \ {Message, Pad}

\* A line that no file holds yet.
Unwritten(line, s) == \A p \in DOMAIN s.files : \A i \in DOMAIN s.files[p] : s.files[p][i] # line
Probe == [stdout |-> <<"O">>, stderr |-> <<"E">>, code |-> 0]
Moved(rs, s) == apply_output_redirects(rs, Probe, s)
Held(after) == Put(Put(after.s.files, "stderr", after.r.stderr), "stdout", after.r.stdout)
SpotsIn(line, p, text) == {<<p, i>> : i \in {j \in DOMAIN text : text[j] = line}}
Spots(line, after) == UNION {SpotsIn(line, p, Held(after)[p]) : p \in DOMAIN Held(after)}
Places(line, after) == {a[1] : a \in Spots(line, after)}
WentTo(line, after) == IF Places(line, after) = {} THEN {Lost} ELSE Places(line, after)

IsDup(r) == r.kind \in {"DuplicateOutput", "DuplicateInput"}
Takes(r) == IF IsDup(r) /\ r.how \in {"fd", "move"} THEN {r.from}
            ELSE IF ~IsDup(r) /\ r.kind # "Here" /\ r.to = Stdout THEN {1}
            ELSE IF ~IsDup(r) /\ r.kind # "Here" /\ r.to = Stderr THEN {2} ELSE {}
Sets(r)  == IF IsDup(r) /\ r.how = "word" /\ r.fd = NoFd THEN {1, 2} ELSE Named(r)

\* The code moves texts where POSIX moves descriptors: the two part when one
\* redirection of a list reads or sets what another one sets,
Entangled(rs) ==
  \E i, j \in DOMAIN rs : i # j /\ (Sets(rs[i]) \cup Takes(rs[i])) \cap Sets(rs[j]) # {}
\* when a duplicate leads to a stream that is itself sent elsewhere,
Borrowed(rs, s) ==
  \E n \in DOMAIN s.fds :
    /\ s.fds[n].type = "DupStdFd"
    /\ \/ n \in {1, 2}
       \/ s.fds[n].fd \in DOMAIN s.fds
       \/ \E i \in DOMAIN rs : s.fds[n].fd \in Sets(rs[i])
\* when stdout or stderr leads through a descriptor open for input,
ThroughInput(rs, s) ==
  \E n \in {1, 2} : \/ Table(rs, Lead(s))[n] \in {In, Bad}
                    \/ n \in DOMAIN s.fds /\ s.fds[n].type \in {"InputFile", "ReadWriteFile"}
\* when &> or >& takes a device for a file,
ToDevice(rs) == \E i \in DOMAIN rs :
  /\ rs[i].kind \in {"Both", "BothAppend"} \/ (IsDup(rs[i]) /\ rs[i].how = "word" /\ rs[i].fd = NoFd)
  /\ rs[i].to \in Devices \ {Null}
\* and when the command is given descriptors above 2 of its own.
HighFd(rs) == \E i \in DOMAIN rs : \E n \in Sets(rs[i]) : n > 2
\* A redirection that fails does not keep the command from running.
Refused(rs, s) == Moved(rs, s).r.code # 0
\* A file that is open twice is emptied, or written over, after it was written;
\* 2>&1- drops both texts.
OpensFile(d, p) == d.type \in {"OutputFile", "ReadWriteFile"} /\ d.path = p
Shared(s) == \E m, n \in DOMAIN s.fds : /\ m # n /\ s.fds[m].type = "ReadWriteFile"
                                        /\ OpensFile(s.fds[n], s.fds[m].path)
Rewrites(rs, s) ==
  \/ Shared(s)
  \/ \E i \in DOMAIN rs : /\ rs[i].to # ""
                          /\ \/ \E n \in DOMAIN s.fds : OpensFile(s.fds[n], rs[i].to)
                             \/ \E j \in DOMAIN rs : j # i /\ rs[j].to = rs[i].to
DropsStream(rs) == \E i \in DOMAIN rs : IsDup(rs[i]) /\ rs[i].how = "move" /\ rs[i].from \in {1, 2}
Plain(rs, s) == ~(\/ Entangled(rs) \/ Borrowed(rs, s) \/ ThroughInput(rs, s) \/ ToDevice(rs)
                  \/ HighFd(rs) \/ Refused(rs, s) \/ Rewrites(rs, s) \/ DropsStream(rs))

\* What a command writes to stdout and to stderr ends up where a table of
\* descriptors, read from left to right over what exec has left, would send it.
RedirectionsLead ==
  \A rs \in Lists :
    Plain(rs, shell) /\ Unwritten("O", shell) /\ Unwritten("E", shell) =>
      /\ WentTo("O", Moved(rs, shell)) = {Table(rs, Lead(shell))[1]}
      /\ WentTo("E", Moved(rs, shell)) = {Table(rs, Lead(shell))[2]}

\* Whatever the redirections are, and whatever exec has left: a line that no file
\* holds yet is never written twice, and it is gone only if something discards
\* it, a redirection fails, or a file is emptied after it was written there.
Discards(rs, s) ==
  \/ \E n \in DOMAIN s.fds : s.fds[n].type \in {"DevNull", "Closed"}
  \/ \E i \in DOMAIN rs :
       \/ rs[i].to \in {Null, Zero}
       \/ IsDup(rs[i]) /\ rs[i].how = "close"
       \/ /\ IsDup(rs[i]) /\ rs[i].how = "move"
          /\ \/ rs[i].from \in {1, 2}
             \* a later duplicate of what the move has closed
             \/ \E j \in DOMAIN rs : i < j /\ IsDup(rs[j]) /\ rs[j].from = rs[i].from
Conserved(line, rs, s) ==
  LET spots == Spots(line, Moved(rs, s))
  IN  /\ \A a, b \in spots : a = b
      /\ spots = {} => Discards(rs, s) \/ Rewrites(rs, s) \/ Refused(rs, s)
OutputIsConserved ==
  \A rs \in Lists, line \in {"O", "E"} : Unwritten(line, shell) => Conserved(line, rs, shell)

(***************************************************************************)
(* exec changes the table itself.                                          *)
(***************************************************************************)
ExecRuns(rs) == execute_simple_command([c |-> "exec"], rs, shell, Top.stdin)
\* What exec does otherwise: 2>&1 is taken back when it has ended, /dev/stdout
\* gives a descriptor back its own stream, the other devices but /dev/null are
\* files to it, a here-document is nothing, a stream of the shell is neither
\* moved nor taken for input, and a descriptor that a move has closed is closed
\* again when exec has ended, whatever has opened it since.
Taken(rs) ==
  \/ MergesStderr(rs)
  \/ \E i \in DOMAIN rs :
       LET r == rs[i] IN
       \/ r.kind = "Here"
       \/ ~IsDup(r) /\ r.to \in Devices \ {Null}
       \/ r.kind = "ReadAndWrite" /\ r.to = Null
       \/ IsDup(r) /\ r.how = "word"
       \/ /\ IsDup(r) /\ r.how = "move"
          /\ \/ r.from \in 0..2 \/ r.kind = "DuplicateInput" \/ r.from = r.fd
             \/ \E j \in DOMAIN rs : j > i /\ r.from \in Sets(rs[j])
       \/ IsDup(r) /\ r.how = "fd" /\ r.kind = "DuplicateInput" /\ r.from \in {1, 2}
       \/ /\ IsDup(r) /\ r.how # "close" /\ Lead(shell)[r.from] = Bad
          /\ ~\E j \in 1..(i - 1) : r.from \in Sets(rs[j])

\* What exec redirects stays redirected: after it, every descriptor leads where
\* the redirections, read from left to right, take it.
ExecTakesHold ==
  \A rs \in Persistent : ~Taken(rs) /\ ExecRuns(rs).r.code = 0 =>
    Lead(ExecRuns(rs).s) = Table(rs, Lead(shell))

\* Of a command redirected with >/dev/null 2>&1 nothing is seen.
Discarding == <<[kind |-> "Write", fd |-> NoFd, to |-> Null],
                [kind |-> "DuplicateOutput", fd |-> 2, how |-> "fd", from |-> 1, to |-> ""]>>
DiscardedOutputIsGone == LET after == Moved(Discarding, shell)
                         IN  after.r.stdout = <<>> /\ after.r.stderr = <<>>
=============================================================================
