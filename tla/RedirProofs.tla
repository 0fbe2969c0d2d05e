---------------------------- MODULE RedirProofs -----------------------------
(***************************************************************************)
(* Proofs about redirections: the state of the shell and of its open       *)
(* commands keeps its types, what exec redirects stays redirected, and     *)
(* what a command writes is in one place when its redirections are done.   *)
(*                                                                         *)
(* A list of redirections is read from left to right: what the recursive   *)
(* functions of Descriptors, Redirections and RedirProps make of it is a   *)
(* sequence of values (a run), and what is said of the last value is shown *)
(* for every value before it, by the least index at which it would fail.   *)
(***************************************************************************)
EXTENDS RedirProps, SequenceTheorems, Recursion, TLAPS

(***************************************************************************)
(* Partial functions.                                                      *)
(***************************************************************************)
Partials(S, T) == UNION {[D -> T] : D \in SUBSET S}

LEMMA PartialsAre ==
  ASSUME NEW S, NEW T, NEW f
  PROVE  f \in Partials(S, T) <=> Partial(f, S, T)
BY DEF Partials, Partial

LEMMA PutPartial ==
  ASSUME NEW S, NEW T, NEW f, Partial(f, S, T), NEW a \in S, NEW b \in T
  PROVE  Partial(Put(f, a, b), S, T)
BY DEF Partial, Put

LEMMA WithoutIs ==
  ASSUME NEW f, NEW a
  PROVE  /\ DOMAIN Without(f, a) = DOMAIN f \ {a}
         /\ \A x \in DOMAIN f \ {a} : Without(f, a)[x] = f[x]
         /\ \A S, T : Partial(f, S, T) => Partial(Without(f, a), S, T)
BY DEF Without, Restrict, Partial

(***************************************************************************)
(* The types of what redirections work on.                                 *)
(***************************************************************************)
Shells ==
  [files : Partials(Target, Texts), fds : Partials(Fds, Descriptor),
   offsets : Partials(Fds, Nat), next : FirstAutoFd..(MaxFd + 1), var : FdArg,
   at : Nat, source : FdArg, noclobber : BOOLEAN]
Frames ==
  [kind : {"program", "group", "call", "subshell"}, rs : Seq(Redirection), stdin : Texts,
   fresh : BOOLEAN, r : Result, was : Shells]

LEMMA ShellsAre ==
  ASSUME NEW s
  PROVE  s \in Shells <=> ShellOK(s)
<1>1. ASSUME s \in Shells PROVE ShellOK(s)
  BY <1>1, PartialsAre DEF Shells, ShellOK
<1>2. ASSUME ShellOK(s) PROVE s \in Shells
  BY <1>2, PartialsAre DEF Shells, ShellOK
<1>3. QED
  BY <1>1, <1>2

LEMMA ShellParts ==
  ASSUME NEW s \in Shells
  PROVE  /\ Partial(s.files, Target, Texts) /\ Partial(s.fds, Fds, Descriptor)
         /\ Partial(s.offsets, Fds, Nat)
         /\ s.next \in FirstAutoFd..(MaxFd + 1) /\ s.var \in FdArg /\ s.at \in Nat
         /\ s.source \in FdArg /\ s.noclobber \in BOOLEAN
BY PartialsAre DEF Shells

\* What an operator leaves of a shell's state is one.
LEMMA ShellOf ==
  ASSUME NEW files, Partial(files, Target, Texts), NEW fds, Partial(fds, Fds, Descriptor),
         NEW offsets, Partial(offsets, Fds, Nat), NEW next \in FirstAutoFd..(MaxFd + 1),
         NEW var \in FdArg, NEW at \in Nat, NEW source \in FdArg, NEW noclobber \in BOOLEAN
  PROVE  [files |-> files, fds |-> fds, offsets |-> offsets, next |-> next, var |-> var,
          at |-> at, source |-> source, noclobber |-> noclobber] \in Shells
BY PartialsAre DEF Shells

LEMMA FilesEdit ==
  ASSUME NEW s \in Shells, NEW f, Partial(f, Target, Texts)
  PROVE  [s EXCEPT !.files = f] \in Shells
BY PartialsAre DEF Shells

LEMMA FdsEdit ==
  ASSUME NEW s \in Shells, NEW f, Partial(f, Fds, Descriptor)
  PROVE  [s EXCEPT !.fds = f] \in Shells
BY PartialsAre DEF Shells

LEMMA OffsetsEdit ==
  ASSUME NEW s \in Shells, NEW f, Partial(f, Fds, Nat)
  PROVE  [s EXCEPT !.offsets = f] \in Shells
BY PartialsAre DEF Shells

LEMMA FieldsEdit ==
  ASSUME NEW s \in Shells
  PROVE  /\ \A n \in Nat : [s EXCEPT !.at = n] \in Shells
         /\ \A v \in FdArg : [s EXCEPT !.source = v] \in Shells
         /\ \A n \in FirstAutoFd..(MaxFd + 1), v \in FdArg :
              [s EXCEPT !.next = n, !.var = v] \in Shells
BY DEF Shells

LEMMA TextsAre ==
  /\ <<>> \in Texts /\ <<Message>> \in Texts
  /\ \A t, u \in Texts : t \o u \in Texts /\ Len(t) \in Nat
  /\ \A t \in Texts : Append(t, Message) \in Texts
BY LineAssumption DEF Texts

LEMMA LowFds == {0, 1, 2, 3} \subseteq Fds
BY FdAssumption DEF Fds

LEMMA RedirectionIs ==
  ASSUME NEW r \in Redirection
  PROVE  /\ r.fd \in FdArg
         /\ r.kind \in FileKinds \cup DupKinds \cup {"Here"}
         /\ r.kind \in FileKinds => r.to \in Target
         /\ r.kind \in DupKinds => /\ r.how \in {"fd", "close", "move", "word"} /\ r.from \in Fds
                                   /\ r.how = "word" => r.to \in Target
                                   /\ r.how # "word" => r.to = ""
         /\ r.kind = "Here" => r.text \in Texts /\ r.to = ""
<1>1. CASE r \in [kind : FileKinds, fd : FdArg, to : Target]
  BY <1>1 DEF FileKinds, DupKinds
<1>2. CASE r \in [kind : DupKinds, fd : FdArg, how : {"fd", "close", "move"}, from : Fds, to : {""}]
  BY <1>2 DEF FileKinds, DupKinds
<1>3. CASE r \in [kind : DupKinds, fd : FdArg, how : {"word"}, from : {0}, to : Target]
  <2>1. r.kind \in DupKinds /\ r.fd \in FdArg /\ r.how = "word" /\ r.from = 0 /\ r.to \in Target
    BY <1>3
  <2>2. QED
    BY <2>1, LowFds DEF FileKinds, DupKinds
<1>4. CASE r \in [kind : {"Here"}, fd : FdArg, to : {""}, text : Seq(Line)]
  BY <1>4 DEF FileKinds, DupKinds, Texts
<1>5. QED
  BY <1>1, <1>2, <1>3, <1>4 DEF Redirection

LEMMA FdOrIs ==
  ASSUME NEW r \in Redirection, NEW n \in Fds
  PROVE  FdOr(r, n) \in Fds
BY RedirectionIs DEF FdOr, FdArg, NoFd

(***************************************************************************)
(* Files, descriptors and what exec does to them.                          *)
(***************************************************************************)
LEMMA ReadFileIs ==
  ASSUME NEW s \in Shells, NEW p
  PROVE  read_file(s, p) \in Texts
BY ShellParts DEF read_file, Partial, Texts

LEMMA WriteFileIs ==
  ASSUME NEW s \in Shells, NEW p \in Target, NEW t \in Texts
  PROVE  /\ write_file(s, p, t) \in Shells
         /\ write_or_append(s, p, t, TRUE) \in Shells
         /\ write_or_append(s, p, t, FALSE) \in Shells
<1>1. \A u \in Texts : write_file(s, p, u) \in Shells
  <2>1. TAKE u \in Texts
  <2>2. Partial(Put(s.files, p, u), Target, Texts)
    BY ShellParts, PutPartial
  <2>3. QED
    BY <2>2, FilesEdit DEF write_file
<1>2. read_file(s, p) \o t \in Texts
  BY ReadFileIs DEF Texts
<1>3. QED
  BY <1>1, <1>2 DEF write_or_append

LEMMA OffsetIs ==
  ASSUME NEW s \in Shells, NEW n
  PROVE  Offset(s, n) \in Nat
BY ShellParts DEF Offset, Partial

LEMMA PointIs ==
  ASSUME NEW s \in Shells, NEW n \in Fds, NEW d \in Descriptor, NEW k \in Nat
  PROVE  /\ Point(s, n, d, k) \in Shells
         /\ [s EXCEPT !.fds = Put(@, n, d)] \in Shells
         /\ [s EXCEPT !.offsets = Put(@, n, k)] \in Shells
         /\ [s EXCEPT !.fds = Put(@, n, d), !.offsets = Without(@, n)] \in Shells
<1> DEFINE a == Put(s.fds, n, d)
           b == Put(s.offsets, n, k)
           c == Without(s.offsets, n)
<1>1. Partial(a, Fds, Descriptor) /\ Partial(b, Fds, Nat) /\ Partial(c, Fds, Nat)
  BY ShellParts, PutPartial, WithoutIs
<1>2. /\ Point(s, n, d, k) = [[s EXCEPT !.fds = a] EXCEPT !.offsets = b]
      /\ [s EXCEPT !.fds = Put(@, n, d), !.offsets = Without(@, n)]
         = [[s EXCEPT !.fds = a] EXCEPT !.offsets = c]
      /\ [s EXCEPT !.fds = Put(@, n, d)] = [s EXCEPT !.fds = a]
      /\ [s EXCEPT !.offsets = Put(@, n, k)] = [s EXCEPT !.offsets = b]
  BY DEF Point
<1> HIDE DEF a, b, c
<1>3. [s EXCEPT !.fds = a] \in Shells
  BY <1>1, FdsEdit
<1>4. /\ [[s EXCEPT !.fds = a] EXCEPT !.offsets = b] \in Shells
      /\ [[s EXCEPT !.fds = a] EXCEPT !.offsets = c] \in Shells
      /\ [s EXCEPT !.offsets = b] \in Shells
  BY <1>1, <1>3, OffsetsEdit
<1>5. QED
  BY <1>2, <1>3, <1>4

LEMMA PointType ==
  ASSUME NEW s \in Shells, NEW n \in Fds, NEW d \in Descriptor, NEW k \in Nat
  PROVE  Point(s, n, d, k) \in Shells
BY PointIs

LEMMA ForgetIs ==
  ASSUME NEW s \in Shells, NEW n \in Fds
  PROVE  Forget(s, n) \in Shells
<1> DEFINE a == Without(s.fds, n)
           c == Without(s.offsets, n)
<1>1. Partial(a, Fds, Descriptor) /\ Partial(c, Fds, Nat)
  BY ShellParts, WithoutIs
<1>2. Forget(s, n) = [[s EXCEPT !.fds = a] EXCEPT !.offsets = c]
  BY DEF Forget
<1> HIDE DEF a, c
<1>3. [s EXCEPT !.fds = a] \in Shells
  BY <1>1, FdsEdit
<1>4. QED
  BY <1>1, <1>2, <1>3, OffsetsEdit

LEMMA DescriptorsAre ==
  /\ \A p \in Target : {OutputFile(p), InputFile(p), ReadWriteFile(p)} \subseteq Descriptor
  /\ DevNull \in Descriptor /\ Closed \in Descriptor
  /\ \A n \in {0, 1, 2} : DupStdFd(n) \in Descriptor
BY DEF Descriptor, OutputFile, InputFile, ReadWriteFile, DevNull, Closed, DupStdFd

LEMMA CloseIs ==
  ASSUME NEW s \in Shells, NEW n \in Fds
  PROVE  Close(s, n) \in Shells
BY PointIs, DescriptorsAre DEF Close

LEMMA CopiedIs ==
  ASSUME NEW s \in Shells, NEW n \in Fds, NEW m \in DOMAIN s.fds
  PROVE  Copied(s, n, m) \in Shells
<1>1. s.fds[m] \in Descriptor
  BY ShellParts DEF Partial
<1>2. QED
  BY <1>1, OffsetIs, PointIs DEF Copied

LEMMA OpenedIs ==
  ASSUME NEW s \in Shells, NEW n \in Fds, NEW p \in Target
  PROVE  /\ Opened(s, n, p) \in Shells
         /\ OpenedAtEnd(s, n, p) \in Shells
         /\ OpenedForInput(s, n, p) \in Shells
         /\ OpenedForBoth(s, n, p) \in Shells
<1>1. write_file(s, p, <<>>) \in Shells /\ Len(read_file(s, p)) \in Nat
  BY WriteFileIs, ReadFileIs, LenProperties, EmptySeq DEF Texts
<1>2. \A t \in Shells : /\ Forget(t, n) \in Shells
                        /\ Point(t, n, DevNull, 0) \in Shells
                        /\ Point(t, n, OutputFile(p), 0) \in Shells
                        /\ Point(t, n, InputFile(p), 0) \in Shells
                        /\ Point(t, n, ReadWriteFile(p), 0) \in Shells
                        /\ Point(t, n, OutputFile(p), Len(read_file(s, p))) \in Shells
  BY <1>1, ForgetIs, PointIs, DescriptorsAre
<1>3. Opened(s, n, p) \in Shells
  BY <1>1, <1>2 DEF Opened
<1>4. OpenedAtEnd(s, n, p) \in Shells
  BY <1>1, <1>2 DEF OpenedAtEnd
<1>5. OpenedForInput(s, n, p) \in Shells
  BY <1>1, <1>2 DEF OpenedForInput
<1>6. OpenedForBoth(s, n, p) \in Shells
  BY <1>1, <1>2 DEF OpenedForBoth
<1>7. QED
  BY <1>3, <1>4, <1>5, <1>6

LEMMA CopiesAre ==
  ASSUME NEW s \in Shells, NEW n \in Fds, NEW m \in Fds
  PROVE  /\ CopiedOutput(s, n, m) \in Shells
         /\ CopiedInput(s, n, m) \in Shells
         /\ MovedFd(s, n, m) \in Shells
<1>1. /\ Forget(s, n) \in Shells
      /\ m \in DOMAIN s.fds => Copied(s, n, m) \in Shells
      /\ Point(s, n, DupStdFd(0), s.at) \in Shells
  <2>1. s.at \in Nat
    BY ShellParts
  <2>2. DupStdFd(0) \in Descriptor
    BY DescriptorsAre
  <2>3. QED
    BY <2>1, <2>2, ForgetIs, CopiedIs, PointType
<1>2. ASSUME m \in {1, 2}
      PROVE  [s EXCEPT !.fds = Put(@, n, DupStdFd(m)), !.offsets = Without(@, n)] \in Shells
  <2>1. DupStdFd(m) \in Descriptor
    BY <1>2, DescriptorsAre
  <2>2. QED
    BY <2>1, PointIs
<1>3. CopiedOutput(s, n, m) \in Shells
  <2>1. CASE m \in DOMAIN s.fds
    <3>1. CopiedOutput(s, n, m) = Copied(s, n, m)
      BY <2>1 DEF CopiedOutput
    <3>2. QED
      BY <1>1, <2>1, <3>1
  <2>2. CASE m = 0 /\ m \notin DOMAIN s.fds
    <3>1. CopiedOutput(s, n, m) = Point(s, n, DupStdFd(0), s.at)
      BY <2>2 DEF CopiedOutput
    <3>2. QED
      BY <1>1, <3>1
  <2>3. CASE m \in {1, 2} \ DOMAIN s.fds
    <3>1. CopiedOutput(s, n, m)
          = [s EXCEPT !.fds = Put(@, n, DupStdFd(m)), !.offsets = Without(@, n)]
      BY <2>3 DEF CopiedOutput
    <3>2. QED
      BY <1>2, <2>3, <3>1
  <2>4. CASE m \notin {0, 1, 2} /\ m \notin DOMAIN s.fds
    <3>1. CopiedOutput(s, n, m) = Forget(s, n)
      BY <2>4 DEF CopiedOutput
    <3>2. QED
      BY <1>1, <3>1
  <2>5. QED
    BY <2>1, <2>2, <2>3, <2>4
<1>4. CopiedInput(s, n, m) \in Shells
  <2>1. CASE m = 0 /\ m \notin DOMAIN s.fds
    <3>1. CopiedInput(s, n, m) = Point(s, n, DupStdFd(0), s.at)
      BY <2>1 DEF CopiedInput
    <3>2. QED
      BY <1>1, <3>1
  <2>2. CASE m \in DOMAIN s.fds
    <3>1. CopiedInput(s, n, m) = Copied(s, n, m)
      BY <2>2 DEF CopiedInput
    <3>2. QED
      BY <1>1, <2>2, <3>1
  <2>3. CASE m \notin DOMAIN s.fds /\ m # 0
    BY <2>3 DEF CopiedInput
  <2>4. QED
    BY <2>1, <2>2, <2>3
<1>5. MovedFd(s, n, m) \in Shells
  BY <1>1, CloseIs DEF MovedFd
<1>6. QED
  BY <1>3, <1>4, <1>5

LEMMA PersistentRedirectIs ==
  ASSUME NEW s \in Shells, NEW r \in Redirection
  PROVE  PersistentRedirect(s, r) \in Shells
<1>1. FdOr(r, 0) \in Fds /\ FdOr(r, 1) \in Fds
  BY FdOrIs, LowFds
<1>2. CASE r.kind \in FileKinds
  <2>1. r.to \in Target
    BY <1>2, RedirectionIs
  <2>2. PersistentBoth(s, r.to) \in Shells
    <3> DEFINE d == IF r.to = Null THEN DevNull ELSE OutputFile(r.to)
    <3>1. d \in Descriptor
      <4>1. DevNull \in Descriptor /\ OutputFile(r.to) \in Descriptor
        BY <2>1, DescriptorsAre
      <4>2. QED
        BY <4>1
    <3>2. PersistentBoth(s, r.to) = Point(Point(s, 1, d, 0), 2, d, 0)
      BY DEF PersistentBoth
    <3> HIDE DEF d
    <3>3. Point(s, 1, d, 0) \in Shells
      BY <3>1, PointType, LowFds
    <3>4. QED
      BY <3>1, <3>2, <3>3, PointType, LowFds
  <2>3. QED
    BY <1>1, <1>2, <2>1, <2>2, OpenedIs DEF PersistentRedirect, FileKinds, DupKinds
<1>3. CASE r.kind \in DupKinds
  <2>1. r.from \in Fds /\ r.how \in {"fd", "close", "move", "word"}
    BY <1>3, RedirectionIs
  <2>2. PersistentDup(s, r) \in Shells
    BY <1>1, <2>1, CopiesAre, CloseIs DEF PersistentDup
  <2>3. QED
    BY <1>3, <2>2 DEF PersistentRedirect, FileKinds, DupKinds
<1>4. CASE r.kind = "Here"
  BY <1>4 DEF PersistentRedirect, DupKinds
<1>5. QED
  BY <1>2, <1>3, <1>4, RedirectionIs

(***************************************************************************)
(* What is read and moved from left to right: the values a list passes.    *)
(***************************************************************************)
ExecRun(f, rs, s) ==
  /\ f \in [0..Len(rs) -> Shells] /\ f[0] = s
  /\ \A i \in 1..Len(rs) : f[i] = PersistentRedirect(f[i - 1], rs[i])

LEMMA ExecRunIs ==
  ASSUME NEW rs \in Seq(Redirection), NEW s \in Shells
  PROVE  \E f : ExecRun(f, rs, s) /\ exec_persistent_redirects(rs, s) = f[Len(rs)]
<1> DEFINE K == Len(rs)
           Step(e, i) == PersistentRedirect(e, rs[i])
           G == [q \in (1..K) \X Shells |-> Step(q[2], q[1])]
           P(f) == f = [i \in 0..K |-> IF i = 0 THEN s ELSE Step(f[i - 1], i)]
           upto == CHOOSE f : P(f)
<1>1. K \in Nat
  OBVIOUS
<1>2. \A i \in 1..K, e \in Shells : Step(e, i) \in Shells
  BY PersistentRedirectIs
<1>3. exec_persistent_redirects(rs, s) = upto[K]
  BY DEF exec_persistent_redirects
<1>4. \A i, e : Step(e, i) = PersistentRedirect(e, rs[i])
  OBVIOUS
<1> HIDE DEF K, Step
<1>5. G \in [(1..K) \X Shells -> Shells]
  BY <1>2
<1>6. PICK f : Recurs(f, Shells, s, G, K)
  <2> HIDE DEF G
  <2> QED BY <1>1, <1>5, RecursionExists
<1>7. f \in [0..K -> Shells] /\ f[0] = s
  BY <1>6 DEF Recurs
<1>8. \A i \in 1..K : f[i] = Step(f[i - 1], i)
  <2> SUFFICES ASSUME NEW i \in 1..K PROVE f[i] = Step(f[i - 1], i)
    OBVIOUS
  <2>1. f[i - 1] \in Shells /\ f[i] = G[<<i, f[i - 1]>>]
    <3> HIDE DEF G
    <3> QED BY <1>1, <1>6, <1>7 DEF Recurs
  <2>2. QED
    BY <2>1
<1>9. P(f)
  BY <1>1, <1>7, <1>8
<1>10. P(upto)
  <2> HIDE DEF P
  <2> QED BY <1>9
<1> HIDE DEF upto
<1>11. /\ DOMAIN upto = 0..K /\ upto[0] = s
       /\ \A i \in 1..K : upto[i] = Step(upto[i - 1], i)
  BY <1>1, <1>10
<1>12. 0..K \subseteq {i \in 0..K : upto[i] = f[i]}
  <2> DEFINE S == {i \in 0..K : upto[i] = f[i]}
  <2> SUFFICES 0..K \subseteq S
    OBVIOUS
  <2>1. 0 \in S
    BY <1>1, <1>7, <1>11
  <2>2. SUFFICES ASSUME NEW m \in 1..K, m \notin S, m - 1 \in S PROVE FALSE
    <3> HIDE DEF S
    <3> QED BY <1>1, <2>1, LeastFailure
  <2>3. QED
    BY <1>1, <1>8, <1>11, <2>2
<1>13. upto[K] = f[K]
  BY <1>1, <1>12
<1>14. ExecRun(f, rs, s)
  BY <1>4, <1>7, <1>8 DEF ExecRun, K
<1>15. QED
  BY <1>3, <1>13, <1>14 DEF K

(***************************************************************************)
(* Input.                                                                  *)
(***************************************************************************)
Inputs == [ok : BOOLEAN, texts : Partials(Fds, Texts)]
NoInput == [ok |-> TRUE, texts |-> << >>]

LEMMA NoInputIs == NoInput \in Inputs
<1>1. << >> \in [{} -> Texts]
  OBVIOUS
<1>2. << >> \in Partials(Fds, Texts)
  BY <1>1 DEF Partials
<1>3. QED
  BY <1>2 DEF NoInput, Inputs

Given == {Nothing, Missing} \cup {Gives(t) : t \in Texts}

LEMMA GivenIs ==
  ASSUME NEW got \in Given
  PROVE  got.ok \in BOOLEAN /\ (got.ok /\ got.some => got.text \in Texts)
<1>1. CASE got = Nothing
  BY <1>1 DEF Nothing
<1>2. CASE got = Missing
  BY <1>2 DEF Missing
<1>3. ASSUME NEW t \in Texts, got = Gives(t)
      PROVE  got.ok \in BOOLEAN /\ (got.ok /\ got.some => got.text \in Texts)
  BY <1>3 DEF Gives
<1>4. QED
  BY <1>1, <1>2, <1>3 DEF Given

LEMMA PersistentInputIs ==
  ASSUME NEW s \in Shells, NEW n \in DOMAIN s.fds
  PROVE  PersistentInput(s, n) \in Given
<1>1. s.fds[n] \in Descriptor
  BY ShellParts DEF Partial
<1>2. \A p : Gives(read_file(s, p)) \in Given
  BY ReadFileIs DEF Given
<1>3. Gives(<<>>) \in Given /\ Nothing \in Given
  BY TextsAre DEF Given
<1>4. s.fds[n].type
      \in {"OutputFile", "InputFile", "ReadWriteFile", "DevNull", "Closed", "DupStdFd"}
  BY <1>1 DEF Descriptor
<1>5. CASE s.fds[n].type \in {"InputFile", "ReadWriteFile"}
  <2>1. PersistentInput(s, n) = Gives(read_file(s, s.fds[n].path))
    BY <1>5 DEF PersistentInput
  <2>2. QED
    BY <1>2, <2>1
<1>6. CASE s.fds[n].type \in {"DevNull", "Closed"}
  <2>1. PersistentInput(s, n) = Gives(<<>>)
    BY <1>6 DEF PersistentInput
  <2>2. QED
    BY <1>3, <2>1
<1>7. CASE s.fds[n].type \in {"OutputFile", "DupStdFd"}
  <2>1. PersistentInput(s, n) = Nothing
    BY <1>7 DEF PersistentInput
  <2>2. QED
    BY <1>3, <2>1
<1>8. QED
  BY <1>4, <1>5, <1>6, <1>7

LEMMA ReadInputIs ==
  ASSUME NEW s \in Shells, NEW stdin \in Texts, NEW resolved, Partial(resolved, Fds, Texts),
         NEW r \in Redirection
  PROVE  read_input_redirect(r, resolved, s, stdin) \in Given
<1>1. \A t \in Texts : Gives(t) \in Given
  BY DEF Given
<1>2. Nothing \in Given /\ Missing \in Given /\ <<>> \in Texts
  BY TextsAre DEF Given
<1>3. CASE r.kind = "Here"
  BY <1>1, <1>3, RedirectionIs DEF read_input_redirect
<1>4. CASE r.kind = "DuplicateInput"
  <2>1. r.from \in DOMAIN resolved => resolved[r.from] \in Texts
    BY DEF Partial
  <2>2. DuplicateInput(r, resolved, s) \in Given
    BY <1>1, <1>2, <2>1, PersistentInputIs DEF DuplicateInput
  <2>3. QED
    BY <1>4, <2>2 DEF read_input_redirect
<1>5. CASE r.kind \notin {"Here", "DuplicateInput"}
  <2>1. r.to \in DOMAIN s.files => s.files[r.to] \in Texts
    BY ShellParts DEF Partial
  <2>2. ReadPath(r.to, s, stdin) \in Given
    BY <1>1, <1>2, <2>1 DEF ReadPath
  <2>3. QED
    BY <1>5, <2>2 DEF read_input_redirect
<1>6. QED
  BY <1>3, <1>4, <1>5

LEMMA InputTakenIs ==
  ASSUME NEW in \in Inputs, NEW r \in Redirection, NEW s \in Shells, NEW stdin \in Texts
  PROVE  InputTaken(in, r, s, stdin) \in Inputs
<1> DEFINE got == read_input_redirect(r, in.texts, s, stdin)
           texts == IF got.ok /\ got.some THEN Put(in.texts, FdOr(r, 0), got.text) ELSE in.texts
<1>1. in.texts \in Partials(Fds, Texts) /\ Partial(in.texts, Fds, Texts)
  BY PartialsAre DEF Inputs
<1>2. got \in Given
  BY <1>1, ReadInputIs
<1>3. got.ok \in BOOLEAN /\ (got.ok /\ got.some => got.text \in Texts)
  BY <1>2, GivenIs
<1>5. InputTaken(in, r, s, stdin)
      = IF ~in.ok \/ ~IsInput(r) THEN in ELSE [ok |-> got.ok, texts |-> texts]
  BY DEF InputTaken
<1> HIDE DEF got
<1>6. FdOr(r, 0) \in Fds
  BY FdOrIs, LowFds
<1>7. texts \in Partials(Fds, Texts)
  BY <1>1, <1>3, <1>6, PutPartial, PartialsAre
<1> HIDE DEF texts
<1>8. QED
  BY <1>3, <1>5, <1>7 DEF Inputs

InputRun(f, rs, s, stdin) ==
  /\ f \in [0..Len(rs) -> Inputs] /\ f[0] = NoInput
  /\ \A i \in 1..Len(rs) : f[i] = InputTaken(f[i - 1], rs[i], s, stdin)

LEMMA InputRunIs ==
  ASSUME NEW rs \in Seq(Redirection), NEW s \in Shells, NEW stdin \in Texts
  PROVE  \E f : InputRun(f, rs, s, stdin) /\ collect_input_redirects(rs, s, stdin) = f[Len(rs)]
<1> DEFINE K == Len(rs)
           Step(e, i) == InputTaken(e, rs[i], s, stdin)
           G == [q \in (1..K) \X Inputs |-> Step(q[2], q[1])]
           P(f) == f = [i \in 0..K |-> IF i = 0 THEN NoInput ELSE Step(f[i - 1], i)]
           upto == CHOOSE f : P(f)
<1>1. K \in Nat /\ NoInput \in Inputs
  BY NoInputIs
<1>2. \A i \in 1..K, e \in Inputs : Step(e, i) \in Inputs
  BY InputTakenIs
<1>3. collect_input_redirects(rs, s, stdin) = upto[K]
  BY DEF collect_input_redirects, NoInput
<1>4. \A i, e : Step(e, i) = InputTaken(e, rs[i], s, stdin)
  OBVIOUS
<1> HIDE DEF K, Step
<1>5. G \in [(1..K) \X Inputs -> Inputs]
  BY <1>2
<1>6. PICK f : Recurs(f, Inputs, NoInput, G, K)
  <2> HIDE DEF G
  <2> QED BY <1>1, <1>5, RecursionExists
<1>7. f \in [0..K -> Inputs] /\ f[0] = NoInput
  BY <1>6 DEF Recurs
<1>8. \A i \in 1..K : f[i] = Step(f[i - 1], i)
  <2> SUFFICES ASSUME NEW i \in 1..K PROVE f[i] = Step(f[i - 1], i)
    OBVIOUS
  <2>1. f[i - 1] \in Inputs /\ f[i] = G[<<i, f[i - 1]>>]
    <3> HIDE DEF G
    <3> QED BY <1>1, <1>6, <1>7 DEF Recurs
  <2>2. QED
    BY <2>1
<1>9. P(f)
  BY <1>1, <1>7, <1>8
<1>10. P(upto)
  <2> HIDE DEF P
  <2> QED BY <1>9
<1> HIDE DEF upto
<1>11. /\ DOMAIN upto = 0..K /\ upto[0] = NoInput
       /\ \A i \in 1..K : upto[i] = Step(upto[i - 1], i)
  BY <1>1, <1>10
<1>12. 0..K \subseteq {i \in 0..K : upto[i] = f[i]}
  <2> DEFINE S == {i \in 0..K : upto[i] = f[i]}
  <2> SUFFICES 0..K \subseteq S
    OBVIOUS
  <2>1. 0 \in S
    BY <1>1, <1>7, <1>11
  <2>2. SUFFICES ASSUME NEW m \in 1..K, m \notin S, m - 1 \in S PROVE FALSE
    <3> HIDE DEF S
    <3> QED BY <1>1, <2>1, LeastFailure
  <2>3. QED
    BY <1>1, <1>8, <1>11, <2>2
<1>13. upto[K] = f[K]
  BY <1>1, <1>12
<1>14. InputRun(f, rs, s, stdin)
  BY <1>4, <1>7, <1>8 DEF InputRun, K
<1>15. QED
  BY <1>3, <1>13, <1>14 DEF K

LEMMA InputIs ==
  ASSUME NEW rs \in Seq(Redirection), NEW s \in Shells, NEW stdin \in Texts
  PROVE  LET in == collect_input_redirects(rs, s, stdin)
         IN  /\ in.ok \in BOOLEAN /\ Partial(in.texts, Fds, Texts)
             /\ Effective(in, stdin) \in Texts
<1>1. collect_input_redirects(rs, s, stdin) \in Inputs
  <2>1. PICK f : InputRun(f, rs, s, stdin) /\ collect_input_redirects(rs, s, stdin) = f[Len(rs)]
    BY InputRunIs
  <2>2. QED
    BY <2>1 DEF InputRun
<1>2. \A in \in Inputs : /\ in.ok \in BOOLEAN /\ Partial(in.texts, Fds, Texts)
                         /\ Effective(in, stdin) \in Texts
  BY PartialsAre DEF Inputs, Effective, Partial
<1>3. QED
  BY <1>1, <1>2

(***************************************************************************)
(* Output: what the redirections of a command carry.                       *)
(***************************************************************************)
Carries ==
  [s : Shells, r : Result, late : Texts, seen : SUBSET Fds, go : BOOLEAN]
\* Only the source of a move is touched among the descriptors, and a failure stays.
Follows(c, d) == d \in Carries /\ d.s.fds = c.s.fds /\ d.r.code \in {c.r.code, 1}

LEMMA StartIs ==
  ASSUME NEW r \in Result, NEW s \in Shells
  PROVE  Start(r, s) \in Carries
BY TextsAre DEF Start, Carries

LEMMA CarryParts ==
  ASSUME NEW c \in Carries
  PROVE  /\ c.s \in Shells /\ c.r \in Result /\ c.late \in Texts /\ c.seen \subseteq Fds
         /\ c.go \in BOOLEAN /\ c.r.stdout \in Texts /\ c.r.stderr \in Texts /\ c.r.code \in Nat
         /\ \A n : Text(c, n) \in Texts
BY TextsAre DEF Carries, Result, Text

LEMMA FollowsOn ==
  ASSUME NEW c, NEW d, NEW e, Follows(c, d), Follows(d, e)
  PROVE  Follows(c, e)
BY DEF Follows

LEMMA FollowsSelf ==
  ASSUME NEW c \in Carries
  PROVE  Follows(c, c)
BY DEF Follows

LEMMA CarryTexts ==
  ASSUME NEW c \in Carries, NEW t \in Texts
  PROVE  /\ Follows(c, [c EXCEPT !.r.stdout = t])
         /\ Follows(c, [c EXCEPT !.r.stderr = t])
         /\ Follows(c, [c EXCEPT !.late = t])
<1>1. Follows(c, [c EXCEPT !.r.stdout = t])
  BY DEF Carries, Result, Follows
<1>2. Follows(c, [c EXCEPT !.r.stderr = t])
  BY DEF Carries, Result, Follows
<1>3. Follows(c, [c EXCEPT !.late = t])
  BY DEF Carries, Result, Follows
<1>4. QED
  BY <1>1, <1>2, <1>3

LEMMA CarryFlags ==
  ASSUME NEW c \in Carries
  PROVE  /\ Follows(c, [c EXCEPT !.r.code = 1])
         /\ Follows(c, [c EXCEPT !.go = FALSE])
<1>1. Follows(c, [c EXCEPT !.r.code = 1])
  BY DEF Carries, Result, Follows
<1>2. Follows(c, [c EXCEPT !.go = FALSE])
  BY DEF Carries, Result, Follows
<1>3. QED
  BY <1>1, <1>2

LEMMA CarryShell ==
  ASSUME NEW c \in Carries, NEW s \in Shells, s.fds = c.s.fds
  PROVE  Follows(c, [c EXCEPT !.s = s])
BY DEF Carries, Result, Follows

LEMMA ClearIs ==
  ASSUME NEW c \in Carries, NEW n
  PROVE  Follows(c, Clear(c, n)) /\ Follows(c, ClearBoth(c))
<1>1. \A d \in Carries : \A m : Follows(d, Clear(d, m))
  BY CarryTexts, FollowsSelf, TextsAre DEF Clear
<1>2. Follows(c, Clear(c, 1)) /\ Clear(c, 1) \in Carries
  BY <1>1 DEF Follows
<1>3. Follows(Clear(c, 1), ClearBoth(c))
  BY <1>1, <1>2 DEF ClearBoth
<1>4. QED
  BY <1>1, <1>2, <1>3, FollowsOn

LEMMA ComplaintsAre ==
  ASSUME NEW c \in Carries
  PROVE  /\ Follows(c, Failed(c)) /\ Follows(c, Complain(c)) /\ Follows(c, Stop(c))
         /\ Follows(c, Late(c))
<1>1. Follows(c, Failed(c)) /\ Failed(c) \in Carries
  BY CarryFlags DEF Failed, Follows
<1>2. Append(Failed(c).r.stderr, Message) \in Texts /\ Append(Failed(c).late, Message) \in Texts
  BY <1>1, CarryParts, TextsAre
<1>3. /\ Complain(c) = [Failed(c) EXCEPT !.r.stderr = Append(Failed(c).r.stderr, Message)]
      /\ Late(c) = [Failed(c) EXCEPT !.late = Append(Failed(c).late, Message)]
  BY DEF Complain, Late
<1>4. Follows(Failed(c), Complain(c)) /\ Follows(Failed(c), Late(c))
  BY <1>1, <1>2, <1>3, CarryTexts
<1>5. Follows(c, Stop(c))
  BY CarryFlags DEF Stop
<1>6. QED
  BY <1>1, <1>4, <1>5, FollowsOn

LEMMA StreamsIntoStreams ==
  ASSUME NEW c \in Carries
  PROVE  /\ Follows(c, OutToErr(c)) /\ Follows(c, ErrToOut(c)) /\ Follows(c, ErrBeforeOut(c))
<1> DEFINE a == [c EXCEPT !.r.stderr = c.r.stderr \o c.r.stdout]
           b == [c EXCEPT !.r.stdout = c.r.stdout \o c.r.stderr]
           d == [c EXCEPT !.r.stdout = c.r.stderr \o c.r.stdout]
<1>1. OutToErr(c) = Clear(a, 1) /\ ErrToOut(c) = Clear(b, 2) /\ ErrBeforeOut(c) = Clear(d, 2)
  BY DEF OutToErr, ErrToOut, ErrBeforeOut
<1>2. Follows(c, a) /\ Follows(c, b) /\ Follows(c, d)
  BY CarryParts, TextsAre, CarryTexts
<1> HIDE DEF a, b, d
<1>3. Follows(a, Clear(a, 1)) /\ Follows(b, Clear(b, 2)) /\ Follows(d, Clear(d, 2))
  BY <1>2, ClearIs DEF Follows
<1>4. QED
  BY <1>1, <1>2, <1>3, FollowsOn

LEMMA WriteKeepsFds ==
  ASSUME NEW s \in Shells, NEW p \in Target, NEW t \in Texts, NEW append \in BOOLEAN
  PROVE  LET u == write_or_append(s, p, t, append)
         IN  u \in Shells /\ u.fds = s.fds
<1>1. \A v : write_file(s, p, v).fds = s.fds
  BY DEF write_file, Shells
<1>2. QED
  BY <1>1, WriteFileIs DEF write_or_append

LEMMA ToFileIs ==
  ASSUME NEW c \in Carries, NEW n, NEW p \in Target, NEW append \in BOOLEAN
  PROVE  Follows(c, ToFile(c, n, p, append))
<1> DEFINE u == write_or_append(c.s, p, Text(c, n), append)
           d == [c EXCEPT !.s = u]
<1>1. u \in Shells /\ u.fds = c.s.fds
  BY CarryParts, WriteKeepsFds
<1>2. ToFile(c, n, p, append) = Clear(d, n)
  BY DEF ToFile
<1> HIDE DEF u
<1>3. Follows(c, d)
  BY <1>1, CarryShell
<1> HIDE DEF d
<1>4. Follows(d, Clear(d, n))
  BY <1>3, ClearIs DEF Follows
<1>5. QED
  BY <1>2, <1>3, <1>4, FollowsOn

LEMMA BreaksIs ==
  ASSUME NEW c \in Carries
  PROVE  Follows(c, Breaks(c))
<1> DEFINE failed == [stdout |-> <<>>, stderr |-> <<Message>>, code |-> 1]
<1>1. failed \in Result /\ failed.code = 1
  BY TextsAre DEF Result
<1>2. Breaks(c) = [c EXCEPT !.r = failed, !.late = <<>>, !.seen = {1, 2}, !.go = FALSE]
  BY DEF Breaks
<1>3. <<>> \in Texts /\ {1, 2} \in SUBSET Fds /\ FALSE \in BOOLEAN
  BY TextsAre, LowFds
<1> HIDE DEF failed
<1>4. Breaks(c) \in Carries /\ Breaks(c).s = c.s /\ Breaks(c).r = failed
  BY <1>1, <1>2, <1>3 DEF Carries
<1>5. QED
  BY <1>1, <1>4 DEF Follows

LEMMA BothToIs ==
  ASSUME NEW c \in Carries, NEW p \in Target, NEW append \in BOOLEAN
  PROVE  Follows(c, BothTo(c, p, append))
<1> DEFINE u == write_or_append(c.s, p, c.r.stdout \o c.r.stderr, append)
           d == [c EXCEPT !.s = u]
<1>1. u \in Shells /\ u.fds = c.s.fds
  BY CarryParts, TextsAre, WriteKeepsFds
<1>2. BothTo(c, p, append) \in {ClearBoth(c), Breaks(c), ClearBoth(d)}
  BY DEF BothTo
<1> HIDE DEF u
<1>3. Follows(c, d)
  BY <1>1, CarryShell
<1> HIDE DEF d
<1>4. Follows(d, ClearBoth(d))
  BY <1>3, ClearIs DEF Follows
<1>5. Follows(c, ClearBoth(c)) /\ Follows(c, Breaks(c)) /\ Follows(c, ClearBoth(d))
  BY <1>3, <1>4, FollowsOn, ClearIs, BreaksIs
<1>6. QED
  BY <1>2, <1>5

LEMMA WriteRedirectIs ==
  ASSUME NEW c \in Carries, NEW n \in Fds, NEW p \in Target, NEW append \in BOOLEAN
  PROVE  Follows(c, apply_write_redirect(c, n, p, append))
<1>1. /\ Follows(c, Clear(c, n)) /\ Follows(c, OutToErr(c)) /\ Follows(c, ErrToOut(c))
      /\ Follows(c, c) /\ Follows(c, ToFile(c, n, p, append))
  BY ClearIs, StreamsIntoStreams, FollowsSelf, ToFileIs
<1>2. Follows(c, Late(Clear(c, n)))
  <2>1. Clear(c, n) \in Carries
    BY <1>1 DEF Follows
  <2>2. Follows(Clear(c, n), Late(Clear(c, n)))
    BY <2>1, ComplaintsAre
  <2>3. QED
    BY <1>1, <2>2, FollowsOn
<1>3. apply_write_redirect(c, n, p, append) \in
        {Clear(c, n), OutToErr(c), ErrToOut(c), c, ToFile(c, n, p, append), Late(Clear(c, n))}
  BY DEF apply_write_redirect
<1>4. QED
  BY <1>1, <1>2, <1>3

LEMMA OverwrittenIs ==
  ASSUME NEW t \in Texts, NEW u \in Texts, NEW k \in Nat
  PROVE  Overwritten(t, k, u) \in Texts
<1> DEFINE top == IF k + Len(u) > Len(t) THEN k + Len(u) ELSE Len(t)
           e(i) == IF i > k /\ i <= k + Len(u) THEN u[i - k]
                   ELSE IF i <= Len(t) THEN t[i] ELSE Pad
<1>1. top \in Nat
  BY TextsAre
<1>2. ASSUME NEW i \in 1..top PROVE e(i) \in Line
  <2>1. CASE i > k /\ i <= k + Len(u)
    <3>1. i - k \in 1..Len(u)
      BY <1>1, <2>1, TextsAre
    <3>2. u[i - k] \in Line
      BY <3>1 DEF Texts
    <3>3. QED
      BY <2>1, <3>2
  <2>2. CASE ~(i > k /\ i <= k + Len(u)) /\ i <= Len(t)
    <3>1. t[i] \in Line
      BY <1>1, <2>2, TextsAre DEF Texts
    <3>2. QED
      BY <2>2, <3>1
  <2>3. CASE ~(i > k /\ i <= k + Len(u)) /\ ~(i <= Len(t))
    BY <2>3, LineAssumption
  <2>4. QED
    BY <2>1, <2>2, <2>3
<1>3. Overwritten(t, k, u) = [i \in 1..top |-> e(i)]
  BY DEF Overwritten
<1> HIDE DEF top, e
<1>4. [i \in 1..top |-> e(i)] \in Seq(Line)
  BY <1>1, <1>2, IsASeq
<1>5. QED
  BY <1>3, <1>4 DEF Texts

LEMMA IntoFdIs ==
  ASSUME NEW c \in Carries, NEW n, NEW m \in DOMAIN c.s.fds
  PROVE  Follows(c, IntoFd(c, n, m))
<1> DEFINE s == c.s
           d == c.s.fds[m]
           text == Text(c, n)
           k == Offset(s, m) + Len(text)
           Moved_(file) == Clear([c EXCEPT !.s = [file EXCEPT !.offsets = Put(@, m, k)]], n)
           a == write_or_append(s, d.path, text, TRUE)
           b == write_file(s, d.path, Overwritten(read_file(s, d.path), Offset(s, m), text))
<1>1. s \in Shells /\ m \in Fds /\ d \in Descriptor /\ text \in Texts /\ k \in Nat
  <2>1. s \in Shells /\ text \in Texts
    BY CarryParts
  <2>2. QED
    BY <2>1, ShellParts, OffsetIs, TextsAre DEF Partial
<1>2. ASSUME NEW file \in Shells, file.fds = s.fds PROVE Follows(c, Moved_(file))
  <2> DEFINE g == [file EXCEPT !.offsets = Put(@, m, k)]
             e == [c EXCEPT !.s = g]
  <2>1. g \in Shells
    <3> HIDE DEF k, s, d
    <3> QED BY <1>1, <1>2, PointIs, DescriptorsAre
  <2>2. g.fds = s.fds
    <3> HIDE DEF k, s, d
    <3> QED BY <1>2 DEF Shells
  <2>3. Follows(c, e)
    <3> HIDE DEF g
    <3> QED BY <2>1, <2>2, CarryShell
  <2>4. Moved_(file) = Clear(e, n)
    OBVIOUS
  <2> HIDE DEF e
  <2>5. Follows(e, Clear(e, n))
    BY <2>3, ClearIs DEF Follows
  <2>6. QED
    BY <2>3, <2>4, <2>5, FollowsOn
<1>3. d.type \in {"OutputFile", "ReadWriteFile"} => d.path \in Target
  BY <1>1 DEF Descriptor
<1>4. CASE d.type = "OutputFile"
  <2>1. IntoFd(c, n, m) = Moved_(a)
    BY <1>4 DEF IntoFd
  <2>2. a \in Shells /\ a.fds = s.fds
    BY <1>1, <1>3, <1>4, WriteKeepsFds
  <2> HIDE DEF a, Moved_, s
  <2>3. QED
    BY <1>2, <2>1, <2>2
<1>5. CASE d.type = "ReadWriteFile"
  <2>1. IntoFd(c, n, m) = Moved_(b)
    BY <1>5 DEF IntoFd
  <2>2. Overwritten(read_file(s, d.path), Offset(s, m), text) \in Texts
    BY <1>1, ReadFileIs, OffsetIs, OverwrittenIs
  <2>3. b \in Shells
    BY <1>1, <1>3, <1>5, <2>2, WriteFileIs
  <2>4. b.fds = s.fds
    BY <1>1 DEF write_file, Shells
  <2> HIDE DEF b, Moved_, s
  <2>5. QED
    BY <1>2, <2>1, <2>3, <2>4
<1>6. CASE d.type \notin {"OutputFile", "ReadWriteFile"}
  <2>1. d.type \in {"InputFile", "DevNull", "Closed", "DupStdFd"}
    BY <1>1, <1>6 DEF Descriptor
  <2>2. IntoFd(c, n, m) \in {Clear(c, n), ErrToOut(c), OutToErr(c), c}
    BY <2>1 DEF IntoFd
  <2>3. QED
    BY <2>2, ClearIs, StreamsIntoStreams, FollowsSelf
<1>7. QED
  BY <1>4, <1>5, <1>6

LEMMA DupFdIs ==
  ASSUME NEW c \in Carries, NEW n, NEW m
  PROVE  Follows(c, apply_dup_fd(c, n, m))
<1>1. /\ Follows(c, ErrBeforeOut(c)) /\ Follows(c, OutToErr(c)) /\ Follows(c, c)
      /\ m \in DOMAIN c.s.fds => Follows(c, IntoFd(c, n, m))
  BY StreamsIntoStreams, FollowsSelf, IntoFdIs
<1>2. \/ apply_dup_fd(c, n, m) \in {ErrBeforeOut(c), OutToErr(c), c}
      \/ m \in DOMAIN c.s.fds /\ apply_dup_fd(c, n, m) = IntoFd(c, n, m)
  BY DEF apply_dup_fd
<1>3. QED
  BY <1>1, <1>2

\* A redirection moves texts; the source of a move may be closed by it.
Closing(x) == IsDup(x) /\ x.how = "move" /\ x.from \notin {1, 2}
Moves(c, d, x) ==
  /\ d \in Carries /\ d.r.code \in {c.r.code, 1}
  /\ d.s.fds # c.s.fds => Closing(x) /\ d.s.fds = Put(c.s.fds, x.from, Closed)

LEMMA FollowsMoves ==
  ASSUME NEW c, NEW d, NEW x, Follows(c, d)
  PROVE  Moves(c, d, x)
BY DEF Follows, Moves

LEMMA CloseSourceIs ==
  ASSUME NEW c \in Carries, NEW m \in Fds
  PROVE  LET d == CloseSource(c, m)
         IN  /\ d \in Carries /\ d.r.code = c.r.code
             /\ m \in {1, 2} => d.s.fds = c.s.fds
             /\ m \notin {1, 2} => d.s.fds = Put(c.s.fds, m, Closed)
<1>1. CASE m \in {1, 2}
  <2>1. CloseSource(c, m) = Clear(c, m)
    BY <1>1 DEF CloseSource
  <2>2. Clear(c, m).r.code = c.r.code
    BY <1>1 DEF Clear, Carries, Result
  <2>3. Clear(c, m) \in Carries /\ Clear(c, m).s.fds = c.s.fds
    BY ClearIs DEF Follows
  <2>4. QED
    BY <1>1, <2>1, <2>2, <2>3
<1>2. CASE m \notin {1, 2}
  <2> DEFINE f == Put(c.s.fds, m, Closed)
             s == [c.s EXCEPT !.fds = f]
  <2>1. CloseSource(c, m) = [c EXCEPT !.s = s]
    BY <1>2 DEF CloseSource
  <2>2. s \in Shells
    <3>1. c.s \in Shells /\ Closed \in Descriptor
      BY CarryParts, DescriptorsAre
    <3>2. Partial(f, Fds, Descriptor)
      BY <3>1, ShellParts, PutPartial
    <3> HIDE DEF f
    <3>3. QED
      BY <3>1, <3>2, FdsEdit
  <2>3. s.fds = f
    <3> HIDE DEF f
    <3> QED BY CarryParts DEF Shells
  <2> HIDE DEF s, f
  <2>4. [c EXCEPT !.s = s] \in Carries /\ [c EXCEPT !.s = s].r = c.r /\ [c EXCEPT !.s = s].s = s
    BY <2>2 DEF Carries
  <2>5. QED
    BY <1>2, <2>1, <2>3, <2>4 DEF f
<1>3. QED
  BY <1>1, <1>2

LEMMA MoveIs ==
  ASSUME NEW c \in Carries, NEW x \in Redirection, IsDup(x), x.how = "move", NEW n
  PROVE  Moves(c, CloseSource(apply_dup_fd(c, n, x.from), x.from), x)
<1> DEFINE d == apply_dup_fd(c, n, x.from)
           m == x.from
<1>1. Follows(c, d) /\ m \in Fds
  BY DupFdIs, RedirectionIs DEF IsDup, DupKinds
<1> HIDE DEF d
<1>2. /\ CloseSource(d, m) \in Carries /\ CloseSource(d, m).r.code = d.r.code
      /\ m \in {1, 2} => CloseSource(d, m).s.fds = d.s.fds
      /\ m \notin {1, 2} => CloseSource(d, m).s.fds = Put(d.s.fds, m, Closed)
  BY <1>1, CloseSourceIs DEF Follows
<1>3. CASE m \in {1, 2}
  BY <1>1, <1>2, <1>3 DEF Follows, Moves, d
<1>4. CASE m \notin {1, 2}
  BY <1>1, <1>2, <1>4 DEF Follows, Moves, Closing, d
<1>5. QED
  BY <1>3, <1>4

\* A word is written to, and what it says is reported at once.
LEMMA WordIs ==
  ASSUME NEW c \in Carries, NEW n \in Fds, NEW p \in Target
  PROVE  LET d == apply_write_redirect([c EXCEPT !.late = <<>>], n, p, FALSE)
         IN  Follows(c, [d EXCEPT !.r.stderr = @ \o d.late, !.late = c.late])
<1> DEFINE b == [c EXCEPT !.late = <<>>]
           d == apply_write_redirect(b, n, p, FALSE)
           e == [d EXCEPT !.r.stderr = d.r.stderr \o d.late]
           f == [e EXCEPT !.late = c.late]
<1>1. Follows(c, b)
  BY CarryTexts, TextsAre
<1> HIDE DEF b
<1>2. Follows(b, d)
  BY <1>1, WriteRedirectIs DEF Follows
<1>3. [d EXCEPT !.r.stderr = @ \o d.late, !.late = c.late] = f
  OBVIOUS
<1> HIDE DEF d
<1>4. Follows(d, e)
  BY <1>2, CarryParts, TextsAre, CarryTexts DEF Follows
<1> HIDE DEF e
<1>5. Follows(e, f)
  BY <1>4, CarryParts, CarryTexts DEF Follows
<1> HIDE DEF f
<1>6. Follows(c, f)
  BY <1>1, <1>2, <1>4, <1>5, FollowsOn
<1>7. QED
  BY <1>3, <1>6 DEF b, d

LEMMA RefusalIs ==
  ASSUME NEW c \in Carries
  PROVE  /\ Follows(c, Stop(Complain(c))) /\ Follows(c, Stop(Complain(Clear(c, 1))))
<1>1. \A d \in Carries : Follows(d, Stop(Complain(d)))
  <2> SUFFICES ASSUME NEW d \in Carries PROVE Follows(d, Stop(Complain(d)))
    OBVIOUS
  <2>1. Follows(d, Complain(d)) /\ Follows(Complain(d), Stop(Complain(d)))
    BY ComplaintsAre DEF Follows
  <2>2. QED
    BY <2>1, FollowsOn
<1>2. Follows(c, Clear(c, 1)) /\ Follows(Clear(c, 1), Stop(Complain(Clear(c, 1))))
  BY <1>1, ClearIs DEF Follows
<1>3. QED
  BY <1>1, <1>2, FollowsOn

LEMMA DuplicateOutputIs ==
  ASSUME NEW c \in Carries, NEW x \in Redirection, IsDup(x)
  PROVE  Moves(c, apply_duplicate_output(c, x), x)
<1> DEFINE n == FdOr(x, 1)
<1>1. n \in Fds /\ x.how \in {"fd", "close", "move", "word"}
  BY FdOrIs, LowFds, RedirectionIs DEF IsDup, DupKinds
<1> HIDE DEF n
<1>2. CASE x.how = "close"
  <2>1. apply_duplicate_output(c, x) = Clear(c, n)
    BY <1>2 DEF apply_duplicate_output, n
  <2>2. QED
    BY <2>1, ClearIs, FollowsMoves
<1>3. CASE x.how = "move"
  <2>1. apply_duplicate_output(c, x) = CloseSource(apply_dup_fd(c, n, x.from), x.from)
    BY <1>3 DEF apply_duplicate_output, n
  <2>2. QED
    BY <1>3, <2>1, MoveIs
<1>4. CASE x.how = "fd"
  <2>1. apply_duplicate_output(c, x)
        \in {apply_dup_fd(c, n, x.from), Stop(Complain(c)), Stop(Complain(Clear(c, 1)))}
    BY <1>4 DEF apply_duplicate_output, n
  <2>2. QED
    BY <2>1, DupFdIs, RefusalIs, FollowsMoves
<1>5. CASE x.how = "word"
  <2> DEFINE d == apply_write_redirect([c EXCEPT !.late = <<>>], n, x.to, FALSE)
             e == [d EXCEPT !.r.stderr = @ \o d.late, !.late = c.late]
  <2>1. apply_duplicate_output(c, x) \in {BothTo(c, x.to, FALSE), e}
    BY <1>5 DEF apply_duplicate_output, n
  <2>2. x.to \in Target
    BY <1>5, RedirectionIs DEF IsDup, DupKinds
  <2>3. Follows(c, e)
    BY <1>1, <2>2, WordIs
  <2>4. Follows(c, BothTo(c, x.to, FALSE))
    BY <2>2, BothToIs
  <2> HIDE DEF e
  <2>5. QED
    BY <2>1, <2>3, <2>4, FollowsMoves
<1>6. QED
  BY <1>1, <1>2, <1>3, <1>4, <1>5

LEMMA CreatedIs ==
  ASSUME NEW c \in Carries, NEW p \in Target
  PROVE  Follows(c, Created(c, p))
<1>1. write_file(c.s, p, <<>>) \in Shells /\ write_file(c.s, p, <<>>).fds = c.s.fds
  <2>1. c.s \in Shells
    BY CarryParts
  <2>2. write_file(c.s, p, <<>>).fds = c.s.fds
    BY <2>1 DEF write_file, Shells
  <2>3. QED
    BY <2>1, <2>2, TextsAre, WriteFileIs
<1>2. QED
  BY <1>1, CarryShell, FollowsSelf DEF Created

LEMMA FileRedirectIs ==
  ASSUME NEW c \in Carries, NEW x \in Redirection, x.kind \notin {"Both", "BothAppend"}
  PROVE  Moves(c, apply_file_redirect(c, x), x)
<1> DEFINE n == FdOr(x, 1)
           z == FdOr(x, 0)
<1>1. n \in Fds /\ z \in Fds
  BY FdOrIs, LowFds
<1>2. CASE x.kind \in {"Write", "Clobber", "Append"}
  <2>1. x.to \in Target
    BY <1>2, RedirectionIs DEF FileKinds
  <2>2. apply_file_redirect(c, x) = WriteKind(c, x)
    BY <1>2 DEF apply_file_redirect
  <2>3. WriteKind(c, x) \in {apply_write_redirect(c, n, x.to, TRUE),
          apply_write_redirect(c, n, x.to, FALSE), Stop(Complain(c)), Stop(Complain(Clear(c, 1)))}
    <3>1. CASE x.kind = "Write" /\ Clobbers(c, x.to)
      BY <3>1 DEF WriteKind
    <3>2. CASE ~(x.kind = "Write" /\ Clobbers(c, x.to)) /\ x.kind = "Append"
      <4>1. WriteKind(c, x) = apply_write_redirect(c, n, x.to, x.kind = "Append")
        BY <3>2 DEF WriteKind
      <4>2. (x.kind = "Append") = TRUE
        BY <3>2
      <4>3. QED
        BY <4>1, <4>2
    <3>3. CASE ~(x.kind = "Write" /\ Clobbers(c, x.to)) /\ x.kind # "Append"
      <4>1. WriteKind(c, x) = apply_write_redirect(c, n, x.to, x.kind = "Append")
        BY <3>3 DEF WriteKind
      <4>2. (x.kind = "Append") = FALSE
        BY <3>3
      <4>3. QED
        BY <4>1, <4>2
    <3>4. QED
      BY <3>1, <3>2, <3>3
  <2>4. Follows(c, WriteKind(c, x))
    BY <1>1, <2>1, <2>3, WriteRedirectIs, RefusalIs
  <2>5. QED
    BY <2>2, <2>4, FollowsMoves
<1>3. CASE x.kind \in {"DuplicateOutput", "DuplicateInput"}
  <2>1. apply_file_redirect(c, x) \in {c, apply_duplicate_output(c, x)}
    BY <1>3 DEF apply_file_redirect
  <2>2. QED
    BY <1>3, <2>1, DuplicateOutputIs, FollowsSelf, FollowsMoves DEF IsDup
<1>4. CASE x.kind = "ReadAndWrite"
  <2>1. x.to \in Target
    BY <1>4, RedirectionIs DEF FileKinds
  <2>2. apply_file_redirect(c, x)
        \in {Created(c, x.to), Breaks(c), ToFile(Created(c, x.to), z, x.to, FALSE)}
    BY <1>4 DEF apply_file_redirect, ReadAndWriteKind
  <2>3. Follows(c, Created(c, x.to))
    BY <2>1, CreatedIs
  <2>4. Follows(Created(c, x.to), ToFile(Created(c, x.to), z, x.to, FALSE))
    <3>1. Created(c, x.to) \in Carries /\ FALSE \in BOOLEAN
      BY <2>3 DEF Follows
    <3> DEFINE a == FALSE
               b == Created(c, x.to)
    <3>2. a \in BOOLEAN /\ b \in Carries
      BY <3>1
    <3> HIDE DEF a, b
    <3>3. Follows(b, ToFile(b, z, x.to, a))
      BY <2>1, <3>2, ToFileIs
    <3>4. QED
      BY <3>3 DEF a, b
  <2> DEFINE b == Created(c, x.to)
             e == ToFile(Created(c, x.to), z, x.to, FALSE)
  <2> HIDE DEF b, e
  <2>5. /\ Follows(c, b) /\ Follows(b, e)
        /\ \/ apply_file_redirect(c, x) = b \/ apply_file_redirect(c, x) = Breaks(c)
           \/ apply_file_redirect(c, x) = e
    BY <2>2, <2>3, <2>4 DEF b, e
  <2>6. QED
    BY <2>5, FollowsOn, FollowsMoves, BreaksIs
<1>5. CASE x.kind \in {"Read", "Here"}
  <2>1. apply_file_redirect(c, x) = c
    BY <1>5 DEF apply_file_redirect
  <2>2. QED
    BY <2>1, FollowsSelf, FollowsMoves
<1>6. QED
  BY <1>2, <1>3, <1>4, <1>5, RedirectionIs DEF FileKinds, DupKinds

LEMMA OutputAndErrorIs ==
  ASSUME NEW c \in Carries, NEW x \in Redirection, x.kind \in {"Both", "BothAppend"}
  PROVE  Moves(c, OutputAndError(c, x), x)
<1>1. x.to \in Target
  BY RedirectionIs DEF FileKinds
<1>2. OutputAndError(c, x)
      \in {Stop(Complain(Clear(c, 1))), BothTo(c, x.to, TRUE), BothTo(c, x.to, FALSE)}
  <2>1. CASE x.kind = "Both"
    <3>1. (x.kind = "BothAppend") = FALSE
      BY <2>1
    <3>2. OutputAndError(c, x)
          \in {Stop(Complain(Clear(c, 1))), BothTo(c, x.to, x.kind = "BothAppend")}
      BY DEF OutputAndError
    <3>3. QED
      BY <3>1, <3>2
  <2>2. CASE x.kind = "BothAppend"
    <3>1. (x.kind = "BothAppend") = TRUE
      BY <2>2
    <3>2. OutputAndError(c, x)
          \in {Stop(Complain(Clear(c, 1))), BothTo(c, x.to, x.kind = "BothAppend")}
      BY DEF OutputAndError
    <3>3. QED
      BY <3>1, <3>2
  <2>3. QED
    BY <2>1, <2>2
<1>3. QED
  BY <1>1, <1>2, RefusalIs, BothToIs, FollowsMoves

LEMMA NamedIs ==
  ASSUME NEW x \in Redirection
  PROVE  Named(x) \subseteq Fds
BY FdOrIs, LowFds DEF Named

LEMMA OutputMovedIs ==
  ASSUME NEW c \in Carries, NEW x \in Redirection
  PROVE  OutputMoved(c, x) \in Carries /\ Moves(c, OutputMoved(c, x), x)
<1> DEFINE d == [c EXCEPT !.seen = @ \cup Named(x)]
<1>1. d \in Carries /\ d.s = c.s /\ d.r = c.r
  BY NamedIs DEF Carries
<1>2. OutputMoved(c, x) = IF ~c.go THEN c
                          ELSE IF x.kind \in {"Both", "BothAppend"} THEN OutputAndError(d, x)
                          ELSE apply_file_redirect(d, x)
  BY DEF OutputMoved
<1> HIDE DEF d
<1>3. \A e : Moves(d, e, x) => Moves(c, e, x)
  BY <1>1 DEF Moves
<1>4. Moves(c, c, x)
  BY FollowsSelf, FollowsMoves
<1>5. x.kind \in {"Both", "BothAppend"} => Moves(c, OutputAndError(d, x), x)
  BY <1>1, <1>3, OutputAndErrorIs
<1>6. x.kind \notin {"Both", "BothAppend"} => Moves(c, apply_file_redirect(d, x), x)
  BY <1>1, <1>3, FileRedirectIs
<1>7. Moves(c, OutputMoved(c, x), x)
  BY <1>2, <1>4, <1>5, <1>6
<1>8. QED
  BY <1>7 DEF Moves

\* What the list has carried to its end, and what exec has kept, is given back.
Ended(c) ==
  LET done == apply_persistent_fd_fallback(c)
  IN  [s |-> done.s, r |-> [done.r EXCEPT !.stderr = @ \o done.late]]

OutputRun(f, rs, r, s) ==
  /\ f \in [0..Len(rs) -> Carries] /\ f[0] = Start(r, s)
  /\ \A i \in 1..Len(rs) : f[i] = OutputMoved(f[i - 1], rs[i])

LEMMA OutputRunIs ==
  ASSUME NEW rs \in Seq(Redirection), NEW r \in Result, NEW s \in Shells
  PROVE  \E f : OutputRun(f, rs, r, s) /\ apply_output_redirects(rs, r, s) = Ended(f[Len(rs)])
<1> DEFINE K == Len(rs)
           Step(e, i) == OutputMoved(e, rs[i])
           G == [q \in (1..K) \X Carries |-> Step(q[2], q[1])]
           P(f) == f = [i \in 0..K |-> IF i = 0 THEN Start(r, s) ELSE Step(f[i - 1], i)]
           upto == CHOOSE f : P(f)
<1>1. K \in Nat /\ Start(r, s) \in Carries
  BY StartIs
<1>2. \A i \in 1..K, e \in Carries : Step(e, i) \in Carries
  BY OutputMovedIs
<1>3. apply_output_redirects(rs, r, s) = Ended(upto[K])
  BY DEF apply_output_redirects, Ended
<1>4. \A i, e : Step(e, i) = OutputMoved(e, rs[i])
  OBVIOUS
<1> HIDE DEF K, Step
<1>5. G \in [(1..K) \X Carries -> Carries]
  BY <1>2
<1>6. PICK f : Recurs(f, Carries, Start(r, s), G, K)
  <2> HIDE DEF G
  <2> QED BY <1>1, <1>5, RecursionExists
<1>7. f \in [0..K -> Carries] /\ f[0] = Start(r, s)
  BY <1>6 DEF Recurs
<1>8. \A i \in 1..K : f[i] = Step(f[i - 1], i)
  <2> SUFFICES ASSUME NEW i \in 1..K PROVE f[i] = Step(f[i - 1], i)
    OBVIOUS
  <2>1. f[i - 1] \in Carries /\ f[i] = G[<<i, f[i - 1]>>]
    <3> HIDE DEF G
    <3> QED BY <1>1, <1>6, <1>7 DEF Recurs
  <2>2. QED
    BY <2>1
<1>9. P(f)
  BY <1>1, <1>7, <1>8
<1>10. P(upto)
  <2> HIDE DEF P
  <2> QED BY <1>9
<1> HIDE DEF upto
<1>11. /\ DOMAIN upto = 0..K /\ upto[0] = Start(r, s)
       /\ \A i \in 1..K : upto[i] = Step(upto[i - 1], i)
  BY <1>1, <1>10
<1>12. 0..K \subseteq {i \in 0..K : upto[i] = f[i]}
  <2> DEFINE S == {i \in 0..K : upto[i] = f[i]}
  <2> SUFFICES 0..K \subseteq S
    OBVIOUS
  <2>1. 0 \in S
    BY <1>1, <1>7, <1>11
  <2>2. SUFFICES ASSUME NEW m \in 1..K, m \notin S, m - 1 \in S PROVE FALSE
    <3> HIDE DEF S
    <3> QED BY <1>1, <2>1, LeastFailure
  <2>3. QED
    BY <1>1, <1>8, <1>11, <2>2
<1>13. upto[K] = f[K]
  BY <1>1, <1>12
<1>14. OutputRun(f, rs, r, s)
  BY <1>4, <1>7, <1>8 DEF OutputRun, K
<1>15. QED
  BY <1>3, <1>13, <1>14 DEF K

LEMMA SentOnIs ==
  ASSUME NEW c \in Carries, NEW n
  PROVE  Follows(c, SentOn(c, n))
<1>1. /\ Follows(c, c) /\ Follows(c, Clear(c, n)) /\ Follows(c, OutToErr(c))
      /\ Follows(c, ErrBeforeOut(c))
  BY FollowsSelf, ClearIs, StreamsIntoStreams
<1>2. CASE KeptType(c, n) = "OutputFile"
  <2>1. c.s.fds[n] \in Descriptor /\ c.s.fds[n].type = "OutputFile"
    BY <1>2, CarryParts, ShellParts DEF KeptType, Partial
  <2> DEFINE p == c.s.fds[n].path
             e == ToFile(c, n, p, TRUE)
  <2>2. p \in Target
    BY <2>1 DEF Descriptor
  <2>3. \A append \in BOOLEAN : Follows(c, ToFile(c, n, p, append))
    BY <2>2, ToFileIs
  <2>4. Follows(c, e)
    BY <2>3
  <2>5. SentOn(c, n) = c \/ SentOn(c, n) = e
    BY <1>2 DEF SentOn
  <2> HIDE DEF e
  <2>6. QED
    BY <1>1, <2>4, <2>5
<1>3. CASE KeptType(c, n) # "OutputFile"
  <2>1. SentOn(c, n) \in {OutToErr(c), ErrBeforeOut(c), Clear(c, n), c}
    BY <1>3 DEF SentOn
  <2>2. QED
    BY <1>1, <2>1
<1>4. QED
  BY <1>2, <1>3

LEMMA EndedIs ==
  ASSUME NEW c \in Carries
  PROVE  /\ Ended(c).s \in Shells /\ Ended(c).r \in Result /\ Ended(c).s.fds = c.s.fds
         /\ Ended(c).r.code \in {c.r.code, 1}
<1> DEFINE a == SentOn(c, 1)
           b == SentOn(a, 2)
<1>1. Follows(c, b)
  <2>1. Follows(c, a) /\ Follows(a, b)
    BY SentOnIs DEF Follows
  <2>2. QED
    BY <2>1, FollowsOn
<1>2. Ended(c) = [s |-> b.s, r |-> [b.r EXCEPT !.stderr = b.r.stderr \o b.late]]
  BY DEF Ended, apply_persistent_fd_fallback
<1> HIDE DEF a, b
<1>3. b.r \in Result /\ b.r.stderr \o b.late \in Texts /\ b.s \in Shells
  BY <1>1, CarryParts, TextsAre DEF Follows
<1>4. /\ [b.r EXCEPT !.stderr = b.r.stderr \o b.late] \in Result
      /\ [b.r EXCEPT !.stderr = b.r.stderr \o b.late].code = b.r.code
  BY <1>3 DEF Result
<1>5. /\ Ended(c).s = b.s
      /\ Ended(c).r = [b.r EXCEPT !.stderr = b.r.stderr \o b.late]
  BY <1>2
<1>6. b.s.fds = c.s.fds /\ b.r.code \in {c.r.code, 1}
  BY <1>1 DEF Follows
<1>7. QED
  BY <1>3, <1>4, <1>5, <1>6

LEMMA OutputIs ==
  ASSUME NEW rs \in Seq(Redirection), NEW r \in Result, NEW s \in Shells
  PROVE  LET done == apply_output_redirects(rs, r, s)
         IN  done.s \in Shells /\ done.r \in Result
<1>1. PICK f : OutputRun(f, rs, r, s) /\ apply_output_redirects(rs, r, s) = Ended(f[Len(rs)])
  BY OutputRunIs
<1>2. f[Len(rs)] \in Carries
  BY <1>1 DEF OutputRun
<1>3. QED
  BY <1>1, <1>2, EndedIs

(***************************************************************************)
(* Commands.                                                               *)
(***************************************************************************)
LEMMA ExecIs ==
  ASSUME NEW rs \in Seq(Redirection), NEW s \in Shells
  PROVE  exec_persistent_redirects(rs, s) \in Shells
<1>1. PICK f : ExecRun(f, rs, s) /\ exec_persistent_redirects(rs, s) = f[Len(rs)]
  BY ExecRunIs
<1>2. QED
  BY <1>1 DEF ExecRun

LEMMA AllocIs ==
  ASSUME NEW rs \in Seq(Redirection), NEW s \in Shells, s.next \in Fds
  PROVE  exec_fd_variable_alloc(rs, s) \in Shells
<1> DEFINE taken == [s EXCEPT !.next = @ + 1, !.var = s.next]
           named == {i \in DOMAIN rs : rs[i].kind \notin {"Both", "BothAppend", "Here"}}
<1>1. taken \in Shells
  <2>1. s.next + 1 \in FirstAutoFd..(MaxFd + 1) /\ s.next \in FdArg
    BY ShellParts, FdAssumption DEF FdArg, Fds
  <2>2. taken = [s EXCEPT !.next = s.next + 1, !.var = s.next]
    OBVIOUS
  <2>3. QED
    BY <2>1, <2>2, FieldsEdit
<1>2. s.var # NoFd => Close(s, s.var) \in Shells
  BY ShellParts, CloseIs DEF FdArg
<1>3. ASSUME named # {} PROVE Opens(taken, s.next, rs[Min(named)]) \in Shells
  <2>1. named \subseteq Nat
    OBVIOUS
  <2>2. \E m \in named : \A k \in named : m <= k
    <3> HIDE DEF named
    <3> QED BY <1>3, <2>1, LeastNatural
  <2>3. Min(named) \in named
    <3> HIDE DEF named
    <3> QED BY <2>2 DEF Min
  <2> DEFINE r == rs[Min(named)]
  <2>4. r \in Redirection
    BY <2>3
  <2> HIDE DEF r, taken, named
  <2>5. CASE r.kind \in {"Write", "Clobber", "Append", "Read", "ReadAndWrite"}
    <3>1. r.to \in Target
      BY <2>4, <2>5, RedirectionIs DEF FileKinds
    <3>2. /\ Opened(taken, s.next, r.to) \in Shells
          /\ OpenedAtEnd(taken, s.next, r.to) \in Shells
          /\ OpenedForInput(taken, s.next, r.to) \in Shells
          /\ OpenedForBoth(taken, s.next, r.to) \in Shells
      BY <1>1, <3>1, OpenedIs
    <3>3. Opens(taken, s.next, r) \in Shells
      BY <2>5, <3>2 DEF Opens, OpenedForInput
    <3>4. QED
      BY <3>3 DEF r
  <2>6. CASE r.kind \notin {"Write", "Clobber", "Append", "Read", "ReadAndWrite"}
    <3>1. Opens(taken, s.next, r) = taken
      BY <2>6 DEF Opens
    <3>2. QED
      BY <1>1, <3>1 DEF r
  <2>7. QED
    BY <2>5, <2>6
<1>4. exec_fd_variable_alloc(rs, s)
      = IF Closes(rs) THEN (IF s.var = NoFd THEN s ELSE Close(s, s.var))
        ELSE IF named = {} THEN taken ELSE Opens(taken, s.next, rs[Min(named)])
  BY DEF exec_fd_variable_alloc
<1> HIDE DEF named, taken
<1>5. QED
  BY <1>1, <1>2, <1>3, <1>4

LEMMA CommitIs ==
  ASSUME NEW s \in Shells, NEW origin \in Fds \cup {AtStdin, Temporary}
  PROVE  commit_read_input_consumption(s, origin) \in Shells
<1>1. CASE origin = AtStdin
  <2>1. s.at + 1 \in Nat
    BY ShellParts
  <2>2. commit_read_input_consumption(s, origin) = [s EXCEPT !.at = s.at + 1]
    BY ONLY <1>1 DEF commit_read_input_consumption, AtStdin, Temporary
  <2> DEFINE k == s.at + 1
  <2> HIDE DEF k
  <2>3. k \in Nat /\ commit_read_input_consumption(s, origin) = [s EXCEPT !.at = k]
    BY <2>1, <2>2 DEF k
  <2>4. QED
    BY <2>3, FieldsEdit
<1>2. CASE origin = Temporary
  BY <1>2 DEF commit_read_input_consumption, AtStdin, Temporary
<1>3. CASE origin \notin {AtStdin, Temporary}
  <2> DEFINE k == Offset(s, origin) + 1
  <2>1. k \in Nat /\ origin \in Fds
    BY <1>3, OffsetIs
  <2>2. commit_read_input_consumption(s, origin) = [s EXCEPT !.offsets = Put(@, origin, k)]
    BY <1>3 DEF commit_read_input_consumption
  <2> HIDE DEF k
  <2>3. Partial(Put(s.offsets, origin, k), Fds, Nat)
    BY <2>1, ShellParts, PutPartial
  <2>4. QED
    BY <2>2, <2>3, OffsetsEdit
<1>4. QED
  BY <1>1, <1>2, <1>3

LEMMA SilentIs ==
  Silent \in Result /\ Fails \in Result /\ [Fails EXCEPT !.stderr = <<Message>>] \in Result
BY TextsAre DEF Silent, Fails, Result

LEMMA ReadIs ==
  ASSUME NEW u \in FdArg, NEW s \in Shells, NEW stdin \in Texts, NEW in
  PROVE  LET done == builtin_read(u, s, stdin, in)
         IN  done.s \in Shells /\ done.r \in Result
<1> DEFINE input == resolve_read_input(u, s, stdin, in)
<1>1. default_read_input(s, stdin).origin \in Fds \cup {AtStdin, Temporary}
  BY ShellParts DEF default_read_input, FromFd, FdArg
<1>2. input.origin \in Fds \cup {AtStdin, Temporary}
  <2>1. CASE u = NoFd
    <3>1. input = default_read_input(s, stdin)
      BY <2>1 DEF resolve_read_input
    <3>2. QED
      BY <1>1, <3>1
  <2>2. CASE u # NoFd /\ u \in DOMAIN in.texts
    <3>1. input = [data |-> in.texts[u], origin |-> Temporary]
      BY <2>2 DEF resolve_read_input
    <3>2. QED
      BY <3>1
  <2>3. CASE u = 0 /\ u \notin DOMAIN in.texts
    <3>1. input = default_read_input(s, stdin)
      BY <2>3 DEF resolve_read_input, NoFd
    <3>2. QED
      BY <1>1, <3>1
  <2>4. CASE u # NoFd /\ u # 0 /\ u \notin DOMAIN in.texts
    <3>1. input = IF u \in DOMAIN s.fds THEN FromFd(s, u, stdin)
                  ELSE [data |-> <<>>, origin |-> Temporary]
      BY <2>4 DEF resolve_read_input
    <3>2. QED
      BY <2>4, <3>1 DEF FromFd, FdArg
  <2>5. QED
    BY <2>1, <2>2, <2>3, <2>4
<1>3. builtin_read(u, s, stdin, in)
      = IF input.data = <<>> THEN [s |-> s, r |-> Fails]
        ELSE [s |-> commit_read_input_consumption(s, input.origin), r |-> Silent]
  BY DEF builtin_read
<1> HIDE DEF input
<1>4. QED
  BY <1>2, <1>3, CommitIs, SilentIs

Command ==
  [c : {"emit"}, r : Result] \cup [c : {"read"}, u : FdArg] \cup [c : {"cat", "exec", "alloc"}]

LEMMA DispatchIs ==
  ASSUME NEW cmd \in Command, NEW rs \in Seq(Redirection), NEW s \in Shells,
         NEW stdin \in Texts, NEW in, cmd.c = "alloc" => s.next \in Fds
  PROVE  LET done == dispatch_command(cmd, rs, s, stdin, in)
         IN  done.s \in Shells /\ done.r \in Result
<1>1. CASE cmd \in [c : {"emit"}, r : Result]
  BY <1>1 DEF dispatch_command
<1>2. CASE cmd \in [c : {"read"}, u : FdArg]
  BY <1>2, ReadIs DEF dispatch_command
<1>3. CASE cmd \in [c : {"cat", "exec", "alloc"}]
  <2>1. CASE cmd.c = "cat"
    <3>1. [Silent EXCEPT !.stdout = stdin] \in Result
      BY SilentIs DEF Result
    <3>2. QED
      BY <2>1, <3>1 DEF dispatch_command
  <2>2. CASE cmd.c = "exec"
    BY <2>2, ExecIs, SilentIs DEF dispatch_command
  <2>3. CASE cmd.c = "alloc"
    BY <2>3, AllocIs, SilentIs DEF dispatch_command
  <2>4. QED
    BY <1>3, <2>1, <2>2, <2>3
<1>4. QED
  BY <1>1, <1>2, <1>3 DEF Command

(***************************************************************************)
(* A simple command, and the commands that run others.                     *)
(***************************************************************************)
LEMMA MergedIs ==
  ASSUME NEW rs, NEW s \in Shells
  PROVE  Partial(Merged(rs, s.fds), Fds, Descriptor)
BY ShellParts, PutPartial, DescriptorsAre, LowFds DEF Merged

LEMMA SourceIs ==
  ASSUME NEW rs \in Seq(Redirection), NEW s \in Shells
  PROVE  redirected_stdin_persistent_fd(rs, s) \in FdArg
<1> DEFINE Feeds(i) == IsInput(rs[i]) /\ FdOr(rs[i], 0) = 0
           Kept(i)  == /\ Feeds(i) /\ \A j \in DOMAIN rs : j > i => ~Feeds(j)
                       /\ rs[i].kind = "DuplicateInput" /\ rs[i].how = "fd"
                       /\ rs[i].from \in DOMAIN s.fds
           k == CHOOSE i \in DOMAIN rs : Kept(i)
<1>1. redirected_stdin_persistent_fd(rs, s)
      = IF \E i \in DOMAIN rs : Kept(i) THEN rs[k].from ELSE NoFd
  BY DEF redirected_stdin_persistent_fd
<1>2. ASSUME \E i \in DOMAIN rs : Kept(i) PROVE rs[k].from \in Fds
  <2>1. k \in DOMAIN rs /\ Kept(k)
    <3> HIDE DEF Kept
    <3> QED BY <1>2
  <2>2. rs[k].from \in DOMAIN s.fds
    BY <2>1
  <2>3. QED
    BY <2>2, ShellParts DEF Partial
<1> HIDE DEF Kept, k
<1>3. QED
  BY <1>1, <1>2 DEF FdArg

LEMMA BeforeIs ==
  ASSUME NEW rs \in Seq(Redirection), NEW s \in Shells, NEW in
  PROVE  /\ Before(rs, s, in) \in Shells
         /\ Before(rs, s, in).fds = Merged(rs, s.fds) /\ Before(rs, s, in).next = s.next
<1> DEFINE m == Merged(rs, s.fds)
           t == [s EXCEPT !.fds = m]
           v == redirected_stdin_persistent_fd(rs, t)
           k == IF 0 \in DOMAIN in.texts THEN 0 ELSE s.at
<1>1. t \in Shells
  BY MergedIs, FdsEdit
<1>2. v \in FdArg
  <2> HIDE DEF t
  <2> QED BY <1>1, SourceIs
<1>3. k \in Nat
  BY ShellParts
<1>4. Before(rs, s, in) = [[t EXCEPT !.at = k] EXCEPT !.source = v]
  BY DEF Before, Shells
<1>5. t.fds = m /\ t.next = s.next
  BY DEF Shells
<1> HIDE DEF t, v, k, m
<1>6. QED
  BY <1>1, <1>2, <1>3, <1>4, <1>5 DEF Shells, m

LEMMA AfterIs ==
  ASSUME NEW rs \in Seq(Redirection), NEW s \in Shells, NEW was \in Shells, NEW fresh
  PROVE  /\ After(rs, s, was, fresh) \in Shells
         /\ ~MergesStderr(rs) => After(rs, s, was, fresh).fds = s.fds
<1> DEFINE g == IF ~MergesStderr(rs) THEN s.fds
                ELSE IF 2 \in DOMAIN was.fds THEN Put(s.fds, 2, was.fds[2])
                ELSE Without(s.fds, 2)
           k == IF fresh THEN was.at ELSE s.at
           t == [s EXCEPT !.fds = g]
<1>1. Partial(g, Fds, Descriptor)
  <2>1. 2 \in DOMAIN was.fds => was.fds[2] \in Descriptor
    BY ShellParts DEF Partial
  <2>2. QED
    BY <2>1, ShellParts, PutPartial, WithoutIs, LowFds
<1>2. After(rs, s, was, fresh) = [[t EXCEPT !.at = k] EXCEPT !.source = was.source]
  BY DEF After, Shells
<1>3. k \in Nat /\ was.source \in FdArg
  BY ShellParts
<1>4. ~MergesStderr(rs) => g = s.fds
  OBVIOUS
<1> HIDE DEF g
<1>5. t \in Shells /\ t.fds = g
  BY <1>1, FdsEdit DEF Shells
<1> HIDE DEF t, k
<1>6. QED
  BY <1>2, <1>3, <1>4, <1>5 DEF Shells

LEMMA SimpleIs ==
  ASSUME NEW cmd \in Command, NEW rs \in Seq(Redirection), NEW s \in Shells,
         NEW stdin \in Texts, cmd.c = "alloc" => s.next \in Fds
  PROVE  LET done == execute_simple_command(cmd, rs, s, stdin)
         IN  done.s \in Shells /\ done.r \in Result
<1> DEFINE in == collect_input_redirects(rs, s, stdin)
           b == Before(rs, s, in)
           done == dispatch_command(cmd, rs, b, Effective(in, stdin), in)
           fresh == 0 \in DOMAIN in.texts
           a == After(rs, done.s, s, fresh)
           fail == [Fails EXCEPT !.stderr = <<Message>>]
<1>1. execute_simple_command(cmd, rs, s, stdin)
      = IF ~in.ok THEN apply_output_redirects(rs, fail, s)
        ELSE apply_output_redirects(rs, done.r, a)
  BY DEF execute_simple_command
<1>2. Effective(in, stdin) \in Texts
  BY InputIs
<1> HIDE DEF in
<1>3. b \in Shells /\ b.next = s.next
  BY BeforeIs
<1> HIDE DEF b
<1>4. done.s \in Shells /\ done.r \in Result
  BY <1>2, <1>3, DispatchIs
<1> HIDE DEF done, fresh
<1>5. a \in Shells
  BY <1>4, AfterIs
<1>6. fail \in Result
  BY SilentIs
<1> HIDE DEF a, fail
<1>7. QED
  BY <1>1, <1>4, <1>5, <1>6, OutputIs

LEMMA TruncatedIs ==
  ASSUME NEW rs \in Seq(Redirection), NEW s \in Shells
  PROVE  pre_truncate_output_files(rs, s) \in Shells
<1> DEFINE emptied == {rs[i].to : i \in {j \in DOMAIN rs :
                                       /\ rs[j].kind \in {"Write", "Clobber", "Both"}
                                       /\ ~is_special_dev_path(rs[j].to)}}
           g == [p \in emptied \cup DOMAIN s.files |->
                   IF p \in emptied THEN <<>> ELSE s.files[p]]
<1>1. emptied \subseteq Target
  <2> SUFFICES ASSUME NEW i \in DOMAIN rs, rs[i].kind \in {"Write", "Clobber", "Both"}
               PROVE  rs[i].to \in Target
    OBVIOUS
  <2>1. rs[i] \in Redirection
    OBVIOUS
  <2>2. QED
    BY <2>1, RedirectionIs DEF FileKinds
<1>2. pre_truncate_output_files(rs, s) = [s EXCEPT !.files = g]
  BY DEF pre_truncate_output_files
<1> HIDE DEF emptied
<1>3. Partial(g, Target, Texts)
  BY <1>1, ShellParts, TextsAre DEF Partial
<1> HIDE DEF g
<1>4. QED
  BY <1>2, <1>3, FilesEdit

LEMMA BeginsIs ==
  ASSUME NEW kind \in {"group", "call", "subshell"}, NEW rs \in Seq(Redirection), NEW in,
         shell \in Shells
  PROVE  Begins(kind, rs, in) \in Shells
<1>1. CASE kind = "call"
  <2>1. NoFd \in FdArg
    BY DEF FdArg
  <2> DEFINE b == Before(rs, shell, in)
             v == NoFd
  <2>2. Begins(kind, rs, in) = [b EXCEPT !.source = v]
    BY <1>1 DEF Begins
  <2>3. b \in Shells
    BY BeforeIs
  <2>4. v \in FdArg
    BY <2>1
  <2> HIDE DEF b, v
  <2>5. QED
    BY <2>2, <2>3, <2>4, FieldsEdit
<1>2. CASE kind = "group"
  <2> DEFINE k == IF 0 \in DOMAIN in.texts THEN 0 ELSE shell.at
             v == redirected_stdin_persistent_fd(rs, shell)
             a == [shell EXCEPT !.at = k]
             b == [a EXCEPT !.source = v]
  <2>1. Begins(kind, rs, in) = pre_truncate_output_files(rs, b)
    BY <1>2 DEF Begins, Shells
  <2>2. k \in Nat /\ v \in FdArg
    BY ShellParts, SourceIs
  <2> HIDE DEF k, v
  <2>3. a \in Shells
    BY <2>2, FieldsEdit
  <2> HIDE DEF a
  <2>4. b \in Shells
    BY <2>2, <2>3, FieldsEdit
  <2> HIDE DEF b
  <2>5. QED
    BY <2>1, <2>4, TruncatedIs
<1>3. CASE kind = "subshell"
  <2> DEFINE c == pre_truncate_output_files(rs, shell)
             k == 0
             v == NoFd
             a == [c EXCEPT !.at = k]
             b == [a EXCEPT !.source = v]
  <2>1. c \in Shells /\ k \in Nat /\ v \in FdArg
    BY TruncatedIs DEF FdArg
  <2>2. Begins(kind, rs, in) = b
    BY <1>3 DEF Begins
  <2> HIDE DEF c, k, v
  <2>3. a \in Shells
    BY <2>1, FieldsEdit
  <2> HIDE DEF a
  <2>4. b \in Shells
    BY <2>1, <2>3, FieldsEdit
  <2>5. QED
    BY <2>2, <2>4
<1>4. QED
  BY <1>1, <1>2, <1>3

LEMMA EndsIs ==
  ASSUME NEW f \in Frames, NEW s \in Shells, f.kind # "program"
  PROVE  Ends(f, s) \in Shells
<1>1. f.was \in Shells /\ f.rs \in Seq(Redirection) /\ f.kind \in {"group", "call", "subshell"}
  BY DEF Frames
<1>2. f.was.at \in Nat /\ f.was.source \in FdArg
  BY <1>1, ShellParts
<1>3. CASE f.kind = "call"
  <2> DEFINE k == f.was.at
             t == [s EXCEPT !.at = k]
             fresh == f.fresh
  <2>1. Ends(f, s) = After(f.rs, t, f.was, fresh)
    BY <1>3 DEF Ends
  <2>2. k \in Nat
    BY <1>2
  <2>3. t \in Shells
    <3> HIDE DEF k
    <3> QED BY <2>2, FieldsEdit
  <2> HIDE DEF t, fresh
  <2>4. QED
    BY <1>1, <2>1, <2>3, AfterIs
<1>4. CASE f.kind = "group"
  <2>1. Ends(f, s) = [s EXCEPT !.at = f.was.at, !.source = f.was.source]
    BY <1>4 DEF Ends
  <2>2. QED
    BY <1>2, <2>1 DEF Shells
<1>5. CASE f.kind = "subshell"
  <2>1. Ends(f, s) = pre_truncate_output_files(f.rs, f.was)
    BY <1>5 DEF Ends
  <2>2. QED
    BY <1>1, <2>1, TruncatedIs
<1>6. QED
  BY <1>1, <1>3, <1>4, <1>5

(***************************************************************************)
(* Every step keeps the types.                                             *)
(***************************************************************************)
Stack(q) ==
  /\ q \in Seq(Frames) /\ q # <<>>
  /\ \A i \in DOMAIN q : q[i].kind = "program" <=> i = 1
Typed == shell \in Shells /\ Stack(frames) /\ steps \in 0..MaxSteps

LEMMA FramesAre ==
  ASSUME NEW f
  PROVE  f \in Frames <=> FrameOK(f)
<1>1. ASSUME f \in Frames PROVE FrameOK(f)
  BY <1>1, ShellsAre DEF Frames, FrameOK
<1>2. ASSUME FrameOK(f) PROVE f \in Frames
  BY <1>2, ShellsAre DEF Frames, FrameOK
<1>3. QED
  BY <1>1, <1>2

LEMMA TypedIsTypeOK == Typed => TypeOK
<1> SUFFICES ASSUME Typed PROVE TypeOK
  OBVIOUS
<1> DEFINE S == {f \in {frames[i] : i \in DOMAIN frames} : FrameOK(f)}
<1>1. frames \in Seq(Frames) /\ frames # <<>>
  BY DEF Typed, Stack
<1>2. \A i \in 1..Len(frames) : frames[i] \in S
  BY <1>1, FramesAre
<1> HIDE DEF S
<1>3. frames \in Seq(S)
  BY <1>1, <1>2
<1>4. QED
  BY <1>1, <1>3, ShellsAre DEF Typed, Stack, TypeOK, S

LEMMA TopIs ==
  ASSUME Typed
  PROVE  /\ Top \in Frames /\ Top = frames[Len(frames)] /\ Len(frames) \in DOMAIN frames
         /\ Top.stdin \in Texts /\ Top.rs \in Seq(Redirection) /\ Top.r \in Result
<1>1. frames \in Seq(Frames) /\ frames # <<>>
  BY DEF Typed, Stack
<1>2. Top = frames[Len(frames)] /\ Len(frames) \in DOMAIN frames
  BY <1>1 DEF Top, Last
<1>3. Top \in Frames
  BY <1>1, <1>2
<1>4. Top.stdin \in Texts /\ Top.rs \in Seq(Redirection) /\ Top.r \in Result
  BY <1>3 DEF Frames
<1>5. QED
  BY <1>2, <1>3, <1>4

\* What the command below gathers of a result keeps the stack.
LEMMA GatheredIs ==
  ASSUME NEW q, Stack(q), NEW k \in DOMAIN q, NEW r \in Result
  PROVE  Stack([q EXCEPT ![k].r = [stdout |-> @.stdout \o r.stdout,
                                   stderr |-> @.stderr \o r.stderr, code |-> r.code]])
<1> DEFINE g == [stdout |-> q[k].r.stdout \o r.stdout,
                 stderr |-> q[k].r.stderr \o r.stderr, code |-> r.code]
           e == [q[k] EXCEPT !.r = g]
           new == [q EXCEPT ![k] = e]
<1>1. q \in Seq(Frames) /\ q[k] \in Frames /\ q[k].r \in Result
  <2>1. q \in Seq(Frames) /\ q[k] \in Frames
    BY DEF Stack
  <2>2. QED
    BY <2>1 DEF Frames
<1>2. g \in Result
  <2>1. q[k].r.stdout \in Texts /\ q[k].r.stderr \in Texts /\ r.stdout \in Texts
        /\ r.stderr \in Texts /\ r.code \in Nat
    BY <1>1 DEF Result
  <2>2. QED
    BY <2>1, TextsAre DEF Result
<1>3. [q EXCEPT ![k].r = [stdout |-> @.stdout \o r.stdout,
                          stderr |-> @.stderr \o r.stderr, code |-> r.code]] = new
  OBVIOUS
<1> HIDE DEF g
<1>4. e \in Frames /\ e.kind = q[k].kind
  BY <1>1, <1>2 DEF Frames
<1> HIDE DEF e
<1>5. new \in Seq(Frames) /\ new # <<>> /\ DOMAIN new = DOMAIN q
  BY <1>1, <1>4 DEF Stack
<1>6. \A i \in DOMAIN new : new[i].kind = q[i].kind
  BY <1>1, <1>4
<1>7. Stack(new)
  BY <1>5, <1>6 DEF Stack
<1>8. QED
  BY <1>3, <1>7

LEMMA RunsTyped ==
  ASSUME Typed, NEW cmd \in Command, NEW rs \in Seq(Redirection), Runs(cmd, rs),
         cmd.c = "alloc" => shell.next \in Fds
  PROVE  Typed'
<1> DEFINE done == execute_simple_command(cmd, rs, shell, Top.stdin)
<1>1. done.s \in Shells /\ done.r \in Result
  BY TopIs, SimpleIs DEF Typed
<1>2. /\ steps < MaxSteps /\ shell' = done.s /\ frames' = Gathered(done.r) /\ steps' = steps + 1
  BY DEF Runs
<1> HIDE DEF done
<1>3. Stack(Gathered(done.r))
  BY <1>1, TopIs, GatheredIs DEF Gathered, Typed
<1>4. steps' \in 0..MaxSteps
  BY <1>2, ScriptAssumption DEF Typed
<1>5. QED
  BY <1>1, <1>2, <1>3, <1>4 DEF Typed

LEMMA InitTyped == Init => Typed
<1> SUFFICES ASSUME Init PROVE Typed
  OBVIOUS
<1>1. PICK c \in BOOLEAN :
        shell = [files |-> Files, fds |-> << >>, offsets |-> << >>, next |-> FirstAutoFd,
                 var |-> NoFd, at |-> 0, source |-> NoFd, noclobber |-> c]
  BY DEF Init
<1>2. Partial(<< >>, Fds, Descriptor) /\ Partial(<< >>, Fds, Nat)
  BY DEF Partial
<1>3. Partial(Files, Target, Texts) /\ FirstAutoFd \in FirstAutoFd..(MaxFd + 1) /\ NoFd \in FdArg
  BY ScriptAssumption, FdAssumption DEF FdArg
<1>4. shell \in Shells
  BY <1>1, <1>2, <1>3, ShellOf
<1> DEFINE f == [kind |-> "program", rs |-> <<>>, stdin |-> Input, fresh |-> TRUE, r |-> Silent,
                 was |-> shell]
<1>5. f \in Frames
  <2>1. <<>> \in Seq(Redirection) /\ Input \in Texts
    BY ScriptAssumption
  <2>2. QED
    BY <1>4, <2>1, SilentIs DEF Frames
<1>6. frames = <<f>> /\ f.kind = "program"
  BY DEF Init
<1> HIDE DEF f
<1>7. Stack(frames)
  BY <1>5, <1>6 DEF Stack
<1>8. steps \in 0..MaxSteps
  BY ScriptAssumption DEF Init
<1>9. QED
  BY <1>4, <1>7, <1>8 DEF Typed

LEMMA EnterTyped ==
  ASSUME Typed, NEW kind \in {"group", "call", "subshell"}, Enter(kind)
  PROVE  Typed'
<1>1. PICK rs \in Compound :
        LET in == collect_input_redirects(rs, shell, Top.stdin) IN
        /\ steps < MaxSteps /\ Len(frames) < MaxFrames
        /\ in.ok
        /\ shell' = Begins(kind, rs, in)
        /\ frames' = Append(frames, [kind |-> kind, rs |-> rs, stdin |-> Effective(in, Top.stdin),
                                     fresh |-> 0 \in DOMAIN in.texts, r |-> Silent, was |-> shell])
        /\ steps' = steps + 1
  BY DEF Enter
<1> DEFINE in == collect_input_redirects(rs, shell, Top.stdin)
           text == Effective(in, Top.stdin)
           fresh == 0 \in DOMAIN in.texts
           f == [kind |-> kind, rs |-> rs, stdin |-> text, fresh |-> fresh, r |-> Silent,
                 was |-> shell]
<1>2. rs \in Seq(Redirection)
  BY ScriptAssumption
<1>3. text \in Texts
  BY <1>2, TopIs, InputIs DEF Typed
<1>4. shell' \in Shells
  BY <1>1, <1>2, BeginsIs DEF Typed
<1>5. fresh \in BOOLEAN
  OBVIOUS
<1>6. frames' = Append(frames, f)
  BY <1>1
<1> HIDE DEF fresh, text
<1>7. f \in Frames /\ f.kind # "program"
  BY <1>2, <1>3, <1>5, SilentIs DEF Frames, Typed
<1> HIDE DEF f
<1>8. Stack(frames')
  BY <1>6, <1>7 DEF Typed, Stack
<1>9. steps' \in 0..MaxSteps
  BY <1>1, ScriptAssumption DEF Typed
<1>10. QED
  BY <1>4, <1>8, <1>9 DEF Typed

LEMMA LeaveTyped ==
  ASSUME Typed, Leave
  PROVE  Typed'
<1> DEFINE left == apply_output_redirects(Top.rs, Top.r, Ends(Top, shell))
           below == frames[Len(frames) - 1]
           g == [stdout |-> below.r.stdout \o left.r.stdout,
                 stderr |-> below.r.stderr \o left.r.stderr, code |-> left.r.code]
           k == Len(frames) - 1
           q == Front(frames)
<1>1. /\ Len(frames) > 1 /\ shell' = left.s /\ frames' = [q EXCEPT ![k].r = g] /\ steps' = steps
  BY DEF Leave
<1>2. frames \in Seq(Frames) /\ frames # <<>>
      /\ \A i \in DOMAIN frames : frames[i].kind = "program" <=> i = 1
  BY DEF Typed, Stack
<1>3. Top.kind # "program"
  BY <1>1, <1>2, TopIs
<1>4. Ends(Top, shell) \in Shells
  BY <1>3, TopIs, EndsIs DEF Typed
<1>5. left.s \in Shells /\ left.r \in Result
  BY <1>4, TopIs, OutputIs
<1>6. q \in Seq(Frames) /\ q # <<>> /\ DOMAIN q = 1..k /\ k \in DOMAIN q
      /\ \A i \in DOMAIN q : q[i] = frames[i]
  <2>1. q = SubSeq(frames, 1, k) /\ k \in 1..Len(frames)
    BY <1>1, <1>2 DEF Front
  <2> HIDE DEF q, k
  <2>2. q \in Seq(Frames) /\ Len(q) = k /\ \A i \in 1..k : q[i] = frames[i]
    BY <1>2, <2>1, SubSeqProperties
  <2>3. QED
    BY <2>1, <2>2
<1>7. Stack(q) /\ q[k] = below
  BY <1>1, <1>2, <1>6 DEF Stack
<1> HIDE DEF left, q, k, below
<1>8. Stack([q EXCEPT ![k].r = [stdout |-> @.stdout \o left.r.stdout,
                                stderr |-> @.stderr \o left.r.stderr, code |-> left.r.code]])
  BY <1>5, <1>6, <1>7, GatheredIs
<1>9. Stack(frames')
  BY <1>1, <1>6, <1>7, <1>8
<1>10. QED
  BY <1>1, <1>5, <1>9 DEF Typed

LEMMA NextTyped ==
  ASSUME Typed, [Next]_vars
  PROVE  Typed'
<1>1. Simple \cup Persistent \cup Allocated \cup Compound \subseteq Seq(Redirection)
      /\ Emits \subseteq Result
  BY ScriptAssumption
<1>2. CASE Emit
  <2>1. PICK r \in Emits, rs \in Simple : Runs([c |-> "emit", r |-> r], rs)
    BY <1>2 DEF Emit
  <2>2. [c |-> "emit", r |-> r] \in Command /\ [c |-> "emit", r |-> r].c # "alloc"
    BY <1>1 DEF Command
  <2>3. QED
    BY <1>1, <2>1, <2>2, RunsTyped
<1>3. CASE Cat
  <2>1. PICK rs \in Simple : Runs([c |-> "cat"], rs)
    BY <1>3 DEF Cat
  <2>2. [c |-> "cat"] \in Command /\ [c |-> "cat"].c # "alloc"
    BY DEF Command
  <2>3. QED
    BY <1>1, <2>1, <2>2, RunsTyped
<1>4. CASE Read
  <2>1. PICK u \in {NoFd} \cup DOMAIN shell.fds, rs \in Simple :
          Runs([c |-> "read", u |-> u], rs)
    BY <1>4 DEF Read
  <2>2. u \in FdArg
    BY ShellParts DEF FdArg, Typed, Partial
  <2>3. [c |-> "read", u |-> u] \in Command /\ [c |-> "read", u |-> u].c # "alloc"
    BY <2>2 DEF Command
  <2>4. QED
    BY <1>1, <2>1, <2>3, RunsTyped
<1>5. CASE Exec
  <2>1. PICK rs \in Persistent : Runs([c |-> "exec"], rs)
    BY <1>5 DEF Exec
  <2>2. [c |-> "exec"] \in Command /\ [c |-> "exec"].c # "alloc"
    BY DEF Command
  <2>3. QED
    BY <1>1, <2>1, <2>2, RunsTyped
<1>6. CASE Alloc
  <2>1. PICK rs \in Allocated : shell.next <= MaxFd /\ Runs([c |-> "alloc"], rs)
    BY <1>6 DEF Alloc
  <2>2. [c |-> "alloc"] \in Command
    BY DEF Command
  <2>3. shell.next \in Fds
    BY <2>1, ShellParts, FdAssumption DEF Typed, Fds
  <2>4. QED
    BY <1>1, <2>1, <2>2, <2>3, RunsTyped
<1>7. CASE Enter("group") \/ Enter("call") \/ Enter("subshell")
  BY <1>7, EnterTyped
<1>8. CASE Leave
  BY <1>8, LeaveTyped
<1>9. CASE UNCHANGED vars
  BY <1>9 DEF Typed, vars
<1>10. QED
  BY <1>2, <1>3, <1>4, <1>5, <1>6, <1>7, <1>8, <1>9 DEF Next

\* Typing is inductive: the shell and what every open command will give back, so
\* that it still holds when a group, a call or a subshell ends.
THEOREM AlwaysTyped == Spec => []Typed
<1>1. Init => Typed
  BY InitTyped
<1>2. Typed /\ [Next]_vars => Typed'
  BY NextTyped
<1>3. QED
  BY <1>1, <1>2, PTL DEF Spec

\* No script leaves the types: persistent descriptors are files, nothing or one of
\* the shell's three streams, offsets are positions in a text, and the descriptors
\* exec {var} hands out are in order.
THEOREM TypeCorrect == Spec => []TypeOK
BY AlwaysTyped, TypedIsTypeOK, PTL

(***************************************************************************)
(* Tables.                                                                 *)
(***************************************************************************)
Leads  == Target \cup Streams \cup {Lost, In, Bad}
Tables == [Fds -> Leads]

LEMMA LeadingIs ==
  ASSUME NEW d \in Descriptor
  PROVE  Leading(d) \in Leads \ {Bad}
<1>1. Target \cap {Bad} = {} /\ \A n \in 0..2 : Stream(n) \in Leads \ {Bad}
  <2>1. Target \cap {Bad} = {}
    BY NameAssumption
  <2>2. ASSUME NEW n \in 0..2 PROVE Stream(n) \in Leads \ {Bad}
    <3>1. Stream(n) \in {In, "stdout", "stderr"}
      BY <2>2 DEF Stream
    <3>2. QED
      BY <3>1 DEF Leads, Streams, In, Bad
  <2>3. QED
    BY <2>1, <2>2
<1>2. CASE d \in [type : {"OutputFile", "InputFile", "ReadWriteFile"}, path : Target]
  <2>1. d.path \in Leads \ {Bad} /\ In \in Leads \ {Bad}
    BY <1>1, <1>2 DEF Leads, In, Bad
  <2>2. d.type \in {"OutputFile", "InputFile", "ReadWriteFile"}
    BY <1>2
  <2>3. Leading(d) = d.path \/ Leading(d) = In
    BY <2>2 DEF Leading
  <2>4. QED
    BY <2>1, <2>3
<1>3. CASE d \in [type : {"DevNull", "Closed"}]
  <2>1. Leading(d) = Lost
    BY <1>3 DEF Leading
  <2>2. QED
    BY <2>1 DEF Leads, Lost, Bad
<1>4. CASE d \in [type : {"DupStdFd"}, fd : 0..2]
  <2>1. Leading(d) = Stream(d.fd) /\ d.fd \in 0..2
    BY <1>4 DEF Leading
  <2>2. QED
    BY <1>1, <2>1
<1>5. QED
  BY <1>2, <1>3, <1>4 DEF Descriptor

LEMMA LeadIs ==
  ASSUME NEW s \in Shells
  PROVE  /\ Lead(s) \in Tables
         /\ \A n \in Fds : n \in DOMAIN s.fds => Lead(s)[n] = Leading(s.fds[n])
         /\ \A n \in Fds : n \notin DOMAIN s.fds => Lead(s)[n] = Stream(n)
         /\ \A n \in Fds : Lead(s)[n] = Bad <=> n \notin DOMAIN s.fds /\ n > 2
<1>1. \A n \in Fds : /\ Stream(n) \in Leads
                     /\ Stream(n) = Bad <=> n > 2
  BY FdAssumption DEF Stream, Leads, Streams, In, Bad, Fds
<1>2. \A n \in Fds : n \in DOMAIN s.fds => Leading(s.fds[n]) \in Leads \ {Bad}
  BY ShellParts, LeadingIs DEF Partial
<1>3. \A n \in Fds : Lead(s)[n] = IF n \in DOMAIN s.fds THEN Leading(s.fds[n]) ELSE Stream(n)
  BY DEF Lead
<1>4. Lead(s) = [n \in Fds |-> Lead(s)[n]]
  BY DEF Lead
<1>5. \A n \in Fds : Lead(s)[n] \in Leads
  BY <1>1, <1>2, <1>3
<1>6. Lead(s) \in Tables
  BY <1>4, <1>5 DEF Tables
<1>7. QED
  BY <1>1, <1>2, <1>3, <1>6

LEMMA SameLead ==
  ASSUME NEW s, NEW t, s.fds = t.fds
  PROVE  Lead(s) = Lead(t)
BY DEF Lead

\* A descriptor that is set leads where it is set to.
PutAt(s, t, n, d) == t \in Shells /\ t.fds = Put(s.fds, n, d)
Turned(table, n, v) == [table EXCEPT ![n] = v]

LEMMA LeadPut ==
  ASSUME NEW s, NEW t, NEW n \in Fds, NEW d, PutAt(s, t, n, d)
  PROVE  Lead(t) = Turned(Lead(s), n, Leading(d))
<1>1. DOMAIN t.fds = {n} \cup DOMAIN s.fds /\ t.fds[n] = d
      /\ \A m \in DOMAIN s.fds : m # n => t.fds[m] = s.fds[m]
  BY DEF Put, PutAt
<1>2. ASSUME NEW m \in Fds PROVE Lead(t)[m] = [Lead(s) EXCEPT ![n] = Leading(d)][m]
  <2>1. /\ Lead(t)[m] = IF m \in DOMAIN t.fds THEN Leading(t.fds[m]) ELSE Stream(m)
        /\ Lead(s)[m] = IF m \in DOMAIN s.fds THEN Leading(s.fds[m]) ELSE Stream(m)
    BY DEF Lead
  <2>2. [Lead(s) EXCEPT ![n] = Leading(d)][m] = IF m = n THEN Leading(d) ELSE Lead(s)[m]
    BY DEF Lead
  <2>3. CASE m = n
    BY <1>1, <2>1, <2>2, <2>3
  <2>4. CASE m # n /\ m \in DOMAIN s.fds
    <3>1. t.fds[m] = s.fds[m] /\ m \in DOMAIN t.fds
      BY <1>1, <2>4
    <3>2. QED
      BY <2>1, <2>2, <2>4, <3>1
  <2>5. CASE m # n /\ m \notin DOMAIN s.fds
    <3>1. m \notin DOMAIN t.fds
      BY <1>1, <2>5
    <3>2. QED
      BY <2>1, <2>2, <2>5, <3>1
  <2>6. QED
    BY <2>3, <2>4, <2>5
<1>3. Lead(t) = [m \in Fds |-> Lead(t)[m]]
      /\ [Lead(s) EXCEPT ![n] = Leading(d)]
         = [m \in Fds |-> [Lead(s) EXCEPT ![n] = Leading(d)][m]]
  BY DEF Lead
<1>4. QED
  BY <1>2, <1>3 DEF Turned

LEMMA PathLeadsIs ==
  ASSUME NEW table \in Tables, NEW p \in Target
  PROVE  PathLeads(table, p) \in Leads
BY LowFds DEF PathLeads, Tables, Leads

LEMMA RedirectedIs ==
  ASSUME NEW table \in Tables, NEW r \in Redirection
  PROVE  Redirected(table, r) \in Tables
<1> DEFINE n == FdOr(r, IF IsInput(r) THEN 0 ELSE 1)
<1>1. n \in Fds
  BY FdOrIs, LowFds
<1>2. In \in Leads /\ Lost \in Leads
  BY DEF Leads
<1> HIDE DEF n
<1>3. \A k, m \in Fds, v, w \in Leads :
        [table EXCEPT ![k] = v] \in Tables /\ [table EXCEPT ![k] = v, ![m] = w] \in Tables
  BY DEF Tables
<1>4. CASE r.kind \in FileKinds
  <2>1. PathLeads(table, r.to) \in Leads
    BY <1>4, RedirectionIs, PathLeadsIs
  <2>2. QED
    BY <1>1, <1>2, <1>3, <1>4, <2>1, LowFds DEF Redirected, FileKinds, n
<1>5. CASE r.kind \in DupKinds
  <2>1. r.from \in Fds /\ r.how \in {"fd", "close", "move", "word"} /\ table[r.from] \in Leads
    BY <1>5, RedirectionIs DEF Tables
  <2>2. r.how = "word" => r.to \in Leads /\ PathLeads(table, r.to) \in Leads
    BY <1>5, RedirectionIs, PathLeadsIs DEF Leads
  <2>3. QED
    BY <1>1, <1>2, <1>3, <1>5, <2>1, <2>2, LowFds DEF Redirected, DupKinds, n
<1>6. CASE r.kind = "Here"
  BY <1>1, <1>2, <1>3, <1>6 DEF Redirected, n
<1>7. QED
  BY <1>4, <1>5, <1>6, RedirectionIs

TableRun(f, rs, table) ==
  /\ f \in [0..Len(rs) -> Tables] /\ f[0] = table
  /\ \A i \in 1..Len(rs) : f[i] = Redirected(f[i - 1], rs[i])

LEMMA TableRunIs ==
  ASSUME NEW rs \in Seq(Redirection), NEW table \in Tables
  PROVE  \E f : TableRun(f, rs, table) /\ Table(rs, table) = f[Len(rs)]
<1> DEFINE K == Len(rs)
           Step(e, i) == Redirected(e, rs[i])
           G == [q \in (1..K) \X Tables |-> Step(q[2], q[1])]
           P(f) == f = [i \in 0..K |-> IF i = 0 THEN table ELSE Step(f[i - 1], i)]
           upto == CHOOSE f : P(f)
<1>1. K \in Nat /\ table \in Tables
  OBVIOUS
<1>2. \A i \in 1..K, e \in Tables : Step(e, i) \in Tables
  BY RedirectedIs
<1>3. Table(rs, table) = upto[K]
  BY DEF Table
<1>4. \A i, e : Step(e, i) = Redirected(e, rs[i])
  OBVIOUS
<1> HIDE DEF K, Step
<1>5. G \in [(1..K) \X Tables -> Tables]
  BY <1>2
<1>6. PICK f : Recurs(f, Tables, table, G, K)
  <2> HIDE DEF G
  <2> QED BY <1>1, <1>5, RecursionExists
<1>7. f \in [0..K -> Tables] /\ f[0] = table
  BY <1>6 DEF Recurs
<1>8. \A i \in 1..K : f[i] = Step(f[i - 1], i)
  <2> SUFFICES ASSUME NEW i \in 1..K PROVE f[i] = Step(f[i - 1], i)
    OBVIOUS
  <2>1. f[i - 1] \in Tables /\ f[i] = G[<<i, f[i - 1]>>]
    <3> HIDE DEF G
    <3> QED BY <1>1, <1>6, <1>7 DEF Recurs
  <2>2. QED
    BY <2>1
<1>9. P(f)
  BY <1>1, <1>7, <1>8
<1>10. P(upto)
  <2> HIDE DEF P
  <2> QED BY <1>9
<1> HIDE DEF upto
<1>11. /\ DOMAIN upto = 0..K /\ upto[0] = table
       /\ \A i \in 1..K : upto[i] = Step(upto[i - 1], i)
  BY <1>1, <1>10
<1>12. 0..K \subseteq {i \in 0..K : upto[i] = f[i]}
  <2> DEFINE S == {i \in 0..K : upto[i] = f[i]}
  <2> SUFFICES 0..K \subseteq S
    OBVIOUS
  <2>1. 0 \in S
    BY <1>1, <1>7, <1>11
  <2>2. SUFFICES ASSUME NEW m \in 1..K, m \notin S, m - 1 \in S PROVE FALSE
    <3> HIDE DEF S
    <3> QED BY <1>1, <2>1, LeastFailure
  <2>3. QED
    BY <1>1, <1>8, <1>11, <2>2
<1>13. upto[K] = f[K]
  BY <1>1, <1>12
<1>14. TableRun(f, rs, table)
  BY <1>4, <1>7, <1>8 DEF TableRun, K
<1>15. QED
  BY <1>3, <1>13, <1>14 DEF K

(***************************************************************************)
(* What exec makes of the descriptors.                                     *)
(***************************************************************************)
LEMMA PointFds ==
  ASSUME NEW s \in Shells, NEW n, NEW d, NEW k
  PROVE  Point(s, n, d, k).fds = Put(s.fds, n, d)
BY DEF Point, Shells

LEMMA CloseFds ==
  ASSUME NEW s \in Shells, NEW n
  PROVE  Close(s, n).fds = Put(s.fds, n, Closed)
BY DEF Close, Shells

LEMMA WriteFds ==
  ASSUME NEW s \in Shells, NEW p, NEW t
  PROVE  write_file(s, p, t).fds = s.fds
BY DEF write_file, Shells

\* The redirections whose meaning exec keeps (see Taken).
ExecPlain(r) ==
  /\ r.kind # "Here" /\ ~(r.kind = "ReadAndWrite" /\ r.to = Null)
  /\ ~IsDup(r) => r.to \notin Devices \ {Null}
  /\ IsDup(r) => /\ r.how # "word"
                 /\ r.how = "move" => /\ r.from \notin 0..2 /\ r.kind # "DuplicateInput"
                                      /\ r.from # r.fd
                 /\ ~(r.how = "fd" /\ r.kind = "DuplicateInput" /\ r.from \in {1, 2})

OutTo(p)  == IF p = Null THEN DevNull ELSE OutputFile(p)
InFrom(p) == IF p = Null THEN DevNull ELSE InputFile(p)

LEMMA OpenedFds ==
  ASSUME NEW s \in Shells, NEW n \in Fds, NEW p \in Target, p \notin Devices \ {Null}
  PROVE  /\ PutAt(s, Opened(s, n, p), n, OutTo(p))
         /\ PutAt(s, OpenedAtEnd(s, n, p), n, OutTo(p))
         /\ PutAt(s, OpenedForInput(s, n, p), n, InFrom(p))
         /\ p # Null => PutAt(s, OpenedForBoth(s, n, p), n, ReadWriteFile(p))
<1>1. p \notin {Stdout, Stderr}
  BY DEF Devices, Null, Stdout, Stderr
<1>2. write_file(s, p, <<>>) \in Shells
  BY WriteFileIs, TextsAre
<1>3. Opened(s, n, p).fds = Put(s.fds, n, OutTo(p))
  <2>1. CASE p = Null
    <3>1. Opened(s, n, p) = Point(s, n, DevNull, 0)
      BY <1>1, <2>1 DEF Opened
    <3>2. QED
      BY <2>1, <3>1, PointFds DEF OutTo
  <2>2. CASE p # Null
    <3>1. Opened(s, n, p) = Point(write_file(s, p, <<>>), n, OutputFile(p), 0)
      BY <1>1, <2>2 DEF Opened
    <3>2. QED
      BY <1>2, <2>2, <3>1, PointFds, WriteFds DEF OutTo
  <2>3. QED
    BY <2>1, <2>2
<1>4. OpenedAtEnd(s, n, p).fds = Put(s.fds, n, OutTo(p))
  BY <1>1, PointFds DEF OpenedAtEnd, OutTo
<1>5. OpenedForInput(s, n, p).fds = Put(s.fds, n, InFrom(p))
  BY PointFds DEF OpenedForInput, InFrom
<1>6. OpenedForBoth(s, n, p).fds = Put(s.fds, n, ReadWriteFile(p))
  <2> DEFINE t == IF exists(s, p) THEN s ELSE write_file(s, p, <<>>)
  <2>1. t \in Shells /\ t.fds = s.fds
    BY <1>2, WriteFds
  <2>2. OpenedForBoth(s, n, p) = Point(t, n, ReadWriteFile(p), 0)
    BY DEF OpenedForBoth
  <2> HIDE DEF t
  <2>3. QED
    BY <2>1, <2>2, PointFds
<1>7. QED
  BY <1>3, <1>4, <1>5, <1>6, OpenedIs DEF PutAt

LEMMA LeadingOf ==
  /\ Leading(DevNull) = Lost /\ Leading(Closed) = Lost
  /\ \A p : /\ Leading(OutputFile(p)) = p /\ Leading(ReadWriteFile(p)) = p
            /\ Leading(InputFile(p)) = In
  /\ \A n : Leading(DupStdFd(n)) = Stream(n)
BY DEF Leading, DevNull, Closed, OutputFile, ReadWriteFile, InputFile, DupStdFd

LEMMA PlainPathLeads ==
  ASSUME NEW table, NEW p, p \notin Devices \ {Null}
  PROVE  PathLeads(table, p) = IF p = Null THEN Lost ELSE p
BY DEF PathLeads, Devices, Null, Zero, Stdout, Stderr

LEMMA FileStep ==
  ASSUME NEW s \in Shells, NEW r \in Redirection, r.kind \in FileKinds, ExecPlain(r)
  PROVE  Lead(PersistentRedirect(s, r)) = Redirected(Lead(s), r)
<1> DEFINE p == r.to
           out == OutTo(p)
           in  == InFrom(p)
           t == PersistentRedirect(s, r)
<1>1. p \in Target /\ p \notin Devices \ {Null} /\ (r.kind = "ReadAndWrite" => p # Null)
  BY RedirectionIs DEF ExecPlain, IsDup, FileKinds
<1>2. FdOr(r, 0) \in Fds /\ FdOr(r, 1) \in Fds /\ 1 \in Fds /\ 2 \in Fds
  BY FdOrIs, LowFds
<1>3. /\ Leading(out) = PathLeads(Lead(s), p)
      /\ Leading(in) = IF p = Null THEN Lost ELSE In
      /\ p # Null => Leading(ReadWriteFile(p)) = PathLeads(Lead(s), p)
  BY <1>1, LeadingOf, PlainPathLeads DEF OutTo, InFrom
<1> HIDE DEF p, t
<1>4. CASE r.kind \in {"Write", "Clobber"}
  <2>1. PutAt(s, t, FdOr(r, 1), out)
    <3>1. t = Opened(s, FdOr(r, 1), p)
      BY <1>4 DEF PersistentRedirect, DupKinds, t, p
    <3>2. QED
      BY <1>1, <1>2, <3>1, OpenedFds
  <2>2. Redirected(Lead(s), r) = Turned(Lead(s), FdOr(r, 1), PathLeads(Lead(s), p))
    BY <1>4 DEF Redirected, IsInput, Turned, p
  <2> HIDE DEF out
  <2>3. Lead(t) = Turned(Lead(s), FdOr(r, 1), Leading(out))
    BY <1>2, <2>1, LeadPut
  <2>4. QED
    BY <1>3, <2>2, <2>3 DEF t
<1>5. CASE r.kind = "Append"
  <2>1. PutAt(s, t, FdOr(r, 1), out)
    <3>1. t = OpenedAtEnd(s, FdOr(r, 1), p)
      BY <1>5 DEF PersistentRedirect, DupKinds, t, p
    <3>2. QED
      BY <1>1, <1>2, <3>1, OpenedFds
  <2>2. Redirected(Lead(s), r) = Turned(Lead(s), FdOr(r, 1), PathLeads(Lead(s), p))
    BY <1>5 DEF Redirected, IsInput, Turned, p
  <2> HIDE DEF out
  <2>3. Lead(t) = Turned(Lead(s), FdOr(r, 1), Leading(out))
    BY <1>2, <2>1, LeadPut
  <2>4. QED
    BY <1>3, <2>2, <2>3 DEF t
<1>6. CASE r.kind = "Read"
  <2>1. PutAt(s, t, FdOr(r, 0), in)
    <3>1. t = OpenedForInput(s, FdOr(r, 0), p)
      BY <1>6 DEF PersistentRedirect, DupKinds, t, p
    <3>2. QED
      BY <1>1, <1>2, <3>1, OpenedFds
  <2>2. Redirected(Lead(s), r) = Turned(Lead(s), FdOr(r, 0), IF p = Null THEN Lost ELSE In)
    BY <1>6 DEF Redirected, IsInput, Turned, p
  <2> HIDE DEF in
  <2>3. Lead(t) = Turned(Lead(s), FdOr(r, 0), Leading(in))
    BY <1>2, <2>1, LeadPut
  <2>4. QED
    BY <1>3, <2>2, <2>3 DEF t
<1>7. CASE r.kind = "ReadAndWrite"
  <2>1. PutAt(s, t, FdOr(r, 0), ReadWriteFile(p))
    <3>1. t = OpenedForBoth(s, FdOr(r, 0), p)
      BY <1>7 DEF PersistentRedirect, DupKinds, t, p
    <3>2. QED
      BY <1>1, <1>2, <1>7, <3>1, OpenedFds
  <2>2. Redirected(Lead(s), r) = Turned(Lead(s), FdOr(r, 0), PathLeads(Lead(s), p))
    BY <1>7 DEF Redirected, IsInput, Turned, p
  <2>3. Lead(t) = Turned(Lead(s), FdOr(r, 0), Leading(ReadWriteFile(p)))
    BY <1>2, <2>1, LeadPut
  <2>4. QED
    BY <1>1, <1>3, <1>7, <2>2, <2>3 DEF t
<1>8. CASE r.kind \in {"Both", "BothAppend"}
  <2> DEFINE u == Point(s, 1, out, 0)
  <2>1. t = Point(u, 2, out, 0)
    <3>1. t = PersistentBoth(s, p)
      BY <1>8 DEF PersistentRedirect, DupKinds, t, p
    <3>2. PersistentBoth(s, p) = Point(Point(s, 1, OutTo(p), 0), 2, OutTo(p), 0)
      BY DEF PersistentBoth, OutTo
    <3>3. QED
      BY <3>1, <3>2
  <2>2. out \in Descriptor
    <3>1. DevNull \in Descriptor /\ OutputFile(p) \in Descriptor
      BY <1>1, DescriptorsAre
    <3>2. QED
      BY <3>1 DEF OutTo
  <2>3. Redirected(Lead(s), r)
        = Turned(Turned(Lead(s), 1, PathLeads(Lead(s), p)), 2, PathLeads(Lead(s), p))
    BY <1>8 DEF Redirected, Turned, p
  <2> HIDE DEF out
  <2>4. PutAt(s, u, 1, out)
    BY <1>2, <2>2, PointType, PointFds DEF PutAt
  <2> HIDE DEF u
  <2>5. PutAt(u, t, 2, out)
    BY <1>2, <2>1, <2>2, <2>4, PointType, PointFds DEF PutAt
  <2>6. Lead(u) = Turned(Lead(s), 1, Leading(out))
    BY <1>2, <2>4, LeadPut
  <2>7. Lead(t) = Turned(Lead(u), 2, Leading(out))
    BY <1>2, <2>5, LeadPut
  <2>8. QED
    BY <1>3, <2>3, <2>6, <2>7 DEF t
<1>9. QED
  BY <1>4, <1>5, <1>6, <1>7, <1>8 DEF FileKinds

LEMMA CopiedPut ==
  ASSUME NEW s \in Shells, NEW n \in Fds, NEW m \in Fds, m \in DOMAIN s.fds
  PROVE  /\ PutAt(s, Copied(s, n, m), n, s.fds[m])
         /\ Leading(s.fds[m]) = Lead(s)[m]
BY CopiedIs, PointFds, LeadIs DEF PutAt, Copied

DupStd(s, n, m) == [s EXCEPT !.fds = Put(@, n, DupStdFd(m)), !.offsets = Without(@, n)]

LEMMA DupStdPut ==
  ASSUME NEW s \in Shells, NEW n \in Fds, NEW m \in {0, 1, 2}, m \notin DOMAIN s.fds
  PROVE  /\ PutAt(s, Point(s, n, DupStdFd(0), s.at), n, DupStdFd(0))
         /\ PutAt(s, DupStd(s, n, m), n, DupStdFd(m))
         /\ Leading(DupStdFd(m)) = Lead(s)[m]
<1>1. DupStdFd(0) \in Descriptor /\ DupStdFd(m) \in Descriptor /\ s.at \in Nat
  BY DescriptorsAre, ShellParts
<1>2. PutAt(s, Point(s, n, DupStdFd(0), s.at), n, DupStdFd(0))
  BY <1>1, PointType, PointFds DEF PutAt
<1> DEFINE t == DupStd(s, n, m)
<1>3. t \in Shells
  BY <1>1, PointIs DEF DupStd
<1>4. t.fds = Put(s.fds, n, DupStdFd(m))
  BY DEF Shells, DupStd
<1>5. PutAt(s, t, n, DupStdFd(m))
  BY <1>3, <1>4 DEF PutAt
<1>6. Leading(DupStdFd(m)) = Lead(s)[m]
  BY LeadIs, LeadingOf, LowFds
<1>7. QED
  BY <1>2, <1>5, <1>6

\* A duplicate leads where its source leads.
Sent(s, t, n, m) == \E d : PutAt(s, t, n, d) /\ Leading(d) = Lead(s)[m]

LEMMA CopiedOutputPut ==
  ASSUME NEW s \in Shells, NEW n \in Fds, NEW m \in Fds, Lead(s)[m] # Bad
  PROVE  Sent(s, CopiedOutput(s, n, m), n, m)
<1>1. CASE m \in DOMAIN s.fds
  <2>1. CopiedOutput(s, n, m) = Copied(s, n, m)
    BY <1>1 DEF CopiedOutput
  <2>2. QED
    BY <1>1, <2>1, CopiedPut DEF Sent
<1>2. CASE m = 0 /\ m \notin DOMAIN s.fds
  <2>1. CopiedOutput(s, n, m) = Point(s, n, DupStdFd(0), s.at)
    BY <1>2 DEF CopiedOutput
  <2>2. QED
    BY <1>2, <2>1, DupStdPut DEF Sent
<1>3. CASE m \in {1, 2} \ DOMAIN s.fds
  <2>1. CopiedOutput(s, n, m) = DupStd(s, n, m)
    BY <1>3 DEF CopiedOutput, DupStd
  <2>2. /\ PutAt(s, CopiedOutput(s, n, m), n, DupStdFd(m))
        /\ Leading(DupStdFd(m)) = Lead(s)[m]
    BY <1>3, <2>1, DupStdPut
  <2>3. QED
    BY <2>2 DEF Sent
<1>4. m \in DOMAIN s.fds \/ m \in {0, 1, 2}
  BY LeadIs DEF Fds
<1>5. QED
  BY <1>1, <1>2, <1>3, <1>4

LEMMA CopiedInputPut ==
  ASSUME NEW s \in Shells, NEW n \in Fds, NEW m \in Fds \ {1, 2}, Lead(s)[m] # Bad
  PROVE  Sent(s, CopiedInput(s, n, m), n, m)
<1>1. CASE m \in DOMAIN s.fds
  <2>1. CopiedInput(s, n, m) = Copied(s, n, m)
    BY <1>1 DEF CopiedInput
  <2>2. QED
    BY <1>1, <2>1, CopiedPut DEF Sent
<1>2. CASE m = 0 /\ m \notin DOMAIN s.fds
  <2>1. CopiedInput(s, n, m) = Point(s, n, DupStdFd(0), s.at)
    BY <1>2 DEF CopiedInput
  <2>2. QED
    BY <1>2, <2>1, DupStdPut DEF Sent
<1>3. m \in DOMAIN s.fds \/ m \in {0, 1, 2}
  BY LeadIs DEF Fds
<1>4. QED
  BY <1>1, <1>2, <1>3

LEMMA SentLead ==
  ASSUME NEW s, NEW t, NEW n \in Fds, NEW m, Sent(s, t, n, m)
  PROVE  Lead(t) = Turned(Lead(s), n, Lead(s)[m])
BY LeadPut DEF Sent

LEMMA ClosePut ==
  ASSUME NEW s \in Shells, NEW n \in Fds
  PROVE  PutAt(s, Close(s, n), n, Closed)
BY CloseIs, CloseFds DEF PutAt

DupFd(r) == FdOr(r, IF r.kind = "DuplicateOutput" THEN 1 ELSE 0)

LEMMA DupTable ==
  ASSUME NEW table, NEW r, r.kind \in DupKinds
  PROVE  /\ r.how = "close" => Redirected(table, r) = Turned(table, DupFd(r), Lost)
         /\ r.how = "fd" => Redirected(table, r) = Turned(table, DupFd(r), table[r.from])
         /\ r.how = "move" => Redirected(table, r)
                              = Turned(Turned(table, DupFd(r), table[r.from]), r.from, Lost)
<1>1. DupFd(r) = FdOr(r, IF IsInput(r) THEN 0 ELSE 1)
  <2>1. CASE r.kind = "DuplicateOutput"
    BY <2>1 DEF DupFd, IsInput, FdOr
  <2>2. CASE r.kind = "DuplicateInput"
    BY <2>2 DEF DupFd, IsInput, FdOr
  <2>3. QED
    BY <2>1, <2>2 DEF DupKinds
<1> DEFINE n == FdOr(r, IF IsInput(r) THEN 0 ELSE 1)
<1>2. r.how = "close" => Redirected(table, r) = [table EXCEPT ![n] = Lost]
  BY DEF Redirected, DupKinds
<1>3. r.how = "fd" => Redirected(table, r) = [table EXCEPT ![n] = table[r.from]]
  BY DEF Redirected, DupKinds
<1>4. r.how = "move" => Redirected(table, r)
                        = [table EXCEPT ![n] = table[r.from], ![r.from] = Lost]
  BY DEF Redirected, DupKinds
<1> HIDE DEF n
<1>5. n = DupFd(r)
  BY <1>1 DEF n
<1>6. QED
  BY <1>2, <1>3, <1>4, <1>5 DEF Turned

LEMMA DupStep ==
  ASSUME NEW s \in Shells, NEW r \in Redirection, r.kind \in DupKinds, ExecPlain(r),
         r.how = "close" \/ Lead(s)[r.from] # Bad
  PROVE  Lead(PersistentRedirect(s, r)) = Redirected(Lead(s), r)
<1> DEFINE n == DupFd(r)
           m == r.from
           t == PersistentRedirect(s, r)
<1>1. n \in Fds /\ m \in Fds /\ r.how \in {"fd", "close", "move"}
  <2>1. n \in Fds
    <3>1. CASE r.kind = "DuplicateOutput"
      BY <3>1, FdOrIs, LowFds DEF DupFd
    <3>2. CASE r.kind # "DuplicateOutput"
      BY <3>2, FdOrIs, LowFds DEF DupFd
    <3>3. QED
      BY <3>1, <3>2
  <2>2. QED
    BY <2>1, RedirectionIs DEF ExecPlain, IsDup, DupKinds
<1>2. t = PersistentDup(s, r)
  BY DEF PersistentRedirect, DupKinds
<1>3. /\ r.how = "close" => PersistentDup(s, r) = Close(s, n)
      /\ r.how = "fd" /\ r.kind = "DuplicateOutput" => PersistentDup(s, r) = CopiedOutput(s, n, m)
      /\ r.how = "fd" /\ r.kind = "DuplicateInput" => PersistentDup(s, r) = CopiedInput(s, n, m)
      /\ r.how = "move" /\ r.kind = "DuplicateOutput" => PersistentDup(s, r) = MovedFd(s, n, m)
  BY DEF PersistentDup, DupFd
<1>4. CASE r.how = "close"
  <2>1. Lead(t) = Turned(Lead(s), n, Leading(Closed))
    BY <1>1, <1>2, <1>3, <1>4, ClosePut, LeadPut
  <2>2. QED
    BY <1>4, <2>1, LeadingOf, DupTable
<1>5. CASE r.how = "fd" /\ r.kind = "DuplicateOutput"
  <2>1. Sent(s, t, n, m)
    BY <1>1, <1>2, <1>3, <1>5, CopiedOutputPut
  <2>2. Lead(t) = Turned(Lead(s), n, Lead(s)[m])
    BY <1>1, <2>1, SentLead
  <2>3. QED
    BY <1>5, <2>2, DupTable
<1>6. CASE r.how = "fd" /\ r.kind = "DuplicateInput"
  <2>1. m \in Fds \ {1, 2}
    BY <1>1, <1>6 DEF ExecPlain, IsDup
  <2>2. Sent(s, t, n, m)
    BY <1>1, <1>2, <1>3, <1>6, <2>1, CopiedInputPut
  <2>3. Lead(t) = Turned(Lead(s), n, Lead(s)[m])
    BY <1>1, <2>2, SentLead
  <2>4. QED
    BY <1>6, <2>3, DupTable
<1>7. CASE r.how = "move"
  <2>1. r.kind = "DuplicateOutput" /\ m \notin 0..2
    BY <1>7 DEF ExecPlain, IsDup, DupKinds
  <2>2. m \in DOMAIN s.fds
    BY <1>1, <1>7, <2>1, LeadIs DEF Fds
  <2> DEFINE u == Copied(s, n, m)
  <2>3. t = Close(u, m)
    BY <1>2, <1>3, <1>7, <2>1, <2>2 DEF MovedFd
  <2>4. PutAt(s, u, n, s.fds[m]) /\ Leading(s.fds[m]) = Lead(s)[m]
    BY <1>1, <2>2, CopiedPut
  <2> HIDE DEF u, n, m, t
  <2>5. Lead(u) = Turned(Lead(s), n, Lead(s)[m])
    BY <1>1, <2>4, LeadPut
  <2>6. Lead(t) = Turned(Lead(u), m, Leading(Closed))
    BY <1>1, <2>3, <2>4, ClosePut, LeadPut DEF PutAt
  <2>7. Redirected(Lead(s), r) = Turned(Turned(Lead(s), n, Lead(s)[m]), m, Lost)
    BY <1>7, DupTable DEF n, m
  <2>8. QED
    BY <2>5, <2>6, <2>7, LeadingOf DEF t
<1>8. QED
  BY <1>1, <1>4, <1>5, <1>6, <1>7 DEF DupKinds

LEMMA TurnedIs ==
  ASSUME NEW table \in Tables, NEW n \in Fds, NEW v
  PROVE  /\ Turned(table, n, v)[n] = v
         /\ \A m \in Fds \ {n} : Turned(table, n, v)[m] = table[m]
         /\ v \in Leads => Turned(table, n, v) \in Tables
BY DEF Turned, Tables

LEMMA TurnedOne ==
  ASSUME NEW table \in Tables, NEW k \in Fds, NEW v \in Leads \ {Bad}, NEW n \in Fds
  PROVE  /\ n \in {k} => Turned(table, k, v)[n] # Bad
         /\ n \notin {k} => Turned(table, k, v)[n] \in {table[n], Lost}
BY TurnedIs

LEMMA PlainLeads ==
  ASSUME NEW table, NEW p \in Target, p \notin Devices \ {Null}
  PROVE  PathLeads(table, p) \in Leads \ {Bad}
<1>1. p # Bad /\ Lost # Bad
  BY NameAssumption DEF Lost, Bad
<1>2. QED
  BY <1>1, PlainPathLeads DEF Leads

\* What one redirection of exec does to one descriptor of a table.
LEMMA TableStep ==
  ASSUME NEW table \in Tables, NEW r \in Redirection, ExecPlain(r), NEW n \in Fds,
         r.kind \in DupKinds /\ r.how # "close" => table[r.from] # Bad
  PROVE  /\ n \in Sets(r) => Redirected(table, r)[n] # Bad
         /\ n \notin Sets(r) => Redirected(table, r)[n] \in {table[n], Lost}
         /\ r.kind \in DupKinds /\ r.how = "move" => Redirected(table, r)[r.from] = Lost
<1>1. 0 \in Fds /\ 1 \in Fds /\ 2 \in Fds /\ FdOr(r, 0) \in Fds /\ FdOr(r, 1) \in Fds
  BY FdOrIs, LowFds
<1>2. In # Bad /\ Lost # Bad /\ In \in Leads /\ Lost \in Leads
  BY DEF In, Bad, Lost, Leads
<1>3. CASE r.kind \in FileKinds
  <2> DEFINE v == PathLeads(table, r.to)
  <2>1. v \in Leads \ {Bad}
    <3>1. r.to \in Target /\ r.to \notin Devices \ {Null}
      BY <1>3, RedirectionIs DEF ExecPlain, IsDup, FileKinds
    <3>2. QED
      BY <3>1, PlainLeads
  <2>2. r.kind \notin DupKinds /\ ~IsDup(r)
    BY <1>3 DEF FileKinds, DupKinds, IsDup
  <2>3. CASE r.kind \in {"Write", "Clobber", "Append"}
    <3>1. Redirected(table, r) = Turned(table, FdOr(r, 1), v)
      BY <2>3 DEF Redirected, IsInput, Turned
    <3>2. Sets(r) = {FdOr(r, 1)}
      BY <2>2, <2>3 DEF Sets, Named, IsFileInput
    <3> HIDE DEF v
    <3>3. QED
      BY <1>1, <2>1, <2>2, <3>1, <3>2, TurnedOne
  <2>4. CASE r.kind \in {"Read", "ReadAndWrite"}
    <3> DEFINE w == IF r.kind = "ReadAndWrite" THEN v ELSE IF r.to = Null THEN Lost ELSE In
    <3>1. Redirected(table, r) = Turned(table, FdOr(r, 0), w)
      BY <2>4 DEF Redirected, IsInput, Turned
    <3>2. Sets(r) = {FdOr(r, 0)}
      BY <2>2, <2>4 DEF Sets, Named, IsFileInput
    <3> HIDE DEF v
    <3>3. w \in Leads \ {Bad}
      BY <1>2, <2>1
    <3> HIDE DEF w
    <3>4. QED
      BY <1>1, <2>2, <3>1, <3>2, <3>3, TurnedOne
  <2>5. CASE r.kind \in {"Both", "BothAppend"}
    <3>1. Redirected(table, r) = Turned(Turned(table, 1, v), 2, v)
      BY <2>5 DEF Redirected, Turned
    <3>2. Sets(r) = {1, 2}
      BY <2>5 DEF Sets, Named, IsDup, IsFileInput
    <3> HIDE DEF v
    <3> DEFINE mid == Turned(table, 1, v)
    <3>3. mid \in Tables /\ mid[1] = v /\ \A m \in Fds \ {1} : mid[m] = table[m]
      BY <1>1, <2>1, TurnedIs
    <3> HIDE DEF mid
    <3>4. Turned(mid, 2, v)[2] = v /\ \A m \in Fds \ {2} : Turned(mid, 2, v)[m] = mid[m]
      BY <1>1, <3>3, TurnedIs
    <3>5. QED
      BY <1>1, <2>1, <2>2, <3>1, <3>2, <3>3, <3>4 DEF mid
  <2>6. QED
    BY <1>3, <2>3, <2>4, <2>5 DEF FileKinds
<1>4. CASE r.kind \in DupKinds
  <2> DEFINE k == DupFd(r)
             m == r.from
             v == table[m]
  <2>1. m \in Fds /\ r.how \in {"fd", "close", "move"} /\ IsDup(r)
    BY <1>4, RedirectionIs DEF ExecPlain, IsDup, DupKinds
  <2>2. k \in Fds /\ Sets(r) = {k}
    <3>1. CASE r.kind = "DuplicateOutput"
      <4>1. Sets(r) = {FdOr(r, 1)}
        BY <2>1, <3>1 DEF Sets, Named, IsFileInput
      <4>2. QED
        BY <1>1, <3>1, <4>1 DEF DupFd
    <3>2. CASE r.kind = "DuplicateInput"
      <4>1. Sets(r) = {FdOr(r, 0)}
        BY <2>1, <3>2 DEF Sets, Named, IsFileInput
      <4>2. QED
        BY <1>1, <3>2, <4>1 DEF DupFd
    <3>3. QED
      BY <1>4, <3>1, <3>2 DEF DupKinds
  <2>3. v \in Leads
    BY <2>1 DEF Tables
  <2> HIDE DEF k
  <2>4. CASE r.how = "close"
    <3>1. Redirected(table, r) = Turned(table, k, Lost)
      BY <1>4, <2>4, DupTable DEF k
    <3>2. QED
      BY <1>2, <2>2, <2>4, <3>1, TurnedIs
  <2>5. CASE r.how = "fd"
    <3>1. Redirected(table, r) = Turned(table, k, v) /\ v # Bad
      BY <1>4, <2>5, DupTable DEF k
    <3> HIDE DEF v
    <3>2. QED
      BY <1>2, <2>2, <2>3, <2>5, <3>1, TurnedIs
  <2>6. CASE r.how = "move"
    <3>1. Redirected(table, r) = Turned(Turned(table, k, v), m, Lost) /\ v # Bad
      BY <1>4, <2>6, DupTable DEF k
    <3> HIDE DEF v
    <3> DEFINE mid == Turned(table, k, v)
    <3>2. mid \in Tables /\ mid[k] = v /\ \A i \in Fds \ {k} : mid[i] = table[i]
      BY <2>2, <2>3, TurnedIs
    <3> HIDE DEF mid
    <3>3. Turned(mid, m, Lost)[m] = Lost
          /\ \A i \in Fds \ {m} : Turned(mid, m, Lost)[i] = mid[i]
      BY <2>1, <3>2, TurnedIs
    <3>4. QED
      BY <1>2, <2>1, <2>2, <3>1, <3>2, <3>3 DEF mid
  <2>7. QED
    BY <2>1, <2>4, <2>5, <2>6
<1>5. QED
  BY <1>3, <1>4, RedirectionIs DEF ExecPlain

(***************************************************************************)
(* A list of exec.                                                         *)
(***************************************************************************)
\* What Taken leaves of the lists of exec in a shell that leads as table says.
ExecLists(rs, table) ==
  /\ \A i \in DOMAIN rs : ExecPlain(rs[i])
  /\ \A i \in DOMAIN rs : IsDup(rs[i]) /\ rs[i].how # "close" /\ table[rs[i].from] = Bad =>
       \E j \in 1..(i - 1) : rs[i].from \in Sets(rs[j])
  /\ \A i, j \in DOMAIN rs : IsDup(rs[i]) /\ rs[i].how = "move" /\ j > i =>
       rs[i].from \notin Sets(rs[j])

\* After i redirections.
Led(rs, table, now, i) ==
  /\ now \in Tables
  /\ \A n \in Fds : now[n] = Bad => table[n] = Bad /\ \A j \in 1..i : n \notin Sets(rs[j])
  /\ \A j \in 1..i : Closing(rs[j]) => now[rs[j].from] = Lost

LEMMA LedStep ==
  ASSUME NEW rs \in Seq(Redirection), NEW table \in Tables, ExecLists(rs, table),
         NEW i \in 1..Len(rs), NEW now, Led(rs, table, now, i - 1)
  PROVE  /\ ExecPlain(rs[i])
         /\ rs[i].kind \in DupKinds /\ rs[i].how # "close" => now[rs[i].from] # Bad
         /\ Led(rs, table, Redirected(now, rs[i]), i)
<1> DEFINE r == rs[i]
           new == Redirected(now, r)
<1>1. r \in Redirection /\ ExecPlain(r) /\ now \in Tables
  BY DEF ExecLists, Led
<1>2. r.kind \in DupKinds <=> IsDup(r)
  BY DEF DupKinds, IsDup
<1>3. r.kind \in DupKinds => r.from \in Fds
  BY <1>1, RedirectionIs
<1>4. ASSUME r.kind \in DupKinds, r.how # "close" PROVE now[r.from] # Bad
  <2>1. SUFFICES ASSUME now[r.from] = Bad PROVE FALSE
    OBVIOUS
  <2>2. table[r.from] = Bad /\ \A j \in 1..(i - 1) : r.from \notin Sets(rs[j])
    BY <1>3, <1>4, <2>1 DEF Led
  <2>3. \E j \in 1..(i - 1) : r.from \in Sets(rs[j])
    BY <1>2, <1>4, <2>2 DEF ExecLists
  <2>4. QED
    BY <2>2, <2>3
<1>5. new \in Tables
  BY <1>1, RedirectedIs
<1>6. \A n \in Fds : /\ n \in Sets(r) => new[n] # Bad
                     /\ n \notin Sets(r) => new[n] \in {now[n], Lost}
  BY <1>1, <1>4, TableStep
<1>7. r.kind \in DupKinds /\ r.how = "move" => new[r.from] = Lost
  <2>1. 0 \in Fds
    BY LowFds
  <2>2. QED
    BY <1>1, <1>4, <2>1, TableStep
<1>8. Lost # Bad
  BY DEF Lost, Bad
<1>9. ASSUME NEW n \in Fds, new[n] = Bad
      PROVE  table[n] = Bad /\ \A j \in 1..i : n \notin Sets(rs[j])
  <2>1. n \notin Sets(r) /\ now[n] = Bad
    BY <1>6, <1>8, <1>9
  <2>2. table[n] = Bad /\ \A j \in 1..(i - 1) : n \notin Sets(rs[j])
    BY <2>1 DEF Led
  <2>3. \A j \in 1..i : j = i \/ j \in 1..(i - 1)
    OBVIOUS
  <2>4. QED
    BY <2>1, <2>2, <2>3
<1>10. ASSUME NEW j \in 1..i, Closing(rs[j]) PROVE new[rs[j].from] = Lost
  <2>1. CASE j = i
    BY <1>2, <1>7, <1>10, <2>1 DEF Closing
  <2>2. CASE j # i
    <3>1. j \in 1..(i - 1) /\ j \in DOMAIN rs /\ i \in DOMAIN rs /\ i > j
      BY <2>2
    <3>2. now[rs[j].from] = Lost
      BY <1>10, <3>1 DEF Led
    <3>3. rs[j].from \notin Sets(r)
      BY <1>10, <3>1 DEF ExecLists, Closing
    <3>4. rs[j].from \in Fds
      <4>1. rs[j] \in Redirection /\ rs[j].kind \in DupKinds
        BY <1>10, <3>1 DEF Closing, IsDup, DupKinds
      <4>2. QED
        BY <4>1, RedirectionIs
    <3>5. QED
      BY <1>6, <3>2, <3>3, <3>4
  <2>3. QED
    BY <2>1, <2>2
<1>11. Led(rs, table, new, i)
  <2> HIDE DEF new
  <2>1. QED
    BY <1>5, <1>9, <1>10 DEF Led
<1>12. QED
  BY <1>1, <1>4, <1>11

LEMMA PersistentStep ==
  ASSUME NEW s \in Shells, NEW r \in Redirection, ExecPlain(r),
         r.kind \in DupKinds /\ r.how # "close" => Lead(s)[r.from] # Bad
  PROVE  Lead(PersistentRedirect(s, r)) = Redirected(Lead(s), r)
BY FileStep, DupStep, RedirectionIs DEF ExecPlain

LEMMA ExecLeads ==
  ASSUME NEW rs \in Seq(Redirection), NEW s \in Shells, ExecLists(rs, Lead(s))
  PROVE  /\ Lead(exec_persistent_redirects(rs, s)) = Table(rs, Lead(s))
         /\ \A i \in DOMAIN rs : Closing(rs[i]) =>
              Lead(exec_persistent_redirects(rs, s))[rs[i].from] = Lost
<1> DEFINE K == Len(rs)
           table == Lead(s)
<1>1. table \in Tables /\ K \in Nat
  BY LeadIs
<1>2. PICK f : ExecRun(f, rs, s) /\ exec_persistent_redirects(rs, s) = f[K]
  BY ExecRunIs
<1> HIDE DEF table
<1>3. PICK g : TableRun(g, rs, table) /\ Table(rs, table) = g[K]
  BY <1>1, TableRunIs
<1> DEFINE S == {i \in 0..K : Lead(f[i]) = g[i] /\ Led(rs, table, g[i], i)}
<1>4. 0 \in S
  BY <1>1, <1>2, <1>3 DEF ExecRun, TableRun, Led, table
<1>5. ASSUME NEW m \in 1..K, m - 1 \in S PROVE m \in S
  <2>1. f[m - 1] \in Shells /\ f[m] = PersistentRedirect(f[m - 1], rs[m])
        /\ g[m] = Redirected(g[m - 1], rs[m])
    BY <1>2, <1>3 DEF ExecRun, TableRun
  <2>2. Lead(f[m - 1]) = g[m - 1] /\ Led(rs, table, g[m - 1], m - 1)
    BY <1>5
  <2>3. /\ ExecPlain(rs[m])
        /\ rs[m].kind \in DupKinds /\ rs[m].how # "close" => g[m - 1][rs[m].from] # Bad
        /\ Led(rs, table, g[m], m)
    BY <1>1, <2>1, <2>2, LedStep DEF table
  <2>4. rs[m] \in Redirection
    OBVIOUS
  <2>5. Lead(f[m]) = g[m]
    BY <2>1, <2>2, <2>3, <2>4, PersistentStep
  <2>6. QED
    BY <2>3, <2>5
<1>6. K \in S
  <2> HIDE DEF S
  <2>1. SUFFICES 0..K \subseteq S
    BY <1>1
  <2>2. QED
    BY <1>1, <1>4, <1>5, LeastFailure
<1>7. Lead(f[K]) = g[K] /\ Led(rs, table, g[K], K)
  BY <1>6
<1>8. \A i \in DOMAIN rs : Closing(rs[i]) => Lead(f[K])[rs[i].from] = Lost
  BY <1>7 DEF Led
<1>9. QED
  BY <1>2, <1>3, <1>7, <1>8 DEF table

LEMMA OutputFails ==
  ASSUME NEW rs \in Seq(Redirection), NEW r \in Result, NEW s \in Shells
  PROVE  apply_output_redirects(rs, r, s).r.code \in {r.code, 1}
<1> DEFINE K == Len(rs)
<1>1. K \in Nat
  OBVIOUS
<1>2. PICK f : OutputRun(f, rs, r, s) /\ apply_output_redirects(rs, r, s) = Ended(f[K])
  BY OutputRunIs
<1> DEFINE S == {i \in 0..K : f[i].r.code \in {r.code, 1}}
<1>3. 0 \in S
  BY <1>1, <1>2 DEF OutputRun, Start
<1>4. ASSUME NEW m \in 1..K, m - 1 \in S PROVE m \in S
  <2>1. f[m - 1] \in Carries /\ f[m] = OutputMoved(f[m - 1], rs[m]) /\ rs[m] \in Redirection
    BY <1>2 DEF OutputRun
  <2>2. f[m].r.code \in {f[m - 1].r.code, 1}
    BY <2>1, OutputMovedIs DEF Moves
  <2>3. QED
    BY <1>4, <2>2
<1>5. K \in S
  <2> HIDE DEF S
  <2>1. SUFFICES 0..K \subseteq S
    BY <1>1
  <2>2. QED
    BY <1>1, <1>3, <1>4, LeastFailure
<1>6. f[K].r.code \in {r.code, 1} /\ f[K] \in Carries
  BY <1>2, <1>5 DEF OutputRun
<1>7. QED
  BY <1>2, <1>6, EndedIs

\* Closing again what leads nowhere changes no lead, whatever the output.
LEMMA OutputLeads ==
  ASSUME NEW rs \in Seq(Redirection), NEW r \in Result, NEW s \in Shells,
         \A i \in DOMAIN rs : Closing(rs[i]) => Lead(s)[rs[i].from] = Lost
  PROVE  Lead(apply_output_redirects(rs, r, s).s) = Lead(s)
<1> DEFINE K == Len(rs)
<1>1. K \in Nat
  OBVIOUS
<1>2. PICK f : OutputRun(f, rs, r, s) /\ apply_output_redirects(rs, r, s) = Ended(f[K])
  BY OutputRunIs
<1> DEFINE S == {i \in 0..K : Lead(f[i].s) = Lead(s)}
<1>3. 0 \in S
  <2>1. f[0].s = s /\ f[0].r = r
    BY <1>2 DEF OutputRun, Start
  <2>2. QED
    BY <1>1, <2>1
<1>4. ASSUME NEW m \in 1..K, m - 1 \in S PROVE m \in S
  <2> DEFINE c == f[m - 1]
             d == f[m]
             x == rs[m]
  <2>1. c \in Carries /\ d \in Carries /\ d = OutputMoved(c, x) /\ x \in Redirection
    BY <1>2 DEF OutputRun
  <2>2. Moves(c, d, x)
    BY <2>1, OutputMovedIs
  <2>3. Lead(c.s) = Lead(s)
    BY <1>4
  <2>4. CASE d.s.fds = c.s.fds
    <3>1. Lead(d.s) = Lead(c.s)
      BY <2>4, SameLead
    <3>2. QED
      BY <2>3, <3>1
  <2>5. CASE d.s.fds # c.s.fds
    <3>1. Closing(x) /\ d.s.fds = Put(c.s.fds, x.from, Closed)
      BY <2>2, <2>5 DEF Moves
    <3>2. x.from \in Fds
      BY <2>1, <3>1, RedirectionIs DEF Closing, IsDup, DupKinds
    <3>3. PutAt(c.s, d.s, x.from, Closed)
      BY <2>1, <3>1, CarryParts DEF PutAt
    <3>4. Lead(d.s) = Turned(Lead(c.s), x.from, Lost)
      BY <3>2, <3>3, LeadPut, LeadingOf
    <3>5. Lead(c.s)[x.from] = Lost
      BY <2>3, <3>1
    <3>6. Lead(c.s) \in Tables
      BY <2>1, CarryParts, LeadIs
    <3>7. Turned(Lead(c.s), x.from, Lost) = Lead(c.s)
      BY <3>2, <3>5, <3>6 DEF Turned, Tables
    <3>8. QED
      BY <2>3, <3>4, <3>7
  <2>6. QED
    BY <2>4, <2>5
<1>5. K \in S
  <2> HIDE DEF S
  <2>1. SUFFICES 0..K \subseteq S
    BY <1>1
  <2>2. QED
    BY <1>1, <1>3, <1>4, LeastFailure
<1>6. Lead(f[K].s) = Lead(s) /\ f[K] \in Carries
  BY <1>2, <1>5 DEF OutputRun
<1>7. Ended(f[K]).s.fds = f[K].s.fds
  BY <1>6, EndedIs
<1>8. Lead(Ended(f[K]).s) = Lead(f[K].s)
  BY <1>7, SameLead
<1>9. QED
  BY <1>2, <1>6, <1>7, <1>8

LEMMA NotTaken ==
  ASSUME NEW rs \in Seq(Redirection), ~Taken(rs)
  PROVE  ExecLists(rs, Lead(shell)) /\ ~MergesStderr(rs)
<1>1. \A i \in DOMAIN rs : ExecPlain(rs[i])
  BY DEF Taken, ExecPlain
<1>2. \A i \in DOMAIN rs : IsDup(rs[i]) /\ rs[i].how # "close" /\ Lead(shell)[rs[i].from] = Bad =>
        \E j \in 1..(i - 1) : rs[i].from \in Sets(rs[j])
  BY DEF Taken
<1>3. \A i, j \in DOMAIN rs : IsDup(rs[i]) /\ rs[i].how = "move" /\ j > i =>
        rs[i].from \notin Sets(rs[j])
  BY DEF Taken
<1>4. QED
  BY <1>1, <1>2, <1>3 DEF ExecLists, Taken

LEMMA TypedTakesHold == Typed => ExecTakesHold
<1> SUFFICES ASSUME Typed, NEW rs \in Persistent, ~Taken(rs), ExecRuns(rs).r.code = 0
             PROVE  Lead(ExecRuns(rs).s) = Table(rs, Lead(shell))
  BY DEF ExecTakesHold
<1> DEFINE cmd == [c |-> "exec"]
           s == shell
           in == collect_input_redirects(rs, s, Top.stdin)
           b == Before(rs, s, in)
           e == exec_persistent_redirects(rs, b)
           fresh == 0 \in DOMAIN in.texts
           a == After(rs, e, s, fresh)
           fail == [Fails EXCEPT !.stderr = <<Message>>]
<1>1. rs \in Seq(Redirection) /\ s \in Shells
  BY ScriptAssumption DEF Typed
<1>2. ExecLists(rs, Lead(s)) /\ ~MergesStderr(rs)
  BY <1>1, NotTaken
<1>3. ExecRuns(rs) = IF ~in.ok THEN apply_output_redirects(rs, fail, s)
                     ELSE apply_output_redirects(rs, Silent, a)
  <2> DEFINE done == dispatch_command(cmd, rs, b, Effective(in, Top.stdin), in)
  <2>1. ExecRuns(rs) = execute_simple_command(cmd, rs, s, Top.stdin)
    BY DEF ExecRuns
  <2>2. execute_simple_command(cmd, rs, s, Top.stdin)
        = IF ~in.ok THEN apply_output_redirects(rs, fail, s)
          ELSE apply_output_redirects(rs, done.r, After(rs, done.s, s, fresh))
    BY DEF execute_simple_command
  <2>3. done = [s |-> e, r |-> Silent]
    BY DEF dispatch_command
  <2> HIDE DEF done, e, fail, s, in, b, cmd, fresh
  <2>4. done.s = e /\ done.r = Silent
    BY <2>3
  <2>5. QED
    BY <2>1, <2>2, <2>4 DEF a
<1> HIDE DEF in, s
<1>4. b \in Shells /\ b.fds = s.fds
  BY <1>1, <1>2, BeforeIs DEF Merged
<1> HIDE DEF b
<1>5. Lead(b) = Lead(s)
  BY <1>4, SameLead
<1>6. /\ Lead(e) = Table(rs, Lead(s))
      /\ \A i \in DOMAIN rs : Closing(rs[i]) => Lead(e)[rs[i].from] = Lost
  BY <1>1, <1>2, <1>4, <1>5, ExecLeads
<1>7. e \in Shells
  BY <1>1, <1>4, ExecIs
<1> HIDE DEF e, fresh
<1>8. a \in Shells /\ Lead(a) = Lead(e)
  BY <1>1, <1>2, <1>7, AfterIs, SameLead
<1> HIDE DEF a
<1>9. Lead(apply_output_redirects(rs, Silent, a).s) = Lead(a)
  BY <1>1, <1>6, <1>8, SilentIs, OutputLeads
<1>10. CASE in.ok
  BY <1>3, <1>6, <1>8, <1>9, <1>10 DEF s
<1>11. CASE ~in.ok
  <2>1. fail.code = 1 /\ fail \in Result
    BY SilentIs DEF Fails, Silent
  <2> HIDE DEF fail
  <2>2. apply_output_redirects(rs, fail, s).r.code \in {fail.code, 1}
    BY <1>1, <2>1, OutputFails
  <2>3. QED
    BY <1>3, <1>11, <2>1, <2>2
<1>12. QED
  BY <1>10, <1>11

\* In every state a script can reach: after an exec that reports success, every
\* descriptor leads where its redirections, read from left to right, take it,
\* although the code applies each list twice, once to the table of persistent
\* descriptors and once to the texts of exec itself.
THEOREM ExecAlwaysTakesHold == Spec => []ExecTakesHold
BY AlwaysTyped, TypedTakesHold, PTL

(***************************************************************************)
(* A line in a text, and in what is held: the texts of all files and of    *)
(* the two streams.                                                        *)
(***************************************************************************)
Has(l, t, k) == k \in 1..Len(t) /\ t[k] = l
Marks == Line \ {Message, Pad}

LEMMA TextParts ==
  ASSUME NEW t \in Texts
  PROVE  Len(t) \in Nat /\ DOMAIN t = 1..Len(t) /\ \A k \in 1..Len(t) : t[k] \in Line
BY DEF Texts

LEMMA HasJoined ==
  ASSUME NEW l, NEW t \in Texts, NEW u \in Texts, NEW k
  PROVE  Has(l, t \o u, k) <=> Has(l, t, k) \/ (k \in Nat /\ k > Len(t) /\ Has(l, u, k - Len(t)))
<1>1. t \in Seq(Line) /\ u \in Seq(Line)
  BY DEF Texts
<1>2. Len(t \o u) = Len(t) + Len(u) /\ Len(t) \in Nat /\ Len(u) \in Nat
  BY <1>1, ConcatProperties, LenProperties
<1>3. k \in 1..(Len(t) + Len(u)) =>
        (t \o u)[k] = IF k <= Len(t) THEN t[k] ELSE u[k - Len(t)]
  BY <1>1, ConcatProperties
<1> DEFINE tu == t \o u
<1> HIDE DEF tu
<1>4. QED
  BY <1>2, <1>3 DEF Has

LEMMA HasNone ==
  ASSUME NEW l, NEW k
  PROVE  ~Has(l, <<>>, k)
BY DEF Has

LEMMA HasMessage ==
  ASSUME NEW l \in Marks, NEW t \in Texts, NEW k
  PROVE  Has(l, Append(t, Message), k) <=> Has(l, t, k)
BY DEF Has, Marks, Texts

LEMMA HasOverwritten ==
  ASSUME NEW l \in Marks, NEW t \in Texts, NEW u \in Texts, NEW at \in Nat, NEW k
  PROVE  Has(l, Overwritten(t, at, u), k) <=>
           \/ k \in Nat /\ k > at /\ Has(l, u, k - at)
           \/ Has(l, t, k) /\ ~(k > at /\ k <= at + Len(u))
<1> DEFINE top == IF at + Len(u) > Len(t) THEN at + Len(u) ELSE Len(t)
           o == Overwritten(t, at, u)
           new == k \in Nat /\ k > at /\ Has(l, u, k - at)
           old == Has(l, t, k) /\ ~(k > at /\ k <= at + Len(u))
<1> SUFFICES Has(l, o, k) <=> new \/ old
  OBVIOUS
<1>1. Len(t) \in Nat /\ Len(u) \in Nat /\ top \in Nat
  BY TextParts
<1>2. o = [i \in 1..top |-> IF i > at /\ i <= at + Len(u) THEN u[i - at]
                            ELSE IF i <= Len(t) THEN t[i] ELSE Pad]
  BY DEF Overwritten
<1>3. o \in Texts /\ DOMAIN o = 1..top
  BY <1>2, OverwrittenIs
<1>4. \A i \in 1..top : o[i] = IF i > at /\ i <= at + Len(u) THEN u[i - at]
                               ELSE IF i <= Len(t) THEN t[i] ELSE Pad
  BY <1>2
<1> HIDE DEF o
<1>5. Len(o) = top
  BY <1>1, <1>3, TextParts
<1>6. l # Pad
  BY DEF Marks
<1>7. Has(l, o, k) <=> k \in 1..top /\ o[k] = l
  BY <1>5 DEF Has
<1>8. CASE k \in 1..top /\ k > at /\ k <= at + Len(u)
  <2>1. k - at \in 1..Len(u) /\ o[k] = u[k - at]
    BY <1>1, <1>4, <1>8
  <2>2. new <=> u[k - at] = l
    BY <1>1, <1>8, <2>1 DEF Has
  <2>3. ~old
    BY <1>8
  <2> HIDE DEF new, old
  <2>4. QED
    BY <1>7, <1>8, <2>1, <2>2, <2>3
<1>9. CASE k \in 1..top /\ ~(k > at /\ k <= at + Len(u))
  <2>1. ~new
    BY <1>1, <1>9 DEF Has
  <2>2. o[k] = IF k <= Len(t) THEN t[k] ELSE Pad
    BY <1>4, <1>9
  <2>3. old <=> k <= Len(t) /\ t[k] = l
    BY <1>1, <1>9 DEF Has
  <2> HIDE DEF new, old
  <2>4. QED
    BY <1>6, <1>7, <1>9, <2>1, <2>2, <2>3
<1>10. CASE k \notin 1..top
  <2>1. ~new
    BY <1>1, <1>10 DEF Has
  <2>2. ~old
    BY <1>1, <1>10 DEF Has
  <2> HIDE DEF new, old
  <2>3. QED
    BY <1>7, <1>10, <2>1, <2>2
<1>11. QED
  BY <1>8, <1>9, <1>10

Spot   == Target \cup Streams
Holds  == [Spot -> Texts]
Hold(c) == [p \in Spot |-> IF p = "stdout" THEN c.r.stdout
                           ELSE IF p = "stderr" THEN c.r.stderr ELSE read_file(c.s, p)]
One(l, h) == \A p, q \in Spot : \A j, k \in Nat : Has(l, h[p], j) /\ Has(l, h[q], k) =>
               p = q /\ j = k
Some(l, h) == \E p \in Spot : \E k \in Nat : Has(l, h[p], k)

\* How texts are moved.
Emptied(h, p)    == [h EXCEPT ![p] = <<>>]
Behind(h, p, q)  == [h EXCEPT ![q] = h[q] \o h[p], ![p] = <<>>]
InFront(h, p, q) == [h EXCEPT ![q] = h[p] \o h[q], ![p] = <<>>]
Laid(h, p, q, at) == [h EXCEPT ![q] = Overwritten(h[q], at, h[p]), ![p] = <<>>]

LEMMA EmptiedIs ==
  ASSUME NEW l, NEW h \in Holds, NEW p \in Spot
  PROVE  /\ Emptied(h, p) \in Holds
         /\ \A q \in Spot : \A k : Has(l, Emptied(h, p)[q], k) <=> q # p /\ Has(l, h[q], k)
<1>1. Emptied(h, p) \in Holds
  BY TextsAre DEF Emptied, Holds
<1>2. \A q \in Spot : Emptied(h, p)[q] = IF q = p THEN <<>> ELSE h[q]
  BY DEF Emptied, Holds
<1>3. QED
  BY <1>1, <1>2, HasNone

LEMMA BehindIs ==
  ASSUME NEW l, NEW h \in Holds, NEW p \in Spot, NEW q \in Spot, p # q
  PROVE  /\ Behind(h, p, q) \in Holds
         /\ \A r \in Spot : \A k : Has(l, Behind(h, p, q)[r], k) <=>
              \/ r # p /\ Has(l, h[r], k)
              \/ r = q /\ k \in Nat /\ k > Len(h[q]) /\ Has(l, h[p], k - Len(h[q]))
<1>1. h[p] \in Texts /\ h[q] \in Texts /\ h[q] \o h[p] \in Texts
  BY TextsAre DEF Holds
<1>2. Behind(h, p, q) \in Holds
  BY <1>1, TextsAre DEF Behind, Holds
<1>3. \A r \in Spot : Behind(h, p, q)[r]
        = IF r = p THEN <<>> ELSE IF r = q THEN h[q] \o h[p] ELSE h[r]
  BY DEF Behind, Holds
<1>4. QED
  BY <1>1, <1>2, <1>3, HasNone, HasJoined

LEMMA InFrontIs ==
  ASSUME NEW l, NEW h \in Holds, NEW p \in Spot, NEW q \in Spot, p # q
  PROVE  /\ InFront(h, p, q) \in Holds
         /\ \A r \in Spot : \A k : Has(l, InFront(h, p, q)[r], k) <=>
              \/ r \notin {p, q} /\ Has(l, h[r], k)
              \/ r = q /\ Has(l, h[p], k)
              \/ r = q /\ k \in Nat /\ k > Len(h[p]) /\ Has(l, h[q], k - Len(h[p]))
<1>1. h[p] \in Texts /\ h[q] \in Texts /\ h[p] \o h[q] \in Texts
  BY TextsAre DEF Holds
<1>2. InFront(h, p, q) \in Holds
  BY <1>1, TextsAre DEF InFront, Holds
<1>3. \A r \in Spot : InFront(h, p, q)[r]
        = IF r = p THEN <<>> ELSE IF r = q THEN h[p] \o h[q] ELSE h[r]
  BY DEF InFront, Holds
<1>4. QED
  BY <1>1, <1>2, <1>3, HasNone, HasJoined

LEMMA LaidIs ==
  ASSUME NEW l \in Marks, NEW h \in Holds, NEW p \in Spot, NEW q \in Spot, p # q, NEW at \in Nat
  PROVE  /\ Laid(h, p, q, at) \in Holds
         /\ \A r \in Spot : \A k : Has(l, Laid(h, p, q, at)[r], k) <=>
              \/ r \notin {p, q} /\ Has(l, h[r], k)
              \/ r = q /\ k \in Nat /\ k > at /\ Has(l, h[p], k - at)
              \/ r = q /\ Has(l, h[q], k) /\ ~(k > at /\ k <= at + Len(h[p]))
<1>1. h[p] \in Texts /\ h[q] \in Texts /\ Overwritten(h[q], at, h[p]) \in Texts
  BY OverwrittenIs DEF Holds
<1>2. Laid(h, p, q, at) \in Holds
  BY <1>1, TextsAre DEF Laid, Holds
<1>3. \A r \in Spot : Laid(h, p, q, at)[r]
                      = IF r = p THEN <<>> ELSE IF r = q THEN Overwritten(h[q], at, h[p]) ELSE h[r]
  BY DEF Laid, Holds
<1>4. \A k : Has(l, Overwritten(h[q], at, h[p]), k) <=>
           \/ k \in Nat /\ k > at /\ Has(l, h[p], k - at)
           \/ Has(l, h[q], k) /\ ~(k > at /\ k <= at + Len(h[p]))
  BY <1>1, HasOverwritten
<1> DEFINE o == Overwritten(h[q], at, h[p])
           d == Laid(h, p, q, at)
<1> HIDE DEF o, d
<1>5. \A r \in Spot : d[r] = IF r = p THEN <<>> ELSE IF r = q THEN o ELSE h[r]
  BY <1>3 DEF o, d
<1>6. \A r \in Spot : \A k : Has(l, d[r], k) <=>
              \/ r \notin {p, q} /\ Has(l, h[r], k)
              \/ r = q /\ Has(l, o, k)
  BY <1>5, HasNone
<1>7. QED
  BY <1>2, <1>4, <1>6 DEF o, d

\* A line that is held once is held once after a move, in the place it was in, in a
\* stream or in a file of P.
Goes(l, h, g, P) ==
  /\ One(l, h) => One(l, g)
  /\ \A p \in Target : \A k \in Nat : Has(l, g[p], k) => Has(l, h[p], k) \/ p \in P

LEMMA Apart == Streams \cap Target = {} /\ Streams \subseteq Spot /\ Target \subseteq Spot
BY NameAssumption DEF Spot

LEMMA GoesOn ==
  ASSUME NEW l, NEW f, NEW g, NEW h, NEW P, Goes(l, f, g, P), Goes(l, g, h, P)
  PROVE  Goes(l, f, h, P)
BY DEF Goes

LEMMA GoesMore ==
  ASSUME NEW l, NEW g, NEW h, NEW P, NEW Q, Goes(l, g, h, P), P \subseteq Q
  PROVE  Goes(l, g, h, Q)
BY DEF Goes

LEMMA HasNat ==
  ASSUME NEW h \in Holds, NEW p \in Spot, NEW l, NEW k, Has(l, h[p], k)
  PROVE  k \in Nat /\ k >= 1 /\ k <= Len(h[p]) /\ Len(h[p]) \in Nat
<1>1. Len(h[p]) \in Nat
  BY TextParts DEF Holds
<1>2. QED
  BY <1>1 DEF Has

LEMMA EmptiedGoes ==
  ASSUME NEW l, NEW h \in Holds, NEW p \in Spot
  PROVE  /\ Goes(l, h, Emptied(h, p), {})
         /\ Some(l, h) /\ (\A k : ~Has(l, h[p], k)) => Some(l, Emptied(h, p))
<1> DEFINE g == Emptied(h, p)
<1> HIDE DEF g
<1>1. \A q \in Spot : \A k : Has(l, g[q], k) <=> q # p /\ Has(l, h[q], k)
  BY EmptiedIs DEF g
<1>2. One(l, h) => One(l, g)
  BY <1>1 DEF One
<1>3. Goes(l, h, g, {})
  BY <1>1, <1>2, Apart DEF Goes
<1>4. Some(l, h) /\ (\A k : ~Has(l, h[p], k)) => Some(l, g)
  BY <1>1 DEF Some
<1>5. QED
  BY <1>3, <1>4 DEF g

LEMMA BehindGoes ==
  ASSUME NEW l, NEW h \in Holds, NEW p \in Spot, NEW q \in Spot, p # q,
         p \in Streams
  PROVE  /\ Goes(l, h, Behind(h, p, q), {q})
         /\ Some(l, h) => Some(l, Behind(h, p, q))
<1> DEFINE g == Behind(h, p, q)
           n == Len(h[q])
<1>1. p \in Spot /\ p \notin Target
  BY Apart
<1>2. n \in Nat
  BY TextParts DEF Holds
<1> HIDE DEF g, n
<1>3. \A r \in Spot : \A k : Has(l, g[r], k) <=>
        \/ r # p /\ Has(l, h[r], k)
        \/ r = q /\ k \in Nat /\ k > n /\ Has(l, h[p], k - n)
  <2>1. \A r \in Spot : \A k : Has(l, Behind(h, p, q)[r], k) <=>
          \/ r # p /\ Has(l, h[r], k)
          \/ r = q /\ k \in Nat /\ k > Len(h[q]) /\ Has(l, h[p], k - Len(h[q]))
    BY BehindIs
  <2>2. QED
    BY <2>1 DEF g, n
<1>4. \A k : Has(l, h[q], k) => k <= n
  BY HasNat DEF n
<1>5. One(l, h) => One(l, g)
  <2> SUFFICES ASSUME One(l, h), NEW r \in Spot, NEW t \in Spot, NEW j \in Nat, NEW k \in Nat,
                      Has(l, g[r], j), Has(l, g[t], k)
               PROVE  r = t /\ j = k
    BY DEF One
  <2>1. CASE r # p /\ Has(l, h[r], j) /\ t # p /\ Has(l, h[t], k)
    BY <2>1 DEF One
  <2>2. \A i \in Nat : i > n => i - n \in Nat
    BY <1>2
  <2>3. CASE r # p /\ Has(l, h[r], j) /\ k > n /\ Has(l, h[p], k - n)
    BY <1>1, <2>2, <2>3 DEF One
  <2>4. CASE j > n /\ Has(l, h[p], j - n) /\ t # p /\ Has(l, h[t], k)
    BY <1>1, <2>2, <2>4 DEF One
  <2>5. CASE r = q /\ j > n /\ Has(l, h[p], j - n) /\ t = q /\ k > n /\ Has(l, h[p], k - n)
    <3>1. j - n = k - n
      BY <1>1, <2>2, <2>5 DEF One
    <3>2. QED
      BY <1>2, <2>5, <3>1
  <2>6. QED
    BY <1>3, <2>1, <2>3, <2>4, <2>5
<1>6. Goes(l, h, g, {q})
  BY <1>3, <1>5, Apart DEF Goes
<1>7. Some(l, h) => Some(l, g)
  <2> SUFFICES ASSUME NEW r \in Spot, NEW k \in Nat, Has(l, h[r], k) PROVE Some(l, g)
    BY DEF Some
  <2>1. CASE r # p
    BY <1>3, <2>1 DEF Some
  <2>2. CASE r = p
    <3>0. k >= 1
      BY HasNat
    <3>1. k + n \in Nat /\ k + n > n /\ (k + n) - n = k
      BY <1>2, <3>0
    <3>2. Has(l, g[q], k + n)
      BY <1>3, <2>2, <3>1
    <3>3. QED
      BY <3>1, <3>2 DEF Some
  <2>3. QED
    BY <2>1, <2>2
<1>8. QED
  BY <1>6, <1>7 DEF g

LEMMA InFrontGoes ==
  ASSUME NEW l, NEW h \in Holds, NEW p \in Streams, NEW q \in Spot, p # q
  PROVE  /\ Goes(l, h, InFront(h, p, q), {q})
         /\ Some(l, h) => Some(l, InFront(h, p, q))
<1> DEFINE g == InFront(h, p, q)
           n == Len(h[p])
<1>1. p \in Spot /\ p \notin Target
  BY Apart
<1>2. n \in Nat
  BY <1>1, TextParts DEF Holds
<1> HIDE DEF g, n
<1>3. \A r \in Spot : \A k : Has(l, g[r], k) <=>
        \/ r \notin {p, q} /\ Has(l, h[r], k)
        \/ r = q /\ Has(l, h[p], k)
        \/ r = q /\ k \in Nat /\ k > n /\ Has(l, h[q], k - n)
  BY <1>1, InFrontIs DEF g, n
<1>4. \A i \in Nat : i > n => i - n \in Nat
  BY <1>2
<1>5. One(l, h) => One(l, g)
  <2> SUFFICES ASSUME One(l, h), NEW r \in Spot, NEW t \in Spot, NEW j \in Nat, NEW k \in Nat,
                      Has(l, g[r], j), Has(l, g[t], k)
               PROVE  r = t /\ j = k
    BY DEF One
  <2> DEFINE Old(x, i) == x \notin {p, q} /\ Has(l, h[x], i)
             First(x, i) == x = q /\ Has(l, h[p], i)
             Then(x, i) == x = q /\ i > n /\ Has(l, h[q], i - n)
  <2>1. CASE Old(r, j)
    <3>1. CASE Old(t, k)
      BY <2>1, <3>1 DEF One
    <3>2. CASE First(t, k)
      BY <1>1, <2>1, <3>2 DEF One
    <3>3. CASE Then(t, k)
      BY <1>4, <2>1, <3>3 DEF One
    <3>4. QED
      BY <1>3, <3>1, <3>2, <3>3
  <2>2. CASE First(r, j)
    <3>1. CASE Old(t, k)
      BY <1>1, <2>2, <3>1 DEF One
    <3>2. CASE First(t, k)
      BY <1>1, <2>2, <3>2 DEF One
    <3>3. CASE Then(t, k)
      BY <1>1, <1>4, <2>2, <3>3 DEF One
    <3>4. QED
      BY <1>3, <3>1, <3>2, <3>3
  <2>3. CASE Then(r, j)
    <3>1. CASE Old(t, k)
      BY <1>4, <2>3, <3>1 DEF One
    <3>2. CASE First(t, k)
      BY <1>1, <1>4, <2>3, <3>2 DEF One
    <3>3. CASE Then(t, k)
      <4>1. j - n = k - n
        BY <1>4, <2>3, <3>3 DEF One
      <4>2. QED
        BY <1>2, <2>3, <3>3, <4>1
    <3>4. QED
      BY <1>3, <3>1, <3>2, <3>3
  <2>4. QED
    BY <1>3, <2>1, <2>2, <2>3
<1>6. Goes(l, h, g, {q})
  BY <1>3, <1>5, Apart DEF Goes
<1>7. Some(l, h) => Some(l, g)
  <2> SUFFICES ASSUME NEW r \in Spot, NEW k \in Nat, Has(l, h[r], k) PROVE Some(l, g)
    BY DEF Some
  <2>1. CASE r \notin {p, q}
    BY <1>3, <2>1 DEF Some
  <2>2. CASE r = p
    BY <1>3, <2>2 DEF Some
  <2>3. CASE r = q
    <3>0. k >= 1
      BY HasNat
    <3>1. k + n \in Nat /\ k + n > n /\ (k + n) - n = k
      BY <1>2, <3>0
    <3>2. Has(l, g[q], k + n)
      BY <1>3, <2>3, <3>1
    <3>3. QED
      BY <3>1, <3>2 DEF Some
  <2>4. QED
    BY <2>1, <2>2, <2>3
<1>8. QED
  BY <1>6, <1>7 DEF g

LEMMA LaidGoes ==
  ASSUME NEW l \in Marks, NEW h \in Holds, NEW p \in Streams, NEW q \in Spot, p # q, NEW at \in Nat
  PROVE  /\ Goes(l, h, Laid(h, p, q, at), {q})
         /\ (\A k : Has(l, h[q], k) => k <= at) =>
              /\ Some(l, h) => Some(l, Laid(h, p, q, at))
              /\ \A k : Has(l, Laid(h, p, q, at)[q], k) => k <= at + Len(h[p])
<1> DEFINE g == Laid(h, p, q, at)
           n == Len(h[p])
<1>1. p \in Spot /\ p \notin Target
  BY Apart
<1>2. n \in Nat
  BY <1>1, TextParts DEF Holds
<1> HIDE DEF g, n
<1>3. \A r \in Spot : \A k : Has(l, g[r], k) <=>
        \/ r \notin {p, q} /\ Has(l, h[r], k)
        \/ r = q /\ k \in Nat /\ k > at /\ Has(l, h[p], k - at)
        \/ r = q /\ Has(l, h[q], k) /\ ~(k > at /\ k <= at + n)
  BY <1>1, LaidIs DEF g, n
<1>4. \A i \in Nat : i > at => i - at \in Nat
  OBVIOUS
<1>5. One(l, h) => One(l, g)
  <2> SUFFICES ASSUME One(l, h), NEW r \in Spot, NEW t \in Spot, NEW j \in Nat, NEW k \in Nat,
                      Has(l, g[r], j), Has(l, g[t], k)
               PROVE  r = t /\ j = k
    BY DEF One
  <2> DEFINE Old(x, i) == x # p /\ Has(l, h[x], i)
             Then(x, i) == x = q /\ i > at /\ Has(l, h[p], i - at)
  <2>1. CASE Old(r, j)
    <3>1. CASE Old(t, k)
      BY <2>1, <3>1 DEF One
    <3>2. CASE Then(t, k)
      BY <1>1, <1>4, <2>1, <3>2 DEF One
    <3>3. QED
      BY <1>3, <3>1, <3>2
  <2>2. CASE Then(r, j)
    <3>1. CASE Old(t, k)
      BY <1>1, <1>4, <2>2, <3>1 DEF One
    <3>2. CASE Then(t, k)
      <4>1. j - at = k - at
        BY <1>1, <1>4, <2>2, <3>2 DEF One
      <4>2. QED
        BY <2>2, <3>2, <4>1
    <3>3. QED
      BY <1>3, <3>1, <3>2
  <2>3. QED
    BY <1>3, <2>1, <2>2
<1>6. Goes(l, h, g, {q})
  BY <1>3, <1>5, Apart DEF Goes
<1>7. ASSUME \A k : Has(l, h[q], k) => k <= at, Some(l, h) PROVE Some(l, g)
  <2>1. PICK r \in Spot, k \in Nat : Has(l, h[r], k)
    BY <1>7 DEF Some
  <2>2. CASE r \notin {p, q}
    BY <1>3, <2>1, <2>2 DEF Some
  <2>3. CASE r = p
    <3>0. k >= 1
      BY <2>1, HasNat
    <3>1. k + at \in Nat /\ k + at > at /\ (k + at) - at = k
      BY <3>0
    <3>2. Has(l, g[q], k + at)
      BY <1>3, <2>1, <2>3, <3>1
    <3>3. QED
      BY <3>1, <3>2 DEF Some
  <2>4. CASE r = q
    <3>1. k <= at
      BY <1>7, <2>1, <2>4
    <3>2. Has(l, g[q], k)
      BY <1>3, <2>1, <2>4, <3>1
    <3>3. QED
      BY <3>2 DEF Some
  <2>5. QED
    BY <2>2, <2>3, <2>4
<1>8. ASSUME \A k : Has(l, h[q], k) => k <= at, NEW k, Has(l, g[q], k) PROVE k <= at + n
  <2>1. CASE k \in Nat /\ k > at /\ Has(l, h[p], k - at)
    <3>1. k - at <= n
      BY <1>1, <2>1, HasNat DEF n
    <3>2. QED
      BY <1>2, <2>1, <3>1
  <2>2. CASE Has(l, h[q], k)
    <3>1. k \in Nat /\ k <= at
      BY <1>8, <2>2, HasNat
    <3>2. QED
      BY <1>2, <3>1
  <2>3. QED
    BY <1>3, <1>8, <2>1, <2>2
<1>9. QED
  BY <1>6, <1>7, <1>8 DEF g, n

(***************************************************************************)
(* What the operators on carries make of what is held.                     *)
(***************************************************************************)
LEMMA HoldIs ==
  ASSUME NEW c \in Carries
  PROVE  /\ Hold(c) \in Holds
         /\ Hold(c)["stdout"] = c.r.stdout /\ Hold(c)["stderr"] = c.r.stderr
         /\ \A p \in Target : Hold(c)[p] = read_file(c.s, p)
<1>1. c.r.stdout \in Texts /\ c.r.stderr \in Texts /\ \A p : read_file(c.s, p) \in Texts
  BY CarryParts, ReadFileIs
<1>2. "stdout" \in Spot /\ "stderr" \in Spot /\ "stdout" # "stderr"
  BY Apart DEF Streams
<1>3. \A p \in Target : p \in Spot /\ p # "stdout" /\ p # "stderr"
  BY Apart DEF Streams
<1>4. QED
  BY <1>1, <1>2, <1>3 DEF Hold, Holds

LEMMA HoldOf ==
  ASSUME NEW d \in Carries, NEW h \in Holds, d.r.stdout = h["stdout"], d.r.stderr = h["stderr"],
         \A p \in Target : read_file(d.s, p) = h[p]
  PROVE  Hold(d) = h
<1>1. \A p \in Spot : Hold(d)[p] = h[p]
  BY HoldIs DEF Spot, Streams
<1>2. Hold(d) \in Holds
  BY HoldIs
<1> HIDE DEF Hold
<1>3. QED
  BY <1>1, <1>2 DEF Holds

LEMMA ClearParts ==
  ASSUME NEW c \in Carries
  PROVE  /\ Clear(c, 1).s = c.s /\ Clear(c, 2).s = c.s
         /\ Clear(c, 1).late = c.late /\ Clear(c, 2).late = c.late
         /\ Clear(c, 1).r.code = c.r.code /\ Clear(c, 2).r.code = c.r.code
         /\ Clear(c, 1).r.stdout = <<>> /\ Clear(c, 1).r.stderr = c.r.stderr
         /\ Clear(c, 2).r.stdout = c.r.stdout /\ Clear(c, 2).r.stderr = <<>>
BY DEF Clear, Carries, Result

LEMMA ClearHold ==
  ASSUME NEW c \in Carries, NEW n \in {1, 2}
  PROVE  /\ Clear(c, n) \in Carries /\ Stream(n) \in Streams
         /\ Hold(Clear(c, n)) = Emptied(Hold(c), Stream(n))
<1> DEFINE h == Hold(c)
<1>1. h \in Holds /\ Clear(c, n) \in Carries
  BY HoldIs, ClearIs DEF Follows
<1>2. Stream(1) = "stdout" /\ Stream(2) = "stderr" /\ Stream(n) \in Streams
  BY DEF Stream, Streams
<1>3. "stdout" \in Spot /\ "stderr" \in Spot
  BY Apart DEF Streams
<1>4. \A p \in Target : p \in Spot /\ p \notin Streams
  BY Apart
<1>5. /\ \A p \in Spot : Emptied(h, Stream(n))[p] = IF p = Stream(n) THEN <<>> ELSE h[p]
      /\ Emptied(h, Stream(n)) \in Holds
  BY <1>1, <1>2, Apart, TextsAre DEF Emptied, Holds
<1> DEFINE g == Emptied(h, Stream(n))
           d == Clear(c, n)
<1>6. d.s = c.s /\ d.r.stdout = g["stdout"] /\ d.r.stderr = g["stderr"]
  <2>1. CASE n = 1
    <3>1. d.s = c.s /\ d.r.stdout = <<>> /\ d.r.stderr = c.r.stderr
      BY <2>1, ClearParts
    <3>2. g["stdout"] = <<>> /\ g["stderr"] = c.r.stderr
      BY <1>2, <1>3, <1>5, <2>1, HoldIs
    <3>3. QED
      BY <3>1, <3>2
  <2>2. CASE n = 2
    <3>1. d.s = c.s /\ d.r.stdout = c.r.stdout /\ d.r.stderr = <<>>
      BY <2>2, ClearParts
    <3>2. g["stderr"] = <<>> /\ g["stdout"] = c.r.stdout
      BY <1>2, <1>3, <1>5, <2>2, HoldIs
    <3>3. QED
      BY <3>1, <3>2
  <2>3. QED
    BY <2>1, <2>2
<1>7. \A p \in Target : read_file(d.s, p) = g[p]
  BY <1>2, <1>4, <1>5, <1>6, HoldIs
<1> HIDE DEF g, d
<1>8. Hold(d) = g
  BY <1>1, <1>5, <1>6, <1>7, HoldOf DEF g, d
<1>9. QED
  BY <1>1, <1>2, <1>8 DEF g, d

LEMMA TextSet ==
  ASSUME NEW c \in Carries, NEW t \in Texts
  PROVE  /\ LET d == [c EXCEPT !.r.stdout = t]
            IN  /\ d \in Carries /\ d.s = c.s /\ d.late = c.late /\ d.r.code = c.r.code
                /\ d.r.stdout = t /\ d.r.stderr = c.r.stderr
         /\ LET d == [c EXCEPT !.r.stderr = t]
            IN  /\ d \in Carries /\ d.s = c.s /\ d.late = c.late /\ d.r.code = c.r.code
                /\ d.r.stderr = t /\ d.r.stdout = c.r.stdout
<1>1. LET d == [c EXCEPT !.r.stdout = t]
      IN  /\ d \in Carries /\ d.s = c.s /\ d.late = c.late /\ d.r.code = c.r.code
          /\ d.r.stdout = t /\ d.r.stderr = c.r.stderr
  BY DEF Carries, Result
<1>2. LET d == [c EXCEPT !.r.stderr = t]
      IN  /\ d \in Carries /\ d.s = c.s /\ d.late = c.late /\ d.r.code = c.r.code
          /\ d.r.stderr = t /\ d.r.stdout = c.r.stdout
  BY DEF Carries, Result
<1>3. QED
  BY <1>1, <1>2

\* One stream moves into the other.
LEMMA StreamParts ==
  ASSUME NEW c \in Carries
  PROVE  LET a == OutToErr(c)
             b == ErrToOut(c)
             e == ErrBeforeOut(c)
         IN  /\ a.s = c.s /\ b.s = c.s /\ e.s = c.s
             /\ a.late = c.late /\ b.late = c.late /\ e.late = c.late
             /\ a.r.stdout = <<>> /\ a.r.stderr = c.r.stderr \o c.r.stdout
             /\ b.r.stderr = <<>> /\ b.r.stdout = c.r.stdout \o c.r.stderr
             /\ e.r.stderr = <<>> /\ e.r.stdout = c.r.stderr \o c.r.stdout
<1> DEFINE a == [c EXCEPT !.r.stderr = c.r.stderr \o c.r.stdout]
           b == [c EXCEPT !.r.stdout = c.r.stdout \o c.r.stderr]
           e == [c EXCEPT !.r.stdout = c.r.stderr \o c.r.stdout]
<1>1. OutToErr(c) = Clear(a, 1) /\ ErrToOut(c) = Clear(b, 2) /\ ErrBeforeOut(c) = Clear(e, 2)
  BY DEF OutToErr, ErrToOut, ErrBeforeOut
<1>2. c.r.stderr \o c.r.stdout \in Texts /\ c.r.stdout \o c.r.stderr \in Texts
  BY CarryParts, TextsAre
<1>3. a \in Carries /\ a.s = c.s /\ a.late = c.late /\ a.r.stderr = c.r.stderr \o c.r.stdout
  BY <1>2, TextSet
<1>4. b \in Carries /\ b.s = c.s /\ b.late = c.late /\ b.r.stdout = c.r.stdout \o c.r.stderr
  BY <1>2, TextSet
<1>5. e \in Carries /\ e.s = c.s /\ e.late = c.late /\ e.r.stdout = c.r.stderr \o c.r.stdout
  BY <1>2, TextSet
<1> HIDE DEF a, b, e
<1>6. /\ Clear(a, 1).s = a.s /\ Clear(a, 1).late = a.late
      /\ Clear(a, 1).r.stdout = <<>> /\ Clear(a, 1).r.stderr = a.r.stderr
  BY <1>3, ClearParts
<1>7. /\ Clear(b, 2).s = b.s /\ Clear(b, 2).late = b.late
      /\ Clear(b, 2).r.stderr = <<>> /\ Clear(b, 2).r.stdout = b.r.stdout
  BY <1>4, ClearParts
<1>8. /\ Clear(e, 2).s = e.s /\ Clear(e, 2).late = e.late
      /\ Clear(e, 2).r.stderr = <<>> /\ Clear(e, 2).r.stdout = e.r.stdout
  BY <1>5, ClearParts
<1>9. QED
  BY <1>1, <1>3, <1>4, <1>5, <1>6, <1>7, <1>8

LEMMA StreamHolds ==
  ASSUME NEW c \in Carries
  PROVE  /\ Hold(OutToErr(c)) = Behind(Hold(c), "stdout", "stderr")
         /\ Hold(ErrToOut(c)) = Behind(Hold(c), "stderr", "stdout")
         /\ Hold(ErrBeforeOut(c)) = InFront(Hold(c), "stderr", "stdout")
<1> DEFINE h == Hold(c)
<1>1. /\ h \in Holds
      /\ OutToErr(c) \in Carries /\ ErrToOut(c) \in Carries /\ ErrBeforeOut(c) \in Carries
  BY HoldIs, StreamsIntoStreams DEF Follows
<1>2. "stdout" \in Spot /\ "stderr" \in Spot /\ "stdout" # "stderr"
  BY Apart DEF Streams
<1>3. \A p \in Target : p \in Spot /\ p # "stdout" /\ p # "stderr"
  BY Apart DEF Streams
<1>4. /\ h["stdout"] = c.r.stdout /\ h["stderr"] = c.r.stderr
      /\ \A p \in Target : h[p] = read_file(c.s, p)
  BY HoldIs
<1>5. /\ Behind(h, "stdout", "stderr") \in Holds /\ Behind(h, "stderr", "stdout") \in Holds
      /\ InFront(h, "stderr", "stdout") \in Holds
  BY <1>1, <1>2, BehindIs, InFrontIs
<1> HIDE DEF h
<1>6. Hold(OutToErr(c)) = Behind(h, "stdout", "stderr")
  <2> DEFINE g == Behind(h, "stdout", "stderr")
             d == OutToErr(c)
  <2>1. \A p \in Spot : g[p] = IF p = "stdout" THEN <<>>
                               ELSE IF p = "stderr" THEN h["stderr"] \o h["stdout"] ELSE h[p]
    BY <1>1, <1>2 DEF Behind, Holds
  <2>2. d.s = c.s /\ d.r.stdout = <<>> /\ d.r.stderr = c.r.stderr \o c.r.stdout
    BY StreamParts
  <2> HIDE DEF g, d
  <2>3. /\ d.r.stdout = g["stdout"] /\ d.r.stderr = g["stderr"]
        /\ \A p \in Target : read_file(d.s, p) = g[p]
    BY <1>2, <1>3, <1>4, <2>1, <2>2
  <2>4. QED
    BY <1>1, <1>5, <2>3, HoldOf DEF g, d
<1>7. Hold(ErrToOut(c)) = Behind(h, "stderr", "stdout")
  <2> DEFINE g == Behind(h, "stderr", "stdout")
             d == ErrToOut(c)
  <2>1. \A p \in Spot : g[p] = IF p = "stderr" THEN <<>>
                               ELSE IF p = "stdout" THEN h["stdout"] \o h["stderr"] ELSE h[p]
    BY <1>1, <1>2 DEF Behind, Holds
  <2>2. d.s = c.s /\ d.r.stderr = <<>> /\ d.r.stdout = c.r.stdout \o c.r.stderr
    BY StreamParts
  <2> HIDE DEF g, d
  <2>3. /\ d.r.stdout = g["stdout"] /\ d.r.stderr = g["stderr"]
        /\ \A p \in Target : read_file(d.s, p) = g[p]
    BY <1>2, <1>3, <1>4, <2>1, <2>2
  <2>4. QED
    BY <1>1, <1>5, <2>3, HoldOf DEF g, d
<1>8. Hold(ErrBeforeOut(c)) = InFront(h, "stderr", "stdout")
  <2> DEFINE g == InFront(h, "stderr", "stdout")
             d == ErrBeforeOut(c)
  <2>1. \A p \in Spot : g[p] = IF p = "stderr" THEN <<>>
                               ELSE IF p = "stdout" THEN h["stderr"] \o h["stdout"] ELSE h[p]
    BY <1>1, <1>2 DEF InFront, Holds
  <2>2. d.s = c.s /\ d.r.stderr = <<>> /\ d.r.stdout = c.r.stderr \o c.r.stdout
    BY StreamParts
  <2> HIDE DEF g, d
  <2>3. /\ d.r.stdout = g["stdout"] /\ d.r.stderr = g["stderr"]
        /\ \A p \in Target : read_file(d.s, p) = g[p]
    BY <1>2, <1>3, <1>4, <2>1, <2>2
  <2>4. QED
    BY <1>1, <1>5, <2>3, HoldOf DEF g, d
<1>9. QED
  BY <1>6, <1>7, <1>8 DEF h

\* Of the shell, a write changes one text.
LEMMA WriteParts ==
  ASSUME NEW s \in Shells, NEW p \in Target, NEW t \in Texts
  PROVE  LET u == write_file(s, p, t)
         IN  /\ u \in Shells /\ u.fds = s.fds /\ u.offsets = s.offsets
             /\ read_file(u, p) = t
             /\ \A q : q # p => read_file(u, q) = read_file(s, q)
<1> DEFINE u == write_file(s, p, t)
<1>1. u \in Shells
  BY WriteFileIs
<1> DEFINE f == Put(s.files, p, t)
<1>2. u.fds = s.fds /\ u.offsets = s.offsets /\ u.files = f
  BY DEF write_file, Shells
<1> HIDE DEF u
<1>3. /\ DOMAIN f = {p} \cup DOMAIN s.files /\ f[p] = t
      /\ \A q \in DOMAIN s.files : q # p => f[q] = s.files[q]
  BY DEF Put
<1> HIDE DEF f
<1>4. read_file(u, p) = t /\ \A q : q # p => read_file(u, q) = read_file(s, q)
  BY <1>2, <1>3 DEF read_file
<1>5. QED
  BY <1>1, <1>2, <1>4 DEF u

LEMMA OffsetPut ==
  ASSUME NEW s \in Shells, NEW m \in Fds, NEW k \in Nat
  PROVE  LET u == [s EXCEPT !.offsets = Put(@, m, k)]
         IN  /\ u \in Shells /\ u.fds = s.fds
             /\ \A q : read_file(u, q) = read_file(s, q)
             /\ Offset(u, m) = k /\ \A i : i # m => Offset(u, i) = Offset(s, i)
<1> DEFINE u == [s EXCEPT !.offsets = Put(s.offsets, m, k)]
<1>1. Partial(Put(s.offsets, m, k), Fds, Nat)
  BY ShellParts, PutPartial
<1>2. u \in Shells
  BY <1>1, OffsetsEdit
<1> DEFINE f == Put(s.offsets, m, k)
<1>3. u.fds = s.fds /\ u.files = s.files /\ u.offsets = f
  BY DEF Shells
<1> HIDE DEF u
<1>4. /\ DOMAIN f = {m} \cup DOMAIN s.offsets /\ f[m] = k
      /\ \A i \in DOMAIN s.offsets : i # m => f[i] = s.offsets[i]
  BY DEF Put
<1> HIDE DEF f
<1>5. Offset(u, m) = k /\ \A i : i # m => Offset(u, i) = Offset(s, i)
  BY <1>3, <1>4 DEF Offset
<1>6. \A q : read_file(u, q) = read_file(s, q)
  BY <1>3 DEF read_file
<1>7. QED
  BY <1>2, <1>3, <1>5, <1>6 DEF u

LEMMA ShellSet ==
  ASSUME NEW c \in Carries, NEW u \in Shells
  PROVE  LET d == [c EXCEPT !.s = u]
         IN  d \in Carries /\ d.s = u /\ d.r = c.r /\ d.late = c.late
BY DEF Carries

LEMMA TextOf ==
  ASSUME NEW c \in Carries, NEW n \in {1, 2}
  PROVE  /\ Text(c, n) = Hold(c)[Stream(n)] /\ Stream(n) \in Streams /\ Stream(n) \in Spot
         /\ Stream(n) \notin Target
<1>1. Stream(1) = "stdout" /\ Stream(2) = "stderr"
  BY DEF Stream
<1>2. Text(c, 1) = c.r.stdout /\ Text(c, 2) = c.r.stderr
  BY DEF Text
<1>3. QED
  BY <1>1, <1>2, HoldIs, Apart DEF Streams

\* The shell takes a text in a file, and the stream it came from is emptied.
Wrote(s, u, p, t) ==
  /\ u \in Shells /\ u.fds = s.fds /\ read_file(u, p) = t
  /\ \A q : q # p => read_file(u, q) = read_file(s, q)

LEMMA WriteWrote ==
  ASSUME NEW s \in Shells, NEW p \in Target, NEW t \in Texts
  PROVE  Wrote(s, write_file(s, p, t), p, t) /\ write_file(s, p, t).offsets = s.offsets
BY WriteParts DEF Wrote

Written(c, u, n) == Clear([c EXCEPT !.s = u], n)
LEMMA WroteHold ==
  ASSUME NEW c \in Carries, NEW n \in {1, 2}, NEW p \in Target, NEW t \in Texts,
         NEW u, Wrote(c.s, u, p, t)
  PROVE  LET d == Written(c, u, n)
         IN  /\ d \in Carries /\ d.s = u /\ d.late = c.late /\ d.r.code = c.r.code
             /\ \A q \in Spot : Hold(d)[q] = IF q = Stream(n) THEN <<>>
                                             ELSE IF q = p THEN t ELSE Hold(c)[q]
<1> DEFINE a == [c EXCEPT !.s = u]
           d == Clear(a, n)
<1>1. a \in Carries /\ a.s = u /\ a.r = c.r /\ a.late = c.late
  BY ShellSet DEF Wrote
<1> HIDE DEF a
<1>2. d \in Carries /\ Hold(d) = Emptied(Hold(a), Stream(n)) /\ Stream(n) \in Streams
  BY <1>1, ClearHold
<1>3. d.s = u /\ d.late = c.late /\ d.r.code = c.r.code
  BY <1>1, ClearParts
<1>4. Hold(a) \in Holds /\ Hold(c) \in Holds
  BY <1>1, HoldIs
<1>5. \A q \in Spot : Hold(d)[q] = IF q = Stream(n) THEN <<>> ELSE Hold(a)[q]
  BY <1>2, <1>4, Apart DEF Emptied, Holds
<1>6. /\ Hold(a)["stdout"] = Hold(c)["stdout"] /\ Hold(a)["stderr"] = Hold(c)["stderr"]
      /\ \A q \in Target : Hold(a)[q] = IF q = p THEN t ELSE Hold(c)[q]
  BY <1>1, HoldIs DEF Wrote
<1>7. p # "stdout" /\ p # "stderr"
  BY Apart DEF Streams
<1>8. \A q \in Spot : Hold(a)[q] = IF q = p THEN t ELSE Hold(c)[q]
  BY <1>6, <1>7 DEF Spot, Streams
<1> HIDE DEF d
<1>9. QED
  BY <1>2, <1>3, <1>5, <1>8 DEF d, a, Written

LEMMA BehindOf ==
  ASSUME NEW h \in Holds, NEW g \in Holds, NEW p \in Spot, NEW q \in Spot, p # q,
         \A r \in Spot : g[r] = IF r = p THEN <<>> ELSE IF r = q THEN h[q] \o h[p] ELSE h[r]
  PROVE  g = Behind(h, p, q)
<1>1. Behind(h, p, q) \in Holds
  BY BehindIs
<1>2. \A r \in Spot : Behind(h, p, q)[r]
        = IF r = p THEN <<>> ELSE IF r = q THEN h[q] \o h[p] ELSE h[r]
  BY DEF Behind, Holds
<1> DEFINE f == Behind(h, p, q)
           o == h[q] \o h[p]
<1> HIDE DEF f, o
<1>3. \A r \in Spot : f[r] = IF r = p THEN <<>> ELSE IF r = q THEN o ELSE h[r]
  BY <1>2 DEF f, o
<1>4. \A r \in Spot : g[r] = IF r = p THEN <<>> ELSE IF r = q THEN o ELSE h[r]
  BY DEF o
<1>5. f \in Holds
  BY <1>1 DEF f
<1>6. f = g
  BY <1>3, <1>4, <1>5 DEF Holds
<1>7. QED
  BY <1>6 DEF f

LEMMA LaidOf ==
  ASSUME NEW h \in Holds, NEW g \in Holds, NEW p \in Spot, NEW q \in Spot, p # q, NEW at \in Nat,
         \A r \in Spot : g[r] = IF r = p THEN <<>>
                                ELSE IF r = q THEN Overwritten(h[q], at, h[p]) ELSE h[r]
  PROVE  g = Laid(h, p, q, at)
<1>1. Overwritten(h[q], at, h[p]) \in Texts
  BY OverwrittenIs DEF Holds
<1>2. \A r \in Spot : Laid(h, p, q, at)[r]
                      = IF r = p THEN <<>> ELSE IF r = q THEN Overwritten(h[q], at, h[p]) ELSE h[r]
  BY DEF Laid, Holds
<1>3. Laid(h, p, q, at) \in Holds
  BY <1>1, TextsAre DEF Laid, Holds
<1> DEFINE f == Laid(h, p, q, at)
           o == Overwritten(h[q], at, h[p])
<1> HIDE DEF f, o
<1>4. \A r \in Spot : f[r] = IF r = p THEN <<>> ELSE IF r = q THEN o ELSE h[r]
  BY <1>2 DEF f, o
<1>5. \A r \in Spot : g[r] = IF r = p THEN <<>> ELSE IF r = q THEN o ELSE h[r]
  BY DEF o
<1>6. f \in Holds
  BY <1>3 DEF f
<1>7. f = g
  BY <1>4, <1>5, <1>6 DEF Holds
<1>8. QED
  BY <1>7 DEF f

LEMMA ToFileHold ==
  ASSUME NEW c \in Carries, NEW n \in {1, 2}, NEW p \in Target
  PROVE  LET a == ToFile(c, n, p, TRUE)
             b == ToFile(c, n, p, FALSE)
         IN  /\ a.late = c.late /\ b.late = c.late
             /\ \A m : Offset(a.s, m) = Offset(c.s, m) /\ Offset(b.s, m) = Offset(c.s, m)
             /\ Hold(a) = Behind(Hold(c), Stream(n), p)
             /\ Hold(b) = Behind(Emptied(Hold(c), p), Stream(n), p)
<1> DEFINE h == Hold(c)
           x == Stream(n)
           old == read_file(c.s, p)
           new == Text(c, n)
           ua == write_file(c.s, p, old \o new)
           ub == write_file(c.s, p, new)
           a == Written(c, ua, n)
           b == Written(c, ub, n)
<1>1. ToFile(c, n, p, TRUE) = a /\ ToFile(c, n, p, FALSE) = b
  BY DEF ToFile, write_or_append, Written
<1>2. c.s \in Shells /\ old \in Texts /\ new \in Texts /\ old \o new \in Texts
  BY CarryParts, ReadFileIs, TextsAre
<1>3. h \in Holds /\ new = h[x] /\ old = h[p] /\ x \in Spot /\ x # p /\ p \in Spot
  BY TextOf, HoldIs, Apart
<1>4. Wrote(c.s, ua, p, old \o new) /\ Wrote(c.s, ub, p, new)
  BY <1>2, WriteWrote
<1>5. ua.offsets = c.s.offsets /\ ub.offsets = c.s.offsets
  BY <1>2, WriteWrote
<1> HIDE DEF ua, ub, old, new
<1>6. /\ a \in Carries /\ a.s = ua /\ a.late = c.late
      /\ \A q \in Spot : Hold(a)[q] = IF q = x THEN <<>> ELSE IF q = p THEN old \o new ELSE h[q]
  BY <1>2, <1>4, WroteHold
<1>7. /\ b \in Carries /\ b.s = ub /\ b.late = c.late
      /\ \A q \in Spot : Hold(b)[q] = IF q = x THEN <<>> ELSE IF q = p THEN new ELSE h[q]
  BY <1>2, <1>4, WroteHold
<1> HIDE DEF a, b, h, x
<1>8. Hold(a) \in Holds /\ Hold(b) \in Holds
  BY <1>6, <1>7, HoldIs
<1>9. Hold(a) = Behind(h, x, p)
  BY <1>3, <1>6, <1>8, BehindOf
<1>10. Hold(b) = Behind(Emptied(h, p), x, p)
  <2> DEFINE g == Emptied(h, p)
  <2>1. g \in Holds /\ \A q \in Spot : g[q] = IF q = p THEN <<>> ELSE h[q]
    BY <1>3, TextsAre DEF Emptied, Holds
  <2>2. <<>> \o new = new
    BY <1>2, ConcatEmptySeq DEF Texts
  <2> HIDE DEF g
  <2>3. g[p] \o g[x] = new
    BY <1>3, <2>1, <2>2
  <2>4. \A q \in Spot : Hold(b)[q] = IF q = x THEN <<>>
                                     ELSE IF q = p THEN g[p] \o g[x] ELSE g[q]
    BY <1>3, <1>7, <2>1, <2>3
  <2>5. QED
    BY <1>3, <1>8, <2>1, <2>4, BehindOf DEF g
<1>11. \A m : Offset(a.s, m) = Offset(c.s, m) /\ Offset(b.s, m) = Offset(c.s, m)
  BY <1>5, <1>6, <1>7 DEF Offset
<1>12. QED
  BY <1>1, <1>6, <1>7, <1>9, <1>10, <1>11 DEF h, x

\* Both streams, when the file they go to is not the null device.
LEMMA BothToHold ==
  ASSUME NEW c \in Carries, NEW p \in Target, p # Null, p # Directory
  PROVE  LET a == BothTo(c, p, TRUE)
             b == BothTo(c, p, FALSE)
         IN  /\ a.late = c.late /\ b.late = c.late
             /\ \A m : Offset(a.s, m) = Offset(c.s, m) /\ Offset(b.s, m) = Offset(c.s, m)
             /\ Hold(a) = Behind(Behind(Hold(c), "stdout", p), "stderr", p)
             /\ Hold(b) = Behind(Behind(Emptied(Hold(c), p), "stdout", p), "stderr", p)
<1> DEFINE h == Hold(c)
           old == read_file(c.s, p)
           out == c.r.stdout
           err == c.r.stderr
           ua == write_file(c.s, p, old \o (out \o err))
           ub == write_file(c.s, p, out \o err)
           a1 == Written(c, ua, 1)
           b1 == Written(c, ub, 1)
           a == Clear(a1, 2)
           b == Clear(b1, 2)
<1>1. BothTo(c, p, TRUE) = a /\ BothTo(c, p, FALSE) = b
  BY DEF BothTo, ClearBoth, write_or_append, Written
<1>2. /\ c.s \in Shells /\ old \in Texts /\ out \in Texts /\ err \in Texts
      /\ out \o err \in Texts /\ old \o (out \o err) \in Texts
  BY CarryParts, ReadFileIs, TextsAre
<1>3. /\ h \in Holds /\ out = h["stdout"] /\ err = h["stderr"] /\ old = h[p]
  BY HoldIs
<1>4. /\ "stdout" \in Spot /\ "stderr" \in Spot /\ p \in Spot
      /\ p # "stdout" /\ p # "stderr" /\ "stdout" # "stderr"
  BY Apart DEF Streams
<1>5. Stream(1) = "stdout" /\ Stream(2) = "stderr"
  BY DEF Stream
<1>6. Wrote(c.s, ua, p, old \o (out \o err)) /\ Wrote(c.s, ub, p, out \o err)
  BY <1>2, WriteWrote
<1>7. ua.offsets = c.s.offsets /\ ub.offsets = c.s.offsets
  BY <1>2, WriteWrote
<1> HIDE DEF ua, ub, old, out, err
<1>8. /\ a1 \in Carries /\ a1.s = ua /\ a1.late = c.late
      /\ \A q \in Spot : Hold(a1)[q] = IF q = "stdout" THEN <<>>
                                       ELSE IF q = p THEN old \o (out \o err) ELSE h[q]
  BY <1>2, <1>5, <1>6, WroteHold
<1>9. /\ b1 \in Carries /\ b1.s = ub /\ b1.late = c.late
      /\ \A q \in Spot : Hold(b1)[q] = IF q = "stdout" THEN <<>>
                                       ELSE IF q = p THEN out \o err ELSE h[q]
  BY <1>2, <1>5, <1>6, WroteHold
<1> HIDE DEF a1, b1, h
<1>10. /\ a \in Carries /\ a.s = ua /\ a.late = c.late /\ Hold(a) = Emptied(Hold(a1), "stderr")
       /\ b \in Carries /\ b.s = ub /\ b.late = c.late /\ Hold(b) = Emptied(Hold(b1), "stderr")
  BY <1>5, <1>8, <1>9, ClearHold, ClearParts
<1>11. Hold(a1) \in Holds /\ Hold(b1) \in Holds /\ Hold(a) \in Holds /\ Hold(b) \in Holds
  BY <1>8, <1>9, <1>10, HoldIs
<1>12. \A g \in Holds : \A q \in Spot : Emptied(g, "stderr")[q]
         = IF q = "stderr" THEN <<>> ELSE g[q]
  BY <1>4 DEF Emptied, Holds
<1> HIDE DEF a, b
<1>13. \A q \in Spot : Hold(a)[q] = IF q \in Streams THEN <<>>
                                    ELSE IF q = p THEN old \o (out \o err) ELSE h[q]
  BY <1>8, <1>10, <1>11, <1>12 DEF Streams
<1>14. \A q \in Spot : Hold(b)[q] = IF q \in Streams THEN <<>>
                                    ELSE IF q = p THEN out \o err ELSE h[q]
  BY <1>9, <1>10, <1>11, <1>12 DEF Streams
<1>15. \A f \in Holds : /\ Behind(f, "stdout", p) \in Holds
                        /\ \A q \in Spot : Behind(f, "stdout", p)[q] =
                             IF q = "stdout" THEN <<>>
                             ELSE IF q = p THEN f[p] \o f["stdout"] ELSE f[q]
  BY <1>4, BehindIs DEF Behind, Holds
<1>16. Hold(a) = Behind(Behind(h, "stdout", p), "stderr", p)
  <2> DEFINE g == Behind(h, "stdout", p)
  <2>1. /\ g \in Holds
        /\ \A q \in Spot : g[q] = IF q = "stdout" THEN <<>> ELSE IF q = p THEN old \o out ELSE h[q]
    BY <1>3, <1>15
  <2>2. (old \o out) \o err = old \o (out \o err)
    BY <1>2, ConcatAssociative DEF Texts
  <2> HIDE DEF g
  <2>3. g[p] \o g["stderr"] = old \o (out \o err)
    BY <1>3, <1>4, <2>1, <2>2
  <2>4. \A q \in Spot : Hold(a)[q] = IF q = "stderr" THEN <<>>
                                     ELSE IF q = p THEN g[p] \o g["stderr"] ELSE g[q]
    BY <1>4, <1>13, <2>1, <2>3 DEF Streams
  <2>5. QED
    BY <1>4, <1>11, <2>1, <2>4, BehindOf DEF g
<1>17. Hold(b) = Behind(Behind(Emptied(h, p), "stdout", p), "stderr", p)
  <2> DEFINE f == Emptied(h, p)
             g == Behind(f, "stdout", p)
  <2>1. f \in Holds /\ \A q \in Spot : f[q] = IF q = p THEN <<>> ELSE h[q]
    BY <1>3, <1>4, TextsAre DEF Emptied, Holds
  <2>2. <<>> \o out = out
    BY <1>2, ConcatEmptySeq DEF Texts
  <2> HIDE DEF f
  <2>3. /\ g \in Holds
        /\ \A q \in Spot : g[q]
              = IF q = "stdout" THEN <<>> ELSE IF q = p THEN f[p] \o f["stdout"] ELSE f[q]
    BY <1>15, <2>1
  <2> HIDE DEF g
  <2>4. \A q \in Spot : g[q] = IF q = "stdout" THEN <<>> ELSE IF q = p THEN out ELSE h[q]
    BY <1>3, <1>4, <2>1, <2>2, <2>3
  <2>5. g[p] \o g["stderr"] = out \o err
    BY <1>3, <1>4, <2>4
  <2>6. \A q \in Spot : Hold(b)[q] = IF q = "stderr" THEN <<>>
                                     ELSE IF q = p THEN g[p] \o g["stderr"] ELSE g[q]
    BY <1>4, <1>14, <2>4, <2>5 DEF Streams
  <2>7. QED
    BY <1>4, <1>11, <2>3, <2>6, BehindOf DEF g, f
<1>18. \A m : Offset(a.s, m) = Offset(c.s, m) /\ Offset(b.s, m) = Offset(c.s, m)
  BY <1>7, <1>10 DEF Offset
<1>19. QED
  BY <1>1, <1>10, <1>16, <1>17, <1>18 DEF h

\* Into a descriptor that leads to a file, which goes on by what was written.
Goneon(s, p, t, m, k) == [write_file(s, p, t) EXCEPT !.offsets = Put(@, m, k)]

LEMMA GoneonIs ==
  ASSUME NEW s \in Shells, NEW p \in Target, NEW t \in Texts, NEW m \in Fds, NEW k \in Nat
  PROVE  /\ Wrote(s, Goneon(s, p, t, m, k), p, t)
         /\ Offset(Goneon(s, p, t, m, k), m) = k
         /\ \A i : i # m => Offset(Goneon(s, p, t, m, k), i) = Offset(s, i)
<1> DEFINE v == write_file(s, p, t)
           u == Goneon(s, p, t, m, k)
<1>1. Wrote(s, v, p, t) /\ v.offsets = s.offsets
  BY WriteWrote
<1>2. u = [v EXCEPT !.offsets = Put(@, m, k)]
  BY DEF Goneon
<1> HIDE DEF v
<1>3. /\ u \in Shells /\ u.fds = v.fds
      /\ \A q : read_file(u, q) = read_file(v, q)
      /\ Offset(u, m) = k /\ \A i : i # m => Offset(u, i) = Offset(v, i)
  BY <1>1, <1>2, OffsetPut DEF Wrote
<1> HIDE DEF u
<1>4. QED
  BY <1>1, <1>3 DEF Wrote, Offset, u

LEMMA FdParts ==
  ASSUME NEW c \in Carries, NEW m \in DOMAIN c.s.fds
  PROVE  /\ m \in Fds /\ c.s.fds[m] \in Descriptor
         /\ c.s.fds[m].type \in {"OutputFile", "ReadWriteFile"} => c.s.fds[m].path \in Target
<1>1. Partial(c.s.fds, Fds, Descriptor)
  BY CarryParts, ShellParts
<1>2. m \in Fds /\ c.s.fds[m] \in Descriptor
  BY <1>1 DEF Partial
<1>3. QED
  BY <1>2 DEF Descriptor

LEMMA IntoFdHold ==
  ASSUME NEW c \in Carries, NEW n \in {1, 2}, NEW m \in DOMAIN c.s.fds,
         c.s.fds[m].type \in {"OutputFile", "ReadWriteFile"}
  PROVE  LET e == IntoFd(c, n, m)
             p == c.s.fds[m].path
             k == Offset(c.s, m)
         IN  /\ e.late = c.late
             /\ Offset(e.s, m) = k + Len(Hold(c)[Stream(n)])
             /\ \A i : i # m => Offset(e.s, i) = Offset(c.s, i)
             /\ c.s.fds[m].type = "OutputFile" => Hold(e) = Behind(Hold(c), Stream(n), p)
             /\ c.s.fds[m].type = "ReadWriteFile" => Hold(e) = Laid(Hold(c), Stream(n), p, k)
<1> DEFINE h == Hold(c)
           x == Stream(n)
           p == c.s.fds[m].path
           k == Offset(c.s, m)
           old == read_file(c.s, p)
           new == Text(c, n)
           j == k + Len(new)
           ua == Goneon(c.s, p, old \o new, m, j)
           ub == Goneon(c.s, p, Overwritten(old, k, new), m, j)
           a == Written(c, ua, n)
           b == Written(c, ub, n)
<1>1. /\ c.s.fds[m].type = "OutputFile" => IntoFd(c, n, m) = a
      /\ c.s.fds[m].type = "ReadWriteFile" => IntoFd(c, n, m) = b
  BY DEF IntoFd, write_or_append, Written, Goneon
<1>2. /\ c.s \in Shells /\ old \in Texts /\ new \in Texts /\ old \o new \in Texts
      /\ k \in Nat /\ j \in Nat /\ Overwritten(old, k, new) \in Texts /\ m \in Fds /\ p \in Target
  <2>1. m \in Fds /\ p \in Target /\ c.s \in Shells /\ new \in Texts
    BY CarryParts, FdParts
  <2>2. k \in Nat /\ old \in Texts
    BY <2>1, ReadFileIs, OffsetIs
  <2> HIDE DEF old, new, k, p
  <2>3. old \o new \in Texts /\ Len(new) \in Nat /\ Overwritten(old, k, new) \in Texts
    BY <2>1, <2>2, TextsAre, OverwrittenIs
  <2>4. QED
    BY <2>1, <2>2, <2>3
<1>3. h \in Holds /\ new = h[x] /\ old = h[p] /\ x \in Spot /\ x # p /\ p \in Spot
  BY <1>2, TextOf, HoldIs, Apart
<1> HIDE DEF p
<1>4. /\ Wrote(c.s, ua, p, old \o new) /\ Wrote(c.s, ub, p, Overwritten(old, k, new))
      /\ Offset(ua, m) = j /\ \A i : i # m => Offset(ua, i) = Offset(c.s, i)
      /\ Offset(ub, m) = j /\ \A i : i # m => Offset(ub, i) = Offset(c.s, i)
  BY <1>2, GoneonIs
<1> HIDE DEF ua, ub, old, new, k
<1>5. /\ a \in Carries /\ a.s = ua /\ a.late = c.late
      /\ \A q \in Spot : Hold(a)[q] = IF q = x THEN <<>> ELSE IF q = p THEN old \o new ELSE h[q]
  BY <1>2, <1>4, WroteHold
<1>6. /\ b \in Carries /\ b.s = ub /\ b.late = c.late
      /\ \A q \in Spot : Hold(b)[q] = IF q = x THEN <<>>
                                      ELSE IF q = p THEN Overwritten(old, k, new) ELSE h[q]
  BY <1>2, <1>4, WroteHold
<1> HIDE DEF a, b, h, x
<1>7. Hold(a) \in Holds /\ Hold(b) \in Holds
  BY <1>5, <1>6, HoldIs
<1>8. Hold(a) = Behind(h, x, p)
  BY <1>3, <1>5, <1>7, BehindOf
<1>9. Hold(b) = Laid(h, x, p, k)
  BY <1>2, <1>3, <1>6, <1>7, LaidOf
<1> DEFINE e == IntoFd(c, n, m)
<1>10. /\ e.late = c.late /\ Offset(e.s, m) = k + Len(new)
       /\ \A i : i # m => Offset(e.s, i) = Offset(c.s, i)
  BY <1>1, <1>4, <1>5, <1>6
<1>11. QED
  BY <1>1, <1>3, <1>8, <1>9, <1>10 DEF h, x, k, p, new

(***************************************************************************)
(* A step of a list takes a line nowhere but into the files P, and no      *)
(* descriptor back; a step that saves the line does not lose it.           *)
(***************************************************************************)
Quiet(l, t) == \A k : ~Has(l, t, k)
Flows(l, c, d, P) ==
  /\ Goes(l, Hold(c), Hold(d), P)
  /\ Quiet(l, c.late) => Quiet(l, d.late)
  /\ \A m : Offset(d.s, m) >= Offset(c.s, m)
Saves(l, c, d) == Some(l, Hold(c)) => Some(l, Hold(d))

LEMMA FlowsOn ==
  ASSUME NEW l, NEW c \in Carries, NEW d \in Carries, NEW e \in Carries, NEW P,
         Flows(l, c, d, P), Flows(l, d, e, P)
  PROVE  Flows(l, c, e, P)
<1>1. \A m : Offset(c.s, m) \in Nat /\ Offset(d.s, m) \in Nat /\ Offset(e.s, m) \in Nat
  BY CarryParts, OffsetIs
<1>2. \A m : Offset(e.s, m) >= Offset(c.s, m)
  BY <1>1 DEF Flows
<1>3. Goes(l, Hold(c), Hold(e), P)
  BY GoesOn DEF Flows
<1>4. QED
  BY <1>2, <1>3 DEF Flows

LEMMA FlowsMore ==
  ASSUME NEW l, NEW c, NEW d, NEW P, NEW Q, Flows(l, c, d, P), P \cap Target \subseteq Q
  PROVE  Flows(l, c, d, Q)
BY DEF Flows, Goes

\* Where nothing changes but lines that are no marks.
Like(l, c, d) ==
  /\ \A p \in Spot : \A k : Has(l, Hold(d)[p], k) <=> Has(l, Hold(c)[p], k)
  /\ Quiet(l, c.late) => Quiet(l, d.late)
  /\ \A m : Offset(d.s, m) = Offset(c.s, m)

LEMMA LikeFlows ==
  ASSUME NEW l, NEW c \in Carries, NEW d \in Carries, Like(l, c, d), NEW P
  PROVE  Flows(l, c, d, P) /\ Saves(l, c, d)
<1> DEFINE h == Hold(c)
           g == Hold(d)
<1> HIDE DEF h, g
<1>1. \A p \in Spot : \A k : Has(l, g[p], k) <=> Has(l, h[p], k)
  BY DEF Like, h, g
<1>2. Goes(l, h, g, P)
  <2>1. One(l, h) => One(l, g)
    BY <1>1 DEF One
  <2>2. QED
    BY <1>1, <2>1, Apart DEF Goes
<1>3. Some(l, h) => Some(l, g)
  BY <1>1 DEF Some
<1>4. \A m : Offset(c.s, m) \in Nat /\ Offset(d.s, m) = Offset(c.s, m)
  BY CarryParts, OffsetIs DEF Like
<1>5. \A m : Offset(d.s, m) >= Offset(c.s, m)
  BY <1>4
<1>6. QED
  BY <1>2, <1>3, <1>5 DEF Flows, Saves, Like, h, g

LEMMA LikeSelf ==
  ASSUME NEW l, NEW c
  PROVE  Like(l, c, c)
BY DEF Like

LEMMA LikeOn ==
  ASSUME NEW l, NEW c, NEW d, NEW e, Like(l, c, d), Like(l, d, e)
  PROVE  Like(l, c, e)
BY DEF Like

\* Nothing is said of seen, of go and of the code.
LEMMA LikeIs ==
  ASSUME NEW l, NEW c, NEW d, d.s = c.s, d.r.stdout = c.r.stdout, d.r.stderr = c.r.stderr,
         d.late = c.late
  PROVE  Like(l, c, d)
<1>1. Hold(d) = Hold(c)
  BY DEF Hold
<1>2. QED
  BY <1>1 DEF Like

LEMMA ComplaintParts ==
  ASSUME NEW c \in Carries
  PROVE  /\ Failed(c).s = c.s /\ Failed(c).late = c.late /\ Failed(c).r.code = 1
         /\ Failed(c).r.stdout = c.r.stdout /\ Failed(c).r.stderr = c.r.stderr
         /\ Complain(c).s = c.s /\ Complain(c).late = c.late /\ Complain(c).r.code = 1
         /\ Complain(c).r.stdout = c.r.stdout
         /\ Complain(c).r.stderr = Append(c.r.stderr, Message)
         /\ Late(c).s = c.s /\ Late(c).late = Append(c.late, Message) /\ Late(c).r = Failed(c).r
         /\ Stop(c).s = c.s /\ Stop(c).late = c.late /\ Stop(c).r = c.r
<1>1. /\ Failed(c).s = c.s /\ Failed(c).late = c.late /\ Failed(c).r.code = 1
      /\ Failed(c).r.stdout = c.r.stdout /\ Failed(c).r.stderr = c.r.stderr
      /\ Failed(c) \in Carries
  BY DEF Failed, Carries, Result
<1>2. \A b \in Carries : \A t \in Texts :
        LET d == [b EXCEPT !.r.stderr = t]
        IN  /\ d.s = b.s /\ d.late = b.late /\ d.r.code = b.r.code
            /\ d.r.stdout = b.r.stdout /\ d.r.stderr = t
  BY DEF Carries, Result
<1>3. \A b \in Carries : \A t : LET d == [b EXCEPT !.late = t]
                                IN  d.s = b.s /\ d.r = b.r /\ d.late = t
  BY DEF Carries
<1>4. Append(c.r.stderr, Message) \in Texts
  BY CarryParts, TextsAre
<1> DEFINE f == Failed(c)
           t == Append(c.r.stderr, Message)
           u == Append(c.late, Message)
<1>5. Complain(c) = [f EXCEPT !.r.stderr = t] /\ Late(c) = [f EXCEPT !.late = u]
  BY <1>1 DEF Complain, Late
<1>6. Stop(c).s = c.s /\ Stop(c).late = c.late /\ Stop(c).r = c.r
  BY DEF Stop, Carries
<1>6a. f \in Carries /\ t \in Texts
  BY <1>1, <1>4
<1> HIDE DEF f, t, u
<1>7. /\ Complain(c).s = f.s /\ Complain(c).late = f.late /\ Complain(c).r.code = f.r.code
      /\ Complain(c).r.stdout = f.r.stdout /\ Complain(c).r.stderr = t
  BY <1>2, <1>5, <1>6a
<1>8. Late(c).s = f.s /\ Late(c).r = f.r /\ Late(c).late = u
  BY <1>1, <1>3, <1>5 DEF f
<1>9. QED
  BY <1>1, <1>6, <1>7, <1>8 DEF f, t, u

LEMMA ComplaintsLike ==
  ASSUME NEW l \in Marks, NEW c \in Carries
  PROVE  /\ Like(l, c, Complain(c)) /\ Like(l, c, Late(c)) /\ Like(l, c, Stop(c))
         /\ Complain(c).r.code = 1 /\ Late(c).r.code = 1 /\ Stop(c).r.code = c.r.code
<1>1. Like(l, c, Stop(c)) /\ Stop(c).r.code = c.r.code
  BY ComplaintParts, LikeIs
<1>2. Like(l, c, Late(c)) /\ Late(c).r.code = 1
  <2> DEFINE d == Late(c)
  <2>1. d.s = c.s /\ d.r = Failed(c).r /\ d.late = Append(c.late, Message) /\ c.late \in Texts
    BY ComplaintParts, CarryParts
  <2>2. Failed(c).r.stdout = c.r.stdout /\ Failed(c).r.stderr = c.r.stderr /\ Failed(c).r.code = 1
    BY ComplaintParts
  <2> HIDE DEF d
  <2>3. Hold(d) = Hold(c)
    BY <2>1, <2>2 DEF Hold
  <2>4. Quiet(l, c.late) => Quiet(l, d.late)
    BY <2>1, HasMessage DEF Quiet
  <2>5. QED
    BY <2>1, <2>2, <2>3, <2>4 DEF Like, d
<1>3. Like(l, c, Complain(c)) /\ Complain(c).r.code = 1
  <2> DEFINE d == Complain(c)
  <2>1. /\ d.s = c.s /\ d.late = c.late /\ d.r.code = 1 /\ d.r.stdout = c.r.stdout
        /\ d.r.stderr = Append(c.r.stderr, Message) /\ d \in Carries /\ c.r.stderr \in Texts
    BY ComplaintParts, CarryParts, ComplaintsAre DEF Follows
  <2>2. \A k : Has(l, d.r.stderr, k) <=> Has(l, c.r.stderr, k)
    BY <2>1, HasMessage
  <2> HIDE DEF d
  <2>3. /\ Hold(d)["stdout"] = Hold(c)["stdout"] /\ Hold(d)["stderr"] = d.r.stderr
        /\ Hold(c)["stderr"] = c.r.stderr /\ \A p \in Target : Hold(d)[p] = Hold(c)[p]
    BY <2>1, HoldIs
  <2>4. \A p \in Spot : \A k : Has(l, Hold(d)[p], k) <=> Has(l, Hold(c)[p], k)
    BY <2>2, <2>3 DEF Spot, Streams
  <2>5. QED
    BY <2>1, <2>4 DEF Like, d
<1>4. QED
  BY <1>1, <1>2, <1>3

LEMMA FlowsSelf ==
  ASSUME NEW l, NEW c \in Carries, NEW P
  PROVE  Flows(l, c, c, P) /\ Saves(l, c, c)
BY LikeSelf, LikeFlows

\* What Flows asks beside the lines themselves.
Aside(l, c, d) == d.late = c.late /\ \A m : Offset(d.s, m) >= Offset(c.s, m)

LEMMA AsideFlows ==
  ASSUME NEW l, NEW c, NEW d, NEW P, Aside(l, c, d), Goes(l, Hold(c), Hold(d), P)
  PROVE  Flows(l, c, d, P)
BY DEF Aside, Flows

LEMMA SameAside ==
  ASSUME NEW l, NEW c \in Carries, NEW d, d.late = c.late,
         \A m : Offset(d.s, m) = Offset(c.s, m)
  PROVE  Aside(l, c, d)
<1>1. \A m : Offset(c.s, m) \in Nat
  BY CarryParts, OffsetIs
<1>2. QED
  BY <1>1 DEF Aside

LEMMA ClearFlows ==
  ASSUME NEW l, NEW c \in Carries, NEW n, NEW P
  PROVE  /\ Clear(c, n) \in Carries /\ Flows(l, c, Clear(c, n), P)
         /\ n \notin {1, 2} => Clear(c, n) = c
<1>1. n \notin {1, 2} => Clear(c, n) = c
  BY DEF Clear
<1>2. Clear(c, n) \in Carries
  BY ClearIs DEF Follows
<1>3. CASE n \in {1, 2}
  <2> DEFINE d == Clear(c, n)
  <2>1. Hold(d) = Emptied(Hold(c), Stream(n)) /\ Hold(c) \in Holds /\ Stream(n) \in Spot
    BY <1>3, ClearHold, HoldIs, TextOf
  <2>2. d.s = c.s /\ d.late = c.late
    BY <1>3, ClearParts
  <2> HIDE DEF d
  <2>3. Goes(l, Hold(c), Hold(d), {})
    BY <2>1, EmptiedGoes
  <2>4. Goes(l, Hold(c), Hold(d), P)
    BY <2>3, GoesMore
  <2>5. Aside(l, c, d)
    BY <2>2, SameAside
  <2>6. QED
    BY <1>1, <1>2, <2>4, <2>5, AsideFlows DEF d
<1>4. CASE n \notin {1, 2}
  BY <1>1, <1>2, <1>4, FlowsSelf
<1>5. QED
  BY <1>3, <1>4

LEMMA ClearBothFlows ==
  ASSUME NEW l, NEW c \in Carries, NEW P
  PROVE  Flows(l, c, ClearBoth(c), P)
<1>1. Clear(c, 1) \in Carries /\ Flows(l, c, Clear(c, 1), P)
  BY ClearFlows
<1>2. Clear(Clear(c, 1), 2) \in Carries /\ Flows(l, Clear(c, 1), Clear(Clear(c, 1), 2), P)
  BY <1>1, ClearFlows
<1>3. QED
  BY <1>1, <1>2, FlowsOn DEF ClearBoth

LEMMA StreamsFlow ==
  ASSUME NEW l, NEW c \in Carries, NEW P
  PROVE  /\ Flows(l, c, OutToErr(c), P) /\ Saves(l, c, OutToErr(c))
         /\ Flows(l, c, ErrToOut(c), P) /\ Saves(l, c, ErrToOut(c))
         /\ Flows(l, c, ErrBeforeOut(c), P) /\ Saves(l, c, ErrBeforeOut(c))
<1> DEFINE h == Hold(c)
           a == OutToErr(c)
           b == ErrToOut(c)
           e == ErrBeforeOut(c)
<1>1. /\ h \in Holds /\ "stdout" \in Spot /\ "stderr" \in Spot /\ "stdout" # "stderr"
      /\ "stdout" \in Streams /\ "stderr" \in Streams
      /\ {"stdout"} \cap Target = {} /\ {"stderr"} \cap Target = {}
  BY HoldIs, Apart DEF Streams
<1>2. a.s = c.s /\ b.s = c.s /\ e.s = c.s /\ a.late = c.late /\ b.late = c.late /\ e.late = c.late
  BY StreamParts
<1>3. /\ Hold(a) = Behind(h, "stdout", "stderr") /\ Hold(b) = Behind(h, "stderr", "stdout")
      /\ Hold(e) = InFront(h, "stderr", "stdout")
  BY StreamHolds
<1> HIDE DEF a, b, e
<1>4. Aside(l, c, a) /\ Aside(l, c, b) /\ Aside(l, c, e)
  BY <1>2, SameAside
<1>5. Goes(l, h, Hold(a), {"stderr"}) /\ (Some(l, h) => Some(l, Hold(a)))
  BY <1>1, <1>3, BehindGoes
<1>6. Goes(l, h, Hold(b), {"stdout"}) /\ (Some(l, h) => Some(l, Hold(b)))
  BY <1>1, <1>3, BehindGoes
<1>7. Goes(l, h, Hold(e), {"stdout"}) /\ (Some(l, h) => Some(l, Hold(e)))
  BY <1>1, <1>3, InFrontGoes
<1>8. /\ Flows(l, c, a, {"stderr"}) /\ Flows(l, c, b, {"stdout"}) /\ Flows(l, c, e, {"stdout"})
  BY <1>4, <1>5, <1>6, <1>7, AsideFlows
<1>9. {"stdout"} \cap Target \subseteq P /\ {"stderr"} \cap Target \subseteq P
  BY <1>1
<1>10. Flows(l, c, a, P) /\ Flows(l, c, b, P) /\ Flows(l, c, e, P)
  BY <1>8, <1>9, FlowsMore
<1>11. QED
  BY <1>5, <1>6, <1>7, <1>10 DEF Saves, a, b, e

LEMMA EmptiedFirst ==
  ASSUME NEW l, NEW h \in Holds, NEW p \in Target
  PROVE  /\ Emptied(h, p) \in Holds /\ \A P : Goes(l, h, Emptied(h, p), P)
         /\ Quiet(l, h[p]) => (Some(l, h) => Some(l, Emptied(h, p)))
<1>1. p \in Spot
  BY Apart
<1>2. QED
  BY <1>1, EmptiedIs, EmptiedGoes, GoesMore DEF Quiet

LEMMA ToFileFlows ==
  ASSUME NEW l, NEW c \in Carries, NEW n \in {1, 2}, NEW p \in Target, NEW append \in BOOLEAN
  PROVE  /\ Flows(l, c, ToFile(c, n, p, append), {p})
         /\ append \/ Quiet(l, Hold(c)[p]) => Saves(l, c, ToFile(c, n, p, append))
<1> DEFINE h == Hold(c)
           x == Stream(n)
           g == Emptied(h, p)
           a == ToFile(c, n, p, TRUE)
           b == ToFile(c, n, p, FALSE)
<1>1. /\ a.late = c.late /\ b.late = c.late
      /\ \A m : Offset(a.s, m) = Offset(c.s, m) /\ Offset(b.s, m) = Offset(c.s, m)
      /\ Hold(a) = Behind(h, x, p) /\ Hold(b) = Behind(g, x, p)
  BY ToFileHold
<1>2. h \in Holds /\ x \in Spot /\ x \in Streams /\ p \in Spot /\ x # p
  BY HoldIs, TextOf, Apart
<1>3. g \in Holds /\ Goes(l, h, g, {p}) /\ (Quiet(l, h[p]) => (Some(l, h) => Some(l, g)))
  BY <1>2, EmptiedFirst
<1> HIDE DEF a, b, h, x, g
<1>4. Aside(l, c, a) /\ Aside(l, c, b)
  BY <1>1, SameAside
<1>5. Goes(l, h, Hold(a), {p}) /\ (Some(l, h) => Some(l, Hold(a)))
  BY <1>1, <1>2, BehindGoes
<1>6. Goes(l, g, Hold(b), {p}) /\ (Some(l, g) => Some(l, Hold(b)))
  BY <1>1, <1>2, <1>3, BehindGoes
<1>7. Goes(l, h, Hold(b), {p})
  BY <1>3, <1>6, GoesOn
<1>8. Flows(l, c, a, {p}) /\ Saves(l, c, a)
  BY <1>4, <1>5, AsideFlows DEF Saves, h
<1>9. Flows(l, c, b, {p}) /\ (Quiet(l, h[p]) => Saves(l, c, b))
  BY <1>3, <1>4, <1>6, <1>7, AsideFlows DEF Saves, h
<1>10. CASE append
  <2>1. ToFile(c, n, p, append) = a
    BY <1>10 DEF ToFile, write_or_append, a
  <2>2. QED
    BY <1>8, <2>1
<1>11. CASE ~append
  <2>1. ToFile(c, n, p, append) = b
    BY <1>11 DEF ToFile, write_or_append, b
  <2>2. QED
    BY <1>9, <1>11, <2>1 DEF h
<1>12. QED
  BY <1>10, <1>11

LEMMA BothToFlows ==
  ASSUME NEW l, NEW c \in Carries, NEW p \in Target, NEW append \in BOOLEAN, p # Directory
  PROVE  /\ Flows(l, c, BothTo(c, p, append), {p})
         /\ p # Null /\ (append \/ Quiet(l, Hold(c)[p])) => Saves(l, c, BothTo(c, p, append))
<1>1. CASE p = Null
  <2>1. BothTo(c, p, append) = ClearBoth(c)
    BY <1>1 DEF BothTo
  <2>2. QED
    BY <1>1, <2>1, ClearBothFlows
<1>2. CASE p # Null
  <2> DEFINE h == Hold(c)
             g == Emptied(h, p)
             h1 == Behind(h, "stdout", p)
             g1 == Behind(g, "stdout", p)
             a == BothTo(c, p, TRUE)
             b == BothTo(c, p, FALSE)
  <2>1. /\ a.late = c.late /\ b.late = c.late
        /\ \A m : Offset(a.s, m) = Offset(c.s, m) /\ Offset(b.s, m) = Offset(c.s, m)
        /\ Hold(a) = Behind(h1, "stderr", p) /\ Hold(b) = Behind(g1, "stderr", p)
    BY <1>2, BothToHold
  <2>2. /\ h \in Holds /\ "stdout" \in Spot /\ "stderr" \in Spot /\ p \in Spot
        /\ "stdout" \in Streams /\ "stderr" \in Streams /\ "stdout" # p /\ "stderr" # p
    BY HoldIs, Apart DEF Streams
  <2>3. g \in Holds /\ Goes(l, h, g, {p}) /\ (Quiet(l, h[p]) => (Some(l, h) => Some(l, g)))
    BY <2>2, EmptiedFirst
  <2>4. h1 \in Holds /\ Goes(l, h, h1, {p}) /\ (Some(l, h) => Some(l, h1))
    BY <2>2, BehindIs, BehindGoes
  <2>5. g1 \in Holds /\ Goes(l, g, g1, {p}) /\ (Some(l, g) => Some(l, g1))
    BY <2>2, <2>3, BehindIs, BehindGoes
  <2> HIDE DEF a, b, h, g, h1, g1
  <2>6. Aside(l, c, a) /\ Aside(l, c, b)
    BY <2>1, SameAside
  <2>7. Goes(l, h1, Hold(a), {p}) /\ (Some(l, h1) => Some(l, Hold(a)))
    BY <2>1, <2>2, <2>4, BehindGoes
  <2>8. Goes(l, g1, Hold(b), {p}) /\ (Some(l, g1) => Some(l, Hold(b)))
    BY <2>1, <2>2, <2>5, BehindGoes
  <2>9. Goes(l, h, Hold(a), {p})
    BY <2>4, <2>7, GoesOn
  <2>10. Goes(l, g, Hold(b), {p})
    BY <2>5, <2>8, GoesOn
  <2>11. Goes(l, h, Hold(b), {p})
    BY <2>3, <2>10, GoesOn
  <2>12. Flows(l, c, a, {p}) /\ Saves(l, c, a)
    BY <2>4, <2>6, <2>7, <2>9, AsideFlows DEF Saves, h
  <2>13. Flows(l, c, b, {p}) /\ (Quiet(l, h[p]) => Saves(l, c, b))
    BY <2>3, <2>5, <2>6, <2>8, <2>11, AsideFlows DEF Saves, h
  <2>14. CASE append
    <3>1. BothTo(c, p, append) = a
      BY <2>14 DEF BothTo, write_or_append, a
    <3>2. QED
      BY <2>12, <3>1
  <2>15. CASE ~append
    <3>1. BothTo(c, p, append) = b
      BY <2>15 DEF BothTo, write_or_append, b
    <3>2. QED
      BY <2>13, <2>15, <3>1 DEF h
  <2>16. QED
    BY <2>14, <2>15
<1>3. QED
  BY <1>1, <1>2

(***************************************************************************)
(* Into descriptors.  No mark is above the place a file is written over at. *)
(***************************************************************************)
Reached(l, c, m, p) == \A k : Has(l, Hold(c)[p], k) => k <= Offset(c.s, m)
Over(c, m) == m \in DOMAIN c.s.fds /\ c.s.fds[m].type = "ReadWriteFile"
AllReached(l, c) == \A m : Over(c, m) => Reached(l, c, m, c.s.fds[m].path)
ToPath(c, m) == m \in DOMAIN c.s.fds /\ c.s.fds[m].type \in {"OutputFile", "ReadWriteFile"}
Drains(c, m) == m \in DOMAIN c.s.fds /\ c.s.fds[m].type \in {"DevNull", "Closed"}
Through(l, c, d, m) ==
  /\ ToPath(c, m) /\ Flows(l, c, d, {c.s.fds[m].path})
  /\ Over(c, m) /\ Reached(l, c, m, c.s.fds[m].path) => Reached(l, d, m, c.s.fds[m].path)
Passes(l, c, d) == Flows(l, c, d, {}) \/ \E m : Through(l, c, d, m)

LEMMA IntoFileFlows ==
  ASSUME NEW l \in Marks, NEW c \in Carries, NEW n \in {1, 2}, NEW m, ToPath(c, m)
  PROVE  /\ Through(l, c, IntoFd(c, n, m), m)
         /\ (Over(c, m) => Reached(l, c, m, c.s.fds[m].path)) => Saves(l, c, IntoFd(c, n, m))
<1> DEFINE h == Hold(c)
           x == Stream(n)
           e == IntoFd(c, n, m)
           p == c.s.fds[m].path
           k == Offset(c.s, m)
<1>1. m \in DOMAIN c.s.fds /\ c.s.fds[m].type \in {"OutputFile", "ReadWriteFile"}
  BY DEF ToPath
<1>2. /\ e.late = c.late /\ Offset(e.s, m) = k + Len(h[x])
      /\ \A i : i # m => Offset(e.s, i) = Offset(c.s, i)
      /\ c.s.fds[m].type = "OutputFile" => Hold(e) = Behind(h, x, p)
      /\ c.s.fds[m].type = "ReadWriteFile" => Hold(e) = Laid(h, x, p, k)
  BY <1>1, IntoFdHold
<1>3. /\ h \in Holds /\ x \in Spot /\ x \in Streams /\ p \in Spot /\ p \in Target /\ x # p
      /\ k \in Nat /\ Len(h[x]) \in Nat
  <2>1. p \in Target
    BY <1>1, FdParts
  <2>2. h[x] \in Texts
    BY TextOf, CarryParts
  <2>3. QED
    BY <2>1, <2>2, HoldIs, TextOf, Apart, CarryParts, OffsetIs, TextsAre
<1>4. \A i : Offset(c.s, i) \in Nat
  BY CarryParts, OffsetIs
<1>5. Aside(l, c, e)
  BY <1>2, <1>3, <1>4 DEF Aside
<1>6. Over(c, m) <=> c.s.fds[m].type = "ReadWriteFile"
  BY <1>1 DEF Over
<1>7. CASE c.s.fds[m].type = "OutputFile"
  <2> HIDE DEF e, h, x, p, k
  <2>1. Goes(l, h, Hold(e), {p}) /\ (Some(l, h) => Some(l, Hold(e)))
    BY <1>2, <1>3, <1>7, BehindGoes
  <2>2. Flows(l, c, e, {p}) /\ Saves(l, c, e)
    BY <1>5, <2>1, AsideFlows DEF Saves, h
  <2>3. QED
    BY <1>6, <1>7, <2>2 DEF Through, e, p
<1>8. CASE c.s.fds[m].type = "ReadWriteFile"
  <2> HIDE DEF e, h, x, p, k
  <2>1. /\ Goes(l, h, Hold(e), {p})
        /\ (\A i : Has(l, h[p], i) => i <= k) =>
              /\ Some(l, h) => Some(l, Hold(e))
              /\ \A i : Has(l, Hold(e)[p], i) => i <= k + Len(h[x])
    BY <1>2, <1>3, <1>8, LaidGoes
  <2>2. Flows(l, c, e, {p})
    BY <1>5, <2>1, AsideFlows DEF h
  <2>3. Reached(l, c, m, p) => Saves(l, c, e) /\ Reached(l, e, m, p)
    BY <1>2, <2>1 DEF Reached, Saves, h, k
  <2>4. QED
    BY <1>6, <1>8, <2>2, <2>3 DEF Through, e, p
<1>9. QED
  BY <1>1, <1>7, <1>8

LEMMA PassesOn ==
  ASSUME NEW l, NEW c \in Carries, NEW d \in Carries, NEW e \in Carries, Passes(l, c, d),
         Flows(l, d, e, {})
  PROVE  Passes(l, c, e)
<1>1. CASE Flows(l, c, d, {})
  BY <1>1, FlowsOn DEF Passes
<1>2. CASE \E m : Through(l, c, d, m)
  <2>1. PICK m : Through(l, c, d, m)
    BY <1>2
  <2> DEFINE p == c.s.fds[m].path
  <2>2. p \in Target
    BY <2>1, FdParts DEF Through, ToPath
  <2> HIDE DEF p
  <2>3. Flows(l, d, e, {p})
    BY FlowsMore
  <2>4. Flows(l, c, e, {p})
    BY <2>1, <2>3, FlowsOn DEF Through, p
  <2>5. Reached(l, d, m, p) => Reached(l, e, m, p)
    <3> SUFFICES ASSUME Reached(l, d, m, p), NEW k, Has(l, Hold(e)[p], k)
                 PROVE  k <= Offset(e.s, m)
      BY DEF Reached
    <3>1. Hold(e) \in Holds /\ p \in Spot
      BY <2>2, HoldIs, Apart
    <3>2. k \in Nat
      BY <3>1, HasNat
    <3>3. Has(l, Hold(d)[p], k)
      BY <2>2, <3>2 DEF Flows, Goes
    <3>4. k <= Offset(d.s, m) /\ Offset(d.s, m) <= Offset(e.s, m)
      BY <3>3 DEF Reached, Flows
    <3>5. Offset(d.s, m) \in Nat /\ Offset(e.s, m) \in Nat
      BY CarryParts, OffsetIs
    <3>6. QED
      BY <3>2, <3>4, <3>5
  <2>6. QED
    BY <2>1, <2>4, <2>5 DEF Through, Passes, p
<1>3. QED
  BY <1>1, <1>2 DEF Passes

LEMMA DupFdFlows ==
  ASSUME NEW l \in Marks, NEW c \in Carries, NEW n, NEW m
  PROVE  LET d == apply_dup_fd(c, n, m)
         IN  /\ d \in Carries /\ Passes(l, c, d)
             /\ ~Drains(c, m) /\ AllReached(l, c) => Saves(l, c, d)
<1> DEFINE d == apply_dup_fd(c, n, m)
<1>1. d \in Carries
  BY DupFdIs DEF Follows
<1>2. CASE d \in {c, OutToErr(c), ErrToOut(c), ErrBeforeOut(c)}
  BY <1>1, <1>2, FlowsSelf, StreamsFlow DEF Passes
<1>3. CASE d = IntoFd(c, n, m) /\ n \in {1, 2} /\ m \in DOMAIN c.s.fds
  <2>1. c.s.fds[m].type
          \in {"OutputFile", "InputFile", "ReadWriteFile", "DevNull", "Closed", "DupStdFd"}
    BY <1>3, FdParts DEF Descriptor
  <2>2. CASE ToPath(c, m)
    <3>1. Through(l, c, IntoFd(c, n, m), m)
      BY <1>3, <2>2, IntoFileFlows
    <3>2. AllReached(l, c) => Saves(l, c, IntoFd(c, n, m))
      BY <1>3, <2>2, IntoFileFlows DEF AllReached
    <3>3. QED
      BY <1>1, <1>3, <3>1, <3>2 DEF Passes
  <2>3. CASE Drains(c, m)
    <3>1. IntoFd(c, n, m) = Clear(c, n)
      BY <2>3 DEF IntoFd, Drains
    <3>2. QED
      BY <1>1, <1>3, <2>3, <3>1, ClearFlows DEF Passes
  <2>4. CASE c.s.fds[m].type \in {"DupStdFd", "InputFile"}
    <3>1. IntoFd(c, n, m) \in {c, OutToErr(c), ErrToOut(c)}
      BY <2>4 DEF IntoFd
    <3>2. QED
      BY <1>2, <1>3, <3>1
  <2>5. QED
    BY <1>3, <2>1, <2>2, <2>3, <2>4 DEF ToPath, Drains
<1>4. QED
  BY <1>2, <1>3 DEF apply_dup_fd

LEMMA WriteRedirectFlows ==
  ASSUME NEW l \in Marks, NEW c \in Carries, NEW n \in Fds, NEW p \in Target,
         NEW append \in BOOLEAN
  PROVE  LET d == apply_write_redirect(c, n, p, append)
         IN  /\ d \in Carries /\ Flows(l, c, d, {p})
             /\ d.r.code = 0 /\ p \notin {Null, Zero} /\ (append \/ Quiet(l, Hold(c)[p]))
                  => Saves(l, c, d)
<1> DEFINE d == apply_write_redirect(c, n, p, append)
           P == {p}
<1>1. d \in Carries
  BY WriteRedirectIs DEF Follows
<1>2. CASE d = Clear(c, n) /\ p \in {Null, Zero}
  BY <1>1, <1>2, ClearFlows
<1>3. CASE d \in {c, ErrToOut(c), OutToErr(c)}
  BY <1>1, <1>3, FlowsSelf, StreamsFlow
<1>4. CASE d = Late(Clear(c, n))
  <2>1. Clear(c, n) \in Carries /\ Flows(l, c, Clear(c, n), P)
    BY ClearFlows
  <2>2. Like(l, Clear(c, n), d) /\ d.r.code = 1
    BY <1>4, <2>1, ComplaintsLike
  <2> HIDE DEF P, d
  <2>3. Flows(l, Clear(c, n), d, P)
    BY <1>1, <2>1, <2>2, LikeFlows DEF d
  <2>4. Flows(l, c, d, P)
    BY <1>1, <2>1, <2>3, FlowsOn DEF d
  <2>5. QED
    BY <1>1, <2>2, <2>4 DEF d, P
<1>5. CASE d = ToFile(c, n, p, append) /\ n \in {1, 2}
  BY <1>1, <1>5, ToFileFlows
<1>6. QED
  BY <1>2, <1>3, <1>4, <1>5 DEF apply_write_redirect

LEMMA WordFlows ==
  ASSUME NEW l \in Marks, NEW c \in Carries, NEW n \in Fds, NEW p \in Target
  PROVE  LET d == apply_write_redirect([c EXCEPT !.late = <<>>], n, p, FALSE)
             e == [d EXCEPT !.r.stderr = @ \o d.late, !.late = c.late]
         IN  /\ Flows(l, c, e, {p})
             /\ e.r.code = 0 /\ p \notin {Null, Zero} /\ Quiet(l, Hold(c)[p]) => Saves(l, c, e)
<1> DEFINE b == [c EXCEPT !.late = <<>>]
           d == apply_write_redirect(b, n, p, FALSE)
           t == d.r.stderr \o d.late
           f == [d EXCEPT !.r.stderr = t]
           e == [f EXCEPT !.late = c.late]
           P == {p}
<1>1. b \in Carries /\ b.s = c.s /\ b.r = c.r /\ b.late = <<>>
  BY TextsAre DEF Carries
<1> HIDE DEF b
<1>2. /\ d \in Carries /\ Flows(l, b, d, P)
      /\ d.r.code = 0 /\ p \notin {Null, Zero} /\ Quiet(l, Hold(b)[p]) => Saves(l, b, d)
  BY <1>1, WriteRedirectFlows
<1> HIDE DEF d
<1>3. d.r.stderr \in Texts /\ d.late \in Texts /\ t \in Texts
  BY <1>2, CarryParts, TextsAre
<1>4. Quiet(l, d.late)
  BY <1>1, <1>2, HasNone DEF Flows, Quiet
<1>5. \A k : Has(l, t, k) <=> Has(l, d.r.stderr, k)
  BY <1>3, <1>4, HasJoined DEF Quiet
<1> HIDE DEF t
<1>6. /\ f \in Carries /\ f.s = d.s /\ f.late = d.late /\ f.r.code = d.r.code
      /\ f.r.stderr = t /\ f.r.stdout = d.r.stdout
  BY <1>2, <1>3, TextSet
<1> HIDE DEF f
<1>7. e.s = f.s /\ e.r = f.r /\ e.late = c.late
  BY <1>6 DEF Carries
<1> HIDE DEF e
<1>8. Like(l, d, f)
  <2>1. /\ Hold(f)["stdout"] = Hold(d)["stdout"] /\ Hold(f)["stderr"] = t
        /\ Hold(d)["stderr"] = d.r.stderr /\ \A q \in Target : Hold(f)[q] = Hold(d)[q]
    BY <1>2, <1>6, HoldIs
  <2>2. \A q \in Spot : \A k : Has(l, Hold(f)[q], k) <=> Has(l, Hold(d)[q], k)
    BY <1>5, <2>1 DEF Spot, Streams
  <2>3. QED
    BY <1>6, <2>2 DEF Like
<1>9. Flows(l, d, f, P) /\ Saves(l, d, f)
  BY <1>2, <1>6, <1>8, LikeFlows
<1> HIDE DEF P
<1>10. Flows(l, b, f, P)
  BY <1>1, <1>2, <1>6, <1>9, FlowsOn
<1>11. Hold(e) = Hold(f) /\ Hold(b) = Hold(c)
  BY <1>1, <1>7 DEF Hold
<1>12. Flows(l, c, e, P)
  BY <1>1, <1>7, <1>10, <1>11 DEF Flows
<1>13. e.r.code = 0 /\ p \notin {Null, Zero} /\ Quiet(l, Hold(c)[p]) => Saves(l, c, e)
  BY <1>2, <1>6, <1>7, <1>9, <1>11 DEF Saves
<1>14. e = [d EXCEPT !.r.stderr = @ \o d.late, !.late = c.late]
  BY <1>2 DEF e, f, t, Carries
<1>15. QED
  BY <1>12, <1>13, <1>14 DEF d, b, P

LEMMA RefusalFlows ==
  ASSUME NEW l \in Marks, NEW c \in Carries, NEW P
  PROVE  /\ Flows(l, c, Stop(Complain(c)), P) /\ Stop(Complain(c)).r.code = 1
         /\ Flows(l, c, Stop(Complain(Clear(c, 1))), P) /\ Stop(Complain(Clear(c, 1))).r.code = 1
<1>1. ASSUME NEW b \in Carries
      PROVE  Flows(l, b, Stop(Complain(b)), P) /\ Stop(Complain(b)).r.code = 1
  <2>1. Complain(b) \in Carries
    BY <1>1, ComplaintsAre DEF Follows
  <2>2. Stop(Complain(b)) \in Carries
    BY <2>1, ComplaintsAre DEF Follows
  <2>3. Like(l, b, Complain(b)) /\ Like(l, Complain(b), Stop(Complain(b)))
    BY <1>1, <2>1, ComplaintsLike
  <2>4. Complain(b).r.code = 1 /\ Stop(Complain(b)).r.code = Complain(b).r.code
    BY <1>1, <2>1, ComplaintsLike
  <2>5. Like(l, b, Stop(Complain(b)))
    BY <2>3, LikeOn
  <2>6. QED
    BY <1>1, <2>2, <2>4, <2>5, LikeFlows
<1> DEFINE b == Clear(c, 1)
<1>2. b \in Carries /\ Flows(l, c, b, P)
  BY ClearFlows
<1> HIDE DEF b
<1>3. Flows(l, b, Stop(Complain(b)), P) /\ Stop(Complain(b)).r.code = 1
  BY <1>1, <1>2
<1>4. Stop(Complain(b)) \in Carries
  <2>1. Complain(b) \in Carries
    BY <1>2, ComplaintsAre DEF Follows
  <2>2. QED
    BY <2>1, ComplaintsAre DEF Follows
<1>5. Flows(l, c, Stop(Complain(b)), P)
  BY <1>2, <1>3, <1>4, FlowsOn
<1>6. QED
  BY <1>1, <1>3, <1>5 DEF b

LEMMA CloseSourceFlows ==
  ASSUME NEW l, NEW c \in Carries, NEW m \in Fds, NEW P
  PROVE  LET d == CloseSource(c, m)
         IN  /\ d \in Carries /\ Flows(l, c, d, P) /\ d.r.code = c.r.code
             /\ m \notin {1, 2} => Saves(l, c, d)
<1> DEFINE d == CloseSource(c, m)
<1>1. d \in Carries /\ d.r.code = c.r.code
  BY CloseSourceIs
<1>2. CASE m \in {1, 2}
  <2>1. d = Clear(c, m)
    BY <1>2 DEF CloseSource
  <2>2. QED
    BY <1>1, <1>2, <2>1, ClearFlows
<1>3. CASE m \notin {1, 2}
  <2> DEFINE u == [c.s EXCEPT !.fds = Put(c.s.fds, m, Closed)]
  <2>1. d = [c EXCEPT !.s = u]
    BY <1>3 DEF CloseSource, Carries
  <2>2. c.s \in Shells /\ Closed \in Descriptor
    BY CarryParts, DescriptorsAre
  <2>3. u \in Shells
    BY <2>2, ShellParts, PutPartial, FdsEdit
  <2>4. u.files = c.s.files /\ u.offsets = c.s.offsets
    BY <2>2 DEF Shells
  <2> HIDE DEF u
  <2>5. d.s = u /\ d.r = c.r /\ d.late = c.late
    BY <2>1, <2>3, ShellSet
  <2> HIDE DEF d
  <2>6. Hold(d) = Hold(c) /\ \A i : Offset(d.s, i) = Offset(c.s, i)
    BY <2>4, <2>5 DEF Hold, Offset, read_file
  <2>7. Like(l, c, d)
    BY <2>5, <2>6 DEF Like
  <2>8. QED
    BY <1>1, <2>7, LikeFlows DEF d
<1>4. QED
  BY <1>2, <1>3

(***************************************************************************)
(* One redirection of a list.                                              *)
(***************************************************************************)
Moving(l, c, d, x) == Flows(l, c, d, {x.to}) \/ Passes(l, c, d)
\* The redirections that throw away what they move,
Loses(x) ==
  x.to \in {Null, Zero} \/ (IsDup(x) /\ (x.how = "close" \/ (x.how = "move" /\ x.from \in {1, 2})))
\* and where nothing else can be lost.
Free(l, c, x) ==
  /\ x.to \in Target => Quiet(l, Hold(c)[x.to])
  /\ AllReached(l, c)
  /\ IsDup(x) => ~Drains(c, x.from)
Stepped(l, c, d, x) ==
  Moving(l, c, d, x) /\ (d.r.code = 0 /\ ~Loses(x) /\ Free(l, c, x) => Saves(l, c, d))

LEMMA RefusalStep ==
  ASSUME NEW l \in Marks, NEW c \in Carries, NEW x
  PROVE  /\ Stepped(l, c, Stop(Complain(c)), x)
         /\ Stepped(l, c, Stop(Complain(Clear(c, 1))), x)
<1> DEFINE P == {x.to}
           a == Stop(Complain(c))
           b == Stop(Complain(Clear(c, 1)))
<1> HIDE DEF P, a, b
<1>1. Flows(l, c, a, P) /\ a.r.code = 1 /\ Flows(l, c, b, P) /\ b.r.code = 1
  BY RefusalFlows DEF a, b
<1>2. QED
  BY <1>1 DEF Stepped, Moving, P, a, b

LEMMA BreaksStep ==
  ASSUME NEW l \in Marks, NEW c \in Carries, NEW x
  PROVE  Stepped(l, c, Breaks(c), x)
<1> DEFINE P == {x.to}
           e == ClearBoth(c)
           d == Breaks(c)
<1>1. e \in Carries /\ Flows(l, c, e, P)
  BY ClearIs, ClearBothFlows DEF Follows
<1>2. e.s = c.s /\ e.late = c.late /\ e.r.stdout = <<>> /\ e.r.stderr = <<>>
  <2>1. Clear(c, 1) \in Carries
    BY ClearIs DEF Follows
  <2>2. QED
    BY <2>1, ClearParts DEF ClearBoth
<1>3. /\ d \in Carries /\ d.s = c.s /\ d.late = <<>> /\ d.r.code = 1
      /\ d.r.stdout = <<>> /\ d.r.stderr = <<Message>>
  BY BreaksIs DEF Breaks, Follows, Carries
<1> HIDE DEF P, d, e
<1>4. \A k : ~Has(l, <<Message>>, k) /\ ~Has(l, <<>>, k)
  <2>1. <<>> \in Texts /\ Append(<<>>, Message) = <<Message>>
    BY TextsAre
  <2>2. QED
    BY <2>1, HasMessage, HasNone
<1>5. \A p \in Spot : \A k : Has(l, Hold(d)[p], k) <=> Has(l, Hold(e)[p], k)
  <2>1. /\ Hold(d)["stdout"] = <<>> /\ Hold(e)["stdout"] = <<>>
        /\ Hold(d)["stderr"] = <<Message>> /\ Hold(e)["stderr"] = <<>>
        /\ \A p \in Target : Hold(d)[p] = Hold(e)[p]
    BY <1>1, <1>2, <1>3, HoldIs
  <2>2. QED
    BY <1>4, <2>1 DEF Spot, Streams
<1>6. Like(l, e, d)
  BY <1>2, <1>3, <1>4, <1>5 DEF Like, Quiet
<1>7. Flows(l, c, d, P)
  BY <1>1, <1>3, <1>6, LikeFlows, FlowsOn
<1>8. QED
  BY <1>3, <1>7 DEF Stepped, Moving, P, d

LEMMA BothToStep ==
  ASSUME NEW l \in Marks, NEW c \in Carries, NEW x, x.to \in Target, NEW append \in BOOLEAN
  PROVE  Stepped(l, c, BothTo(c, x.to, append), x)
<1> DEFINE d == BothTo(c, x.to, append)
<1>1. CASE x.to = Directory
  <2>1. d = Breaks(c) \/ (x.to = Null /\ d = ClearBoth(c))
    BY <1>1 DEF BothTo
  <2>2. x.to = Null => Loses(x)
    BY DEF Loses
  <2>3. Flows(l, c, ClearBoth(c), {x.to})
    BY ClearBothFlows
  <2> HIDE DEF d
  <2>4. QED
    BY <2>1, <2>2, <2>3, BreaksStep DEF Stepped, Moving, d
<1>2. CASE x.to # Directory
  <2>1. /\ Flows(l, c, d, {x.to})
        /\ x.to # Null /\ (append \/ Quiet(l, Hold(c)[x.to])) => Saves(l, c, d)
    BY <1>2, BothToFlows
  <2> HIDE DEF d
  <2>2. QED
    BY <2>1 DEF Stepped, Moving, Loses, Free, d
<1>3. QED
  BY <1>1, <1>2

LEMMA SelfStep ==
  ASSUME NEW l, NEW c \in Carries, NEW x
  PROVE  Stepped(l, c, c, x)
<1> DEFINE P == {x.to}
<1> HIDE DEF P
<1>1. Flows(l, c, c, P) /\ Saves(l, c, c)
  BY FlowsSelf
<1>2. QED
  BY <1>1 DEF Stepped, Moving, P

LEMMA DuplicateStep ==
  ASSUME NEW l \in Marks, NEW c \in Carries, NEW x \in Redirection, IsDup(x)
  PROVE  Stepped(l, c, apply_duplicate_output(c, x), x)
<1> DEFINE n == FdOr(x, 1)
           d == apply_duplicate_output(c, x)
           P == {x.to}
<1>1. /\ n \in Fds /\ x.from \in Fds /\ x.how \in {"fd", "close", "move", "word"}
      /\ x.how = "word" => x.to \in Target
  BY RedirectionIs, FdOrIs, LowFds DEF IsDup, DupKinds
<1>2. CASE x.how = "close"
  <2>1. d = Clear(c, n)
    BY <1>2 DEF apply_duplicate_output
  <2> HIDE DEF d, P
  <2>2. Flows(l, c, d, P)
    BY <2>1, ClearFlows
  <2>3. Loses(x)
    BY <1>2 DEF Loses
  <2>4. QED
    BY <2>2, <2>3 DEF Stepped, Moving, d, P
<1>3. CASE x.how = "move"
  <2> DEFINE b == apply_dup_fd(c, n, x.from)
             e == CloseSource(b, x.from)
  <2>1. d = e
    BY <1>3 DEF apply_duplicate_output
  <2>2. /\ b \in Carries /\ Passes(l, c, b)
      /\ (~Drains(c, x.from) /\ AllReached(l, c) => Saves(l, c, b))
    BY DupFdFlows
  <2> HIDE DEF b
  <2>3. e \in Carries /\ Flows(l, b, e, {}) /\ (x.from \notin {1, 2} => Saves(l, b, e))
    BY <1>1, <2>2, CloseSourceFlows
  <2> HIDE DEF e, d
  <2>4. Passes(l, c, e)
    BY <2>2, <2>3, PassesOn
  <2>5. ~Loses(x) /\ Free(l, c, x) => Saves(l, c, e)
    BY <1>3, <2>2, <2>3 DEF Loses, Free, Saves
  <2>6. QED
    BY <2>1, <2>4, <2>5 DEF Stepped, Moving, d
<1>4. CASE x.how = "fd"
  <2> DEFINE b == apply_dup_fd(c, n, x.from)
  <2>1. CASE x.from \in 0..2 \cup DOMAIN c.s.fds
    <3>1. d = b
      BY <1>4, <2>1 DEF apply_duplicate_output
    <3>2. Passes(l, c, b) /\ (~Drains(c, x.from) /\ AllReached(l, c) => Saves(l, c, b))
      BY DupFdFlows
    <3> HIDE DEF b, d
    <3>3. QED
      BY <3>1, <3>2 DEF Stepped, Moving, Free, d
  <2>2. CASE x.from \notin 0..2 \cup DOMAIN c.s.fds
    <3>1. d \in {Stop(Complain(c)), Stop(Complain(Clear(c, 1)))}
      BY <1>4, <2>2 DEF apply_duplicate_output
    <3>2. QED
      BY <3>1, RefusalStep
  <2>3. QED
    BY <2>1, <2>2
<1>5. CASE x.how = "word"
  <2>1. x.to \in Target
    BY <1>1, <1>5
  <2>2. CASE x.fd = NoFd
    <3> DEFINE more == FALSE
    <3>1. d = BothTo(c, x.to, more) /\ more \in BOOLEAN
      BY <1>5, <2>2 DEF apply_duplicate_output
    <3> HIDE DEF more, d
    <3>2. Stepped(l, c, d, x)
      BY <2>1, <3>1, BothToStep
    <3>3. QED
      BY <3>2 DEF d
  <2>3. CASE x.fd # NoFd
    <3> DEFINE a == apply_write_redirect([c EXCEPT !.late = <<>>], n, x.to, FALSE)
               e == [a EXCEPT !.r.stderr = @ \o a.late, !.late = c.late]
    <3>1. d = e
      BY <1>5, <2>3 DEF apply_duplicate_output
    <3>2. /\ Flows(l, c, e, P)
          /\ e.r.code = 0 /\ x.to \notin {Null, Zero} /\ Quiet(l, Hold(c)[x.to]) => Saves(l, c, e)
      BY <1>1, <2>1, WordFlows
    <3> HIDE DEF d, e
    <3>3. QED
      BY <2>1, <3>1, <3>2 DEF Stepped, Moving, Loses, Free, d
  <2>4. QED
    BY <2>2, <2>3
<1>6. QED
  BY <1>1, <1>2, <1>3, <1>4, <1>5

LEMMA CreatedLike ==
  ASSUME NEW l, NEW c \in Carries, NEW p \in Target
  PROVE  Created(c, p) \in Carries /\ Like(l, c, Created(c, p)) /\ Created(c, p).r.code = c.r.code
<1> DEFINE d == Created(c, p)
           u == write_file(c.s, p, <<>>)
<1>1. CASE exists(c.s, p)
  <2>1. d = c
    BY <1>1 DEF Created
  <2>2. QED
    BY <2>1, LikeSelf
<1>2. CASE ~exists(c.s, p)
  <2>1. d = [c EXCEPT !.s = u]
    BY <1>2 DEF Created
  <2>2. /\ u \in Shells /\ u.offsets = c.s.offsets /\ read_file(u, p) = <<>>
        /\ \A q : q # p => read_file(u, q) = read_file(c.s, q)
    BY CarryParts, TextsAre, WriteParts
  <2>3. read_file(c.s, p) = <<>>
    BY <1>2 DEF exists, read_file
  <2> HIDE DEF u
  <2>4. d \in Carries /\ d.s = u /\ d.r = c.r /\ d.late = c.late
    BY <2>1, <2>2, ShellSet
  <2> HIDE DEF d
  <2>5. \A q : read_file(u, q) = read_file(c.s, q)
    BY <2>2, <2>3
  <2>6. Hold(d) = Hold(c) /\ \A m : Offset(d.s, m) = Offset(c.s, m)
    BY <2>2, <2>4, <2>5 DEF Hold, Offset
  <2>7. QED
    BY <2>4, <2>6 DEF Like, d
<1>3. QED
  BY <1>1, <1>2

LEMMA ReadAndWriteStep ==
  ASSUME NEW l \in Marks, NEW c \in Carries, NEW x, x.to \in Target
  PROVE  Stepped(l, c, ReadAndWriteKind(c, x), x)
<1> DEFINE n == FdOr(x, 0)
           p == x.to
           b == Created(c, p)
           e == ToFile(b, n, p, FALSE)
           d == ReadAndWriteKind(c, x)
<1>1. b \in Carries /\ Like(l, c, b)
  BY CreatedLike
<1>2. Flows(l, c, b, {p}) /\ Saves(l, c, b)
  BY <1>1, LikeFlows
<1>3. (n \in {1, 2} => d = IF p = Directory THEN Breaks(c) ELSE e) /\ (n \notin {1, 2} => d = b)
  BY DEF ReadAndWriteKind
<1>4. CASE n \in {1, 2}
  <2>0. d \in {Breaks(c), e}
    BY <1>3, <1>4
  <2> HIDE DEF b, n
  <2>1. /\ e \in Carries /\ Flows(l, b, e, {p})
        /\ Quiet(l, Hold(b)[p]) => Saves(l, b, e)
    BY <1>1, <1>4, ToFileIs, ToFileFlows DEF Follows
  <2>2. Quiet(l, Hold(c)[p]) => Quiet(l, Hold(b)[p])
    BY <1>1, Apart DEF Like, Quiet
  <2> HIDE DEF e, d, p
  <2>3. Flows(l, c, e, {p})
    BY <1>1, <1>2, <2>1, FlowsOn
  <2>4. Quiet(l, Hold(c)[p]) => Saves(l, c, e)
    BY <1>2, <2>1, <2>2 DEF Saves
  <2>5. Stepped(l, c, e, x)
    BY <2>3, <2>4 DEF Stepped, Moving, Free, p
  <2>6. QED
    BY <2>0, <2>5, BreaksStep DEF d
<1>5. CASE n \notin {1, 2}
  <2>1. d = b
    BY <1>3, <1>5
  <2> HIDE DEF d, b
  <2>2. QED
    BY <1>2, <2>1 DEF Stepped, Moving, d
<1>6. QED
  BY <1>4, <1>5

LEMMA WriteStep ==
  ASSUME NEW l \in Marks, NEW c \in Carries, NEW x \in Redirection,
         x.kind \in {"Write", "Clobber", "Append"}
  PROVE  Stepped(l, c, WriteKind(c, x), x)
<1> DEFINE n == FdOr(x, 1)
           more == x.kind = "Append"
           e == apply_write_redirect(c, n, x.to, more)
           d == WriteKind(c, x)
<1>1. x.to \in Target /\ n \in Fds /\ more \in BOOLEAN
  BY RedirectionIs, FdOrIs, LowFds DEF FileKinds
<1>2. CASE x.kind = "Write" /\ Clobbers(c, x.to)
  <2>1. d \in {Stop(Complain(c)), Stop(Complain(Clear(c, 1)))}
    BY <1>2 DEF WriteKind
  <2>2. QED
    BY <2>1, RefusalStep
<1>3. CASE ~(x.kind = "Write" /\ Clobbers(c, x.to))
  <2>1. d = e
    BY <1>3 DEF WriteKind
  <2> HIDE DEF more
  <2>2. /\ Flows(l, c, e, {x.to})
        /\ e.r.code = 0 /\ x.to \notin {Null, Zero} /\ Quiet(l, Hold(c)[x.to]) => Saves(l, c, e)
    BY <1>1, WriteRedirectFlows
  <2> HIDE DEF d, e
  <2>3. QED
    BY <1>1, <2>1, <2>2 DEF Stepped, Moving, Loses, Free, d
<1>4. QED
  BY <1>2, <1>3

LEMMA FileRedirectStep ==
  ASSUME NEW l \in Marks, NEW c \in Carries, NEW x \in Redirection,
         x.kind \notin {"Both", "BothAppend"}
  PROVE  Stepped(l, c, apply_file_redirect(c, x), x)
<1> DEFINE d == apply_file_redirect(c, x)
<1>1. CASE x.kind \in {"Write", "Clobber", "Append"}
  <2>1. d = WriteKind(c, x)
    BY <1>1 DEF apply_file_redirect
  <2>2. QED
    BY <1>1, <2>1, WriteStep
<1>2. CASE x.kind \in DupKinds
  <2>1. d \in {c, apply_duplicate_output(c, x)}
    BY <1>2 DEF apply_file_redirect, DupKinds
  <2>2. QED
    BY <1>2, <2>1, SelfStep, DuplicateStep DEF IsDup, DupKinds
<1>3. CASE x.kind = "ReadAndWrite"
  <2>1. d = ReadAndWriteKind(c, x) /\ x.to \in Target
    BY <1>3, RedirectionIs DEF apply_file_redirect, FileKinds
  <2>2. QED
    BY <2>1, ReadAndWriteStep
<1>4. CASE x.kind \in {"Read", "Here"}
  <2>1. d = c
    BY <1>4 DEF apply_file_redirect
  <2>2. QED
    BY <2>1, SelfStep
<1>5. QED
  BY <1>1, <1>2, <1>3, <1>4, RedirectionIs DEF FileKinds, DupKinds

LEMMA OutputAndErrorStep ==
  ASSUME NEW l \in Marks, NEW c \in Carries, NEW x \in Redirection,
         x.kind \in {"Both", "BothAppend"}
  PROVE  Stepped(l, c, OutputAndError(c, x), x)
<1> DEFINE more == x.kind = "BothAppend"
           e == BothTo(c, x.to, more)
           d == OutputAndError(c, x)
<1>1. x.to \in Target /\ more \in BOOLEAN
  BY RedirectionIs DEF FileKinds
<1>2. CASE x.kind = "Both" /\ ClobbersBoth(c, x.to)
  <2>1. d = Stop(Complain(Clear(c, 1)))
    BY <1>2 DEF OutputAndError
  <2>2. QED
    BY <2>1, RefusalStep
<1>3. CASE ~(x.kind = "Both" /\ ClobbersBoth(c, x.to))
  <2>1. d = e
    BY <1>3 DEF OutputAndError
  <2> HIDE DEF more
  <2>2. Stepped(l, c, e, x)
    BY <1>1, BothToStep
  <2> HIDE DEF d, e
  <2>3. QED
    BY <2>1, <2>2 DEF d
<1>4. QED
  BY <1>2, <1>3

LEMMA OutputMovedStep ==
  ASSUME NEW l \in Marks, NEW c \in Carries, NEW x \in Redirection
  PROVE  Stepped(l, c, OutputMoved(c, x), x)
<1> DEFINE b == [c EXCEPT !.seen = @ \cup Named(x)]
           d == OutputMoved(c, x)
<1>1. b \in Carries /\ b.s = c.s /\ b.r = c.r /\ b.late = c.late
  BY NamedIs DEF Carries
<1>2. CASE ~c.go
  <2>1. d = c
    BY <1>2 DEF OutputMoved
  <2>2. QED
    BY <2>1, SelfStep
<1>3. CASE c.go
  <2>1. d = IF x.kind \in {"Both", "BothAppend"} THEN OutputAndError(b, x)
            ELSE apply_file_redirect(b, x)
    BY <1>3 DEF OutputMoved
  <2> HIDE DEF b, d
  <2>2. Stepped(l, b, d, x)
    BY <1>1, <2>1, OutputAndErrorStep, FileRedirectStep
  <2>3. Hold(b) = Hold(c)
    BY <1>1 DEF Hold
  <2>4. \A P : Flows(l, b, d, P) <=> Flows(l, c, d, P)
    BY <1>1, <2>3 DEF Flows
  <2>5. Passes(l, b, d) <=> Passes(l, c, d)
    <3>1. \A m : Through(l, b, d, m) <=> Through(l, c, d, m)
      BY <1>1, <2>3, <2>4 DEF Through, ToPath, Over, Reached
    <3>2. QED
      BY <2>4, <3>1 DEF Passes
  <2>6. Moving(l, b, d, x) <=> Moving(l, c, d, x)
    BY <2>4, <2>5 DEF Moving
  <2>7. Free(l, b, x) <=> Free(l, c, x)
    BY <1>1, <2>3 DEF Free, AllReached, Over, Reached, Drains
  <2>8. Saves(l, b, d) <=> Saves(l, c, d)
    BY <2>3 DEF Saves
  <2>9. QED
    BY <2>2, <2>6, <2>7, <2>8 DEF Stepped, d
<1>4. QED
  BY <1>2, <1>3

\* What exec has redirected takes the rest.
LEMMA SentOnFlows ==
  ASSUME NEW l \in Marks, NEW c \in Carries, NEW n \in {1, 2}
  PROVE  LET d == SentOn(c, n)
         IN  /\ d \in Carries /\ One(l, Hold(c)) => One(l, Hold(d))
             /\ Quiet(l, c.late) => Quiet(l, d.late)
             /\ ~Drains(c, n) => Saves(l, c, d)
<1> DEFINE d == SentOn(c, n)
<1>1. d \in Carries
  BY SentOnIs DEF Follows
<1>2. \A P : Flows(l, c, d, P) => /\ One(l, Hold(c)) => One(l, Hold(d))
                                  /\ Quiet(l, c.late) => Quiet(l, d.late)
  BY DEF Flows, Goes
<1>3. CASE d \in {c, OutToErr(c), ErrBeforeOut(c)}
  <2>1. Flows(l, c, d, {}) /\ Saves(l, c, d)
    BY <1>3, FlowsSelf, StreamsFlow
  <2>2. QED
    BY <1>1, <1>2, <2>1
<1>4. CASE Drains(c, n) /\ d = Clear(c, n)
  <2>1. Flows(l, c, d, {})
    BY <1>4, ClearFlows
  <2>2. QED
    BY <1>1, <1>2, <1>4, <2>1
<1>5. CASE ToPath(c, n) /\ d = ToFile(c, n, c.s.fds[n].path, TRUE)
  <2> DEFINE p == c.s.fds[n].path
             yes == TRUE
  <2>1. p \in Target /\ yes \in BOOLEAN
    BY <1>5, FdParts DEF ToPath
  <2>2. yes
    OBVIOUS
  <2>3. d = ToFile(c, n, p, yes)
    BY <1>5
  <2> HIDE DEF p, yes, d
  <2>4. Flows(l, c, d, {p}) /\ Saves(l, c, d)
    BY <2>1, <2>2, <2>3, ToFileFlows
  <2>5. QED
    BY <1>1, <1>2, <2>4 DEF d
<1>6. QED
  BY <1>3, <1>4, <1>5 DEF SentOn, KeptType, Drains, ToPath

(***************************************************************************)
(* What holds of l after the first i redirections of rs, over s.  A        *)
(* descriptor is as exec has left it, or a move has closed it;             *)
(***************************************************************************)
FdsKept(rs, s, c, i) ==
  \A m \in DOMAIN c.s.fds :
    \/ m \in DOMAIN s.fds /\ c.s.fds[m] = s.fds[m]
    \/ /\ c.s.fds[m] = Closed /\ m \notin {1, 2}
       /\ \E j \in 1..i : IsDup(rs[j]) /\ rs[j].how = "move" /\ rs[j].from = m
\* l is in files that the list or exec has opened;
Placed(l, rs, s, c, i) ==
  \A p \in Target : \A k \in Nat : Has(l, Hold(c)[p], k) =>
    (\E j \in 1..i : rs[j].to = p) \/ (\E n \in DOMAIN s.fds : OpensFile(s.fds[n], p))
\* and it is lost only if something discards it or writes over it.
Kept(l, rs, s, c, i) ==
  /\ One(l, Hold(c)) /\ Quiet(l, c.late)
  /\ FdsKept(rs, s, c, i) /\ Placed(l, rs, s, c, i)
  /\ Rewrites(rs, s) \/ AllReached(l, c)
  /\ Rewrites(rs, s) \/ Discards(rs, s) \/ c.r.code # 0 \/ Some(l, Hold(c))

\* A file that a step does not write stays below the offsets of its descriptors.
LEMMA ReachedOn ==
  ASSUME NEW l, NEW c \in Carries, NEW d \in Carries, NEW P, Flows(l, c, d, P),
         NEW q \in Target, q \notin P, NEW m, Reached(l, c, m, q)
  PROVE  Reached(l, d, m, q)
<1> SUFFICES ASSUME NEW k, Has(l, Hold(d)[q], k) PROVE k <= Offset(d.s, m)
  BY DEF Reached
<1>1. Hold(d) \in Holds /\ q \in Spot
  BY HoldIs, Apart
<1>2. k \in Nat
  BY <1>1, HasNat
<1>3. Has(l, Hold(c)[q], k)
  BY <1>2 DEF Flows, Goes
<1>4. k <= Offset(c.s, m) /\ Offset(c.s, m) <= Offset(d.s, m)
  BY <1>3 DEF Reached, Flows
<1>5. Offset(c.s, m) \in Nat /\ Offset(d.s, m) \in Nat
  BY CarryParts, OffsetIs
<1>6. QED
  BY <1>2, <1>4, <1>5

\* A descriptor that leads to a file is one that exec has opened.
LEMMA FileFd ==
  ASSUME NEW rs, NEW s, NEW c, NEW i, FdsKept(rs, s, c, i), NEW m, ToPath(c, m)
  PROVE  /\ m \in DOMAIN s.fds /\ c.s.fds[m] = s.fds[m]
         /\ OpensFile(s.fds[m], c.s.fds[m].path)
<1>1. m \in DOMAIN c.s.fds /\ c.s.fds[m] # Closed
  BY DEF ToPath, Closed
<1>2. m \in DOMAIN s.fds /\ c.s.fds[m] = s.fds[m]
  BY <1>1 DEF FdsKept
<1>3. QED
  BY <1>2 DEF ToPath, OpensFile

LEMMA FdsKeptStep ==
  ASSUME NEW rs \in Seq(Redirection), NEW s, NEW c, NEW d, NEW i \in 1..Len(rs),
         FdsKept(rs, s, c, i - 1), Moves(c, d, rs[i])
  PROVE  FdsKept(rs, s, d, i)
<1>1. \A j \in 1..(i - 1) : j \in 1..i
  OBVIOUS
<1>2. CASE d.s.fds = c.s.fds
  BY <1>1, <1>2 DEF FdsKept
<1>3. CASE d.s.fds # c.s.fds
  <2> DEFINE f == c.s.fds
             g == d.s.fds
             n == rs[i].from
  <2>1. /\ IsDup(rs[i]) /\ rs[i].how = "move" /\ n \notin {1, 2}
        /\ g = Put(f, n, Closed)
    BY <1>3 DEF Moves, Closing
  <2>2. DOMAIN g = DOMAIN f \cup {n} /\ g[n] = Closed /\ \A m \in DOMAIN f : m # n => g[m] = f[m]
    BY <2>1 DEF Put
  <2>3. i \in 1..i
    OBVIOUS
  <2> SUFFICES ASSUME NEW m \in DOMAIN g
               PROVE  \/ m \in DOMAIN s.fds /\ g[m] = s.fds[m]
                      \/ /\ g[m] = Closed /\ m \notin {1, 2}
                         /\ \E j \in 1..i : IsDup(rs[j]) /\ rs[j].how = "move" /\ rs[j].from = m
    BY DEF FdsKept
  <2>4. CASE m = n
    BY <2>1, <2>2, <2>3, <2>4
  <2>5. CASE m # n
    <3>1. m \in DOMAIN f /\ g[m] = f[m]
      BY <2>2, <2>5
    <3> HIDE DEF g
    <3>2. QED
      BY <1>1, <3>1 DEF FdsKept
  <2>6. QED
    BY <2>4, <2>5
<1>4. QED
  BY <1>2, <1>3

LEMMA PlacedStep ==
  ASSUME NEW l, NEW rs \in Seq(Redirection), NEW s, NEW c \in Carries, NEW d, NEW i \in 1..Len(rs),
         FdsKept(rs, s, c, i - 1), Placed(l, rs, s, c, i - 1), Moving(l, c, d, rs[i])
  PROVE  Placed(l, rs, s, d, i)
<1> SUFFICES ASSUME NEW p \in Target, NEW k \in Nat, Has(l, Hold(d)[p], k)
             PROVE  \/ \E j \in 1..i : rs[j].to = p
                    \/ \E n \in DOMAIN s.fds : OpensFile(s.fds[n], p)
  BY DEF Placed
<1>1. \A P : Flows(l, c, d, P) => Has(l, Hold(c)[p], k) \/ p \in P
  BY DEF Flows, Goes
<1>2. CASE Has(l, Hold(c)[p], k)
  <2>1. \A j \in 1..(i - 1) : j \in 1..i
    OBVIOUS
  <2>2. QED
    BY <1>2, <2>1 DEF Placed
<1>3. CASE Flows(l, c, d, {rs[i].to}) /\ ~Has(l, Hold(c)[p], k)
  <2>1. rs[i].to = p /\ i \in 1..i
    BY <1>1, <1>3
  <2>2. QED
    BY <2>1
<1>4. CASE Flows(l, c, d, {}) /\ ~Has(l, Hold(c)[p], k)
  BY <1>1, <1>4
<1>5. CASE (\E m : Through(l, c, d, m)) /\ ~Has(l, Hold(c)[p], k)
  <2>1. PICK m : Through(l, c, d, m)
    BY <1>5
  <2>2. p = c.s.fds[m].path /\ ToPath(c, m)
    BY <1>1, <1>5, <2>1 DEF Through
  <2>3. m \in DOMAIN s.fds /\ OpensFile(s.fds[m], p)
    BY <2>2, FileFd
  <2>4. QED
    BY <2>3
<1>6. QED
  BY <1>2, <1>3, <1>4, <1>5 DEF Moving, Passes

LEMMA ReachedStep ==
  ASSUME NEW l, NEW rs \in Seq(Redirection), NEW s, NEW c \in Carries, NEW d \in Carries,
         NEW i \in 1..Len(rs), FdsKept(rs, s, c, i - 1), FdsKept(rs, s, d, i),
         Moving(l, c, d, rs[i]), Moves(c, d, rs[i]), AllReached(l, c), ~Rewrites(rs, s)
  PROVE  AllReached(l, d)
<1> SUFFICES ASSUME NEW m, Over(d, m) PROVE Reached(l, d, m, d.s.fds[m].path)
  BY DEF AllReached
<1> DEFINE q == d.s.fds[m].path
<1>1. m \in DOMAIN d.s.fds /\ d.s.fds[m].type = "ReadWriteFile" /\ ToPath(d, m)
  BY DEF Over, ToPath
<1>2. m \in DOMAIN s.fds /\ d.s.fds[m] = s.fds[m] /\ OpensFile(s.fds[m], q)
  BY <1>1, FileFd
<1>3. m \in DOMAIN c.s.fds /\ c.s.fds[m] = s.fds[m]
  <2>1. d.s.fds[m] # Closed
    BY <1>1 DEF Closed
  <2>2. m \in DOMAIN c.s.fds
    BY <1>1, <2>1 DEF Moves, Put
  <2>3. c.s.fds[m] = d.s.fds[m]
    BY <1>1, <2>1, <2>2 DEF Moves, Put
  <2>4. QED
    BY <1>2, <2>2, <2>3
<1>4. q \in Target /\ q # ""
  BY <1>1, FdParts, NameAssumption
<1>5. Over(c, m) /\ q = c.s.fds[m].path
  BY <1>1, <1>2, <1>3 DEF Over
<1>6. Reached(l, c, m, q)
  BY <1>5 DEF AllReached
<1> HIDE DEF q
<1>7. CASE Flows(l, c, d, {rs[i].to})
  <2> DEFINE P == {rs[i].to}
  <2>0. i \in DOMAIN rs
    OBVIOUS
  <2>1. rs[i].to # q
    BY <1>2, <1>4, <2>0 DEF Rewrites
  <2>2. q \notin P
    BY <2>1
  <2> HIDE DEF P
  <2>3. Flows(l, c, d, P)
    BY <1>7 DEF P
  <2>4. QED
    BY <1>4, <1>6, <2>2, <2>3, ReachedOn DEF q
<1>8. CASE Flows(l, c, d, {})
  <2> DEFINE P == {}
  <2>1. q \notin P /\ Flows(l, c, d, P)
    BY <1>8
  <2> HIDE DEF P
  <2>2. QED
    BY <1>4, <1>6, <2>1, ReachedOn DEF q
<1>9. CASE \E n : Through(l, c, d, n)
  <2>1. PICK n : Through(l, c, d, n)
    BY <1>9
  <2> DEFINE p == c.s.fds[n].path
             P == {p}
  <2>2. ToPath(c, n) /\ Flows(l, c, d, P)
    BY <2>1 DEF Through
  <2>3. n \in DOMAIN s.fds /\ OpensFile(s.fds[n], p)
    BY <2>2, FileFd
  <2>4. CASE n = m
    <3>1. Reached(l, d, m, c.s.fds[m].path)
      BY <1>5, <1>6, <2>1, <2>4 DEF Through
    <3>2. QED
      BY <1>5, <3>1 DEF q
  <2>5. CASE n # m
    <3>1. ~Shared(s) /\ s.fds[m].type = "ReadWriteFile" /\ s.fds[m].path = q
      BY <1>1, <1>2 DEF Rewrites, q
    <3>2. p # q
      BY <1>2, <2>3, <2>5, <3>1 DEF Shared
    <3>3. q \notin P
      BY <3>2
    <3> HIDE DEF P
    <3>4. QED
      BY <1>4, <1>6, <2>2, <3>3, ReachedOn DEF q
  <2>6. QED
    BY <2>4, <2>5
<1>10. QED
  BY <1>7, <1>8, <1>9 DEF Moving, Passes

LEMMA FreeStep ==
  ASSUME NEW l, NEW rs \in Seq(Redirection), NEW s, NEW c \in Carries, NEW i \in 1..Len(rs),
         FdsKept(rs, s, c, i - 1), Placed(l, rs, s, c, i - 1), AllReached(l, c),
         ~Rewrites(rs, s), ~Discards(rs, s)
  PROVE  ~Loses(rs[i]) /\ Free(l, c, rs[i])
<1> DEFINE x == rs[i]
<1>1. i \in DOMAIN rs /\ \A j \in 1..(i - 1) : j \in DOMAIN rs /\ j # i /\ j < i
  OBVIOUS
<1>2. ~Loses(x)
  BY <1>1 DEF Discards, Loses
<1>3. ASSUME x.to \in Target, NEW k, Has(l, Hold(c)[x.to], k) PROVE FALSE
  <2>1. x.to # "" /\ x.to \in Spot /\ Hold(c) \in Holds
    BY <1>3, NameAssumption, Apart, HoldIs
  <2>2. k \in Nat
    BY <1>3, <2>1, HasNat
  <2>3. \/ (\E j \in 1..(i - 1) : rs[j].to = x.to)
      \/ (\E n \in DOMAIN s.fds : OpensFile(s.fds[n], x.to))
    BY <1>3, <2>2 DEF Placed
  <2>4. QED
    BY <1>1, <2>1, <2>3 DEF Rewrites
<1>4. ASSUME IsDup(x), Drains(c, x.from) PROVE FALSE
  <2> DEFINE m == x.from
  <2>1. m \in DOMAIN c.s.fds /\ c.s.fds[m].type \in {"DevNull", "Closed"}
    BY <1>4 DEF Drains
  <2>2. CASE m \in DOMAIN s.fds /\ c.s.fds[m] = s.fds[m]
    BY <2>1, <2>2 DEF Discards
  <2>3. CASE \E j \in 1..(i - 1) : IsDup(rs[j]) /\ rs[j].how = "move" /\ rs[j].from = m
    <3>1. PICK j \in 1..(i - 1) : IsDup(rs[j]) /\ rs[j].how = "move" /\ rs[j].from = m
      BY <2>3
    <3>2. j \in DOMAIN rs /\ j < i
      BY <1>1
    <3>3. QED
      BY <1>1, <1>4, <3>1, <3>2 DEF Discards
  <2>4. QED
    BY <2>1, <2>2, <2>3 DEF FdsKept
<1>5. QED
  BY <1>2, <1>3, <1>4 DEF Free, Quiet

LEMMA KeptStep ==
  ASSUME NEW l \in Marks, NEW rs \in Seq(Redirection), NEW s, NEW c \in Carries,
         NEW i \in 1..Len(rs), Kept(l, rs, s, c, i - 1)
  PROVE  Kept(l, rs, s, OutputMoved(c, rs[i]), i)
<1> DEFINE x == rs[i]
           d == OutputMoved(c, x)
<1>1. x \in Redirection
  OBVIOUS
<1>2. d \in Carries /\ Moves(c, d, x) /\ Stepped(l, c, d, x)
  BY <1>1, OutputMovedIs, OutputMovedStep
<1> HIDE DEF d
<1>3. FdsKept(rs, s, c, i - 1) /\ Placed(l, rs, s, c, i - 1)
  BY DEF Kept
<1>4. FdsKept(rs, s, d, i)
  BY <1>2, <1>3, FdsKeptStep
<1>5. Placed(l, rs, s, d, i)
  BY <1>2, <1>3, PlacedStep DEF Stepped
<1>6. One(l, Hold(d)) /\ Quiet(l, d.late)
  <2>1. One(l, Hold(c)) /\ Quiet(l, c.late)
    BY DEF Kept
  <2>2. \E P : Flows(l, c, d, P)
    BY <1>2 DEF Stepped, Moving, Passes, Through
  <2>3. QED
    BY <2>1, <2>2 DEF Flows, Goes
<1>7. Rewrites(rs, s) \/ AllReached(l, d)
  BY <1>2, <1>3, <1>4, ReachedStep DEF Stepped, Kept
<1>8. Rewrites(rs, s) \/ Discards(rs, s) \/ d.r.code # 0 \/ Some(l, Hold(d))
  <2> SUFFICES ASSUME ~Rewrites(rs, s), ~Discards(rs, s), d.r.code = 0 PROVE Some(l, Hold(d))
    OBVIOUS
  <2>1. c.r.code = 0
    BY <1>2 DEF Moves
  <2>2. Some(l, Hold(c)) /\ AllReached(l, c)
    BY <2>1 DEF Kept
  <2>3. ~Loses(x) /\ Free(l, c, x)
    BY <1>3, <2>2, FreeStep
  <2>4. QED
    BY <1>2, <2>2, <2>3 DEF Stepped, Saves
<1>9. QED
  BY <1>4, <1>5, <1>6, <1>7, <1>8 DEF Kept, d

LEMMA ProbeIs ==
  ASSUME NEW l \in {"O", "E"}
  PROVE  /\ l \in Marks /\ Probe \in Result /\ Probe.code = 0
         /\ \A k : Has(l, Probe.stdout, k) <=> l = "O" /\ k = 1
         /\ \A k : Has(l, Probe.stderr, k) <=> l = "E" /\ k = 1
<1>1. l \in Marks /\ "O" \in Line /\ "E" \in Line
  BY ProbeAssumption DEF Marks
<1>2. Probe \in Result
  BY <1>1 DEF Probe, Result, Texts
<1>3. \A k : Has(l, Probe.stdout, k) <=> l = "O" /\ k = 1
  BY DEF Has, Probe
<1>4. \A k : Has(l, Probe.stderr, k) <=> l = "E" /\ k = 1
  BY DEF Has, Probe
<1>5. QED
  BY <1>1, <1>2, <1>3, <1>4 DEF Probe

LEMMA StartKept ==
  ASSUME NEW l \in {"O", "E"}, NEW rs \in Seq(Redirection), NEW s \in Shells, Unwritten(l, s)
  PROVE  Kept(l, rs, s, Start(Probe, s), 0)
<1> DEFINE c == Start(Probe, s)
           h == Hold(c)
<1>1. c.s = s /\ c.r = Probe /\ c.late = <<>> /\ c \in Carries
  BY ProbeIs, StartIs DEF Start
<1>2. h["stdout"] = Probe.stdout /\ h["stderr"] = Probe.stderr /\ h \in Holds
      /\ \A p \in Target : h[p] = read_file(s, p)
  BY <1>1, HoldIs
<1>3. \A p \in Target : \A k : ~Has(l, h[p], k)
  <2> SUFFICES ASSUME NEW p \in Target, NEW k, Has(l, read_file(s, p), k) PROVE FALSE
    BY <1>2
  <2>1. p \in DOMAIN s.files
    BY HasNone DEF read_file
  <2>2. s.files[p] \in Texts /\ Has(l, s.files[p], k)
    BY <2>1, ReadFileIs DEF read_file
  <2>3. k \in DOMAIN s.files[p] /\ s.files[p][k] = l
    BY <2>2, TextParts DEF Has
  <2>4. QED
    BY <2>1, <2>3 DEF Unwritten
<1> HIDE DEF h, c
<1>4. \A p \in Spot : \A k : Has(l, h[p], k) <=>
        k = 1 /\ p = IF l = "O" THEN "stdout" ELSE "stderr"
  <2>1. \A k : Has(l, h["stdout"], k) <=> l = "O" /\ k = 1
    BY <1>2, ProbeIs
  <2>2. \A k : Has(l, h["stderr"], k) <=> l = "E" /\ k = 1
    BY <1>2, ProbeIs
  <2>3. \A p \in Target : p # "stdout" /\ p # "stderr"
    BY Apart DEF Streams
  <2>4. QED
    BY <1>3, <2>1, <2>2, <2>3 DEF Spot, Streams
<1>5. \E home \in Spot : \A p \in Spot : \A k : Has(l, h[p], k) <=> k = 1 /\ p = home
  <2>1. "stdout" \in Spot /\ "stderr" \in Spot
    BY Apart DEF Streams
  <2>2. QED
    BY <1>4, <2>1
<1>6. One(l, h) /\ Some(l, h)
  <2>1. PICK home \in Spot : \A p \in Spot : \A k : Has(l, h[p], k) <=> k = 1 /\ p = home
    BY <1>5
  <2>2. One(l, h)
    <3> SUFFICES ASSUME NEW p \in Spot, NEW q \in Spot, NEW j \in Nat, NEW k \in Nat,
                        Has(l, h[p], j), Has(l, h[q], k)
                 PROVE  p = q /\ j = k
      BY DEF One
    <3>1. j = 1 /\ p = home
      BY <2>1
    <3>2. k = 1 /\ q = home
      BY <2>1
    <3>3. QED
      BY <3>1, <3>2
  <2>3. Has(l, h[home], 1)
    BY <2>1
  <2>4. QED
    BY <2>2, <2>3 DEF Some
<1>7. Quiet(l, c.late)
  BY <1>1, HasNone DEF Quiet
<1>8. FdsKept(rs, s, c, 0)
  BY <1>1 DEF FdsKept
<1>9. Placed(l, rs, s, c, 0)
  BY <1>3 DEF Placed, h
<1>10. Rewrites(rs, s) \/ AllReached(l, c)
  <2> SUFFICES ASSUME NEW m, Over(c, m), NEW k, Has(l, Hold(c)[c.s.fds[m].path], k) PROVE FALSE
    BY DEF AllReached, Reached
  <2>1. c.s.fds[m].path \in Target
    BY <1>1, FdParts DEF Over
  <2>2. QED
    BY <1>3, <2>1 DEF h
<1>11. QED
  BY <1>6, <1>7, <1>8, <1>9, <1>10 DEF Kept, h, c

\* What is given back holds l as the end of the list does.
LEMMA EndKept ==
  ASSUME NEW l \in Marks, NEW rs, NEW s, NEW c \in Carries, NEW i, Kept(l, rs, s, c, i)
  PROVE  \E b \in Carries :
           /\ One(l, Hold(b)) /\ Quiet(l, b.late)
           /\ Ended(c).s = b.s /\ Ended(c).r.stdout = b.r.stdout
           /\ Ended(c).r.stderr = b.r.stderr \o b.late
           /\ Rewrites(rs, s) \/ Discards(rs, s) \/ Ended(c).r.code # 0 \/ Some(l, Hold(b))
<1> DEFINE a == SentOn(c, 1)
           b == SentOn(a, 2)
<1>1. /\ a \in Carries /\ a.s.fds = c.s.fds /\ One(l, Hold(a)) /\ Quiet(l, a.late)
      /\ ~Drains(c, 1) => Saves(l, c, a)
  BY SentOnIs, SentOnFlows DEF Follows, Kept
<1>2. Ended(c) = [s |-> b.s, r |-> [b.r EXCEPT !.stderr = b.r.stderr \o b.late]]
  BY DEF Ended, apply_persistent_fd_fallback
<1> HIDE DEF a
<1>3. /\ b \in Carries /\ One(l, Hold(b)) /\ Quiet(l, b.late)
      /\ ~Drains(a, 2) => Saves(l, a, b)
  BY <1>1, SentOnIs, SentOnFlows DEF Follows
<1> HIDE DEF b
<1>4. b.r \in Result
  BY <1>3, CarryParts
<1>5. /\ Ended(c).s = b.s /\ Ended(c).r.stdout = b.r.stdout
      /\ Ended(c).r.stderr = b.r.stderr \o b.late
  <2> DEFINE t == b.r.stderr \o b.late
             r == [b.r EXCEPT !.stderr = t]
  <2>1. Ended(c).s = b.s /\ Ended(c).r = r
    BY <1>2
  <2> HIDE DEF t
  <2>2. r.stdout = b.r.stdout /\ r.stderr = t
    BY <1>4 DEF Result
  <2>3. QED
    BY <2>1, <2>2 DEF t
<1>6. Drains(a, 2) => Drains(c, 2)
  BY <1>1 DEF Drains
<1>7. ~Discards(rs, s) => ~Drains(c, 1) /\ ~Drains(c, 2)
  BY DEF Kept, FdsKept, Drains, Discards
<1>8. Ended(c).r.code = 0 => c.r.code = 0
  BY EndedIs
<1>9. Rewrites(rs, s) \/ Discards(rs, s) \/ Ended(c).r.code # 0 \/ Some(l, Hold(b))
  BY <1>1, <1>3, <1>6, <1>7, <1>8 DEF Kept, Saves
<1>10. QED
  BY <1>3, <1>5, <1>9

LEMMA EndHolds ==
  ASSUME NEW l \in {"O", "E"}, NEW rs \in Seq(Redirection), NEW s \in Shells, Unwritten(l, s)
  PROVE  \E b \in Carries :
           /\ One(l, Hold(b)) /\ Quiet(l, b.late)
           /\ Moved(rs, s).s = b.s /\ Moved(rs, s).r.stdout = b.r.stdout
           /\ Moved(rs, s).r.stderr = b.r.stderr \o b.late
           /\ Rewrites(rs, s) \/ Discards(rs, s) \/ Refused(rs, s) \/ Some(l, Hold(b))
<1> DEFINE K == Len(rs)
<1>1. K \in Nat /\ Probe \in Result /\ l \in Marks
  BY ProbeIs
<1>2. PICK f : OutputRun(f, rs, Probe, s) /\ apply_output_redirects(rs, Probe, s) = Ended(f[K])
  BY <1>1, OutputRunIs
<1> DEFINE S == {i \in 0..K : Kept(l, rs, s, f[i], i)}
<1>3. 0 \in S
  <2>1. f[0] = Start(Probe, s)
    BY <1>2 DEF OutputRun
  <2>2. QED
    BY <1>1, <2>1, StartKept
<1>4. ASSUME NEW m \in 1..K, m - 1 \in S PROVE m \in S
  <2>1. f[m - 1] \in Carries /\ f[m] = OutputMoved(f[m - 1], rs[m])
    BY <1>2 DEF OutputRun
  <2>2. Kept(l, rs, s, f[m - 1], m - 1)
    BY <1>4
  <2>3. Kept(l, rs, s, f[m], m)
    BY <1>1, <2>1, <2>2, KeptStep
  <2>4. QED
    BY <1>1, <2>3
<1>5. K \in S
  <2> HIDE DEF S
  <2>1. SUFFICES 0..K \subseteq S
    BY <1>1
  <2>2. QED
    BY <1>1, <1>3, <1>4, LeastFailure
<1>6. Kept(l, rs, s, f[K], K) /\ f[K] \in Carries
  BY <1>1, <1>2, <1>5 DEF OutputRun
<1> DEFINE c == f[K]
<1> HIDE DEF c
<1>7. c \in Carries /\ Kept(l, rs, s, c, K)
  BY <1>6 DEF c
<1>8. Moved(rs, s) = Ended(c)
  BY <1>2 DEF Moved, c
<1>9. PICK b \in Carries :
        /\ One(l, Hold(b)) /\ Quiet(l, b.late)
        /\ Ended(c).s = b.s /\ Ended(c).r.stdout = b.r.stdout
        /\ Ended(c).r.stderr = b.r.stderr \o b.late
        /\ Rewrites(rs, s) \/ Discards(rs, s) \/ Ended(c).r.code # 0 \/ Some(l, Hold(b))
  <2>1. l \in Marks /\ c \in Carries /\ Kept(l, rs, s, c, Len(rs))
    BY <1>1, <1>7
  <2>2. QED
    BY <2>1, EndKept, ZenonT(60)
<1>10. Refused(rs, s) <=> Ended(c).r.code # 0
  BY <1>8 DEF Refused
<1>11. QED
  BY <1>8, <1>9, <1>10, Zenon

\* The spots of RedirProps are the places where what is held has the line.
LEMMA SpotsAre ==
  ASSUME NEW l, NEW b \in Carries, Quiet(l, b.late), NEW after,
         after.s = b.s, after.r.stdout = b.r.stdout, after.r.stderr = b.r.stderr \o b.late,
         NEW a
  PROVE  a \in Spots(l, after)
           <=> \E p \in Spot : \E k \in Nat : a = <<p, k>> /\ Has(l, Hold(b)[p], k)
<1> DEFINE h == Hold(b)
           g == Held(after)
           err == b.r.stderr \o b.late
<1>1. /\ h["stdout"] = b.r.stdout /\ h["stderr"] = b.r.stderr /\ h \in Holds
      /\ \A p \in Target : h[p] = read_file(b.s, p)
  BY HoldIs
<1>2. b.r.stderr \in Texts /\ b.late \in Texts /\ err \in Texts /\ b.r.stdout \in Texts
  BY CarryParts, TextsAre
<1>3. \A k : Has(l, err, k) <=> Has(l, h["stderr"], k)
  BY <1>1, <1>2, HasJoined DEF Quiet
<1>4. DOMAIN b.s.files \subseteq Target
  BY CarryParts, ShellParts DEF Partial
<1> HIDE DEF err
<1>5. /\ DOMAIN g = DOMAIN b.s.files \cup Streams
      /\ g["stdout"] = b.r.stdout /\ g["stderr"] = err
      /\ \A p \in DOMAIN b.s.files : p \notin Streams => g[p] = b.s.files[p]
  BY DEF Held, Put, Streams, err
<1> HIDE DEF g, h
<1>6. /\ DOMAIN g \subseteq Spot
      /\ \A p \in DOMAIN g : g[p] \in Texts /\ \A k : Has(l, g[p], k) <=> Has(l, h[p], k)
  <2>1. DOMAIN g \subseteq Spot
    BY <1>4, <1>5, Apart
  <2>2. ASSUME NEW p \in DOMAIN b.s.files, p \notin Streams PROVE g[p] = h[p] /\ g[p] \in Texts
    BY <1>1, <1>4, <1>5, <2>2, CarryParts, ReadFileIs DEF read_file
  <2>3. \A p \in DOMAIN g : p \in Streams \/ (p \in DOMAIN b.s.files /\ p \notin Streams)
    BY <1>5
  <2>4. g["stdout"] \in Texts /\ \A k : Has(l, g["stdout"], k) <=> Has(l, h["stdout"], k)
    BY <1>1, <1>2, <1>5
  <2>5. g["stderr"] \in Texts /\ \A k : Has(l, g["stderr"], k) <=> Has(l, h["stderr"], k)
    BY <1>2, <1>3, <1>5
  <2>6. QED
    BY <2>1, <2>2, <2>3, <2>4, <2>5 DEF Streams
<1>7. \A p \in Spot : p \notin DOMAIN g => \A k : ~Has(l, h[p], k)
  <2> SUFFICES ASSUME NEW p \in Spot, p \notin DOMAIN g PROVE h[p] = <<>>
    BY HasNone
  <2>1. p \in Target /\ p \notin DOMAIN b.s.files
    BY <1>5 DEF Spot
  <2>2. QED
    BY <1>1, <2>1 DEF read_file
<1>8. \A p \in DOMAIN g : SpotsIn(l, p, g[p])
        = {<<p, k>> : k \in {j \in 1..Len(g[p]) : g[p][j] = l}}
  BY <1>6, TextParts DEF SpotsIn
<1>9. a \in Spots(l, after)
           <=> \E p \in DOMAIN g : \E k \in 1..Len(g[p]) : g[p][k] = l /\ a = <<p, k>>
  BY <1>8 DEF Spots, g
<1>10. a \in Spots(l, after) <=> \E p \in DOMAIN g : \E k \in Nat : a = <<p, k>> /\ Has(l, g[p], k)
  <2>1. \A p \in DOMAIN g : \A k : Has(l, g[p], k) <=> k \in 1..Len(g[p]) /\ g[p][k] = l
    BY DEF Has
  <2>2. \A p \in DOMAIN g : \A k \in 1..Len(g[p]) : k \in Nat
    BY <1>6, TextParts
  <2>3. QED
    BY <1>9, <2>1, <2>2
<1>11. a \in Spots(l, after) <=> \E p \in Spot : \E k \in Nat : a = <<p, k>> /\ Has(l, h[p], k)
  BY <1>6, <1>7, <1>10
<1>12. QED
  BY <1>11 DEF h

LEMMA ConservedOnce ==
  ASSUME NEW l \in {"O", "E"}, NEW rs \in Seq(Redirection), NEW s \in Shells, Unwritten(l, s)
  PROVE  Conserved(l, rs, s)
<1> DEFINE after == Moved(rs, s)
           spots == Spots(l, after)
<1>1. PICK b \in Carries :
        /\ One(l, Hold(b)) /\ Quiet(l, b.late)
        /\ after.s = b.s /\ after.r.stdout = b.r.stdout
        /\ after.r.stderr = b.r.stderr \o b.late
        /\ Rewrites(rs, s) \/ Discards(rs, s) \/ Refused(rs, s) \/ Some(l, Hold(b))
  BY EndHolds
<1> HIDE DEF after
<1>2. \A a : a \in spots <=> \E p \in Spot : \E k \in Nat : a = <<p, k>> /\ Has(l, Hold(b)[p], k)
  BY <1>1, SpotsAre
<1> HIDE DEF spots
<1>3. \A a, e \in spots : a = e
  BY <1>1, <1>2 DEF One
<1>4. spots = {} => Discards(rs, s) \/ Rewrites(rs, s) \/ Refused(rs, s)
  <2>1. Some(l, Hold(b)) => spots # {}
    BY <1>2 DEF Some
  <2>2. QED
    BY <1>1, <2>1
<1>5. QED
  BY <1>3, <1>4 DEF Conserved, spots, after

LEMMA TypedConserves == Typed => OutputIsConserved
BY ListsAssumption, ConservedOnce DEF Typed, OutputIsConserved

(***************************************************************************)
(* Whatever the redirections of a command are, and whatever exec has left  *)
(* open, a line it writes is in one place afterwards, and it is nowhere    *)
(* only if something discards it, a redirection fails, or its file is      *)
(* written over.                                                           *)
(***************************************************************************)
THEOREM OutputAlwaysConserved == Spec => []OutputIsConserved
BY AlwaysTyped, TypedConserves, PTL
=============================================================================
