--------------------------- MODULE MCRedirections ----------------------------
(***************************************************************************)
(* A small instance of RedirProps for TLC: two files, one of them written  *)
(* before the script starts, descriptors up to 4, of which `exec {var}`    *)
(* takes 4.                                                                *)
(***************************************************************************)
EXTENDS RedirProps

CONSTANT MaxLines  \* bound: lines of a file and of a stream

File(kind, n, p) == [kind |-> kind, fd |-> n, to |-> p]
Dup(n, m)   == [kind |-> "DuplicateOutput", fd |-> n, how |-> "fd", from |-> m, to |-> ""]
DupIn(n, m) == [kind |-> "DuplicateInput", fd |-> n, how |-> "fd", from |-> m, to |-> ""]
CloseFd(n)  == [kind |-> "DuplicateOutput", fd |-> n, how |-> "close", from |-> 0, to |-> ""]
Move(n, m)  == [kind |-> "DuplicateOutput", fd |-> n, how |-> "move", from |-> m, to |-> ""]
Word(n, p)  == [kind |-> "DuplicateOutput", fd |-> n, how |-> "word", from |-> 0, to |-> p]
HereText    == [kind |-> "Here", fd |-> NoFd, to |-> "", text |-> <<"h">>]

MCLine  == {"a", "b", "e", "h", "o", "E", "O", Message, Pad}
MCFiles == "f" :> <<"a", "b">> @@ [p \in Devices \ {Full} |-> <<>>]
MCInput == <<"a", "b">>
MCEmits == {[stdout |-> <<"o">>, stderr |-> <<"e">>, code |-> 0]}

MCSimple ==
  {<<>>, <<File("Write", NoFd, "f")>>, <<File("Append", 2, "g")>>, <<Dup(2, 1)>>, <<Dup(NoFd, 3)>>,
   <<DupIn(NoFd, 3)>>, <<File("Read", NoFd, "g")>>, <<File("Write", NoFd, "f"), Dup(2, 1)>>,
   <<HereText>>, <<Move(1, 3)>>}
MCPersistent ==
  {<<File("Write", NoFd, "g")>>, <<File("Append", 2, "f")>>, <<File("Read", 3, "f")>>,
   <<File("ReadAndWrite", 3, "f")>>, <<File("Write", 3, "g")>>, <<Dup(3, 1)>>, <<Dup(3, 2), Dup(2, 1)>>,
   <<CloseFd(3)>>, <<Move(1, 3)>>, <<Dup(2, 3)>>, <<DupIn(3, 0)>>, <<DupIn(NoFd, 3)>>,
   <<File("Write", NoFd, Stdout)>>, <<File("Both", NoFd, "f")>>, <<File("Write", 2, Null)>>,
   <<File("Append", NoFd, Null), File("Read", 0, Null)>>, <<File("Write", 3, "f"), Dup(NoFd, 3)>>,
   <<DupIn(3, 1)>>, <<Word(3, "f")>>}
MCAllocated ==
  {<<File("Write", NoFd, "g")>>, <<File("Append", NoFd, "f")>>, <<File("Read", NoFd, "f")>>,
   <<File("ReadAndWrite", NoFd, "f")>>, <<File("ReadAndWrite", NoFd, Null)>>, <<Dup(NoFd, 2)>>, <<CloseFd(NoFd)>>, <<File("Both", NoFd, "f")>>}
MCCompound ==
  {<<>>, <<File("Write", NoFd, "g"), Dup(2, 1)>>, <<Dup(2, 1)>>, <<File("Read", NoFd, "f")>>,
   <<DupIn(NoFd, 3)>>}

One ==
  {File("Write", 1, "f"), File("Write", 2, "g"), File("Append", 2, "f"), File("Write", 2, Null),
   File("Both", NoFd, "f"), Dup(2, 1), Dup(1, 2), Dup(1, 3), Dup(2, 3), CloseFd(2), Move(1, 3)}
Other ==
  {File("Write", 1, p) : p \in {Stderr, Full, Directory}}
    \cup {File("Write", 2, Stdout), File("Clobber", 1, "f"), File("Write", 3, "g"),
          File("BothAppend", NoFd, "g"), File("Both", NoFd, Directory), File("Both", NoFd, Zero),
          File("ReadAndWrite", 2, Directory), File("ReadAndWrite", 1, "f"), Dup(1, 4), Move(2, 1),
          Word(NoFd, "g"), Word(2, "g"), DupIn(1, 3), File("Read", 0, "f"), HereText}
MCLists == {<<>>} \cup {<<a>> : a \in One \cup Other} \cup {<<a, b>> : a \in One, b \in One}

Small == \A p \in DOMAIN shell.files : Len(shell.files[p]) <= MaxLines
=============================================================================
