------------------------------ MODULE MCFiles -------------------------------
(***************************************************************************)
(* Small instances of FileShell for TLC.                                   *)
(***************************************************************************)
EXTENDS FileProps

CONSTANT MaxNodes  \* bound: nodes in the tree

MCName    == {"a", "b"}
MCListing == <<"a", "b">>
MCMode    == SUBSET {"w", "x", "p"}
MCFile    == {"w"}
MCDir     == {"w", "x"}
MCFifo    == {"w", "p"}
MCLink    == [abs : {TRUE}, to : Path]

A  == [abs |-> TRUE, to |-> <<"a">>]
B  == [abs |-> TRUE, to |-> <<"b">>]
AB == [abs |-> TRUE, to |-> <<"a", "b">>]
BA == [abs |-> TRUE, to |-> <<"b", "a">>]
Rel_a == [abs |-> FALSE, to |-> <<"a">>]
Rel_b == [abs |-> FALSE, to |-> <<"b">>]
UpB == [abs |-> FALSE, to |-> <<Up, "b">>]
Dot == [abs |-> FALSE, to |-> <<>>]

MCCommands == {
  [c |-> "mkdir", ops |-> <<A, Rel_b>>, p |-> FALSE],
  [c |-> "mkdir", ops |-> <<BA>>, p |-> TRUE],
  [c |-> "touch", ops |-> <<AB>>],
  [c |-> "tee", ops |-> <<UpB>>, data |-> {"x"}, a |-> FALSE],
  [c |-> "cat", from |-> <<Rel_b, AB>>, ops |-> <<Rel_a>>, data |-> {}, a |-> TRUE],
  [c |-> "ln", ops |-> <<A, Rel_b>>, s |-> TRUE],
  [c |-> "ln", ops |-> <<B, AB>>, s |-> FALSE],
  [c |-> "cp", ops |-> <<Rel_b, A>>, r |-> TRUE],
  [c |-> "mv", ops |-> <<Rel_a, B>>],
  [c |-> "rm", ops |-> <<Rel_b>>, r |-> TRUE, f |-> TRUE],
  [c |-> "rmdir", ops |-> <<Rel_b, AB>>, p |-> TRUE],
  [c |-> "chmod", mode |-> [add |-> TRUE, mask |-> {"x"}], ops |-> <<AB>>],
  [c |-> "mkfifo", ops |-> <<BA>>]}

\* What some commands make of the empty file system.
Grown(cmds) == FoldLeft(LAMBDA t, c : Run(t, Root, c).tree, EmptyMemory, cmds)
Dirs  == [c |-> "mkdir", ops |-> <<A, B>>, p |-> FALSE]
Write(o) == [c |-> "tee", ops |-> <<o>>, data |-> {"x"}, a |-> FALSE]
LinkTo(o, at) == [c |-> "ln", ops |-> <<o, at>>, s |-> TRUE]
MCStarts == {Grown(cmds) : cmds \in {
  <<>>,
  <<Dirs, Write(AB), LinkTo(A, BA)>>,
  <<Dirs, Write(BA), LinkTo(B, AB)>>,
  <<[Dirs EXCEPT !.ops = <<BA>>, !.p = TRUE], LinkTo(BA, A)>>,
  <<LinkTo(B, A), LinkTo(AB, B)>>,
  <<Dirs, Write(AB), [c |-> "ln", ops |-> <<AB, BA>>, s |-> FALSE]>>}}

Find(from, e) == [from |-> from, e |-> e, min |-> 0, max |-> 99]
MvToB == [c |-> "mv", ops |-> <<Braces, B>>]
MCFinds == {
  Find(<<Dot>>, Everything),
  Find(<<Dot>>, AndFile([f |-> "exec", cmd |-> RmIt])),
  Find(<<A, B>>, AndFile([f |-> "batch", cmd |-> RmIt])),
  Find(<<A>>, [f |-> "and", a |-> [f |-> "name", names |-> {"b"}],
               b |-> [f |-> "and", a |-> [f |-> "exec", cmd |-> MvToB], b |-> [f |-> "print"]]]),
  [from |-> <<Dot>>, e |-> [f |-> "or", a |-> [f |-> "not", a |-> [f |-> "empty"]],
                            b |-> [f |-> "exec", cmd |-> [c |-> "rm", ops |-> <<Braces>>, r |-> TRUE, f |-> FALSE]]],
   min |-> 1, max |-> 1]}
MCXargs == {[cmd |-> [c |-> "rm", ops |-> <<>>, r |-> TRUE, f |-> TRUE], how |-> [k |-> "n", n |-> 1]],
            [cmd |-> [c |-> "cp", ops |-> <<Braces, B>>, r |-> TRUE], how |-> [k |-> "replace"]],
            [cmd |-> [c |-> "touch", ops |-> <<>>], how |-> [k |-> "all"]]}
MCPlaces == {A, Rel_b, [abs |-> FALSE, to |-> <<Up>>], [abs |-> FALSE, to |-> <<"b", Up, "a">>]}
MCCDPATH == <<A>>
MCArgs == {A, B, AB, BA, Rel_b, Dot}

MCWord == {"", "w", "!", "(", ")", "-a", "-o", "=", "-n", "-f"}
MCOperand == [w \in MCWord |-> IF w = "w" THEN Rel_a ELSE IF w = "" THEN Dot
                               ELSE [abs |-> FALSE, to |-> <<"b", "b">>]]
MCQuestions == UNION {[1..n -> MCWord] : n \in 1..4}

Nodes == Cardinality({p \in NodePath : ~IsNone(tree[p])})
Small == Nodes <= MaxNodes /\ Len(dir.stack) <= 2 /\ next_file_id(tree) <= 4
=============================================================================
