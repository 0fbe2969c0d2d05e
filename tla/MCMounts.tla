------------------------------ MODULE MCMounts -----------------------------
(***************************************************************************)
(* Small instances of MountableFs for TLC.                                 *)
(***************************************************************************)
EXTENDS MountProps

CONSTANTS
  MaxNodes,    \* bound: nodes in all backends together
  MaxId,       \* bound: numbers of files
  MaxBusy      \* bound: threads inside a call at once

MCName  == {"a", "b"}
MCChunk == {"x", "y"}
MCMode  == {"644", "755", "700"}

AbsA   == [abs |-> TRUE, to |-> <<"a">>]            \* ln -s /a
AbsAB  == [abs |-> TRUE, to |-> <<"a", "b">>]       \* ln -s /a/b
RelB   == [abs |-> FALSE, to |-> <<"b">>]           \* os.symlink("b")
MCLink == {AbsA, AbsAB, RelB, [abs |-> TRUE, to |-> <<"b">>],
           [abs |-> TRUE, to |-> Root]}

\* A mount below a directory of the root mount, and mounts without a root.
MCTables == {{Root, <<"a", "b">>}, {<<"a">>, <<"b", "b">>}}
MCArg    == Path
MCWritten == {{"x"}}
MCNewMode == {"700"}
MCNewLink == {AbsA, AbsAB, RelB}

Nodes(m) == Cardinality({p \in NodePath : ~IsNone(fs[m][p])})

Small == /\ MapThenSumSet(Nodes, DOMAIN fs) <= MaxNodes
         /\ \A m \in DOMAIN fs : next_file_id(fs[m]) <= MaxId + 1
         /\ Cardinality({h \in Thread : todo[h] # <<>>}) <= MaxBusy
=============================================================================
