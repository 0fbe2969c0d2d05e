---------------------------- MODULE MCOverlayFs ----------------------------
(***************************************************************************)
(* Small instances of OverlayFs for TLC.                                   *)
(***************************************************************************)
EXTENDS OverlayProps, FiniteSets

CONSTANT MaxNodes  \* bound: nodes (content and whiteouts) in the upper tree

MCName  == {"a", "b"}
MCChunk == {"disk", "new"}
MCMode  == {"644", "755", "700"}

RelB == [abs |-> FALSE, to |-> <<"b">>]   \* ln -s b
AbsA == [abs |-> TRUE,  to |-> <<"a">>]   \* ln -s /a
RelA == [abs |-> FALSE, to |-> <<"a">>]
MCLink == {RelA, RelB, AbsA}

\* A disk holding exactly the entries of the function e.
DiskOf(e) == [p \in NodePath |-> IF p \in DOMAIN e THEN e[p] ELSE None]

OnDisk(m) == File({"disk"}, m)

\* A directory with a script and a file in it, and a file beside it.
TreeDisk == DiskOf([p \in {<<"a">>, <<"a","a">>, <<"a","b">>, <<"b">>} |->
                      CASE p = <<"a">>      -> Dir("700")
                        [] p = <<"a", "a">> -> OnDisk("755")
                        [] OTHER            -> OnDisk("644")])

\* A directory with a file in it, and a link to the directory beside it.
LinkDisk == DiskOf([p \in {<<"b">>, <<"b","a">>, <<"a">>} |->
                      CASE p = <<"b">>      -> Dir("700")
                        [] p = <<"b", "a">> -> OnDisk("644")
                        [] OTHER            -> Symlink(RelB)])

\* Three levels: a directory in a directory, a link beside it, a file in it.
DeepDisk == DiskOf([p \in {<<"a">>, <<"a","a">>, <<"a","b">>, <<"a","a","a">>,
                           <<"b">>} |->
                      CASE p = <<"a">>           -> Dir("700")
                        [] p = <<"a", "a">>      -> Dir("755")
                        [] p = <<"a", "b">>      -> Symlink(RelA)
                        [] p = <<"a", "a", "a">> -> OnDisk("755")
                        [] OTHER                 -> Dir("755")])

MCDisks == {TreeDisk, LinkDisk}
MCArg   == Path
MCNewLink2 == {RelB, AbsA}
MCWritten == {{"new"}}
MCNewMode == {"755"}
MCNewLink == {RelB}

\* For the three-level instance.
EmptyDisk == DiskOf([p \in {} |-> None])
DeepDisks == {DeepDisk, LinkDisk, EmptyDisk}
DeepArg   == {<<"a">>, <<"b">>, <<"a","a">>, <<"a","b">>, <<"b","a">>,
              <<"a","a","a">>}

SmallTree == Cardinality({p \in NodePath : ~IsNone(tree[p])}) <= MaxNodes
=============================================================================
