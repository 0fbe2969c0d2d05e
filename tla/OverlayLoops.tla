---------------------------- MODULE OverlayLoops ---------------------------
(***************************************************************************)
(* The loops and the recursion of overlay_tree.rs and overlay.rs, step by  *)
(* step.  OverlayTree and OverlayFs say what each of them leaves behind as *)
(* one function; the invariants here say that the two agree in every       *)
(* reachable state, for every path.                                        *)
(***************************************************************************)
EXTENDS MCOverlayFs

Prefix(p, i) == SubSeq(p, 1, i)

\* OverlayTree::descend: down the children maps, segment by segment.
descend_loop(t, p) ==
  LET D[i \in 1..(Len(p) + 1)] ==
        LET node == At(t, Prefix(p, i))
        IN  IF i > Len(p) \/ IsNone(node) THEN "Missing"
            ELSE IF i = Len(p) THEN "Found"
            ELSE IF IsWhiteout(node) THEN "Blocked"
            ELSE IF IsDir(node) THEN D[i + 1]
            ELSE "NotDir"
  IN  D[1]

\* OverlayTree::put_whiteout: the scaffold loop, then the collapse.
put_whiteout_loop(t, p, modeOf) ==
  LET S[i \in 0..(Len(p) - 1)] ==
        LET node == At(S[i - 1].tree, Prefix(p, i))
        IN  IF i = 0 THEN Ok(t)
            ELSE IF ~Succeeds(S[i - 1]) THEN S[i - 1]
            ELSE IF IsNone(node)
            THEN Ok(With(S[i - 1].tree, Prefix(p, i),
                         Dir(modeOf[Prefix(p, i)])))
            ELSE IF IsDir(node) THEN S[i - 1]
            ELSE Fail("return", S[i - 1].tree)
      scaffold == S[Len(p) - 1]
  IN  IF p = Root THEN t
      ELSE IF ~Succeeds(scaffold) THEN scaffold.tree
      ELSE [q \in NodePath |-> IF q = p THEN Whiteout
                               ELSE IF q \in Below(p) THEN None
                               ELSE scaffold.tree[q]]

\* OverlayTree::ensure_dirs: create or resurrect each component in turn.
ensure_dirs_loop(t, p, modeOf, namesOf) ==
  LET Made(u, q) == With(u, q, Dir(modeOf[q]))
      Reborn(u, q) ==
        [r \in NodePath |->
           IF r = q THEN Dir(modeOf[q])
           ELSE IF r \in Children(q) /\ r[Len(r)] \in namesOf[q] THEN Whiteout
           ELSE u[r]]
      E[i \in 0..Len(p)] ==
        LET prev == E[i - 1]
            q    == Prefix(p, i)
        IN  IF i = 0 THEN Ok(t)
            ELSE IF ~Succeeds(prev) THEN prev
            ELSE CASE IsDir(prev.tree[q])      -> prev
                   [] IsWhiteout(prev.tree[q]) -> Ok(Reborn(prev.tree, q))
                   [] IsNone(prev.tree[q])     -> Ok(Made(prev.tree, q))
                   [] OTHER -> Fail("NotADirectory", prev.tree)
  IN  E[Len(p)]

\* OverlayFs::mkdir_p: judge each component, creating the missing ones.
mkdir_p_loop(d, t, p) ==
  LET w == resolve_write_target(d, t, p, TRUE)
      M[i \in 0..Len(w.path)] ==
        LET prev == M[i - 1]
            b    == Prefix(w.path, i)
            made == ensure_dirs_loop(prev.tree, b, lower_mode_of(d),
                                     lower_entries_of(d))
        IN  IF i = 0 THEN Ok(t)
            ELSE IF ~Succeeds(prev) THEN prev
            ELSE IF is_whiteout(prev.tree, b) THEN made
            ELSE IF upper_has_entry(prev.tree, b)
            THEN IF IsDir(prev.tree[b]) THEN prev
                 ELSE Fail("NotADirectory", prev.tree)
            ELSE IF lower_exists(d, b)
            THEN IF IsDir(lstat_lower(d, b)) THEN prev
                 ELSE Fail("NotADirectory", prev.tree)
            ELSE made
  IN  IF w.err # "ok" THEN Fail(w.err, t) ELSE M[Len(w.path)]

\* OverlayFs::rename: the directory case empties the source entry by entry.
RECURSIVE rename_loop(_, _, _, _), MoveEntries(_, _, _, _, _)

MoveEntries(d, t, s, q, names) ==
  IF names = {} THEN Ok(t)
  ELSE LET n     == CHOOSE n \in names : TRUE
           moved == rename_loop(d, t, Append(s, n), Append(q, n))
       IN  Then(moved, MoveEntries(d, moved.tree, s, q, names \ {n}))

rename_loop(d, t, src, dst) ==
  LET from    == resolve_path(d, t, src, FALSE)
      to      == resolve_write_target(d, t, dst, FALSE)
      s       == from.path
      q       == to.path
      node    == lstat_overlay(d, t, s)
      cleared == IF Occupied(d, t, q) /\ lower_exists(d, q)
                 THEN put_whiteout_loop(t, q, lower_mode_of(d)) ELSE t
      made    == ensure_dirs_loop(cleared, q, lower_mode_of(d),
                                  lower_entries_of(d))
      copied  == IF ~IsDir(node) THEN MoveLeaf(d, t, q, node)
                 ELSE IF Occupied(d, t, q) /\ readdir_merged(d, t, q) # {}
                 THEN Fail("DirectoryNotEmpty", t)
                 ELSE Then(made, MoveEntries(d, made.tree, s, q,
                                   readdir_merged(d, made.tree, s)))
  IN  IF src = dst THEN Ok(t)
      ELSE IF is_whiteout(t, src) THEN Fail("NotFound", t)
      ELSE IF from.err # "ok" THEN Fail(from.err, t)
      ELSE IF IsNone(node) THEN Fail("NotFound", t)
      ELSE IF to.err # "ok" THEN Fail(to.err, t)
      ELSE IF StartsWith(q, s) /\ IsDir(node) THEN Fail("InvalidPath", t)
      ELSE Then(copied, Ok(Hide(d, copied.tree, s)))

\* OverlayFs::sync: the entries in post-order, a directory only when empty.
sync_loop(d, t) ==
  LET S[n \in 1..(MaxDepth + 1)] ==
        IF n > MaxDepth THEN t
        ELSE [p \in NodePath |->
                IF /\ Len(p) = n /\ ~IsNone(t[p]) /\ matches_disk(d, p, t[p])
                   /\ ~(IsDir(t[p]) /\ \E c \in Children(p) :
                                          ~IsNone(S[n + 1][c]))
                THEN None ELSE S[n + 1][p]]
  IN  S[1]
-----------------------------------------------------------------------------
\* Whatever bound stopped: deeper results are outside the model.
Same(closed, loop) == closed.err = "TooDeep" \/ closed = loop

\* descend, put_whiteout and ensure_dirs leave what their loops leave, for
\* every path and in every reachable tree.
TreeLoopsAgree ==
  LET m == lower_mode_of(lower)
      e == lower_entries_of(lower)
  IN  \A p \in Arg :
        /\ descend(tree, p) = descend_loop(tree, p)
        /\ put_whiteout(tree, p, m) = put_whiteout_loop(tree, p, m)
        /\ Same(ensure_dirs(tree, p, m, e), ensure_dirs_loop(tree, p, m, e))

\* mkdir_p stops or creates where its component loop does, rename of a
\* directory leaves what the recursion over its entries leaves, and sync
\* drops exactly the nodes the post-order pass drops.
MethodLoopsAgree ==
  /\ sync(lower, tree) = sync_loop(lower, tree)
  /\ \A p \in Arg : Same(mkdir_p(lower, tree, p), mkdir_p_loop(lower, tree, p))
  /\ \A p, q \in Arg :
       Same(rename(lower, tree, p, q), rename_loop(lower, tree, p, q))

\* The set-style definitions of the tree's edits and of the methods leave what
\* the code's loops and recursions leave, in every reachable state.
LoopsAgree == TreeLoopsAgree /\ MethodLoopsAgree
=============================================================================
