----------------------------- MODULE MountProps ----------------------------
(***************************************************************************)
(* What MountableFs over InMemoryFs backends promises.  The contract of a  *)
(* method is an invariant over its arguments: run to its end with nobody   *)
(* in between, in every state that the threads can bring about.            *)
(***************************************************************************)
EXTENDS MountableFs

\* A method's steps one after the other; no method takes more than MostSteps.
MostSteps == 8
Finish(F, steps) ==
  LET S[n \in 0..MostSteps] ==
        IF n = 0 THEN [fs |-> F, err |-> "ok", todo |-> steps]
        ELSE Run(S[n - 1])
  IN  S[MostSteps]

Done(r) == r.err = "ok"

\* Nobody is inside a call.
Calm == \A h \in Thread : todo[h] = <<>>

\* What a thread can have left to do, and what each kind of step needs for it.
\* A step that reads the source of a copy has the next one in it, which gets
\* the content; without an owner for a path, a call stops at its first step.
PlainStep(mounts) == [do : {"mkdir_p", "utimes", "no dir", "refuse"},
                      m : mounts \cup {Nobody}, p : Seq(Name)]
WriteStep(mounts) == [do : {"write", "append", "extend", "over", "number"},
                      m : mounts \cup {Nobody}, p : Seq(Name), c : SUBSET Chunk]
InsertStep(mounts) == [do : {"insert"}, m : mounts \cup {Nobody}, p : Seq(Name),
                       c : SUBSET Chunk, id : Nat]
NewStep(mounts) == [do : {"new"}, m : mounts \cup {Nobody}, p : Seq(Name),
                    node : MemNode \ {None}]
RemoveStep(mounts) == [do : {"remove"}, m : mounts \cup {Nobody}, p : Seq(Name),
                       types : SUBSET {"File", "Symlink", "Dir"}, full : BOOLEAN]
ChmodStep(mounts) == [do : {"chmod"}, m : mounts \cup {Nobody}, p : Seq(Name),
                      mode : Mode]
PairStep(mounts) == [do : {"rename"}, m : mounts, p : Seq(Name), dst : Seq(Name)]
LostStep == [do : {"read", "write"}, m : {Nobody}, p : Seq(Name)]
Into(mounts) ==
  [do : {"write"}, m : mounts, p : Seq(Name)]
    \cup [do : {"mode", "meta"}, m : mounts, p : Seq(Name), dst : Seq(Name)]
ReadStep(mounts) == [do : {"read"}, m : mounts, p : Seq(Name), into : Into(mounts)]
CopyStep(mounts) == [do : {"mode", "meta"}, m : mounts, p : Seq(Name), dst : Seq(Name),
                     c : SUBSET Chunk]
Steps(mounts) ==
  PlainStep(mounts) \cup WriteStep(mounts) \cup InsertStep(mounts)
    \cup NewStep(mounts) \cup RemoveStep(mounts) \cup ChmodStep(mounts)
    \cup PairStep(mounts) \cup LostStep \cup ReadStep(mounts) \cup CopyStep(mounts)

\* Every backend is a tree whose files carry a number, and whatever a thread
\* has left to do is for one of the mount points and has all it needs.
TypeOK ==
  /\ DOMAIN fs \in Tables
  /\ fs \in [DOMAIN fs -> [NodePath -> MemNode]]
  /\ \A m \in DOMAIN fs : Rooted(fs[m])
  /\ todo \in [Thread -> Seq(Steps(DOMAIN fs))]

(***************************************************************************)
(* Listings and lookups.                                                   *)
(***************************************************************************)
\* readdir names an entry exactly where lstat finds one, although a listing
\* merges mount points with a backend's own entries and a lookup tries the
\* backend first (readdir against lstat in mountable.rs).  Where a mount's
\* ancestor is something else in its backend, the listing is of the mounts.
ListingAgreesWithLookup ==
  Calm => \A p \in Path : IsDir(stat(fs, p)) =>
    readdir(fs, p) = {x \in Name : ~IsNone(lstat(fs, Append(p, x)))}

(***************************************************************************)
(* Contracts of the methods.                                               *)
(***************************************************************************)
Contents(n) == IF IsFile(n) THEN n.content ELSE {}

OneOwner(p, q) == resolve_mount(DOMAIN fs, p) = resolve_mount(DOMAIN fs, q)

\* p leads through a link that a walk refuses: a relative one, or one too many.
Refused(F, p) ==
  LET m == resolve_mount(DOMAIN F, p)
  IN  /\ m # Nobody
      /\ navigate(F[m], Rel(p, m), TRUE).err \in {"InvalidPath", "SymlinkLoop"}

Holds(F, p, c)         == Refused(F, p) \/ read_file(F, p).content = c
WriteVisible(p, c, r)  == Done(r) => Holds(r.fs, p, c)
AppendVisible(p, c, r) ==
  Done(r) => Holds(r.fs, p, c \cup Contents(read_file(fs, p)))
MakeVisible(p, r)      == Done(r) => IsDir(stat(r.fs, p))
Gone(p, F)             == lstat(F, p) = Synthetic(DOMAIN F, p)
RemoveVisible(p, r)    == Done(r) => Gone(p, r.fs)
SameFile(p, q, new, old) == /\ new.content = old.content
                            /\ OneOwner(p, q) => new.mode = old.mode
CopyVisible(p, q, r)   ==
  Done(r) => \/ Refused(r.fs, q)
             \/ SameFile(p, q, read_file(r.fs, q), read_file(fs, p))
RenameVisible(p, q, r) ==
  Done(r) =>
    /\ IF OneOwner(p, q) THEN lstat(r.fs, q) = lstat(fs, p)
       ELSE Holds(r.fs, q, read_file(fs, p).content)
    /\ ~StartsWith(p, q) => Gone(p, r.fs)

\* What a call reports as done can be read back through the same path, across
\* the mount points as within one: the content written, appended or copied
\* (with its mode in one mount), the directory made, the removed path's end,
\* the renamed node at its destination.
SuccessIsVisible ==
  Calm => \A p \in Arg :
    /\ \A c \in Written :
         /\ WriteVisible(p, c, Finish(fs, write_file(fs, p, c)))
         /\ AppendVisible(p, c, Finish(fs, append_file(fs, p, c)))
    /\ \A steps \in {mkdir(fs, p), mkdir_p(fs, p)} :
         MakeVisible(p, Finish(fs, steps))
    /\ \A steps \in {remove_file(fs, p), remove_dir(fs, p),
                     remove_dir_all(fs, p)} :
         RemoveVisible(p, Finish(fs, steps))
    /\ \A q \in Arg : /\ CopyVisible(p, q, Finish(fs, copy(fs, p, q)))
                      /\ RenameVisible(p, q, Finish(fs, rename(fs, p, q)))

\* A call that fails changed nothing, with two exceptions.  A rename within a
\* mount takes the source out before it looks for the destination's directory
\* (memory.rs rename), and loses it exactly when that directory is not there
\* once the source is gone; the code's own list of divergences names that.  And
\* a copy within a mount that has written the file fails in the chmod after it
\* where the destination is a link that a walk refuses.
Silent(r) == Done(r) \/ r.fs = fs
RenameLoses(p, q, m) ==
  /\ m # Nobody /\ OneOwner(p, q) /\ q # m
  /\ \E r \in Above(Rel(q, m)) : ~IsDir(Without(fs[m], Rel(p, m))[r])
CallsAt(p) ==
  {write_file(fs, p, c) : c \in Written}
    \cup {append_file(fs, p, c) : c \in Written}
    \cup {mkdir(fs, p), mkdir_p(fs, p), remove_file(fs, p), utimes(fs, p),
          remove_dir(fs, p), remove_dir_all(fs, p)}
    \cup {chmod(fs, p, m) : m \in NewMode}
    \cup {symlink(fs, l, p) : l \in NewLink}
    \cup {hardlink(fs, p, q) : q \in Arg}
FailureIsSilent ==
  Calm => \A p \in Arg :
    /\ \A steps \in CallsAt(p) : Silent(Finish(fs, steps))
    /\ \A q \in Arg :
         /\ LET r == Finish(fs, copy(fs, p, q))
            IN  Silent(r) \/ (OneOwner(p, q) /\ Refused(r.fs, q))
         /\ \/ Silent(Finish(fs, rename(fs, p, q)))
            \/ RenameLoses(p, q, resolve_mount(DOMAIN fs, p))

\* What a call reports is what can be seen of it: what it reports as done can
\* be read back, and what it reports as failed has changed nothing, but for the
\* two exceptions above, a rename that loses its source and a copy that is
\* refused after its write.
CallsAreHonest == SuccessIsVisible /\ FailureIsSilent

\* Names survive the way into a backend and back (symlink, readlink and
\* canonicalize in mountable.rs): a link reads as it was written, and a
\* canonical path leads to the same node by itself.  Both only where link and
\* target have one owner; the code's list of divergences excepts the rest.
LinkReadsBack(l, p, r) ==
  /\ Done(r)
  /\ resolve_mount(DOMAIN fs, p) # Root /\ l.abs => OneOwner(l.to, p)
  => readlink(r.fs, p) = Symlink(l)
CanonLeadsThere(p, r) ==
  r.err = "ok" /\ OneOwner(r.path, p)
    => lstat(fs, r.path) = stat(fs, p) /\ canonicalize(fs, r.path) = r
NamesSurvive ==
  Calm => \A p \in Arg :
    /\ \A l \in NewLink : LinkReadsBack(l, p, Finish(fs, symlink(fs, l, p)))
    /\ CanonLeadsThere(p, canonicalize(fs, p))
=============================================================================
