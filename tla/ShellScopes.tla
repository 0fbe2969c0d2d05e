---------------------------- MODULE ShellScopes -----------------------------
(***************************************************************************)
(* Commands, calls and what they hide: execute_simple_command and          *)
(* execute_function_call of src/interpreter/walker.rs.                     *)
(*                                                                         *)
(* A script runs assignments, builtins and functions, each possibly with   *)
(* assignments before its name; a function's body is whatever runs until   *)
(* it returns.  A limit error ends every open call and the script; the     *)
(* next script starts in the same environment.                             *)
(***************************************************************************)
EXTENDS ShellVars

(***************************************************************************)
(* declare, local, export, readonly and unset (src/interpreter/builtins.rs)*)
(* on the shell's bindings s:                                              *)
(*   env     the variables,                                                *)
(*   scopes  per open call, what its locals hide (local_scopes),           *)
(*   temps   per command that runs with assignments before its name, what  *)
(*           those hide (temp_binding_scopes).                             *)
(*                                                                         *)
(* A declaration d has a name, a form ("none", "set", "append"), the items *)
(* of its value, whether they are a list, the shape its flags ask for and  *)
(* the attributes they give.                                               *)
(***************************************************************************)
Unset == [kind |-> "unset"]
Binding(env, n) == IF IsSet(env, n) THEN env[n] ELSE Unset
Restored(env, n, v) == IF v = Unset THEN Drop(env, n) ELSE Put(env, n, v)

Fresh(env, n, kind) == IF IsSet(env, n) THEN env ELSE Put(env, n, Var(Bare(kind), {}))
AsKind(env, n, kind) ==
  IF env[n].kind = kind THEN env ELSE WithVal(env, n, Bare(kind).at, kind)
Emptied(env, n, kind) ==
  IF IsSet(env, n) THEN WithVal(env, n, Bare(kind).at, kind) ELSE env
Word1(d) == d.items[1]
Late(attrs) == attrs \cap {"readonly"}
Early(attrs) == attrs \ {"readonly"}

\* The elements one after the other from key k; the first error stops.
SetStep(r, n, k, w, kind) ==
  IF r.err # "ok" THEN r
  ELSE SetElement(r.env, resolve_nameref(r.env, n), k, w, kind)

SetElements(env, n, items, k, kind) ==
  LET upto[i \in 0..Len(items)] ==
        IF i = 0 THEN Ok(env)
        ELSE SetStep(upto[i - 1], n, k + i - 1, items[i], kind)
  IN  upto[Len(items)]

\* The attributes that come with success.
Marked(r, n, attrs) == IF r.err = "ok" THEN Ok(WithAttrs(r.env, n, attrs)) ELSE r

parse_and_set_array(env, n, items, kind) ==
  SetElements(Emptied(env, n, kind), n, items, 0, kind)

Converts(env, n, shape) ==
  \/ shape = "assoc" /\ IsKind(env, n, "indexed")
  \/ shape = "indexed" /\ IsKind(env, n, "assoc")

(***************************************************************************)
(* declare                                                                 *)
(***************************************************************************)
\* The reference itself is set, whatever it refers to.
DeclareRef(env, n, d) ==
  IF Word1(d) # Empty /\ Word1(d) \notin Valid THEN Err(env, "shell")
  ELSE Ok(WithAttrs(WithVal(Fresh(env, n, "scalar"), n, Scalar(Word1(d)).at,
                            "scalar"),
                    n, d.attrs \cup {"nameref"}))

DeclareArray(env, n, d, kind) ==
  LET e == AsKind(WithAttrs(Fresh(env, n, kind), n, Early(d.attrs)), n, kind)
  IN  IF d.list THEN parse_and_set_array(e, n, d.items, kind)
      ELSE IF kind = "indexed" /\ Word1(d) # Empty
        THEN set_array_element(e, n, 0, Word1(d))
      ELSE Ok(e)

DeclareScalar(env, n, d) ==
  set_variable(WithAttrs(Fresh(env, n, "scalar"), n, Early(d.attrs)), n, Word1(d))

declare_with_value(env, n, d) ==
  IF Converts(env, n, d.shape) THEN Err(env, "shell")
  ELSE IF d.shape = "nameref" THEN DeclareRef(env, n, d)
  ELSE Marked(IF d.shape = "scalar" /\ ~d.list THEN DeclareScalar(env, n, d)
              ELSE DeclareArray(env, n, d,
                     IF d.shape = "assoc" THEN "assoc" ELSE "indexed"),
              n, Late(d.attrs))

declare_without_value(env, n, d) ==
  LET attrs == d.attrs \cup (IF d.shape = "nameref" THEN {"nameref"} ELSE {})
      kind == IF d.shape \in Kind THEN d.shape ELSE "scalar"
  IN  IF ~IsSet(env, n) THEN
        Ok(Put(env, n, Var(Bare(kind), attrs \cup {"declared_only"})))
      ELSE IF \/ d.shape = "nameref" /\ as_scalar(env[n]) \notin Valid \cup {Empty}
              \/ d.shape = "nameref" /\ env[n].kind # "scalar"
              \/ Converts(env, n, d.shape) THEN Err(env, "shell")
      ELSE IF kind = "scalar" THEN Ok(WithAttrs(env, n, attrs))
      ELSE Ok(AsKind(WithAttrs(env, n, attrs), n, kind))

\* A list: a scalar becomes an array before anything is refused.
AppendList(env, n, d) ==
  LET kind == IF d.shape = "assoc" \/ IsKind(env, n, "assoc") THEN "assoc"
              ELSE "indexed"
      start == IF ~IsSet(env, n) \/ kind = "assoc" THEN 0
               ELSE IF env[n].kind = "indexed" THEN NextKey(env[n])
               ELSE IF as_scalar(env[n]) = Empty THEN 0 ELSE 1
      made == IF IsSet(env, n) THEN env
              ELSE Put(env, n, Var(Bare(kind), Early(d.attrs)))
      array == IF made[n].kind # "scalar" THEN made
               ELSE WithVal(made, n, IF as_scalar(made[n]) = Empty
                                       THEN Bare(kind).at ELSE made[n].at, kind)
  IN  Marked(SetElements(array, n, d.items, start, kind), n,
             IF kind = "assoc" THEN Late(d.attrs) ELSE d.attrs)

\* The value appended to is n's own: of a reference, the name it refers to.
declare_append_value(env, n, d) ==
  LET w == ScalarOf(env, n) \o Word1(d)
  IN  IF d.shape = "assoc" /\ IsKind(env, n, "indexed") THEN Err(env, "shell")
      ELSE IF d.list THEN AppendList(env, n, d)
      ELSE IF IsKind(env, n, "assoc") THEN Err(env, "shell")
      ELSE Marked(IF IsKind(env, n, "indexed") THEN set_array_element(env, n, 0, w)
                  ELSE set_variable(env, n, w), n, d.attrs)

Declared(env, d) ==
  CASE d.form = "set"    -> declare_with_value(env, d.name, d)
    [] d.form = "append" -> declare_append_value(env, d.name, d)
    [] d.form = "none"   -> declare_without_value(env, d.name, d)

(***************************************************************************)
(* What a call's locals hide.                                              *)
(***************************************************************************)
\* The innermost command with an assignment to n before its name, if any.
Hiding(temps, n) == {i \in DOMAIN temps : n \in DOMAIN temps[i]}
current_temp_binding_original(temps, n) ==
  LET i == CHOOSE i \in Hiding(temps, n) : \A j \in Hiding(temps, n) : j <= i
  IN  temps[i][n]

saved_local_restore_value(s, n) ==
  IF Hiding(s.temps, n) # {} THEN current_temp_binding_original(s.temps, n)
  ELSE Binding(s.env, n)

Top(s) == s.scopes[Len(s.scopes)]
InCall(s) == s.scopes # <<>>
IsLocal(s, n) == InCall(s) /\ n \in DOMAIN Top(s)

\* Mutant: every declaration does.
Localised_again(s, n) ==
  IF ~InCall(s) THEN s
  ELSE [s EXCEPT !.scopes[Len(s.scopes)] =
          Put(@, n, saved_local_restore_value(s, n))]

\* The first declaration of n in a call remembers what n was.
Localised(s, n) ==
  IF ~InCall(s) \/ IsLocal(s, n) THEN s
  ELSE [s EXCEPT !.scopes[Len(s.scopes)] =
          Put(@, n, saved_local_restore_value(s, n))]

With(s, r) == [s EXCEPT !.env = r.env, !.err = r.err]

\* declare makes locals inside a call, unless it is declare -g.
builtin_declare(s, d) ==
  LET t == IF d.global THEN s ELSE Localised(s, d.name)
  IN  With(t, Declared(t.env, d))

(***************************************************************************)
(* local                                                                   *)
(***************************************************************************)
LocalAttrs(d) ==
  d.attrs \cup (IF d.shape = "nameref" THEN {"nameref"} ELSE {})

LocalAppend(env, n, d) ==
  IF ~d.list THEN set_variable(env, n, ScalarOf(env, n) \o Word1(d))
  ELSE LET start == IF ~IsSet(env, n) THEN 0
                    ELSE IF env[n].kind = "indexed" THEN NextKey(env[n])
                    ELSE IF env[n].kind = "scalar" /\ ScalarOf(env, n) # Empty
                      THEN 1 ELSE 0
       IN  SetElements(Fresh(env, n, "indexed"), n, d.items, start, "indexed")

\* An associative list is stored without set_assoc_element.
LocalSet(env, n, d) ==
  LET new(kind) == Put(env, n, Var(Bare(kind), {}))
  IN  IF d.list /\ d.shape = "assoc" THEN
        Ok(WithVal(new("assoc"), n,
             [k \in 0..(Len(d.items) - 1) |-> d.items[k + 1]], "assoc"))
      ELSE IF d.list THEN parse_and_set_array(new("indexed"), n, d.items, "indexed")
      ELSE set_variable(env, n, Word1(d))

LocalBare(s, n, d) ==
  LET kind == IF d.shape \in Kind THEN d.shape ELSE "scalar"
  IN  IF ~InCall(s) /\ IsSet(s.env, n) THEN Ok(s.env)
      ELSE Ok(Put(s.env, n, Var(Bare(kind), LocalAttrs(d) \cup {"declared_only"})))

builtin_local(s, d) ==
  LET n == d.name
      t == Localised(s, n)
  IN  CASE d.form = "append" -> With(t, LocalAppend(t.env, n, d))
        [] d.form = "set" ->
             With(t, Marked(LocalSet(t.env, n, d), n, LocalAttrs(d)))
        [] d.form = "none" ->
             IF IsLocal(s, n) THEN s ELSE With(t, LocalBare(t, n, d))

(***************************************************************************)
(* export, readonly, unset                                                 *)
(***************************************************************************)
builtin_export(s, d) ==
  LET n == d.name
      mark == {"exported"}
  IN  CASE d.form = "append" ->
             With(s, declare_append_value(s.env, n, [d EXCEPT !.attrs = mark]))
        [] d.form = "set" ->
             With(s, Marked(set_variable(s.env, n, Word1(d)), n, mark))
        [] d.form = "none" ->
             With(s, Ok(WithAttrs(Fresh(s.env, n, "scalar"), n, mark)))

builtin_readonly(s, d) ==
  LET n == d.name
      mark == {"readonly"}
      e == [d EXCEPT !.attrs = mark, !.shape = "scalar"]
  IN  CASE d.form = "append" -> With(s, declare_append_value(s.env, n, e))
        [] d.form = "set"    -> With(s, Marked(set_variable(s.env, n, Word1(d)), n, mark))
        [] d.form = "none"   -> With(s, Marked(declare_without_value(s.env, n, e), n, mark))

\* A local that is unset stays local, without a value.
declared_only_shadow_variable(v) ==
  Var(Bare(v.kind), v.attrs \cup {"declared_only"})

\* The calls that declared n local.
Owning(s, n) == {i \in DOMAIN s.scopes : n \in DOMAIN s.scopes[i]}
Owner(s, n) == CHOOSE i \in Owning(s, n) : \A j \in Owning(s, n) : j <= i

\* In a call below the one that declared n local, unset brings back what that
\* call hid; in the call itself, what a command's own assignment hid, or
\* nothing at all.
UnsetLocal(s, n) ==
  IF Owner(s, n) < Len(s.scopes)
    THEN Restored(s.env, n, s.scopes[Owner(s, n)][n])
  ELSE IF Hiding(s.temps, n) # {}
    THEN Restored(s.env, n, current_temp_binding_original(s.temps, n))
  ELSE Put(s.env, n, declared_only_shadow_variable(s.env[n]))

UnsetOther(s, n) ==
  IF Hiding(s.temps, n) # {} /\ ~(s.posix /\ ~InCall(s))
    THEN Restored(s.env, n, current_temp_binding_original(s.temps, n))
    ELSE Drop(s.env, n)

UnsetVar(s, n) ==
  IF ~s.localvar_unset /\ Owning(s, n) # {} THEN UnsetLocal(s, n)
  ELSE UnsetOther(s, n)

builtin_unset(s, n) ==
  LET t == resolve_nameref_or_self(s.env, n)
  IN  IF ~IsSet(s.env, n) THEN s
      ELSE IF readonly(s.env, n) THEN With(s, Err(s.env, "shell"))
      ELSE IF t # n THEN
        With(s, IF readonly(s.env, t) THEN Err(s.env, "shell")
                ELSE Ok(Drop(s.env, t)))
      ELSE With(s, Ok(UnsetVar(s, n)))

\* unset 'n[k]' looks at n itself, not at what it refers to.
unset_element(s, n, k) ==
  LET v == s.env[n]
      i == FromEnd(v, k)
  IN  IF ~IsSet(s.env, n) THEN s
      ELSE IF readonly(s.env, n) THEN With(s, Err(s.env, "shell"))
      ELSE IF v.kind = "assoc" THEN With(s, Ok([s.env EXCEPT ![n].at = Drop(@, k)]))
      ELSE IF v.kind = "scalar" THEN
        With(s, IF k = 0 THEN Ok([s.env EXCEPT ![n].at = Scalar(Empty).at])
                ELSE Err(s.env, "shell"))
      ELSE IF k < 0 /\ v.at = <<>> THEN s
      ELSE IF i < 0 THEN With(s, Err(s.env, "shell"))
      ELSE With(s, Ok([s.env EXCEPT ![n].at = Drop(@, i)]))

CONSTANTS
  Assignment,   \* the assignments scripts make
  Prefix,       \* the sequences of assignments before a command's name
  Declaration,  \* the arguments of declare and local
  Marking,      \* the arguments of export and readonly
  Name,         \* the names scripts unset
  Key,          \* the indices they unset
  Options,      \* the options that change unset, as <<posix, localvar_unset>>
  MaxCalls      \* bound on nested calls

IsAssignment(a) ==
  /\ a.name \in Word
  /\ \/ a.form \in {"set", "append"} /\ a.word \in Word
     \/ a.form = "array" /\ a.items \in Seq(Word)
     \/ a.form \in {"element", "extend"} /\ a.word \in Word /\ a.key \in Int

Flags == {"exported", "readonly", "uppercase"}
IsDeclaration(d) ==
  /\ d \in [name : Word, form : {"none", "set", "append"}, list : BOOLEAN,
            items : Seq(Word), shape : Kind \cup {"nameref"},
            attrs : SUBSET Flags, global : BOOLEAN]
  /\ d.form # "none" /\ (~d.list \/ d.shape = "nameref") => d.items # <<>>

ASSUME ScriptAssumption ==
  /\ \A a \in Assignment : IsAssignment(a)
  /\ \A p \in Prefix : /\ p \in Seq({p[i] : i \in DOMAIN p})
                       /\ \A i \in DOMAIN p : IsAssignment(p[i])
  /\ \A d \in Declaration : IsDeclaration(d)
  /\ \A d \in Marking : IsDeclaration(d) /\ (d.list => d.form = "append")
  /\ Name \subseteq Word /\ Key \subseteq Int
  /\ Options \subseteq BOOLEAN \X BOOLEAN

VARIABLES
  s,       \* the bindings, the options that change unset, and the last error
  frames   \* per open call, what comes back after it

vars == <<s, frames>>

Start == [env |-> [n \in {} |-> Unset], scopes |-> <<>>, temps |-> <<>>,
          err |-> "ok", posix |-> FALSE, localvar_unset |-> FALSE]

Init == /\ \E o \in Options :
             s = [Start EXCEPT !.posix = o[1], !.localvar_unset = o[2]]
        /\ frames = <<>>

(***************************************************************************)
(* The assignments before a command's name: b has the bindings so far, what*)
(* they replaced in their order, and the first such value of each name.    *)
(* Those of arrays are left out; one that fails is skipped.                *)
(***************************************************************************)
Bind(b, a) ==
  LET old == Binding(b.s.env, a.name)
      Set(r) ==
        [s |-> [b.s EXCEPT !.err = IF r.err = "limit" THEN "limit" ELSE "ok",
                           !.env = IF r.err = "limit" THEN r.env
                                   ELSE WithAttrs(r.env, a.name, {"exported"})],
         saved |-> Append(b.saved, <<a.name, old>>),
         first |-> IF a.name \in DOMAIN b.first THEN b.first
                   ELSE Put(b.first, a.name, old)]
  IN  IF b.s.err = "limit" \/ a.form \notin {"set", "append"} THEN b
      ELSE Set(apply_assignment(b.s.env, a))

Bound(t, p) ==
  LET upto[i \in 0..Len(p)] ==
        IF i = 0 THEN [s |-> [t EXCEPT !.err = "ok"], saved |-> <<>>,
                       first |-> [n \in {} |-> Unset]]
        ELSE Bind(upto[i - 1], p[i])
  IN  upto[Len(p)]

Opened(b) ==
  IF b.saved = <<>> THEN b.s ELSE [b.s EXCEPT !.temps = Append(@, b.first)]

\* After the command: in the order they were made.
RestoreSaved(env, saved) ==
  LET upto[i \in 0..Len(saved)] ==
        IF i = 0 THEN env ELSE Restored(upto[i - 1], saved[i][1], saved[i][2])
  IN  upto[Len(saved)]

\* Mutant: the command's assignments stay on the stack.
Closed_stacked(t, saved, keep) ==
  [t EXCEPT !.env = IF keep THEN @ ELSE RestoreSaved(@, saved)]

Closed(t, saved, keep) ==
  [t EXCEPT !.temps = IF saved = <<>> THEN @ ELSE SubSeq(@, 1, Len(@) - 1),
            !.env = IF keep THEN @ ELSE RestoreSaved(@, saved)]

(***************************************************************************)
(* Builtins.                                                               *)
(***************************************************************************)
Special == {"export", "readonly", "unset", "unset_element"}

Builtins ==
  [op : {"declare", "local"}, d : Declaration]
    \cup [op : {"export", "readonly"}, d : Marking]
    \cup [op : {"unset"}, name : Name]
    \cup [op : {"unset_element"}, name : Name, key : Key]

RunBuiltin(t, b) ==
  CASE b.op = "declare"       -> builtin_declare(t, b.d)
    [] b.op = "local"         -> builtin_local(t, b.d)
    [] b.op = "export"        -> builtin_export(t, b.d)
    [] b.op = "readonly"      -> builtin_readonly(t, b.d)
    [] b.op = "unset"         -> builtin_unset(t, b.name)
    [] b.op = "unset_element" -> unset_element(t, b.name, b.key)

\* A limit error among the assignments returns before anything is restored.
execute_builtin(t, p, b) ==
  LET Run(bound) ==
        IF bound.s.err = "limit" THEN bound.s
        ELSE Closed(RunBuiltin(Opened(bound), b), bound.saved,
                    t.posix /\ b.op \in Special)
  IN  Run(Bound(t, p))

Running == s.err # "limit"

\* An error that is not a limit's is a status and a message.
Settled(t) == [t EXCEPT !.err = IF @ = "limit" THEN @ ELSE "ok"]

\* What a call hides for the first time: what the name was as the builtin
\* began, but for the assignments before the builtin's own name (b).  Kept
\* beside the frames to compare with when the call returns.
Before(b, n) == IF n \in DOMAIN b.first THEN b.first[n] ELSE Binding(b.s.env, n)
Hidden(f, b, u) ==
  IF f = <<>> THEN f
  ELSE LET h == f[Len(f)].hid
       IN  [f EXCEPT ![Len(f)] =
             [saved |-> @.saved,
              hid |-> [n \in DOMAIN h \cup DOMAIN Top(u) |->
                         IF n \in DOMAIN h THEN h[n] ELSE Before(b, n)]]]

Assign ==
  /\ Running
  /\ \E a \in Assignment : s' = Settled(With(s, apply_assignment(s.env, a)))
  /\ UNCHANGED frames

Builtin ==
  /\ Running
  /\ \E b \in Builtins, p \in Prefix :
       /\ s' = Settled(execute_builtin(s, p, b))
       /\ frames' = Hidden(frames, Bound(s, p), s')

Entered(b) ==
  [Opened(b) EXCEPT !.scopes = Append(@, [n \in {} |-> Unset])]

Frame(b) == [saved |-> b.saved, hid |-> b.first]

Call ==
  /\ Running /\ Len(frames) < MaxCalls
  /\ \E p \in Prefix : \E b \in {Bound(s, p)} :
       IF b.s.err = "limit" THEN s' = b.s /\ UNCHANGED frames
       ELSE /\ s' = Entered(b)
            /\ frames' = Append(frames, Frame(b))

\* The locals come back first, then what the command's assignments replaced.
Popped(t) ==
  LET r == Top(t)
      env == [n \in (DOMAIN t.env \cup DOMAIN r) \ {m \in DOMAIN r : r[m] = Unset}
                |-> IF n \in DOMAIN r THEN r[n] ELSE t.env[n]]
  IN  [t EXCEPT !.env = env, !.scopes = SubSeq(@, 1, Len(@) - 1)]

\* A call returns, or is left with an error.
Return ==
  /\ frames # <<>>
  /\ s' = Closed(Popped(s), frames[Len(frames)].saved, FALSE)
  /\ frames' = SubSeq(frames, 1, Len(frames) - 1)

\* The script has ended with an error; the next one starts.
NextScript ==
  /\ ~Running /\ frames = <<>>
  /\ s' = [s EXCEPT !.err = "ok"]
  /\ UNCHANGED frames

Next == Assign \/ Builtin \/ Call \/ Return \/ NextScript
Spec == Init /\ [][Next]_vars

(***************************************************************************)
(* What the shell's variables and calls promise.                           *)
(***************************************************************************)
\* A command binds n when an assignment to n stands before its name.
Named(f, n) == \E j \in DOMAIN f.saved : f.saved[j][1] = n
Binders(fs) == {i \in DOMAIN fs : fs[i].saved # <<>>}
Depth(fs, i) == Cardinality({j \in Binders(fs) : j <= i})

\* The stack of what such commands hide has one entry for each call that has
\* assignments, in the order of the calls.
Stacked(temps, fs) ==
  /\ Len(temps) = Cardinality(Binders(fs))
  /\ \A k \in DOMAIN temps : \E i \in Binders(fs) :
       Depth(fs, i) = k /\ \A n \in DOMAIN temps[k] : Named(fs[i], n)

\* What comes back after call i is what was hidden first, but for the names
\* that this call's command, or that of a call around it, binds.
Recalls(locals, fs, i) ==
  LET f == fs[i]
  IN  /\ \A n \in DOMAIN f.hid : Named(f, n) \/ n \in DOMAIN locals
      /\ \A n \in DOMAIN locals : n \in DOMAIN f.hid
      /\ \A j \in DOMAIN f.saved : f.saved[j][1] \in DOMAIN f.hid
      /\ \A j \in DOMAIN f.saved :
           (\A k \in DOMAIN f.saved : k < j => f.saved[k][1] # f.saved[j][1])
             => f.hid[f.saved[j][1]] = f.saved[j][2]
      /\ \A n \in DOMAIN locals :
           (\E j \in 1..i : Named(fs[j], n)) \/ locals[n] = f.hid[n]

\* Scalars have one value, there is one scope per open call, and the two stacks
\* of bindings belong to the open calls.
TypeOK ==
  /\ \A n \in DOMAIN s.env :
       /\ s.env[n].kind \in Kind /\ s.env[n].attrs \subseteq Attr
       /\ s.env[n].kind = "scalar" => DOMAIN s.env[n].at = {0}
       /\ \A k \in DOMAIN s.env[n].at : s.env[n].at[k] \in Word
  /\ Len(s.scopes) = Len(frames)
  /\ Stacked(s.temps, frames)
  /\ \A i \in DOMAIN frames : Recalls(s.scopes[i], frames, i)

(***************************************************************************)
(* Calls.                                                                  *)
(***************************************************************************)
Repeats(f) == \E i, j \in DOMAIN f.saved : i < j /\ f.saved[i][1] = f.saved[j][1]
BoundBelow(n) == \E i \in 1..(Len(frames) - 1) :
                   n \in {frames[i].saved[j][1] : j \in DOMAIN frames[i].saved}

\* A call that is over leaves the names it declared local, and those assigned
\* before its name, as they were when it hid them (execute_function_call and
\* the end of execute_simple_command).  Excepted are names that a command
\* around it binds, and commands that bind one name twice.
CallsRestore ==
  [][Len(frames') < Len(frames) =>
       LET f == frames[Len(frames)]
       IN  Repeats(f) \/
           \A n \in DOMAIN f.hid :
             BoundBelow(n) \/ Binding(s'.env, n) = f.hid[n]]_vars

(***************************************************************************)
(* Readonly.                                                               *)
(***************************************************************************)
\* What a readonly n does not survive: a list assigned to it when it is an
\* associative array, which is emptied before anything is refused; local, which
\* hides it; and declare with a list or another shape, which starts a new value
\* before it looks.
Empties(a, n) == a.name = n /\ a.form = "array" /\ IsKind(s.env, n, "assoc")
Shadows(b, n) == b.op = "local" /\ b.d.name = n
Restarts(b, n) == /\ b.op = "declare" /\ b.d.name = n
                  /\ b.d.form # "append" /\ (b.d.list \/ b.d.shape # "scalar")

\* The value of n, element by element, and the attribute.
Stands(env, n) ==
  /\ IsSet(env, n)
  /\ \A k \in DOMAIN s.env[n].at \cup DOMAIN env[n].at :
       KeyOr(env[n], k) = KeyOr(s.env[n], k)

\* No other assignment, export, readonly, declare, local or unset of any name,
\* through any chain of references, changes an element of a readonly variable;
\* and none at all but local takes the attribute away (set_variable,
\* set_array_element, process_assignment and the builtins).
ReadonlyStands ==
  \A n \in DOMAIN s.env : readonly(s.env, n) /\ ~Has(s.env, n, "nameref") =>
    /\ \A a \in Assignment : \A e \in {apply_assignment(s.env, a).env} :
         readonly(e, n) /\ (Empties(a, n) \/ Stands(e, n))
    /\ \A b \in Builtins : \A e \in {RunBuiltin(s, b).env} :
         Shadows(b, n) \/ (readonly(e, n) /\ (Restarts(b, n) \/ Stands(e, n)))

(***************************************************************************)
(* Assignments and references.                                             *)
(***************************************************************************)
\* The variable an assignment to n lands in.
Base(n) ==
  LET t == resolve_nameref(s.env, n)
  IN  IF t = Empty /\ Has(s.env, n, "nameref") THEN n
      ELSE IF t \in DOMAIN Subscripted THEN Subscripted[t].arr ELSE t

\* An element an array can have; at other indices the code drops the value or
\* stores it at index 0.
Reaches(n) ==
  LET t == resolve_nameref(s.env, n)
      e == Subscripted[t]
  IN  t \in DOMAIN Subscripted =>
        /\ ~Has(s.env, e.arr, "nameref")
        /\ IF IsSet(s.env, e.arr)
             THEN /\ s.env[e.arr].kind = "scalar" => e.key \in {0, -1}
                  /\ s.env[e.arr].kind = "indexed" => FromEnd(s.env[e.arr], e.key) >= 0
             ELSE e.key >= 0

Shown(w) == {w, [i \in DOMAIN w |-> Upper[w[i]]]}

\* An assignment that succeeds lands in the variable an expansion of the same
\* name reads, and in no other; a cycle of references is an error and no
\* change (set_variable against get_var).
AssignmentsLand ==
  \A n \in Name : \A w \in {a.word : a \in {x \in Assignment : x.form = "set"}} :
    LET r == set_variable(s.env, n, w)
    IN  IF r.err # "ok" THEN r.env = s.env
        ELSE Reaches(n) =>
             /\ Base(n) # n \/ ~Has(s.env, n, "nameref") =>
                  get_var(r.env, n) \in Shown(w)
             /\ \A m \in (DOMAIN s.env \cup DOMAIN r.env) \ {Base(n)} :
                  Binding(r.env, m) = Binding(s.env, m)
=============================================================================
