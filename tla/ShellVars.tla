----------------------------- MODULE ShellVars -----------------------------
(***************************************************************************)
(* The variables of the shell: set_variable and its relatives in           *)
(* src/interpreter/mod.rs, and the builtins that declare and unset         *)
(* (src/interpreter/builtins.rs), as functions of the environment.         *)
(*                                                                         *)
(* A value is a word, a sequence of atoms; appending joins two words.  The *)
(* environment maps the words that are set to variables, as the code's     *)
(* hash map does.  A variable's value is a function from keys to words: of *)
(* key 0 alone for a scalar.                                               *)
(***************************************************************************)
EXTENDS Integers, Sequences, FiniteSets

CONSTANTS
  Atom,         \* what words are made of
  Subscripted,  \* the words that spell an element: word -> [arr, key]
  Upper,        \* the upper case of an atom
  Valid,        \* the words that may name a variable
  Circular,     \* what a reference that leads in a circle resolves to: no word
  MaxRefs,      \* the longest chain of references followed (10 in the code)
  MaxString,    \* max_string_length
  MaxElements   \* max_array_elements

Word == Seq(Atom)
Empty == <<>>

ASSUME VarsAssumption ==
  /\ \A w \in DOMAIN Subscripted : /\ Subscripted[w].arr \in Word
                                   /\ Subscripted[w].key \in Int
  /\ Upper \in [Atom -> Atom]
  /\ MaxRefs \in Nat \ {0}

Kind == {"scalar", "indexed", "assoc"}
Attr == {"exported", "readonly", "uppercase", "nameref", "declared_only"}

Scalar(w) == [kind |-> "scalar", at |-> [k \in {0} |-> w]]
Bare(kind) == IF kind = "scalar" THEN Scalar(Empty)
              ELSE [kind |-> kind, at |-> [k \in {} |-> Empty]]
Var(val, attrs) == [kind |-> val.kind, at |-> val.at, attrs |-> attrs]

Put(f, k, v) == [x \in DOMAIN f \cup {k} |-> IF x = k THEN v ELSE f[x]]
Drop(f, k)   == [x \in DOMAIN f \ {k} |-> f[x]]

\* The outcome of one operation: "limit" errors end the script.
Ok(env)       == [err |-> "ok", env |-> env]
Err(env, e)   == [err |-> e, env |-> env]

IsSet(env, n)     == n \in DOMAIN env
Has(env, n, a)    == IsSet(env, n) /\ a \in env[n].attrs
readonly(env, n)  == Has(env, n, "readonly")
IsKind(env, n, k) == IsSet(env, n) /\ env[n].kind = k
KeyOr(v, k)       == IF k \in DOMAIN v.at THEN v.at[k] ELSE Empty
as_scalar(v)      == KeyOr(v, 0)
ScalarOf(env, n)  == IF IsSet(env, n) THEN as_scalar(env[n]) ELSE Empty
MaxKey(v)         == CHOOSE k \in DOMAIN v.at : \A j \in DOMAIN v.at : j <= k
LastKey(v)        == IF v.at = <<>> THEN 0 ELSE MaxKey(v)
NextKey(v)        == IF v.at = <<>> THEN 0 ELSE MaxKey(v) + 1
WithVal(env, n, v, kind) == [env EXCEPT ![n].at = v, ![n].kind = kind]
WithAttrs(env, n, as)    ==
  IF IsSet(env, n) THEN [env EXCEPT ![n].attrs = @ \cup as] ELSE env
LessAttrs(env, n, as)    ==
  IF IsSet(env, n) THEN [env EXCEPT ![n].attrs = @ \ as] ELSE env

(***************************************************************************)
(* Name references.                                                        *)
(***************************************************************************)
Refers(env, w) == IF Has(env, w, "nameref") THEN as_scalar(env[w]) ELSE w

resolve_nameref(env, n) ==
  LET hop[k \in 0..(MaxRefs - 1)] ==
        IF k = 0 THEN n ELSE Refers(env, hop[k - 1])
      End(w) == IF Has(env, w, "nameref") THEN Circular ELSE w
  IN  End(hop[MaxRefs - 1])

resolve_nameref_or_self(env, n) ==
  LET Or(t) == IF t = Circular THEN n ELSE t
  IN  Or(resolve_nameref(env, n))

(***************************************************************************)
(* Assignments.                                                            *)
(***************************************************************************)
Transform(env, n, w) ==
  IF Has(env, n, "uppercase") THEN [i \in DOMAIN w |-> Upper[w[i]]] ELSE w

\* A negative index counts from the end; past the beginning it is below 0.
FromEnd(v, k) == IF k >= 0 THEN k ELSE LastKey(v) + 1 + k
Clamp(k) == IF k < 0 THEN 0 ELSE k

\* Through a reference to an element: neither the attributes' transforms nor
\* the limit on elements apply, and a scalar keeps its value at other indices.
SetReferenced(env, a, k, w) ==
  IF readonly(env, a) THEN Err(env, "shell")
  ELSE IF ~IsSet(env, a) THEN
    Ok(Put(env, a, Var([kind |-> "indexed", at |-> [j \in {Clamp(k)} |-> w]], {})))
  ELSE IF env[a].kind = "assoc" THEN Ok([env EXCEPT ![a].at = Put(@, k, w)])
  ELSE IF env[a].kind = "indexed" THEN
    Ok([env EXCEPT ![a].at = Put(@, Clamp(FromEnd(env[a], k)), w)])
  ELSE IF k \in {0, -1} THEN Ok([env EXCEPT ![a].at = Scalar(w).at])
  ELSE Ok(env)

\* Mutant: SetPlain without the check.
SetPlain_unchecked(env, t, w) ==
  IF IsSet(env, t) THEN
    Ok(LessAttrs([env EXCEPT ![t].at = Put(@, 0, Transform(env, t, w))],
                 t, {"declared_only"}))
  ELSE Ok(Put(env, t, Var(Scalar(w), {})))

SetPlain(env, t, w) ==
  IF readonly(env, t) THEN Err(env, "shell")
  ELSE IF IsSet(env, t) THEN
    Ok(LessAttrs([env EXCEPT ![t].at = Put(@, 0, Transform(env, t, w))],
                 t, {"declared_only"}))
  ELSE Ok(Put(env, t, Var(Scalar(w), {})))

SetTarget(env, n, t, w) ==
  IF t = Circular THEN Err(env, "shell")
  ELSE IF t = Empty /\ Has(env, n, "nameref") THEN
    Ok(LessAttrs(WithVal(env, n, Scalar(w).at, "scalar"), n, {"declared_only"}))
  ELSE IF t \in DOMAIN Subscripted THEN
    SetReferenced(env, Subscripted[t].arr, Subscripted[t].key, w)
  ELSE SetPlain(env, t, w)

\* Mutant: the first reference only.
set_variable_one_hop(env, n, w) ==
  IF Len(w) > MaxString THEN Err(env, "limit")
  ELSE SetTarget(env, n,
         IF Has(env, n, "nameref") THEN as_scalar(env[n]) ELSE n, w)

set_variable(env, n, w) ==
  IF Len(w) > MaxString THEN Err(env, "limit")
  ELSE SetTarget(env, n, resolve_nameref(env, n), w)

\* An element of an array; a scalar becomes an array of that one element.
SetElement(env, t, k, w, kind) ==
  IF t = Circular \/ readonly(env, t) THEN Err(env, "shell")
  ELSE IF ~IsSet(env, t) THEN
    IF kind = "assoc" THEN Err(env, "shell")
    ELSE Ok(Put(env, t, Var([kind |-> "indexed", at |-> [j \in {k} |-> w]], {})))
  ELSE IF env[t].kind = "scalar" /\ kind = "indexed" THEN
    Ok(LessAttrs(WithVal(env, t, [j \in {k} |-> Transform(env, t, w)], "indexed"),
                 t, {"declared_only"}))
  ELSE IF env[t].kind # kind THEN Err(env, "shell")
  ELSE IF k \notin DOMAIN env[t].at /\ Cardinality(DOMAIN env[t].at) >= MaxElements
    THEN Err(env, "limit")
  ELSE Ok(LessAttrs([env EXCEPT ![t].at = Put(@, k, Transform(env, t, w))],
                    t, {"declared_only"}))

set_array_element(env, n, k, w) ==
  SetElement(env, resolve_nameref(env, n), k, w, "indexed")
set_assoc_element(env, n, k, w) ==
  SetElement(env, resolve_nameref(env, n), k, w, "assoc")

\* The index an assignment means; Below where there is no such element.
Below == -1
resolve_negative_array_index(env, n, k) ==
  IF k >= 0 THEN k
  ELSE IF ~IsSet(env, n) \/ env[n].at = <<>> THEN Below
  ELSE IF FromEnd(env[n], k) < 0 THEN Below
  ELSE FromEnd(env[n], k)

\* n=(a b c) replaces value and kind, and a reference becomes a variable.  An
\* associative array is emptied before its new elements are expanded, and
\* before anything is refused.
AssignArray(env, n, items) ==
  LET e == IF IsKind(env, n, "assoc") THEN [env EXCEPT ![n].at = <<>>] ELSE env
      at == [k \in 0..(Len(items) - 1) |-> items[k + 1]]
      kind == IF IsKind(env, n, "assoc") THEN "assoc" ELSE "indexed"
      attrs == IF IsSet(env, n) THEN env[n].attrs ELSE {}
  IN  IF readonly(env, n) THEN Err(e, "shell")
      ELSE IF Len(items) > MaxElements THEN Err(e, "limit")
      ELSE Ok(Put(env, n, Var([kind |-> kind, at |-> at], attrs \ {"nameref"})))

AssignElement(env, n, k, w) ==
  IF IsKind(env, n, "assoc") THEN set_assoc_element(env, n, k, w)
  ELSE IF resolve_negative_array_index(env, n, k) = Below THEN Err(env, "shell")
  ELSE set_array_element(env, n, resolve_negative_array_index(env, n, k), w)

\* The value an element append starts from is looked up under n itself.
AppendElement(env, n, k, w) ==
  LET i == resolve_negative_array_index(env, n, k)
  IN  IF IsKind(env, n, "assoc")
        THEN set_assoc_element(env, n, k, KeyOr(env[n], k) \o w)
      ELSE IF i = Below THEN Err(env, "shell")
      ELSE set_array_element(env, n, i,
             (IF IsSet(env, n) THEN KeyOr(env[n], i) ELSE Empty) \o w)

AppendScalar(env, n, w) ==
  LET t == resolve_nameref(env, n)
  IN  IF t = Circular THEN Err(env, "shell")
      ELSE set_variable(env, n, ScalarOf(env, t) \o w)

\* An assignment a, the record of what the script wrote.
apply_assignment(env, a) ==
  CASE a.form = "set"     -> set_variable(env, a.name, a.word)
    [] a.form = "append"  -> AppendScalar(env, a.name, a.word)
    [] a.form = "array"   -> AssignArray(env, a.name, a.items)
    [] a.form = "element" -> AssignElement(env, a.name, a.key, a.word)
    [] a.form = "extend"  -> AppendElement(env, a.name, a.key, a.word)

(***************************************************************************)
(* What an expansion reads.                                                *)
(***************************************************************************)
resolve_array_element(env, a, k) ==
  LET r == resolve_nameref_or_self(env, a)
  IN  IF ~IsSet(env, r) THEN Empty
      ELSE IF env[r].kind = "assoc" THEN KeyOr(env[r], k)
      ELSE IF env[r].kind = "scalar" THEN
        IF k \in {0, -1} THEN as_scalar(env[r]) ELSE Empty
      ELSE KeyOr(env[r], FromEnd(env[r], k))

get_var(env, n) ==
  LET r == resolve_nameref_or_self(env, n)
  IN  IF r \in DOMAIN Subscripted
        THEN resolve_array_element(env, Subscripted[r].arr, Subscripted[r].key)
        ELSE ScalarOf(env, r)
=============================================================================
