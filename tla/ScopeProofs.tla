----------------------------- MODULE ScopeProofs ----------------------------
(***************************************************************************)
(* What ShellScopes promises of the variables and the calls, proved for    *)
(* every script, every word, every chain of references and every depth of  *)
(* calls: the environment stays well typed, a variable that is readonly    *)
(* stays as it is, an assignment lands where the references lead, and a    *)
(* call puts back what it hid.                                             *)
(*                                                                         *)
(* The recursive functions of the model (a chain of references, the        *)
(* elements of a list, the assignments before a command's name and taking  *)
(* them back) are reasoned about by the least number at which a claim      *)
(* would fail: see Recursion.                                              *)
(***************************************************************************)
EXTENDS ShellScopes, SequenceTheorems, FiniteSetTheorems, Recursion, TLAPS

(***************************************************************************)
(* Types.  A partial function from T has a subset of T as its domain.      *)
(***************************************************************************)
Partial(T, S) == UNION {[D -> S] : D \in SUBSET T}

Fits(v) ==
  /\ v.kind = "scalar" => DOMAIN v.at = {0}
  /\ v.kind = "indexed" => \E b \in Nat : DOMAIN v.at \subseteq 0..b

Variable ==
  {v \in [kind : Kind, at : Partial(Int, Word), attrs : SUBSET Attr] : Fits(v)}
BindingOf == Variable \cup {Unset}
Env      == Partial(Word, Variable)
Bindings == Partial(Word, BindingOf)
Error    == {"ok", "shell", "limit"}
Saved    == Seq(Word \X BindingOf)

Outcome  == [err : Error, env : Env]
Shell    == [env : Env, scopes : Seq(Bindings), temps : Seq(Bindings),
             err : Error, posix : BOOLEAN, localvar_unset : BOOLEAN]

(***************************************************************************)
(* Partial functions.                                                      *)
(***************************************************************************)
LEMMA PartialIs ==
  ASSUME NEW T, NEW S, NEW f
  PROVE  f \in Partial(T, S) <=> DOMAIN f \subseteq T /\ f \in [DOMAIN f -> S]
BY DEF Partial

LEMMA PutIs ==
  \A f, k, u : /\ \A x : x \in DOMAIN Put(f, k, u) <=> x \in DOMAIN f \/ x = k
               /\ Put(f, k, u)[k] = u
               /\ \A x \in DOMAIN f : x # k => Put(f, k, u)[x] = f[x]
BY DEF Put

LEMMA PutTyped ==
  ASSUME NEW T, NEW S, NEW f \in Partial(T, S), NEW k \in T, NEW v \in S
  PROVE  Put(f, k, v) \in Partial(T, S)
<1>1. f \in [DOMAIN f -> S] /\ DOMAIN f \subseteq T
  BY PartialIs
<1>2. Put(f, k, v) \in [DOMAIN f \cup {k} -> S]
  BY <1>1 DEF Put
<1>3. QED
  BY <1>1, <1>2 DEF Partial

LEMMA DropIs ==
  \A f, k : /\ \A x : x \in DOMAIN Drop(f, k) <=> x \in DOMAIN f /\ x # k
            /\ \A x \in DOMAIN f : x # k => Drop(f, k)[x] = f[x]
BY DEF Drop

LEMMA DropTyped ==
  ASSUME NEW T, NEW S, NEW f \in Partial(T, S), NEW k
  PROVE  Drop(f, k) \in Partial(T, S)
<1>1. f \in [DOMAIN f -> S] /\ DOMAIN f \subseteq T
  BY PartialIs
<1>2. Drop(f, k) \in [DOMAIN f \ {k} -> S]
  BY <1>1 DEF Drop
<1>3. QED
  BY <1>1, <1>2 DEF Partial

(***************************************************************************)
(* Variables.                                                              *)
(***************************************************************************)
LEMMA RecordChanged ==
  ASSUME NEW r, r = [kind |-> r.kind, at |-> r.at, attrs |-> r.attrs],
         NEW x, NEW y
  PROVE  /\ [r EXCEPT !.attrs = x] = [kind |-> r.kind, at |-> r.at, attrs |-> x]
         /\ [r EXCEPT !.at = x] = [kind |-> r.kind, at |-> x, attrs |-> r.attrs]
         /\ [r EXCEPT !.at = x, !.kind = y]
              = [kind |-> y, at |-> x, attrs |-> r.attrs]
<1>1. [r EXCEPT !.attrs = x] = [kind |-> r.kind, at |-> r.at, attrs |-> x]
  OBVIOUS
<1>2. [r EXCEPT !.at = x] = [kind |-> r.kind, at |-> x, attrs |-> r.attrs]
  OBVIOUS
<1>3. [[kind |-> r.kind, at |-> x, attrs |-> r.attrs] EXCEPT !.kind = y]
        = [kind |-> y, at |-> x, attrs |-> r.attrs]
  OBVIOUS
<1>4. [r EXCEPT !.at = x, !.kind = y] = [[r EXCEPT !.at = x] EXCEPT !.kind = y]
  OBVIOUS
<1>5. QED
  BY <1>1, <1>2, <1>3, <1>4

LEMMA VariableParts ==
  ASSUME NEW v \in Variable
  PROVE  /\ v.kind \in Kind /\ v.at \in Partial(Int, Word) /\ v.attrs \in SUBSET Attr
         /\ Fits(v)
         /\ v = [kind |-> v.kind, at |-> v.at, attrs |-> v.attrs]
BY DEF Variable

LEMMA VariableMade ==
  ASSUME NEW v, v.kind \in Kind, v.at \in Partial(Int, Word),
         v.attrs \in SUBSET Attr, Fits(v),
         v = [kind |-> v.kind, at |-> v.at, attrs |-> v.attrs]
  PROVE  v \in Variable
BY DEF Variable

LEMMA UnsetIsNone ==
  \A v \in Variable : v # Unset
BY DEF Variable, Unset

LEMMA BareIs ==
  ASSUME NEW kind \in Kind
  PROVE  /\ Bare(kind).kind = kind /\ Bare(kind).at \in Partial(Int, Word)
         /\ kind = "scalar" => DOMAIN Bare(kind).at = {0}
         /\ kind # "scalar" => DOMAIN Bare(kind).at = {}
<1>1. Empty \in Word
  BY DEF Empty, Word
<1>2. [k \in {0} |-> Empty] \in Partial(Int, Word)
  BY <1>1, PartialIs
<1>3. [k \in {} |-> Empty] \in Partial(Int, Word)
  BY PartialIs
<1>4. QED
  BY <1>2, <1>3 DEF Bare, Scalar, Kind

(***************************************************************************)
(* Environments.  Only(env, e, n): e is env but for what n is bound to.    *)
(***************************************************************************)
Only(env, e, n) ==
  \A m : m # n => /\ m \in DOMAIN e <=> m \in DOMAIN env
                  /\ m \in DOMAIN env => e[m] = env[m]

LEMMA OnlyTrans ==
  ASSUME NEW a, NEW b, NEW c, NEW n, Only(a, b, n), Only(b, c, n)
  PROVE  Only(a, c, n)
BY DEF Only

LEMMA EnvIs ==
  ASSUME NEW env \in Env
  PROVE  /\ env \in [DOMAIN env -> Variable] /\ DOMAIN env \subseteq Word
         /\ \A n \in DOMAIN env : env[n] \in Variable /\ n \in Word
BY PartialIs DEF Env

LEMMA PutEnv ==
  ASSUME NEW env \in Env, NEW n \in Word, NEW v \in Variable
  PROVE  /\ Put(env, n, v) \in Env /\ Only(env, Put(env, n, v), n)
         /\ \A x : x \in DOMAIN Put(env, n, v) <=> x \in DOMAIN env \/ x = n
         /\ Put(env, n, v)[n] = v
<1>1. Put(env, n, v) \in Env
  BY PutTyped DEF Env
<1>2. /\ \A x : x \in DOMAIN Put(env, n, v) <=> x \in DOMAIN env \/ x = n
      /\ Put(env, n, v)[n] = v
      /\ \A x \in DOMAIN env : x # n => Put(env, n, v)[x] = env[x]
  BY PutIs
<1>3. Only(env, Put(env, n, v), n)
  BY <1>2 DEF Only
<1>4. QED
  BY <1>1, <1>2, <1>3

LEMMA DropEnv ==
  ASSUME NEW env \in Env, NEW n
  PROVE  /\ Drop(env, n) \in Env /\ Only(env, Drop(env, n), n)
         /\ \A x : x \in DOMAIN Drop(env, n) <=> x \in DOMAIN env /\ x # n
BY DropTyped, DropIs DEF Env, Only

\* The variable n of env replaced by v.
LEMMA ChangeEnv ==
  ASSUME NEW env \in Env, NEW n \in DOMAIN env, NEW v \in Variable, NEW e,
         e = [env EXCEPT ![n] = v]
  PROVE  /\ e \in Env /\ Only(env, e, n) /\ DOMAIN e = DOMAIN env /\ e[n] = v
<1>1. env \in [DOMAIN env -> Variable] /\ DOMAIN env \subseteq Word
  BY EnvIs
<1>2. e \in [DOMAIN env -> Variable] /\ DOMAIN e = DOMAIN env
  BY <1>1
<1>3. e \in Env
  BY <1>1, <1>2, PartialIs DEF Env
<1>4. QED
  BY <1>1, <1>2, <1>3 DEF Only

\* What n holds, as predicates: the provers are quicker when they need not see
\* the fields.
Holds(e, n, kind, at) == e[n].kind = kind /\ e[n].at = at
SameValue(env, e, n)  == e[n].kind = env[n].kind /\ e[n].at = env[n].at
SameAttrs(env, e, n)  == \A a : Has(e, n, a) <=> Has(env, n, a)

NewAt(env, n, at)    == [env EXCEPT ![n].at = at]
NewAttrs(env, n, as) == [env EXCEPT ![n].attrs = as]

LEMMA AtChanged ==
  ASSUME NEW env \in Env, NEW n \in DOMAIN env, NEW at \in Partial(Int, Word),
         Fits([kind |-> env[n].kind, at |-> at])
  PROVE  LET e == NewAt(env, n, at)
         IN  /\ e \in Env /\ Only(env, e, n) /\ DOMAIN e = DOMAIN env
             /\ Holds(e, n, env[n].kind, at) /\ SameAttrs(env, e, n)
<1> DEFINE e == NewAt(env, n, at)
           v == [kind |-> env[n].kind, at |-> at, attrs |-> env[n].attrs]
<1>1. env[n] \in Variable
  BY EnvIs
<1>2. v \in Variable
  BY <1>1 DEF Variable, Fits
<1>3. [env[n] EXCEPT !.at = at] = v
  BY <1>1 DEF Variable
<1>4. e = [env EXCEPT ![n] = v]
  BY <1>3 DEF NewAt
<1>5. /\ e \in Env /\ Only(env, e, n) /\ DOMAIN e = DOMAIN env /\ e[n] = v
  <2> HIDE DEF v, e
  <2> QED BY <1>2, <1>4, ChangeEnv
<1>6. v.kind = env[n].kind /\ v.at = at /\ v.attrs = env[n].attrs
  OBVIOUS
<1> HIDE DEF v, e
<1>7. Holds(e, n, env[n].kind, at) /\ SameAttrs(env, e, n)
  BY <1>5, <1>6 DEF Holds, SameAttrs, Has, IsSet
<1>8. QED
  BY <1>5, <1>7 DEF e

LEMMA ValChanged ==
  ASSUME NEW env \in Env, NEW n \in DOMAIN env, NEW at \in Partial(Int, Word),
         NEW kind \in Kind, Fits([kind |-> kind, at |-> at])
  PROVE  LET e == WithVal(env, n, at, kind)
         IN  /\ e \in Env /\ Only(env, e, n) /\ DOMAIN e = DOMAIN env
             /\ Holds(e, n, kind, at) /\ SameAttrs(env, e, n)
<1> DEFINE e == WithVal(env, n, at, kind)
           v == [kind |-> kind, at |-> at, attrs |-> env[n].attrs]
<1>1. env[n] \in Variable /\ env \in [DOMAIN env -> Variable]
  BY EnvIs
<1>2. v \in Variable
  BY <1>1 DEF Variable, Fits
<1>3. [env[n] EXCEPT !.at = at, !.kind = kind] = v
  <2> DEFINE u == [kind |-> env[n].kind, at |-> at, attrs |-> env[n].attrs]
  <2>1. env[n] = [kind |-> env[n].kind, at |-> env[n].at, attrs |-> env[n].attrs]
    BY <1>1, VariableParts
  <2>2. [env[n] EXCEPT !.at = at] = u
    BY <2>1, RecordChanged
  <2>3. [u EXCEPT !.kind = kind] = v
    OBVIOUS
  <2>4. [env[n] EXCEPT !.at = at, !.kind = kind]
          = [[env[n] EXCEPT !.at = at] EXCEPT !.kind = kind]
    OBVIOUS
  <2>5. QED
    <3> HIDE DEF u, v
    <3> QED BY <2>2, <2>3, <2>4
<1>4. e = [env EXCEPT ![n] = v]
  BY <1>1, <1>3 DEF WithVal
<1>5. /\ e \in Env /\ Only(env, e, n) /\ DOMAIN e = DOMAIN env /\ e[n] = v
  <2> HIDE DEF v, e
  <2> QED BY <1>2, <1>4, ChangeEnv
<1>6. v.kind = kind /\ v.at = at /\ v.attrs = env[n].attrs
  OBVIOUS
<1> HIDE DEF v, e
<1>7. Holds(e, n, kind, at) /\ SameAttrs(env, e, n)
  BY <1>5, <1>6 DEF Holds, SameAttrs, Has, IsSet
<1>8. QED
  BY <1>5, <1>7 DEF e

LEMMA AttrsChanged ==
  ASSUME NEW env \in Env, NEW n \in DOMAIN env, NEW as \in SUBSET Attr
  PROVE  LET e == NewAttrs(env, n, as)
         IN  /\ e \in Env /\ Only(env, e, n) /\ DOMAIN e = DOMAIN env
             /\ SameValue(env, e, n) /\ \A a : Has(e, n, a) <=> a \in as
<1> DEFINE e == NewAttrs(env, n, as)
           v == [kind |-> env[n].kind, at |-> env[n].at, attrs |-> as]
<1>1. env[n] \in Variable
  BY EnvIs
<1>2. v \in Variable
  BY <1>1 DEF Variable, Fits
<1>3. [env[n] EXCEPT !.attrs = as] = v
  <2>1. env[n] = [kind |-> env[n].kind, at |-> env[n].at, attrs |-> env[n].attrs]
    BY <1>1, VariableParts
  <2>2. QED
    BY <2>1, RecordChanged
<1>4. e = [env EXCEPT ![n] = v]
  BY <1>3 DEF NewAttrs
<1>5. /\ e \in Env /\ Only(env, e, n) /\ DOMAIN e = DOMAIN env /\ e[n] = v
  <2> HIDE DEF v, e
  <2> QED BY <1>2, <1>4, ChangeEnv
<1>6. v.kind = env[n].kind /\ v.at = env[n].at /\ v.attrs = as
  OBVIOUS
<1> HIDE DEF v, e
<1>7. SameValue(env, e, n) /\ \A a : Has(e, n, a) <=> a \in as
  BY <1>5, <1>6 DEF SameValue, Has, IsSet
<1>8. QED
  BY <1>5, <1>7 DEF e

LEMMA AttrsAdded ==
  ASSUME NEW env \in Env, NEW n, NEW as \in SUBSET Attr
  PROVE  LET e == WithAttrs(env, n, as)
         IN  /\ e \in Env /\ Only(env, e, n) /\ DOMAIN e = DOMAIN env
             /\ SameValue(env, e, n)
             /\ \A a : Has(e, n, a) <=> Has(env, n, a) \/ (n \in DOMAIN env /\ a \in as)
<1> DEFINE e == WithAttrs(env, n, as)
<1>1. CASE n \in DOMAIN env
  <2> DEFINE bs == env[n].attrs \cup as
  <2>1. bs \in SUBSET Attr /\ \A a : a \in bs <=> Has(env, n, a) \/ (n \in DOMAIN env /\ a \in as)
    <3>1. env[n] \in Variable
      BY <1>1, EnvIs
    <3>2. QED
      BY <1>1, <3>1 DEF Variable, Has, IsSet
  <2>2. e = NewAttrs(env, n, bs)
    BY <1>1 DEF WithAttrs, IsSet, NewAttrs
  <2> HIDE DEF bs
  <2>3. /\ e \in Env /\ Only(env, e, n) /\ DOMAIN e = DOMAIN env
        /\ SameValue(env, e, n) /\ \A a : Has(e, n, a) <=> a \in bs
    BY <1>1, <2>1, <2>2, AttrsChanged
  <2>4. QED
    BY <2>1, <2>3
<1>2. CASE n \notin DOMAIN env
  <2>1. e = env
    BY <1>2 DEF WithAttrs, IsSet
  <2>2. QED
    BY <1>2, <2>1 DEF Only, SameValue, Has, IsSet
<1>3. QED
  BY <1>1, <1>2

LEMMA AttrsTaken ==
  ASSUME NEW env \in Env, NEW n, NEW as \in SUBSET Attr
  PROVE  LET e == LessAttrs(env, n, as)
         IN  /\ e \in Env /\ Only(env, e, n) /\ DOMAIN e = DOMAIN env
             /\ SameValue(env, e, n)
             /\ \A a : Has(e, n, a) <=> Has(env, n, a) /\ a \notin as
<1> DEFINE e == LessAttrs(env, n, as)
<1>1. CASE n \in DOMAIN env
  <2> DEFINE bs == env[n].attrs \ as
  <2>1. bs \in SUBSET Attr /\ \A a : a \in bs <=> Has(env, n, a) /\ a \notin as
    <3>1. env[n] \in Variable
      BY <1>1, EnvIs
    <3>2. QED
      BY <1>1, <3>1 DEF Variable, Has, IsSet
  <2>2. e = NewAttrs(env, n, bs)
    BY <1>1 DEF LessAttrs, IsSet, NewAttrs
  <2> HIDE DEF bs
  <2>3. /\ e \in Env /\ Only(env, e, n) /\ DOMAIN e = DOMAIN env
        /\ SameValue(env, e, n) /\ \A a : Has(e, n, a) <=> a \in bs
    BY <1>1, <2>1, <2>2, AttrsChanged
  <2>4. QED
    BY <2>1, <2>3
<1>2. CASE n \notin DOMAIN env
  <2>1. e = env
    BY <1>2 DEF LessAttrs, IsSet
  <2>2. QED
    BY <1>2, <2>1 DEF Only, SameValue, Has, IsSet
<1>3. QED
  BY <1>1, <1>2

(***************************************************************************)
(* Values.                                                                 *)
(***************************************************************************)
LEMMA EmptyFunction ==
  \A f : f \in [DOMAIN f -> Word] /\ DOMAIN f = {} => f = <<>>
<1> SUFFICES ASSUME NEW f, f \in [DOMAIN f -> Word], DOMAIN f = {} PROVE f = <<>>
  OBVIOUS
<1>1. f = [x \in {} |-> f[x]]
  OBVIOUS
<1>2. <<>> = [x \in {} |-> f[x]]
  OBVIOUS
<1>3. QED
  BY <1>1, <1>2

LEMMA EmptyTyped ==
  Empty \in Word /\ <<>> \in Partial(Int, Word) /\ DOMAIN <<>> = {}
<1>1. Empty \in Word
  BY DEF Empty, Word
<1>2. <<>> \in [{} -> Word] /\ DOMAIN <<>> = {}
  OBVIOUS
<1>3. QED
  BY <1>1, <1>2, PartialIs

LEMMA KeyTyped ==
  ASSUME NEW v \in Variable, NEW k
  PROVE  KeyOr(v, k) \in Word /\ as_scalar(v) \in Word
<1>1. v.at \in [DOMAIN v.at -> Word]
  BY VariableParts, PartialIs
<1>2. QED
  BY <1>1, EmptyTyped DEF KeyOr, as_scalar

LEMMA ScalarTyped ==
  ASSUME NEW env \in Env, NEW n
  PROVE  ScalarOf(env, n) \in Word
BY EnvIs, KeyTyped, EmptyTyped DEF ScalarOf, IsSet

LEMMA KeysOfArrays ==
  ASSUME NEW v \in Variable, v.kind # "assoc"
  PROVE  /\ \E b \in Nat : DOMAIN v.at \subseteq 0..b
         /\ v.at # <<>> => DOMAIN v.at # {}
<1>1. v.at \in [DOMAIN v.at -> Word] /\ v.kind \in Kind /\ Fits(v)
  BY VariableParts, PartialIs
<1>2. \E b \in Nat : DOMAIN v.at \subseteq 0..b
  <2>1. CASE v.kind = "scalar"
    <3>1. DOMAIN v.at \subseteq 0..0
      BY <1>1, <2>1 DEF Fits
    <3>2. QED
      BY <3>1
  <2>2. QED
    BY <1>1, <2>1 DEF Fits, Kind
<1>3. QED
  BY <1>1, <1>2, EmptyFunction

\* The greatest key of an array.
LEMMA MaxKeyIs ==
  ASSUME NEW v \in Variable, v.kind # "assoc", v.at # <<>>
  PROVE  /\ MaxKey(v) \in Nat /\ MaxKey(v) \in DOMAIN v.at
         /\ \A j \in DOMAIN v.at : j <= MaxKey(v)
<1> DEFINE K == DOMAIN v.at
<1>1. K # {}
  BY KeysOfArrays
<1>2. PICK b \in Nat : K \subseteq 0..b
  BY KeysOfArrays
<1> HIDE DEF K
<1>3. \E k \in K : \A j \in K : j <= k
  BY <1>1, <1>2, GreatestNatural
<1>4. MaxKey(v) \in K /\ \A j \in K : j <= MaxKey(v)
  BY <1>3 DEF MaxKey, K
<1>5. QED
  BY <1>2, <1>4 DEF K

LEMMA LastKeyIs ==
  ASSUME NEW v \in Variable, v.kind # "assoc"
  PROVE  LastKey(v) \in Nat /\ NextKey(v) \in Nat
BY MaxKeyIs DEF LastKey, NextKey

LEMMA FromEndIs ==
  ASSUME NEW v \in Variable, v.kind # "assoc", NEW k \in Int
  PROVE  FromEnd(v, k) \in Int /\ Clamp(FromEnd(v, k)) \in Nat /\ Clamp(k) \in Nat
BY LastKeyIs DEF FromEnd, Clamp

(***************************************************************************)
(* References.                                                             *)
(***************************************************************************)
LEMMA RefersTyped ==
  ASSUME NEW env \in Env, NEW w \in Word
  PROVE  Refers(env, w) \in Word
BY EnvIs, KeyTyped DEF Refers, Has, IsSet

\* The words that following a reference n comes to.
Chain(env, n, hop) ==
  /\ hop \in [0..(MaxRefs - 1) -> Word] /\ hop[0] = n
  /\ \A i \in 1..(MaxRefs - 1) : hop[i] = Refers(env, hop[i - 1])

End(env, w) == IF Has(env, w, "nameref") THEN Circular ELSE w

LEMMA ResolveIs ==
  ASSUME NEW env \in Env, NEW n \in Word
  PROVE  \E hop : /\ Chain(env, n, hop)
                  /\ resolve_nameref(env, n) = End(env, hop[MaxRefs - 1])
<1> DEFINE K == MaxRefs - 1
           G == [p \in (1..K) \X Word |-> Refers(env, p[2])]
           P(f) == f = [k \in 0..K |-> IF k = 0 THEN n ELSE Refers(env, f[k - 1])]
           hop == CHOOSE f : P(f)
<1>1. K \in Nat
  BY VarsAssumption
<1>2. G \in [(1..K) \X Word -> Word]
  BY RefersTyped
<1>3. PICK f : Recurs(f, Word, n, G, K)
  <2> HIDE DEF G, K
  <2> QED BY <1>1, <1>2, RecursionExists
<1>4. P(f)
  <2>1. \A i \in 1..K : f[i] = Refers(env, f[i - 1])
    <3> SUFFICES ASSUME NEW i \in 1..K PROVE f[i] = Refers(env, f[i - 1])
      OBVIOUS
    <3>1. f[i - 1] \in Word /\ f[i] = G[<<i, f[i - 1]>>]
      <4> HIDE DEF G
      <4> QED BY <1>1, <1>3 DEF Recurs
    <3>2. QED
      BY <3>1
  <2>2. f \in [0..K -> Word] /\ f[0] = n
    BY <1>3 DEF Recurs
  <2>3. \A i \in 0..K : f[i] = IF i = 0 THEN n ELSE Refers(env, f[i - 1])
    BY <1>1, <2>1, <2>2
  <2> HIDE DEF K
  <2>4. QED
    BY <2>2, <2>3
<1>5. P(hop)
  <2> HIDE DEF P
  <2> QED BY <1>4
<1>6. resolve_nameref(env, n) = End(env, hop[K])
  BY DEF resolve_nameref, End
<1> HIDE DEF hop
<1>7. hop[0] = n /\ \A i \in 1..K : hop[i] = Refers(env, hop[i - 1])
  BY <1>1, <1>5
<1>8. \A i \in 0..K : hop[i] \in Word
  <2> DEFINE S == {i \in 0..K : hop[i] \in Word}
  <2>1. SUFFICES 0..K \subseteq S
    OBVIOUS
  <2>2. 0 \in S
    BY <1>1, <1>7
  <2>3. SUFFICES ASSUME NEW m \in 1..K, m \notin S, m - 1 \in S PROVE FALSE
    <3> HIDE DEF S, K
    <3> QED BY <1>1, <2>2, LeastFailure
  <2>4. hop[m] \in Word
    BY <1>7, <2>3, RefersTyped
  <2>5. QED
    BY <1>1, <2>3, <2>4
<1>9. hop \in [0..K -> Word]
  BY <1>5, <1>8
<1>10. QED
  BY <1>6, <1>7, <1>9 DEF Chain

LEMMA ResolveTyped ==
  ASSUME NEW env \in Env, NEW n \in Word
  PROVE  resolve_nameref(env, n) \in Word \cup {Circular}
<1>1. PICK hop : Chain(env, n, hop) /\ resolve_nameref(env, n) = End(env, hop[MaxRefs - 1])
  BY ResolveIs
<1>2. hop[MaxRefs - 1] \in Word
  BY <1>1, VarsAssumption DEF Chain
<1>3. QED
  BY <1>1, <1>2 DEF End

(***************************************************************************)
(* Operations on the environment: what one changes is the variable it lands*)
(* in, and a failure or a readonly variable leaves everything as it was.   *)
(***************************************************************************)
Firm(env, n) == readonly(env, n) /\ ~Has(env, n, "nameref")

Lands(env, r, n) ==
  /\ r \in Outcome /\ Only(env, r.env, n)
  /\ \A m \in DOMAIN env : m \in DOMAIN r.env
  /\ Firm(env, n) \/ r.err # "ok" => r.env = env

LEMMA Refused ==
  ASSUME NEW env \in Env, NEW n, NEW e \in Error
  PROVE  Lands(env, Err(env, e), n)
BY DEF Lands, Err, Outcome, Only

LEMMA Settles ==
  ASSUME NEW env \in Env, NEW n, NEW e \in Env, Only(env, e, n),
         ~readonly(env, n) \/ Has(env, n, "nameref"),
         n \in DOMAIN env => n \in DOMAIN e
  PROVE  Lands(env, Ok(e), n)
BY DEF Lands, Ok, Outcome, Only, Error, Firm

LEMMA PutKey ==
  ASSUME NEW v \in Variable, NEW k \in Int, NEW w \in Word,
         v.kind = "scalar" => k = 0, v.kind = "indexed" => k \in Nat
  PROVE  /\ Put(v.at, k, w) \in Partial(Int, Word)
         /\ Fits([kind |-> v.kind, at |-> Put(v.at, k, w)])
<1> DEFINE at == Put(v.at, k, w)
           u == [kind |-> v.kind, at |-> at]
<1>1. v.at \in Partial(Int, Word) /\ v.kind \in Kind
  BY VariableParts
<1>2. at \in Partial(Int, Word) /\ \A x : x \in DOMAIN at <=> x \in DOMAIN v.at \/ x = k
  BY <1>1, PutTyped, PutIs
<1>3. v.kind = "scalar" => DOMAIN at = {0}
  <2> SUFFICES ASSUME v.kind = "scalar" PROVE DOMAIN at = {0}
    OBVIOUS
  <2>1. DOMAIN v.at = {0}
    BY VariableParts DEF Fits
  <2> HIDE DEF at
  <2>2. QED
    BY <1>2, <2>1
<1>4. v.kind = "indexed" => \E b \in Nat : DOMAIN at \subseteq 0..b
  <2> SUFFICES ASSUME v.kind = "indexed" PROVE \E b \in Nat : DOMAIN at \subseteq 0..b
    OBVIOUS
  <2>1. PICK b \in Nat : DOMAIN v.at \subseteq 0..b
    BY VariableParts DEF Fits
  <2>2. k \in Nat
    OBVIOUS
  <2> HIDE DEF at
  <2>3. DOMAIN at \subseteq 0..(b + k)
    BY <1>2, <2>1, <2>2
  <2>4. QED
    BY <2>1, <2>2, <2>3
<1>5. u.kind = v.kind /\ u.at = at
  OBVIOUS
<1>6. Fits(u)
  <2> HIDE DEF at, u
  <2> QED BY <1>2, <1>3, <1>4, <1>5 DEF Fits
<1>7. QED
  BY <1>2, <1>6

LEMMA OneKey ==
  ASSUME NEW k \in Nat, NEW w \in Word
  PROVE  LET at == [j \in {k} |-> w]
         IN  /\ at \in Partial(Int, Word)
             /\ k = 0 => Fits([kind |-> "scalar", at |-> at])
             /\ Fits([kind |-> "indexed", at |-> at])
             /\ Var([kind |-> "indexed", at |-> at], {}) \in Variable
<1> DEFINE at == [j \in {k} |-> w]
<1>1. at \in Partial(Int, Word)
  BY PartialIs
<1>2. DOMAIN at = {k} /\ {k} \subseteq 0..k
  OBVIOUS
<1> HIDE DEF at
<1>3. k = 0 => Fits([kind |-> "scalar", at |-> at])
  BY <1>2 DEF Fits
<1>4. Fits([kind |-> "indexed", at |-> at])
  BY <1>2 DEF Fits
<1>5. Var([kind |-> "indexed", at |-> at], {}) \in Variable
  BY <1>1, <1>4 DEF Var, Variable, Kind, Fits
<1>6. QED
  BY <1>1, <1>3, <1>4, <1>5 DEF at

LEMMA ScalarFits ==
  ASSUME NEW w \in Word
  PROVE  /\ Scalar(w).at \in Partial(Int, Word) /\ DOMAIN Scalar(w).at = {0}
         /\ Scalar(w).at[0] = w
         /\ Fits([kind |-> "scalar", at |-> Scalar(w).at])
         /\ Var(Scalar(w), {}) \in Variable
<1> DEFINE at == [j \in {0} |-> w]
<1>1. at \in Partial(Int, Word)
  BY PartialIs
<1>2. DOMAIN at = {0} /\ at[0] = w
  OBVIOUS
<1>3. Scalar(w) = [kind |-> "scalar", at |-> at]
  BY DEF Scalar
<1> HIDE DEF at
<1>4. Scalar(w).at = at /\ Scalar(w).kind = "scalar"
  BY <1>3
<1>5. Fits([kind |-> "scalar", at |-> at])
  BY <1>2 DEF Fits
<1>6. Var(Scalar(w), {}) \in Variable
  BY <1>1, <1>2, <1>4 DEF Var, Variable, Kind, Fits
<1>7. QED
  BY <1>1, <1>2, <1>4, <1>5, <1>6

LEMMA TransformTyped ==
  ASSUME NEW env, NEW n, NEW w \in Word
  PROVE  Transform(env, n, w) \in Word /\ Transform(env, n, w) \in Shown(w)
<1>1. [i \in DOMAIN w |-> Upper[w[i]]] \in Word
  BY VarsAssumption DEF Word
<1>2. QED
  BY <1>1 DEF Transform, Shown

LEMMA SetReferencedLands ==
  ASSUME NEW env \in Env, NEW a \in Word, NEW k \in Int, NEW w \in Word
  PROVE  Lands(env, SetReferenced(env, a, k, w), a)
<1> DEFINE r == SetReferenced(env, a, k, w)
           i == Clamp(FromEnd(env[a], k))
           new == Var([kind |-> "indexed", at |-> [j \in {Clamp(k)} |-> w]], {})
<1>1. CASE readonly(env, a)
  BY <1>1, Refused DEF SetReferenced, Error
<1>2. CASE ~readonly(env, a) /\ ~IsSet(env, a)
  <2>1. Clamp(k) \in Nat
    BY DEF Clamp
  <2>2. new \in Variable
    BY <2>1, OneKey
  <2>3. r = Ok(Put(env, a, new))
    BY <1>2 DEF SetReferenced
  <2> HIDE DEF new
  <2>4. QED
    BY <1>2, <2>2, <2>3, PutEnv, Settles
<1>3. CASE ~readonly(env, a) /\ IsSet(env, a) /\ env[a].kind = "assoc"
  <2>1. env[a] \in Variable /\ a \in DOMAIN env
    BY <1>3, EnvIs DEF IsSet
  <2>2. r = Ok(NewAt(env, a, Put(env[a].at, k, w)))
    BY <1>3 DEF SetReferenced, NewAt
  <2>3. /\ Put(env[a].at, k, w) \in Partial(Int, Word)
        /\ Fits([kind |-> env[a].kind, at |-> Put(env[a].at, k, w)])
    BY <1>3, <2>1, PutKey
  <2>4. QED
    BY <1>3, <2>1, <2>2, <2>3, AtChanged, Settles
<1>4. CASE ~readonly(env, a) /\ IsSet(env, a) /\ env[a].kind = "indexed"
  <2>1. env[a] \in Variable /\ a \in DOMAIN env
    BY <1>4, EnvIs DEF IsSet
  <2>2. r = Ok(NewAt(env, a, Put(env[a].at, i, w)))
    BY <1>4 DEF SetReferenced, NewAt
  <2>3. i \in Nat
    BY <1>4, <2>1, FromEndIs
  <2> HIDE DEF i
  <2>4. /\ Put(env[a].at, i, w) \in Partial(Int, Word)
        /\ Fits([kind |-> env[a].kind, at |-> Put(env[a].at, i, w)])
    BY <1>4, <2>1, <2>3, PutKey
  <2>5. QED
    BY <1>4, <2>1, <2>2, <2>4, AtChanged, Settles
<1>5. CASE ~readonly(env, a) /\ IsSet(env, a) /\ env[a].kind = "scalar"
  <2>1. env[a] \in Variable /\ a \in DOMAIN env
    BY <1>5, EnvIs DEF IsSet
  <2>2. CASE k \in {0, -1}
    <3>1. r = Ok(NewAt(env, a, Scalar(w).at))
      BY <1>5, <2>2 DEF SetReferenced, NewAt
    <3> DEFINE at == Scalar(w).at
    <3>2. at \in Partial(Int, Word) /\ Fits([kind |-> env[a].kind, at |-> at])
      BY <1>5, ScalarFits
    <3> HIDE DEF at
    <3>3. NewAt(env, a, at) \in Env /\ Only(env, NewAt(env, a, at), a)
      BY <2>1, <3>2, AtChanged
    <3>4. a \in DOMAIN NewAt(env, a, at)
      BY <2>1, <3>2, AtChanged
    <3>5. QED
      BY <1>5, <3>1, <3>3, <3>4, Settles DEF at
  <2>3. CASE k \notin {0, -1}
    <3>1. r = Ok(env)
      BY <1>5, <2>3 DEF SetReferenced
    <3>2. QED
      <4>1. Only(env, env, a)
        BY DEF Only
      <4>2. Lands(env, Ok(env), a)
        BY <1>5, <4>1, Settles
      <4>3. QED
        BY <3>1, <4>2
  <2>4. QED
    BY <2>2, <2>3
<1>6. QED
  <2>1. IsSet(env, a) => env[a].kind \in Kind
    BY EnvIs, VariableParts DEF IsSet
  <2>2. QED
    BY <1>1, <1>2, <1>3, <1>4, <1>5, <2>1 DEF Kind

LEMMA PlainValue ==
  ASSUME NEW env \in Env, NEW t \in DOMAIN env, NEW w \in Word,
         NEW k \in Int, env[t].kind = "scalar" => k = 0,
         env[t].kind = "indexed" => k \in Nat
  PROVE  LET e == LessAttrs(NewAt(env, t, Put(env[t].at, k, w)), t,
                            {"declared_only"})
         IN  /\ e \in Env /\ Only(env, e, t) /\ DOMAIN e = DOMAIN env
             /\ Holds(e, t, env[t].kind, Put(env[t].at, k, w))
             /\ Has(e, t, "nameref") <=> Has(env, t, "nameref")
<1> DEFINE at == Put(env[t].at, k, w)
           d == NewAt(env, t, at)
           as == {"declared_only"}
           e == LessAttrs(d, t, as)
<1>1. env[t] \in Variable
  BY EnvIs
<1>2. at \in Partial(Int, Word) /\ Fits([kind |-> env[t].kind, at |-> at])
  BY <1>1, PutKey
<1>3. /\ d \in Env /\ Only(env, d, t) /\ DOMAIN d = DOMAIN env
      /\ Holds(d, t, env[t].kind, at) /\ SameAttrs(env, d, t)
  <2> HIDE DEF at
  <2> QED BY <1>2, AtChanged
<1>4. as \in SUBSET Attr /\ "nameref" \notin as
  BY DEF Attr
<1> HIDE DEF d, at, as
<1>5. /\ e \in Env /\ Only(d, e, t) /\ DOMAIN e = DOMAIN d /\ SameValue(d, e, t)
      /\ \A a : Has(e, t, a) <=> Has(d, t, a) /\ a \notin as
  BY <1>3, <1>4, AttrsTaken
<1> HIDE DEF e
<1>6. Only(env, e, t)
  BY <1>3, <1>5, OnlyTrans
<1>7. Has(e, t, "nameref") <=> Has(env, t, "nameref")
  BY <1>3, <1>4, <1>5 DEF SameAttrs
<1>8. Holds(e, t, env[t].kind, at)
  BY <1>3, <1>5 DEF Holds, SameValue
<1>9. QED
  BY <1>3, <1>5, <1>6, <1>7, <1>8 DEF e, d, at, as

LEMMA SetPlainLands ==
  ASSUME NEW env \in Env, NEW t \in Word, NEW w \in Word
  PROVE  LET r == SetPlain(env, t, w)
         IN  /\ Lands(env, r, t)
             /\ r.err = "ok" => /\ ScalarOf(r.env, t) \in Shown(w)
                                /\ Has(r.env, t, "nameref") <=> Has(env, t, "nameref")
<1> DEFINE r == SetPlain(env, t, w)
           x == Transform(env, t, w)
           e == LessAttrs(NewAt(env, t, Put(env[t].at, 0, x)), t, {"declared_only"})
           new == Var(Scalar(w), {})
<1>1. CASE readonly(env, t)
  <2>1. r = Err(env, "shell")
    BY <1>1 DEF SetPlain
  <2>2. r.err # "ok"
    BY <2>1 DEF Err
  <2>3. QED
    BY <2>1, <2>2, Refused DEF Error
<1>2. CASE ~readonly(env, t) /\ ~IsSet(env, t)
  <2>1. r = Ok(Put(env, t, new))
    BY <1>2 DEF SetPlain
  <2>2. new \in Variable /\ new.at[0] = w /\ 0 \in DOMAIN new.at /\ new.attrs = {}
    BY ScalarFits DEF Var
  <2> HIDE DEF new
  <2>3. Lands(env, r, t)
    BY <1>2, <2>1, <2>2, PutEnv, Settles
  <2>4. r.env[t] = new /\ t \in DOMAIN r.env
    BY <2>1, <2>2, PutEnv DEF Ok
  <2>5. ScalarOf(r.env, t) = w /\ ~Has(r.env, t, "nameref")
    BY <2>2, <2>4 DEF ScalarOf, IsSet, as_scalar, KeyOr, Has
  <2>6. QED
    BY <1>2, <2>3, <2>5 DEF Shown, Has
<1>3. CASE ~readonly(env, t) /\ IsSet(env, t)
  <2>1. r = Ok(e)
    BY <1>3 DEF SetPlain, NewAt
  <2>2. x \in Word /\ x \in Shown(w)
    BY TransformTyped
  <2> HIDE DEF x
  <2>3. /\ e \in Env /\ Only(env, e, t) /\ t \in DOMAIN e
        /\ Holds(e, t, env[t].kind, Put(env[t].at, 0, x))
        /\ Has(e, t, "nameref") <=> Has(env, t, "nameref")
    BY <1>3, <2>2, PlainValue DEF IsSet
  <2> HIDE DEF e
  <2>4. Lands(env, r, t)
    BY <1>3, <2>1, <2>3, Settles
  <2>5. e[t].at[0] = x /\ 0 \in DOMAIN e[t].at
    BY <2>3, PutIs DEF Holds
  <2>6. ScalarOf(e, t) = x
    BY <2>3, <2>5 DEF ScalarOf, IsSet, as_scalar, KeyOr
  <2>7. r.env = e
    BY <2>1 DEF Ok
  <2>8. QED
    BY <2>2, <2>3, <2>4, <2>6, <2>7
<1>4. QED
  BY <1>1, <1>2, <1>3

\* A new value of its own kind, declared no longer.
LEMMA ValuePlaced ==
  ASSUME NEW env \in Env, NEW n \in DOMAIN env, NEW at \in Partial(Int, Word),
         NEW kind \in Kind, Fits([kind |-> kind, at |-> at])
  PROVE  LET e == LessAttrs(WithVal(env, n, at, kind), n, {"declared_only"})
         IN  /\ e \in Env /\ Only(env, e, n) /\ DOMAIN e = DOMAIN env
             /\ Holds(e, n, kind, at)
<1> DEFINE d == WithVal(env, n, at, kind)
           as == {"declared_only"}
           e == LessAttrs(d, n, as)
<1>1. d \in Env /\ Only(env, d, n) /\ DOMAIN d = DOMAIN env /\ Holds(d, n, kind, at)
  BY ValChanged
<1>2. as \in SUBSET Attr
  BY DEF Attr
<1> HIDE DEF d, as
<1>3. /\ e \in Env /\ Only(d, e, n) /\ DOMAIN e = DOMAIN d /\ SameValue(d, e, n)
  BY <1>1, <1>2, AttrsTaken
<1> HIDE DEF e
<1>4. Only(env, e, n) /\ Holds(e, n, kind, at)
  BY <1>1, <1>3, OnlyTrans DEF Holds, SameValue
<1>5. QED
  BY <1>1, <1>3, <1>4 DEF e, d, as

(***************************************************************************)
(* set_variable.  What n's assignments land in, as Base of ShellScopes.    *)
(***************************************************************************)
BaseOf(env, n) ==
  LET t == resolve_nameref(env, n)
  IN  IF t = Empty /\ Has(env, n, "nameref") THEN n
      ELSE IF t \in DOMAIN Subscripted THEN Subscripted[t].arr ELSE t

LEMMA SetTargetLands ==
  ASSUME NEW env \in Env, NEW n \in Word, NEW w \in Word, NEW t,
         t = resolve_nameref(env, n)
  PROVE  Lands(env, SetTarget(env, n, t, w), BaseOf(env, n))
<1> DEFINE r == SetTarget(env, n, t, w)
           b == BaseOf(env, n)
<1>1. CASE t = Circular
  BY <1>1, Refused DEF SetTarget, Error
<1>2. CASE t # Circular /\ t = Empty /\ Has(env, n, "nameref")
  <2> DEFINE e == LessAttrs(WithVal(env, n, Scalar(w).at, "scalar"), n,
                            {"declared_only"})
  <2>1. r = Ok(e) /\ b = n
    BY <1>2 DEF SetTarget, BaseOf
  <2>2. n \in DOMAIN env /\ "scalar" \in Kind
    BY <1>2 DEF Has, IsSet, Kind
  <2>3. e \in Env /\ Only(env, e, n) /\ DOMAIN e = DOMAIN env
    <3> DEFINE at == Scalar(w).at
    <3>1. at \in Partial(Int, Word) /\ Fits([kind |-> "scalar", at |-> at])
      BY ScalarFits
    <3> HIDE DEF at
    <3>2. QED
      BY <2>2, <3>1, ValuePlaced DEF at
  <2> HIDE DEF e
  <2>4. Lands(env, Ok(e), n)
    BY <1>2, <2>2, <2>3, Settles
  <2>5. QED
    BY <2>1, <2>4
<1>3. CASE t # Circular /\ ~(t = Empty /\ Has(env, n, "nameref"))
           /\ t \in DOMAIN Subscripted
  BY <1>3, SetReferencedLands, VarsAssumption DEF SetTarget, BaseOf
<1>4. CASE t # Circular /\ ~(t = Empty /\ Has(env, n, "nameref"))
           /\ t \notin DOMAIN Subscripted
  <2>1. t \in Word
    BY <1>4, ResolveTyped
  <2>2. r = SetPlain(env, t, w) /\ b = t
    BY <1>4 DEF SetTarget, BaseOf
  <2>3. QED
    BY <2>1, <2>2, SetPlainLands
<1>5. QED
  BY <1>1, <1>2, <1>3, <1>4

LEMMA SetVariableLands ==
  ASSUME NEW env \in Env, NEW n \in Word, NEW w \in Word
  PROVE  Lands(env, set_variable(env, n, w), BaseOf(env, n))
BY SetTargetLands, Refused DEF set_variable, Error

LEMMA SetElementLands ==
  ASSUME NEW env \in Env, NEW t \in Word \cup {Circular}, NEW w \in Word,
         NEW kind \in {"indexed", "assoc"}, NEW k \in Int,
         kind = "indexed" => k \in Nat
  PROVE  Lands(env, SetElement(env, t, k, w, kind), t)
<1> DEFINE r == SetElement(env, t, k, w, kind)
           x == Transform(env, t, w)
           one == [j \in {k} |-> x]
           new == Var([kind |-> "indexed", at |-> [j \in {k} |-> w]], {})
           e == LessAttrs(WithVal(env, t, one, "indexed"), t, {"declared_only"})
           f == LessAttrs(NewAt(env, t, Put(env[t].at, k, x)), t, {"declared_only"})
<1>1. CASE t = Circular \/ readonly(env, t)
  BY <1>1, Refused DEF SetElement, Error
<1>2. CASE ~(t = Circular \/ readonly(env, t)) /\ ~IsSet(env, t)
  <2>1. CASE kind = "assoc"
    BY <1>2, <2>1, Refused DEF SetElement, Error
  <2>2. CASE kind = "indexed"
    <3>1. r = Ok(Put(env, t, new))
      BY <1>2, <2>2 DEF SetElement
    <3>2. new \in Variable
      BY <2>2, OneKey
    <3> HIDE DEF new
    <3>3. QED
      BY <1>2, <3>1, <3>2, PutEnv, Settles
  <2>3. QED
    BY <2>1, <2>2
<1>3. CASE ~(t = Circular \/ readonly(env, t)) /\ IsSet(env, t)
  <2>1. env[t] \in Variable /\ t \in DOMAIN env /\ x \in Word
    BY <1>3, EnvIs, TransformTyped DEF IsSet
  <2> HIDE DEF x
  <2>2. CASE env[t].kind = "scalar" /\ kind = "indexed"
    <3>1. r = Ok(e)
      BY <1>3, <2>2 DEF SetElement, x
    <3>2. one \in Partial(Int, Word) /\ Fits([kind |-> "indexed", at |-> one])
      BY <2>1, <2>2, OneKey
    <3>3. "indexed" \in Kind
      BY DEF Kind
    <3> HIDE DEF one
    <3>4. e \in Env /\ Only(env, e, t) /\ DOMAIN e = DOMAIN env
      BY <2>1, <3>2, <3>3, ValuePlaced
    <3> HIDE DEF e
    <3>5. QED
      BY <1>3, <2>1, <3>1, <3>4, Settles
  <2>3. CASE ~(env[t].kind = "scalar" /\ kind = "indexed") /\ env[t].kind # kind
    <3>1. r = Err(env, "shell")
      BY <1>3, <2>3 DEF SetElement
    <3>2. QED
      BY <3>1, Refused DEF Error
  <2>4. CASE env[t].kind = kind
    <3>1. r = Err(env, "limit") \/ r = Ok(f)
      BY <1>3, <2>4 DEF SetElement, NewAt, x
    <3>2. f \in Env /\ Only(env, f, t) /\ DOMAIN f = DOMAIN env
      BY <2>1, <2>4, PlainValue
    <3> HIDE DEF f
    <3>3. Lands(env, Ok(f), t)
      BY <1>3, <2>1, <3>2, Settles
    <3>4. Lands(env, Err(env, "limit"), t)
      BY Refused DEF Error
    <3>5. QED
      BY <3>1, <3>3, <3>4
  <2>5. QED
    BY <2>2, <2>3, <2>4
<1>4. QED
  BY <1>1, <1>2, <1>3

(***************************************************************************)
(* Keeps(env, e): what is readonly in env, and no reference, has the same  *)
(* elements in e.  Leaves(env, e, n): so has all of it but n, and n keeps  *)
(* its attribute.  Spares: the same, but n may become a reference.         *)
(***************************************************************************)
Unmoved(env, e, n) ==
  n \in DOMAIN e /\ Firm(e, n) /\ \A k : KeyOr(e[n], k) = KeyOr(env[n], k)

Keeps(env, e) == \A n \in DOMAIN env : Firm(env, n) => Unmoved(env, e, n)

Others(env, e, n) ==
  \A m \in DOMAIN env : m # n /\ Firm(env, m) => Unmoved(env, e, m)

Leaves(env, e, n) == Others(env, e, n) /\ (Firm(env, n) => Firm(e, n))
Spares(env, e, n) == Others(env, e, n) /\ (Firm(env, n) => readonly(e, n))

LEMMA KeepsTrans ==
  ASSUME NEW a, NEW b, NEW c, Keeps(a, b), Keeps(b, c)
  PROVE  Keeps(a, c)
<1> SUFFICES ASSUME NEW n \in DOMAIN a, Firm(a, n) PROVE Unmoved(a, c, n)
  BY DEF Keeps
<1>1. Unmoved(a, b, n)
  BY DEF Keeps
<1>2. Unmoved(b, c, n)
  BY <1>1 DEF Keeps, Unmoved
<1>3. QED
  BY <1>1, <1>2 DEF Unmoved

LEMMA KeepsSelf ==
  ASSUME NEW env
  PROVE  Keeps(env, env)
BY DEF Keeps, Unmoved

LEMMA OnlyOthers ==
  ASSUME NEW env, NEW e, NEW n, Only(env, e, n)
  PROVE  Others(env, e, n)
<1> SUFFICES ASSUME NEW m \in DOMAIN env, m # n, Firm(env, m)
             PROVE  Unmoved(env, e, m)
  BY DEF Others
<1>1. m \in DOMAIN e /\ e[m] = env[m]
  BY DEF Only
<1>2. QED
  BY <1>1 DEF Unmoved, Firm, readonly, Has, IsSet

LEMMA OthersTrans ==
  ASSUME NEW a, NEW b, NEW c, NEW n, Others(a, b, n), Others(b, c, n)
  PROVE  Others(a, c, n)
<1> SUFFICES ASSUME NEW m \in DOMAIN a, m # n, Firm(a, m)
             PROVE  Unmoved(a, c, m)
  BY DEF Others
<1>1. Unmoved(a, b, m)
  BY DEF Others
<1>2. Unmoved(b, c, m)
  BY <1>1 DEF Others, Unmoved
<1>3. QED
  BY <1>1, <1>2 DEF Unmoved

LEMMA KeepsOthers ==
  ASSUME NEW env, NEW e, NEW n, Keeps(env, e)
  PROVE  Others(env, e, n)
BY DEF Keeps, Others

LEMMA OnlyKeeps ==
  ASSUME NEW env, NEW e, NEW n, Only(env, e, n), ~Firm(env, n) \/ e = env
  PROVE  Keeps(env, e)
BY OnlyOthers, KeepsSelf DEF Keeps, Others

LEMMA FirmIsSet ==
  ASSUME NEW env, NEW n, Firm(env, n)
  PROVE  n \in DOMAIN env
BY DEF Firm, readonly, Has, IsSet

LEMMA KeepsLeaves ==
  ASSUME NEW env, NEW e, NEW n, Keeps(env, e)
  PROVE  Leaves(env, e, n)
BY FirmIsSet DEF Keeps, Leaves, Others, Unmoved

LEMMA LeavesTrans ==
  ASSUME NEW a, NEW b, NEW c, NEW n, Leaves(a, b, n), Leaves(b, c, n)
  PROVE  Leaves(a, c, n)
BY OthersTrans DEF Leaves

LEMMA LeavesSpares ==
  ASSUME NEW env, NEW e, NEW n, Leaves(env, e, n)
  PROVE  Spares(env, e, n)
BY DEF Leaves, Spares, Firm

LEMMA LeavesThenSpares ==
  ASSUME NEW a, NEW b, NEW c, NEW n, Leaves(a, b, n), Spares(b, c, n)
  PROVE  Spares(a, c, n)
BY OthersTrans DEF Leaves, Spares

\* A change to n that leaves its attributes.
LEMMA ChangeLeaves ==
  ASSUME NEW env, NEW e, NEW n, Only(env, e, n), SameAttrs(env, e, n)
  PROVE  Leaves(env, e, n)
BY OnlyOthers DEF Leaves, SameAttrs, Firm, readonly

LEMMA LandsKeeps ==
  ASSUME NEW env, NEW r, NEW n, Lands(env, r, n)
  PROVE  r \in Outcome /\ r.env \in Env /\ Keeps(env, r.env)
BY OnlyKeeps DEF Lands, Outcome

LEMMA BoundIndex ==
  ASSUME NEW env \in Env, NEW n, NEW k \in Int, ~IsKind(env, n, "assoc"),
         resolve_negative_array_index(env, n, k) # Below
  PROVE  resolve_negative_array_index(env, n, k) \in Nat
<1> DEFINE i == resolve_negative_array_index(env, n, k)
<1>1. CASE k >= 0
  BY <1>1 DEF resolve_negative_array_index
<1>2. CASE k < 0
  <2>1. IsSet(env, n) /\ i = FromEnd(env[n], k) /\ ~(FromEnd(env[n], k) < 0)
    BY <1>2 DEF resolve_negative_array_index
  <2>2. env[n] \in Variable /\ env[n].kind # "assoc"
    BY <2>1, EnvIs DEF IsSet, IsKind
  <2>3. FromEnd(env[n], k) \in Int
    BY <2>2, FromEndIs
  <2>4. QED
    BY <2>1, <2>3
<1>3. QED
  BY <1>1, <1>2

LEMMA ElementKeeps ==
  ASSUME NEW env \in Env, NEW n \in Word, NEW w \in Word, NEW k \in Int,
         NEW kind \in {"indexed", "assoc"}, kind = "indexed" => k \in Nat
  PROVE  LET r == SetElement(env, resolve_nameref(env, n), k, w, kind)
         IN  r \in Outcome /\ Keeps(env, r.env)
BY ResolveTyped, SetElementLands, LandsKeeps

LEMMA AssignElementKeeps ==
  ASSUME NEW env \in Env, NEW n \in Word, NEW w \in Word, NEW k \in Int
  PROVE  LET r == AssignElement(env, n, k, w)
         IN  r \in Outcome /\ Keeps(env, r.env)
<1> DEFINE r == AssignElement(env, n, k, w)
           i == resolve_negative_array_index(env, n, k)
<1>1. CASE IsKind(env, n, "assoc")
  BY <1>1, ElementKeeps DEF AssignElement, set_assoc_element
<1>2. CASE ~IsKind(env, n, "assoc") /\ i = Below
  <2>1. r = Err(env, "shell")
    BY <1>2 DEF AssignElement
  <2>2. QED
    BY <2>1, Refused, LandsKeeps DEF Error
<1>3. CASE ~IsKind(env, n, "assoc") /\ i # Below
  <2>1. i \in Nat
    BY <1>3, BoundIndex
  <2>2. r = SetElement(env, resolve_nameref(env, n), i, w, "indexed")
    BY <1>3 DEF AssignElement, set_array_element
  <2> HIDE DEF i, r
  <2>3. QED
    BY <2>1, <2>2, ElementKeeps DEF r
<1>4. QED
  BY <1>1, <1>2, <1>3

LEMMA Joined ==
  ASSUME NEW v \in Word, NEW w \in Word
  PROVE  v \o w \in Word
BY DEF Word

LEMMA AppendElementKeeps ==
  ASSUME NEW env \in Env, NEW n \in Word, NEW w \in Word, NEW k \in Int
  PROVE  LET r == AppendElement(env, n, k, w)
         IN  r \in Outcome /\ Keeps(env, r.env)
<1> DEFINE r == AppendElement(env, n, k, w)
           i == resolve_negative_array_index(env, n, k)
           old(j) == IF IsSet(env, n) THEN KeyOr(env[n], j) ELSE Empty
<1>0. \A j : old(j) \o w \in Word
  BY EnvIs, KeyTyped, EmptyTyped, Joined DEF IsSet
<1>1. CASE IsKind(env, n, "assoc")
  <2>1. r = SetElement(env, resolve_nameref(env, n), k, old(k) \o w, "assoc")
    BY <1>1 DEF AppendElement, set_assoc_element, IsKind
  <2> HIDE DEF r, old
  <2>2. QED
    BY <1>0, <2>1, ElementKeeps DEF r
<1>2. CASE ~IsKind(env, n, "assoc") /\ i = Below
  <2>1. r = Err(env, "shell")
    BY <1>2 DEF AppendElement
  <2>2. QED
    BY <2>1, Refused, LandsKeeps DEF Error
<1>3. CASE ~IsKind(env, n, "assoc") /\ i # Below
  <2>1. i \in Nat
    BY <1>3, BoundIndex
  <2>2. r = SetElement(env, resolve_nameref(env, n), i, old(i) \o w, "indexed")
    BY <1>3 DEF AppendElement, set_array_element
  <2> HIDE DEF i, r, old
  <2>3. QED
    BY <1>0, <2>1, <2>2, ElementKeeps DEF r
<1>4. QED
  BY <1>1, <1>2, <1>3

LEMMA SetVariableKeeps ==
  ASSUME NEW env \in Env, NEW n \in Word, NEW w \in Word
  PROVE  LET r == set_variable(env, n, w)
         IN  r \in Outcome /\ r.env \in Env /\ Keeps(env, r.env)
BY SetVariableLands, LandsKeeps

LEMMA AppendScalarKeeps ==
  ASSUME NEW env \in Env, NEW n \in Word, NEW w \in Word
  PROVE  LET r == AppendScalar(env, n, w)
         IN  r \in Outcome /\ Keeps(env, r.env)
<1> DEFINE r == AppendScalar(env, n, w)
           t == resolve_nameref(env, n)
<1>1. CASE t = Circular
  <2>1. r = Err(env, "shell")
    BY <1>1 DEF AppendScalar
  <2>2. QED
    BY <2>1, Refused, LandsKeeps DEF Error
<1>2. CASE t # Circular
  <2>1. r = set_variable(env, n, ScalarOf(env, t) \o w)
    BY <1>2 DEF AppendScalar
  <2>2. ScalarOf(env, t) \o w \in Word
    BY ScalarTyped, Joined
  <2> HIDE DEF t, r
  <2>3. QED
    BY <2>1, <2>2, SetVariableKeeps DEF r
<1>3. QED
  BY <1>1, <1>2

\* The list replaces value and kind; what it is refused for comes too late to
\* save the elements of an associative array.
LEMMA AssignArrayKeeps ==
  ASSUME NEW env \in Env, NEW n \in Word, NEW items \in Seq(Word)
  PROVE  LET r == AssignArray(env, n, items)
         IN  /\ r \in Outcome /\ Leaves(env, r.env, n)
             /\ ~IsKind(env, n, "assoc") => Keeps(env, r.env)
<1> DEFINE r == AssignArray(env, n, items)
           e == IF IsKind(env, n, "assoc") THEN NewAt(env, n, <<>>) ELSE env
           at == [k \in 0..(Len(items) - 1) |-> items[k + 1]]
           kind == IF IsKind(env, n, "assoc") THEN "assoc" ELSE "indexed"
           attrs == (IF IsSet(env, n) THEN env[n].attrs ELSE {}) \ {"nameref"}
           new == Var([kind |-> kind, at |-> at], attrs)
<1>1. e \in Env /\ Leaves(env, e, n)
  <2>1. CASE IsKind(env, n, "assoc")
    <3> DEFINE none == <<>>
    <3>1. none \in Partial(Int, Word)
      BY EmptyTyped
    <3>2. n \in DOMAIN env /\ env[n].kind = "assoc"
      BY <2>1 DEF IsKind, IsSet
    <3> HIDE DEF none
    <3>3. Fits([kind |-> env[n].kind, at |-> none])
      BY <3>2 DEF Fits
    <3>4. /\ NewAt(env, n, none) \in Env
          /\ Leaves(env, NewAt(env, n, none), n)
      BY <3>1, <3>2, <3>3, AtChanged, ChangeLeaves
    <3>5. QED
      BY <2>1, <3>4 DEF none
  <2>2. CASE ~IsKind(env, n, "assoc")
    BY <2>2, KeepsSelf, KeepsLeaves
  <2>3. QED
    BY <2>1, <2>2
<1>2. at \in Partial(Int, Word) /\ DOMAIN at \subseteq 0..Len(items)
  <2>1. Len(items) \in Nat /\ \A k \in 0..(Len(items) - 1) : items[k + 1] \in Word
    OBVIOUS
  <2>2. at \in [0..(Len(items) - 1) -> Word]
    BY <2>1
  <2>3. 0..(Len(items) - 1) \subseteq Int
    BY <2>1
  <2>4. QED
    BY <2>1, <2>2, <2>3, PartialIs
<1>3. attrs \in SUBSET Attr /\ kind \in {"assoc", "indexed"}
  <2>1. IsSet(env, n) => env[n].attrs \in SUBSET Attr
    BY EnvIs, VariableParts DEF IsSet
  <2>2. QED
    BY <2>1
<1>4. new \in Variable
  <2> HIDE DEF at, kind, attrs
  <2>1. Len(items) \in Nat
    OBVIOUS
  <2>2. QED
    BY <1>2, <1>3, <2>1 DEF Var, Variable, Fits, Kind
<1>5. r = Err(e, "shell") \/ r = Err(e, "limit") \/ r = Ok(Put(env, n, new))
  BY DEF AssignArray, NewAt
<1>6. readonly(env, n) => r = Err(e, "shell")
  BY DEF AssignArray, NewAt
<1> HIDE DEF r, new
<1>7. Put(env, n, new) \in Env /\ Only(env, Put(env, n, new), n)
  BY <1>4, PutEnv
<1>8. r \in Outcome
  <2> HIDE DEF e
  <2> QED BY <1>1, <1>5, <1>7 DEF Outcome, Err, Ok, Error
<1>9. ASSUME ~IsKind(env, n, "assoc")
      PROVE  Keeps(env, r.env)
  <2>1. e = env
    BY <1>9
  <2> HIDE DEF e
  <2>2. CASE r = Ok(Put(env, n, new))
    <3>1. r.env = Put(env, n, new)
      BY <2>2 DEF Ok
    <3>2. ~readonly(env, n)
      BY <1>6, <2>2 DEF Ok, Err
    <3>3. QED
      BY <1>7, <3>1, <3>2, OnlyKeeps DEF Firm
  <2>3. CASE r = Err(e, "shell") \/ r = Err(e, "limit")
    <3>1. r.env = env
      BY <2>1, <2>3 DEF Err
    <3>2. QED
      BY <3>1, KeepsSelf
  <2>4. QED
    BY <1>5, <2>2, <2>3
<1>10. Leaves(env, r.env, n)
  <2> HIDE DEF e
  <2>1. CASE r = Ok(Put(env, n, new))
    <3>1. r.env = Put(env, n, new)
      BY <2>1 DEF Ok
    <3>2. ~readonly(env, n)
      BY <1>6, <2>1 DEF Ok, Err
    <3>3. Keeps(env, r.env)
      BY <1>7, <3>1, <3>2, OnlyKeeps DEF Firm
    <3>4. QED
      BY <3>3, KeepsLeaves
  <2>2. CASE r = Err(e, "shell") \/ r = Err(e, "limit")
    BY <1>1, <2>2 DEF Err
  <2>3. QED
    BY <1>5, <2>1, <2>2
<1>11. QED
  BY <1>8, <1>9, <1>10 DEF r

LEMMA AssignmentKeeps ==
  ASSUME NEW env \in Env, NEW a, IsAssignment(a)
  PROVE  LET r == apply_assignment(env, a)
         IN  /\ r \in Outcome
             /\ \/ a.form = "array" /\ IsKind(env, a.name, "assoc")
                \/ Keeps(env, r.env)
             /\ Leaves(env, r.env, a.name)
<1> DEFINE r == apply_assignment(env, a)
<1>1. a.name \in Word
  BY DEF IsAssignment
<1>2. CASE a.form = "set"
  <2>1. a.word \in Word /\ r = set_variable(env, a.name, a.word)
    BY <1>2 DEF IsAssignment, apply_assignment
  <2> HIDE DEF r
  <2>2. QED
    BY <1>1, <2>1, SetVariableKeeps, KeepsLeaves DEF r
<1>3. CASE a.form = "append"
  <2>1. a.word \in Word /\ r = AppendScalar(env, a.name, a.word)
    BY <1>3 DEF IsAssignment, apply_assignment
  <2> HIDE DEF r
  <2>2. QED
    BY <1>1, <2>1, AppendScalarKeeps, KeepsLeaves DEF r
<1>4. CASE a.form = "array"
  <2>1. a.items \in Seq(Word) /\ r = AssignArray(env, a.name, a.items)
    BY <1>4 DEF IsAssignment, apply_assignment
  <2> HIDE DEF r
  <2>2. QED
    BY <1>1, <1>4, <2>1, AssignArrayKeeps DEF r
<1>5. CASE a.form = "element"
  <2>1. /\ a.word \in Word /\ a.key \in Int
        /\ r = AssignElement(env, a.name, a.key, a.word)
    BY <1>5 DEF IsAssignment, apply_assignment
  <2> HIDE DEF r
  <2>2. QED
    BY <1>1, <2>1, AssignElementKeeps, KeepsLeaves DEF r
<1>6. CASE a.form = "extend"
  <2>1. /\ a.word \in Word /\ a.key \in Int
        /\ r = AppendElement(env, a.name, a.key, a.word)
    BY <1>6 DEF IsAssignment, apply_assignment
  <2> HIDE DEF r
  <2>2. QED
    BY <1>1, <2>1, AppendElementKeeps, KeepsLeaves DEF r
<1>7. QED
  <2>1. a.form \in {"set", "append", "array", "element", "extend"}
    BY DEF IsAssignment
  <2> HIDE DEF r
  <2>2. QED
    BY <1>2, <1>3, <1>4, <1>5, <1>6, <2>1 DEF r

(***************************************************************************)
(* A list of elements.                                                     *)
(***************************************************************************)
LEMMA OutcomeParts ==
  /\ \A r \in Outcome : r.err \in Error /\ r.env \in Env
  /\ \A env \in Env : /\ Ok(env) \in Outcome /\ Ok(env).env = env
                      /\ Ok(env).err = "ok"
  /\ \A env \in Env, e \in Error : /\ Err(env, e) \in Outcome
                                   /\ Err(env, e).env = env /\ Err(env, e).err = e
BY DEF Outcome, Ok, Err, Error

LEMMA StepKeeps ==
  ASSUME NEW r \in Outcome, NEW n \in Word, NEW k \in Nat, NEW w \in Word,
         NEW kind \in {"indexed", "assoc"}
  PROVE  LET t == SetStep(r, n, k, w, kind)
         IN  t \in Outcome /\ Keeps(r.env, t.env)
BY OutcomeParts, ElementKeeps, KeepsSelf DEF SetStep

LEMMA SetElementsIs ==
  ASSUME NEW env \in Env, NEW n \in Word, NEW items \in Seq(Word), NEW k \in Nat,
         NEW kind \in {"indexed", "assoc"}
  PROVE  \E upto : /\ upto[0] = Ok(env)
                   /\ \A i \in 1..Len(items) :
                        upto[i] = SetStep(upto[i - 1], n, k + i - 1, items[i], kind)
                   /\ SetElements(env, n, items, k, kind) = upto[Len(items)]
<1> DEFINE K == Len(items)
           Step(r, i) == SetStep(r, n, k + i - 1, items[i], kind)
           G == [p \in (1..K) \X Outcome |-> Step(p[2], p[1])]
           P(f) == f = [i \in 0..K |-> IF i = 0 THEN Ok(env) ELSE Step(f[i - 1], i)]
           upto == CHOOSE f : P(f)
<1>1. K \in Nat /\ Ok(env) \in Outcome
  BY OutcomeParts
<1>2. \A i \in 1..K, r \in Outcome : Step(r, i) \in Outcome
  <2> SUFFICES ASSUME NEW i \in 1..K, NEW r \in Outcome PROVE Step(r, i) \in Outcome
    OBVIOUS
  <2>1. items[i] \in Word /\ k + i - 1 \in Nat
    OBVIOUS
  <2>2. QED
    BY <2>1, StepKeeps
<1> HIDE DEF K, Step
<1>3. G \in [(1..K) \X Outcome -> Outcome]
  BY <1>2
<1>4. PICK f : Recurs(f, Outcome, Ok(env), G, K)
  <2> HIDE DEF G
  <2> QED BY <1>1, <1>3, RecursionExists
<1>5. P(f)
  <2>1. \A i \in 1..K : f[i] = Step(f[i - 1], i)
    <3> SUFFICES ASSUME NEW i \in 1..K PROVE f[i] = Step(f[i - 1], i)
      OBVIOUS
    <3>1. f[i - 1] \in Outcome /\ f[i] = G[<<i, f[i - 1]>>]
      <4> HIDE DEF G
      <4> QED BY <1>1, <1>4 DEF Recurs
    <3>2. QED
      BY <3>1
  <2>2. f \in [0..K -> Outcome] /\ f[0] = Ok(env)
    BY <1>4 DEF Recurs
  <2>3. \A i \in 0..K : f[i] = IF i = 0 THEN Ok(env) ELSE Step(f[i - 1], i)
    BY <1>1, <2>1, <2>2
  <2>4. QED
    BY <2>2, <2>3
<1>6. P(upto)
  <2> HIDE DEF P
  <2> QED BY <1>5
<1>7. SetElements(env, n, items, k, kind) = upto[K]
  BY DEF SetElements, K, Step
<1> HIDE DEF upto
<1>8. upto[0] = Ok(env) /\ \A i \in 1..K : upto[i] = Step(upto[i - 1], i)
  BY <1>1, <1>6
<1>9. QED
  BY <1>7, <1>8 DEF K, Step

LEMMA SetElementsKeeps ==
  ASSUME NEW env \in Env, NEW n \in Word, NEW items \in Seq(Word), NEW k \in Nat,
         NEW kind \in {"indexed", "assoc"}
  PROVE  LET r == SetElements(env, n, items, k, kind)
         IN  r \in Outcome /\ Keeps(env, r.env)
<1> DEFINE K == Len(items)
<1>1. PICK upto :
        /\ upto[0] = Ok(env)
        /\ \A i \in 1..K : upto[i] = SetStep(upto[i - 1], n, k + i - 1, items[i], kind)
        /\ SetElements(env, n, items, k, kind) = upto[K]
  BY SetElementsIs
<1> DEFINE S == {i \in 0..K : upto[i] \in Outcome /\ Keeps(env, upto[i].env)}
<1>2. SUFFICES 0..K \subseteq S
  BY <1>1
<1>3. K \in Nat /\ 0 \in S
  <2>1. upto[0] \in Outcome /\ upto[0].env = env
    BY <1>1, OutcomeParts
  <2>2. QED
    BY <2>1, KeepsSelf
<1>4. SUFFICES ASSUME NEW m \in 1..K, m \notin S, m - 1 \in S PROVE FALSE
  <2> HIDE DEF S, K
  <2> QED BY <1>3, LeastFailure
<1>5. items[m] \in Word /\ k + m - 1 \in Nat
  OBVIOUS
<1>6. upto[m] \in Outcome /\ Keeps(upto[m - 1].env, upto[m].env)
  <2> DEFINE r == upto[m - 1]
             j == k + m - 1
             w == items[m]
  <2>1. upto[m] = SetStep(r, n, j, w, kind)
    BY <1>1
  <2>2. r \in Outcome /\ j \in Nat /\ w \in Word
    BY <1>4, <1>5
  <2> HIDE DEF r, j, w
  <2>3. upto[m] \in Outcome /\ Keeps(r.env, upto[m].env)
    BY <2>1, <2>2, StepKeeps
  <2>4. QED
    BY <2>3 DEF r
<1>7. QED
  BY <1>4, <1>6, KeepsTrans

(***************************************************************************)
(* Declarations.                                                           *)
(***************************************************************************)
LEMMA WithAttrsKeeps ==
  ASSUME NEW env \in Env, NEW n, NEW as \in SUBSET Attr
  PROVE  LET e == WithAttrs(env, n, as)
         IN  /\ e \in Env /\ DOMAIN e = DOMAIN env /\ SameValue(env, e, n)
             /\ "nameref" \notin as => Keeps(env, e)
             /\ Spares(env, e, n)
<1> DEFINE e == WithAttrs(env, n, as)
<1>1. /\ e \in Env /\ Only(env, e, n) /\ DOMAIN e = DOMAIN env
      /\ SameValue(env, e, n)
      /\ \A a : Has(e, n, a) <=> Has(env, n, a) \/ (n \in DOMAIN env /\ a \in as)
  BY AttrsAdded
<1> HIDE DEF e
<1>2. ASSUME "nameref" \notin as PROVE Keeps(env, e)
  <2> SUFFICES ASSUME NEW m \in DOMAIN env, Firm(env, m)
               PROVE  Unmoved(env, e, m)
    BY DEF Keeps
  <2>1. CASE m = n
    <3>1. Firm(e, m)
      BY <1>1, <1>2, <2>1 DEF Firm, readonly
    <3>2. \A k : KeyOr(e[m], k) = KeyOr(env[m], k)
      BY <1>1, <2>1 DEF SameValue, KeyOr
    <3>3. QED
      BY <1>1, <3>1, <3>2 DEF Unmoved
  <2>2. CASE m # n
    BY <1>1, <2>2, OnlyOthers DEF Others
  <2>3. QED
    BY <2>1, <2>2
<1>3. Spares(env, e, n)
  BY <1>1, OnlyOthers DEF Spares, Firm, readonly
<1>4. QED
  BY <1>1, <1>2, <1>3 DEF e

LEMMA MarkedKeeps ==
  ASSUME NEW r \in Outcome, NEW n, NEW as \in SUBSET Attr
  PROVE  LET t == Marked(r, n, as)
         IN  /\ t \in Outcome
             /\ "nameref" \notin as => Keeps(r.env, t.env)
             /\ Spares(r.env, t.env, n)
<1> DEFINE e == WithAttrs(r.env, n, as)
<1>1. r.env \in Env
  BY OutcomeParts
<1>2. /\ e \in Env /\ Spares(r.env, e, n)
      /\ "nameref" \notin as => Keeps(r.env, e)
  BY <1>1, WithAttrsKeeps
<1>3. Marked(r, n, as) = IF r.err = "ok" THEN Ok(e) ELSE r
  BY DEF Marked
<1> HIDE DEF e
<1>4. Ok(e) \in Outcome /\ Ok(e).env = e
  BY <1>2, OutcomeParts
<1>5. QED
  BY <1>2, <1>3, <1>4, KeepsSelf, KeepsLeaves, LeavesSpares

LEMMA BareTyped ==
  ASSUME NEW kind \in Kind, NEW as \in SUBSET Attr
  PROVE  /\ Var(Bare(kind), as) \in Variable
         /\ Bare(kind).at \in Partial(Int, Word)
         /\ Fits([kind |-> kind, at |-> Bare(kind).at])
         /\ KeyOr([kind |-> kind, at |-> Bare(kind).at], 0) = Empty
<1> DEFINE at == Bare(kind).at
<1>1. Bare(kind).kind = kind /\ at \in Partial(Int, Word)
  BY BareIs
<1>2. (kind = "scalar" => DOMAIN at = {0}) /\ (kind # "scalar" => DOMAIN at = {})
  BY BareIs
<1>3. KeyOr([kind |-> kind, at |-> at], 0) = Empty
  <2>1. CASE kind = "scalar"
    <3>1. Bare(kind) = Scalar(Empty)
      BY <2>1 DEF Bare
    <3>2. at[0] = Empty
      BY <3>1, ScalarFits, EmptyTyped
    <3>3. QED
      BY <3>2 DEF KeyOr
  <2>2. CASE kind # "scalar"
    BY <1>2, <2>2 DEF KeyOr
  <2>3. QED
    BY <2>1, <2>2
<1> HIDE DEF at
<1>4. Fits([kind |-> kind, at |-> at])
  <2>1. {} \subseteq 0..0
    OBVIOUS
  <2>2. QED
    BY <1>2, <2>1 DEF Fits
<1>5. Var(Bare(kind), as) = [kind |-> kind, at |-> at, attrs |-> as]
  BY <1>1 DEF Var, at
<1>6. [kind |-> kind, at |-> at, attrs |-> as] \in Variable
  BY <1>1, <1>4 DEF Variable, Fits
<1>7. QED
  BY <1>1, <1>3, <1>4, <1>5, <1>6 DEF at

LEMMA NoAttrs == {} \in SUBSET Attr
OBVIOUS

LEMMA NewKeeps ==
  ASSUME NEW env \in Env, NEW n \in Word, ~IsSet(env, n), NEW v \in Variable
  PROVE  LET e == Put(env, n, v)
         IN  e \in Env /\ n \in DOMAIN e /\ Keeps(env, e) /\ e[n] = v
<1>1. /\ Put(env, n, v) \in Env /\ Only(env, Put(env, n, v), n)
      /\ n \in DOMAIN Put(env, n, v) /\ Put(env, n, v)[n] = v
  BY PutEnv
<1>2. ~Firm(env, n)
  BY DEF Firm, readonly, Has
<1>3. QED
  BY <1>1, <1>2, OnlyKeeps

LEMMA FreshKeeps ==
  ASSUME NEW env \in Env, NEW n \in Word, NEW kind \in Kind
  PROVE  LET e == Fresh(env, n, kind)
         IN  e \in Env /\ n \in DOMAIN e /\ Keeps(env, e)
<1>1. CASE IsSet(env, n)
  BY <1>1, KeepsSelf DEF Fresh, IsSet
<1>2. CASE ~IsSet(env, n)
  <2> DEFINE v == Var(Bare(kind), {})
  <2>1. v \in Variable
    BY BareTyped, NoAttrs
  <2>2. Fresh(env, n, kind) = Put(env, n, v)
    BY <1>2 DEF Fresh
  <2> HIDE DEF v
  <2>3. QED
    BY <1>2, <2>1, <2>2, NewKeeps
<1>3. QED
  BY <1>1, <1>2

LEMMA BareVal ==
  ASSUME NEW env \in Env, NEW n \in DOMAIN env, NEW kind \in Kind
  PROVE  LET e == WithVal(env, n, Bare(kind).at, kind)
         IN  e \in Env /\ Leaves(env, e, n) /\ DOMAIN e = DOMAIN env
<1> DEFINE at == Bare(kind).at
<1>1. at \in Partial(Int, Word) /\ Fits([kind |-> kind, at |-> at])
  BY BareTyped, NoAttrs
<1> HIDE DEF at
<1>2. QED
  BY <1>1, ValChanged, ChangeLeaves DEF at

LEMMA AsKindTyped ==
  ASSUME NEW env \in Env, NEW n \in DOMAIN env, NEW kind \in Kind
  PROVE  LET e == AsKind(env, n, kind)
         IN  e \in Env /\ DOMAIN e = DOMAIN env /\ Leaves(env, e, n)
BY BareVal, KeepsSelf, KeepsLeaves DEF AsKind

LEMMA EmptiedTyped ==
  ASSUME NEW env \in Env, NEW n, NEW kind \in Kind
  PROVE  LET e == Emptied(env, n, kind)
         IN  e \in Env /\ Leaves(env, e, n)
BY BareVal, KeepsSelf, KeepsLeaves DEF Emptied, IsSet

LEMMA ListTyped ==
  ASSUME NEW env \in Env, NEW n \in Word, NEW items \in Seq(Word),
         NEW kind \in {"indexed", "assoc"}
  PROVE  LET r == parse_and_set_array(env, n, items, kind)
         IN  r \in Outcome /\ Leaves(env, r.env, n)
<1> DEFINE e == Emptied(env, n, kind)
           r == SetElements(e, n, items, 0, kind)
<1>1. e \in Env /\ Leaves(env, e, n)
  BY EmptiedTyped DEF Kind
<1>2. parse_and_set_array(env, n, items, kind) = r
  BY DEF parse_and_set_array
<1> HIDE DEF e
<1>3. r \in Outcome /\ Keeps(e, r.env)
  BY <1>1, SetElementsKeeps
<1> HIDE DEF r
<1>4. Leaves(env, r.env, n)
  BY <1>1, <1>3, KeepsLeaves, LeavesTrans
<1>5. QED
  BY <1>2, <1>3, <1>4

LEMMA DeclarationIs ==
  ASSUME NEW d, IsDeclaration(d)
  PROVE  /\ d.name \in Word /\ d.items \in Seq(Word) /\ d.attrs \in SUBSET Attr
         /\ "nameref" \notin d.attrs /\ d.list \in BOOLEAN
         /\ d.shape \in Kind \cup {"nameref"}
         /\ d.form \in {"none", "set", "append"}
         /\ d.form # "none" /\ (~d.list \/ d.shape = "nameref") => Word1(d) \in Word
<1>1. /\ d.name \in Word /\ d.items \in Seq(Word) /\ d.attrs \in SUBSET Flags
      /\ d.list \in BOOLEAN /\ d.shape \in Kind \cup {"nameref"}
      /\ d.form \in {"none", "set", "append"}
      /\ d.form # "none" /\ (~d.list \/ d.shape = "nameref") => d.items # <<>>
  BY DEF IsDeclaration
<1>2. d.items # <<>> => d.items[1] \in Word
  BY <1>1
<1>3. d.attrs \in SUBSET Attr /\ "nameref" \notin d.attrs
  BY <1>1 DEF Flags, Attr
<1>4. QED
  BY <1>1, <1>2, <1>3 DEF Word1

\* Late, Early and all of what a declaration marks are attributes.
LEMMA MarksTyped ==
  ASSUME NEW as \in SUBSET Attr
  PROVE  /\ Late(as) \in SUBSET Attr /\ Early(as) \in SUBSET Attr
         /\ "nameref" \notin as => "nameref" \notin Late(as) /\ "nameref" \notin Early(as)
         /\ as \cup {"nameref"} \in SUBSET Attr /\ as \cup {"declared_only"} \in SUBSET Attr
BY DEF Late, Early, Attr

LEMMA DeclareRefTyped ==
  ASSUME NEW env \in Env, NEW n \in Word, NEW d, IsDeclaration(d), Word1(d) \in Word
  PROVE  LET r == DeclareRef(env, n, d)
         IN  r \in Outcome /\ Spares(env, r.env, n)
<1> DEFINE w == Word1(d)
           f == Fresh(env, n, "scalar")
           at == Scalar(w).at
           g == WithVal(f, n, at, "scalar")
           as == d.attrs \cup {"nameref"}
           e == WithAttrs(g, n, as)
<1>1. "scalar" \in Kind /\ as \in SUBSET Attr
  BY DeclarationIs, MarksTyped DEF Kind
<1>2. f \in Env /\ n \in DOMAIN f /\ Keeps(env, f)
  BY <1>1, FreshKeeps
<1>3. at \in Partial(Int, Word) /\ Fits([kind |-> "scalar", at |-> at])
  BY ScalarFits
<1> HIDE DEF f, at
<1>4. g \in Env /\ Leaves(f, g, n)
  BY <1>1, <1>2, <1>3, ValChanged, ChangeLeaves
<1> HIDE DEF g, as
<1>5. e \in Env /\ Spares(g, e, n)
  BY <1>1, <1>4, WithAttrsKeeps
<1>6. DeclareRef(env, n, d) = Err(env, "shell") \/ DeclareRef(env, n, d) = Ok(e)
  BY DEF DeclareRef, e, g, f, at, as
<1> HIDE DEF e
<1>7. Spares(env, e, n)
  BY <1>2, <1>4, <1>5, KeepsLeaves, LeavesTrans, LeavesThenSpares
<1>8. Spares(env, env, n)
  BY KeepsSelf, KeepsLeaves, LeavesSpares
<1>9. QED
  BY <1>5, <1>6, <1>7, <1>8, OutcomeParts DEF Error

LEMMA DeclareArrayTyped ==
  ASSUME NEW env \in Env, NEW n \in Word, NEW d, IsDeclaration(d),
         NEW kind \in {"indexed", "assoc"}, ~d.list => Word1(d) \in Word
  PROVE  LET r == DeclareArray(env, n, d, kind)
         IN  r \in Outcome /\ Leaves(env, r.env, n)
<1> DEFINE f == Fresh(env, n, kind)
           as == Early(d.attrs)
           g == WithAttrs(f, n, as)
           e == AsKind(g, n, kind)
           r == DeclareArray(env, n, d, kind)
<1>1. /\ kind \in Kind /\ as \in SUBSET Attr /\ d.items \in Seq(Word)
      /\ "nameref" \notin as
  BY DeclarationIs, MarksTyped DEF Kind
<1>2. f \in Env /\ n \in DOMAIN f /\ Keeps(env, f)
  BY <1>1, FreshKeeps
<1> HIDE DEF f, as
<1>3. g \in Env /\ n \in DOMAIN g /\ Keeps(f, g)
  BY <1>1, <1>2, WithAttrsKeeps
<1> HIDE DEF g
<1>4. e \in Env /\ Leaves(g, e, n)
  BY <1>1, <1>3, AsKindTyped
<1> HIDE DEF e
<1>5. Leaves(env, e, n)
  BY <1>2, <1>3, <1>4, KeepsTrans, KeepsLeaves, LeavesTrans
<1>6. r \in Outcome /\ Leaves(e, r.env, n)
  <2>1. CASE d.list
    <3>1. r = parse_and_set_array(e, n, d.items, kind)
      BY <2>1 DEF DeclareArray, e, g, f, as
    <3> HIDE DEF r
    <3>2. QED
      BY <1>1, <1>4, <3>1, ListTyped
  <2>2. CASE ~d.list /\ kind = "indexed" /\ Word1(d) # Empty
    <3>1. r = SetElement(e, resolve_nameref(e, n), 0, Word1(d), "indexed")
      BY <2>2 DEF DeclareArray, set_array_element, e, g, f, as
    <3> HIDE DEF r
    <3>2. r \in Outcome /\ Keeps(e, r.env)
      BY <1>4, <2>2, <3>1, ElementKeeps
    <3>3. QED
      BY <3>2, KeepsLeaves
  <2>3. CASE ~d.list /\ ~(kind = "indexed" /\ Word1(d) # Empty)
    <3>1. r = Ok(e)
      BY <2>3 DEF DeclareArray, e, g, f, as
    <3> HIDE DEF r
    <3>2. r \in Outcome /\ r.env = e
      BY <1>4, <3>1, OutcomeParts
    <3>3. QED
      BY <3>2, KeepsSelf, KeepsLeaves
  <2>4. QED
    BY <2>1, <2>2, <2>3
<1> HIDE DEF r
<1>7. Leaves(env, r.env, n)
  BY <1>5, <1>6, LeavesTrans
<1>8. QED
  BY <1>6, <1>7 DEF r

LEMMA DeclareScalarKeeps ==
  ASSUME NEW env \in Env, NEW n \in Word, NEW d, IsDeclaration(d), Word1(d) \in Word
  PROVE  LET r == DeclareScalar(env, n, d)
         IN  r \in Outcome /\ Keeps(env, r.env)
<1> DEFINE f == Fresh(env, n, "scalar")
           as == Early(d.attrs)
           g == WithAttrs(f, n, as)
           w == Word1(d)
           r == set_variable(g, n, w)
<1>1. "scalar" \in Kind /\ as \in SUBSET Attr /\ "nameref" \notin as
  BY DeclarationIs, MarksTyped DEF Kind
<1>2. f \in Env /\ Keeps(env, f)
  BY <1>1, FreshKeeps
<1>3. r = DeclareScalar(env, n, d)
  BY DEF DeclareScalar
<1> HIDE DEF f, as
<1>4. g \in Env /\ Keeps(f, g)
  BY <1>1, <1>2, WithAttrsKeeps
<1> HIDE DEF g, w
<1>5. r \in Outcome /\ Keeps(g, r.env)
  BY <1>4, SetVariableKeeps DEF w
<1> HIDE DEF r
<1>6. Keeps(env, r.env)
  BY <1>2, <1>4, <1>5, KeepsTrans
<1>7. QED
  BY <1>3, <1>5, <1>6

LEMMA DeclareSetKeeps ==
  ASSUME NEW env \in Env, NEW n \in Word, NEW d, IsDeclaration(d), d.form = "set"
  PROVE  LET r == declare_with_value(env, n, d)
         IN  /\ r \in Outcome
             /\ d.shape = "scalar" /\ ~d.list => Keeps(env, r.env)
             /\ Spares(env, r.env, n)
<1> DEFINE r == declare_with_value(env, n, d)
           kind == IF d.shape = "assoc" THEN "assoc" ELSE "indexed"
           t == IF d.shape = "scalar" /\ ~d.list THEN DeclareScalar(env, n, d)
                ELSE DeclareArray(env, n, d, kind)
           as == Late(d.attrs)
<1>1. /\ as \in SUBSET Attr /\ "nameref" \notin as
      /\ ~d.list \/ d.shape = "nameref" => Word1(d) \in Word
  BY DeclarationIs, MarksTyped
<1>2. CASE Converts(env, n, d.shape)
  <2>1. r = Err(env, "shell")
    BY <1>2 DEF declare_with_value
  <2>2. QED
    BY <2>1, OutcomeParts, KeepsSelf, KeepsLeaves, LeavesSpares DEF Error
<1>3. CASE ~Converts(env, n, d.shape) /\ d.shape = "nameref"
  <2>1. r = DeclareRef(env, n, d)
    BY <1>3 DEF declare_with_value
  <2>2. QED
    BY <1>1, <1>3, <2>1, DeclareRefTyped
<1>4. CASE ~Converts(env, n, d.shape) /\ d.shape # "nameref"
  <2>1. r = Marked(t, n, as)
    BY <1>4 DEF declare_with_value
  <2>2. /\ t \in Outcome /\ Leaves(env, t.env, n)
        /\ d.shape = "scalar" /\ ~d.list => Keeps(env, t.env)
    <3>1. CASE d.shape = "scalar" /\ ~d.list
      <4>1. t = DeclareScalar(env, n, d)
        BY <3>1
      <4> HIDE DEF t
      <4>2. QED
        BY <1>1, <3>1, <4>1, DeclareScalarKeeps, KeepsLeaves
    <3>2. CASE ~(d.shape = "scalar" /\ ~d.list)
      <4>1. t = DeclareArray(env, n, d, kind) /\ kind \in {"indexed", "assoc"}
        BY <3>2
      <4> HIDE DEF t, kind
      <4>2. t \in Outcome /\ Leaves(env, t.env, n)
        BY <1>1, <4>1, DeclareArrayTyped
      <4>3. QED
        BY <3>2, <4>2
    <3>3. QED
      BY <3>1, <3>2
  <2> HIDE DEF t, as, r
  <2>3. r \in Outcome /\ Keeps(t.env, r.env)
    BY <1>1, <2>1, <2>2, MarkedKeeps
  <2>4. Spares(env, r.env, n)
    BY <2>2, <2>3, KeepsLeaves, LeavesTrans, LeavesSpares
  <2>5. QED
    BY <2>2, <2>3, <2>4, KeepsTrans DEF r
<1>5. QED
  BY <1>2, <1>3, <1>4

LEMMA DeclareBareKeeps ==
  ASSUME NEW env \in Env, NEW n \in Word, NEW d, IsDeclaration(d)
  PROVE  LET r == declare_without_value(env, n, d)
         IN  /\ r \in Outcome /\ Spares(env, r.env, n)
             /\ d.shape = "scalar" => Keeps(env, r.env)
<1> DEFINE r == declare_without_value(env, n, d)
           as == d.attrs \cup (IF d.shape = "nameref" THEN {"nameref"} ELSE {})
           kind == IF d.shape \in Kind THEN d.shape ELSE "scalar"
           new == Var(Bare(kind), as \cup {"declared_only"})
           e == WithAttrs(env, n, as)
           f == AsKind(e, n, kind)
<1>1. /\ as \in SUBSET Attr /\ as \cup {"declared_only"} \in SUBSET Attr
      /\ kind \in Kind
      /\ d.shape = "scalar" => "nameref" \notin as /\ kind = "scalar"
      /\ kind # "scalar" => "nameref" \notin as
  <2>1. /\ d.attrs \in SUBSET Attr /\ "nameref" \notin d.attrs
    BY DeclarationIs
  <2>2. as \in SUBSET Attr /\ (d.shape # "nameref" => "nameref" \notin as)
    BY <2>1 DEF Attr
  <2>3. /\ kind \in Kind /\ (d.shape = "scalar" => kind = "scalar")
        /\ kind # "scalar" => d.shape # "nameref"
    BY DEF Kind
  <2> HIDE DEF as
  <2>4. as \cup {"declared_only"} \in SUBSET Attr
    BY <2>2, MarksTyped
  <2>5. QED
    BY <2>2, <2>3, <2>4
<1>2. CASE ~IsSet(env, n)
  <2>1. r = Ok(Put(env, n, new))
    BY <1>2 DEF declare_without_value
  <2>2. new \in Variable
    <3> HIDE DEF as, kind
    <3> QED BY <1>1, BareTyped
  <2> HIDE DEF new, r
  <2>3. Put(env, n, new) \in Env /\ Keeps(env, Put(env, n, new))
    BY <1>2, <2>2, NewKeeps
  <2>4. QED
    BY <2>1, <2>3, OutcomeParts, KeepsLeaves, LeavesSpares DEF r
<1>3. CASE IsSet(env, n)
  <2>1. \/ r = Err(env, "shell")
        \/ kind = "scalar" /\ r = Ok(e)
        \/ kind # "scalar" /\ r = Ok(f)
    BY <1>3 DEF declare_without_value
  <2> HIDE DEF as, kind
  <2>2. /\ e \in Env /\ n \in DOMAIN e /\ Spares(env, e, n)
        /\ "nameref" \notin as => Keeps(env, e)
    BY <1>1, <1>3, WithAttrsKeeps DEF IsSet
  <2> HIDE DEF e
  <2>3. f \in Env /\ Leaves(e, f, n)
    BY <1>1, <2>2, AsKindTyped
  <2> HIDE DEF f, r
  <2>4. /\ r \in Outcome /\ Spares(env, r.env, n)
        /\ d.shape = "scalar" => Keeps(env, r.env)
    <3>1. Err(env, "shell") \in Outcome /\ Err(env, "shell").env = env
      BY OutcomeParts DEF Error
    <3>2. /\ Ok(e) \in Outcome /\ Ok(e).env = e
          /\ Ok(f) \in Outcome /\ Ok(f).env = f
      BY <2>2, <2>3, OutcomeParts
    <3>3. CASE r = Err(env, "shell")
      BY <3>1, <3>3, KeepsSelf, KeepsLeaves, LeavesSpares
    <3>4. CASE r = Ok(e)
      BY <1>1, <2>2, <3>2, <3>4
    <3>5. CASE kind # "scalar" /\ r = Ok(f)
      <4>1. Leaves(env, f, n)
        BY <1>1, <2>2, <2>3, <3>5, KeepsLeaves, LeavesTrans
      <4>2. QED
        BY <1>1, <3>2, <3>5, <4>1, LeavesSpares
    <3>6. QED
      BY <2>1, <3>3, <3>4, <3>5
  <2>5. QED
    BY <2>4 DEF r
<1>4. QED
  BY <1>2, <1>3

LEMMA SwapKeeps ==
  ASSUME NEW env \in Env, NEW n \in DOMAIN env, NEW at \in Partial(Int, Word),
         NEW kind \in Kind, Fits([kind |-> kind, at |-> at]),
         \A k : (IF k \in DOMAIN at THEN at[k] ELSE Empty) = KeyOr(env[n], k)
  PROVE  LET e == WithVal(env, n, at, kind)
         IN  e \in Env /\ DOMAIN e = DOMAIN env /\ Keeps(env, e)
<1> DEFINE e == WithVal(env, n, at, kind)
<1>1. /\ e \in Env /\ Only(env, e, n) /\ DOMAIN e = DOMAIN env
      /\ Holds(e, n, kind, at) /\ SameAttrs(env, e, n)
  BY ValChanged
<1> HIDE DEF e
<1>2. \A k : KeyOr(e[n], k) = KeyOr(env[n], k)
  BY <1>1 DEF Holds, KeyOr
<1>3. Keeps(env, e)
  <2> SUFFICES ASSUME NEW m \in DOMAIN env, Firm(env, m)
               PROVE  Unmoved(env, e, m)
    BY DEF Keeps
  <2>1. CASE m = n
    <3>1. Firm(e, m)
      BY <1>1, <2>1 DEF SameAttrs, Firm, readonly
    <3>2. QED
      BY <1>1, <1>2, <2>1, <3>1 DEF Unmoved
  <2>2. CASE m # n
    BY <1>1, <2>2, OnlyOthers DEF Others
  <2>3. QED
    BY <2>1, <2>2
<1>4. QED
  BY <1>1, <1>3 DEF e

LEMMA AppendListKeeps ==
  ASSUME NEW env \in Env, NEW n \in Word, NEW d, IsDeclaration(d)
  PROVE  LET r == AppendList(env, n, d)
         IN  r \in Outcome /\ Keeps(env, r.env)
<1> DEFINE r == AppendList(env, n, d)
           kind == IF d.shape = "assoc" \/ IsKind(env, n, "assoc") THEN "assoc"
                   ELSE "indexed"
           start == IF ~IsSet(env, n) \/ kind = "assoc" THEN 0
                    ELSE IF env[n].kind = "indexed" THEN NextKey(env[n])
                    ELSE IF as_scalar(env[n]) = Empty THEN 0 ELSE 1
           new == Var(Bare(kind), Early(d.attrs))
           made == IF IsSet(env, n) THEN env ELSE Put(env, n, new)
           at == IF as_scalar(made[n]) = Empty THEN Bare(kind).at ELSE made[n].at
           array == IF made[n].kind # "scalar" THEN made
                    ELSE WithVal(made, n, at, kind)
           t == SetElements(array, n, d.items, start, kind)
           as == IF kind = "assoc" THEN Late(d.attrs) ELSE d.attrs
<1>1. r = Marked(t, n, as)
  BY DEF AppendList
<1>2. /\ kind \in {"indexed", "assoc"} /\ kind \in Kind
  BY DEF Kind
<1>3. /\ d.items \in Seq(Word) /\ Early(d.attrs) \in SUBSET Attr
      /\ as \in SUBSET Attr /\ "nameref" \notin as
  <2> HIDE DEF kind
  <2> QED BY DeclarationIs, MarksTyped
<1>4. start \in Nat
  <2>1. CASE IsSet(env, n) /\ kind # "assoc" /\ env[n].kind = "indexed"
    <3>1. start = NextKey(env[n])
      BY <2>1
    <3>2. env[n] \in Variable
      BY <2>1, EnvIs DEF IsSet
    <3>3. NextKey(env[n]) \in Nat
      BY <2>1, <3>2, LastKeyIs
    <3>4. QED
      BY <3>1, <3>3
  <2>2. CASE ~(IsSet(env, n) /\ kind # "assoc" /\ env[n].kind = "indexed")
    <3> HIDE DEF kind
    <3>1. start \in {0, 1}
      BY <2>2
    <3>2. QED
      BY <3>1
  <2>3. QED
    BY <2>1, <2>2
<1> HIDE DEF kind, start, as
<1>5. made \in Env /\ n \in DOMAIN made /\ Keeps(env, made)
  <2>1. CASE IsSet(env, n)
    BY <2>1, KeepsSelf DEF IsSet
  <2>2. CASE ~IsSet(env, n)
    <3>1. new \in Variable
      BY <1>2, <1>3, BareTyped
    <3> HIDE DEF new
    <3>2. made = Put(env, n, new)
      BY <2>2
    <3>3. Put(env, n, new) \in Env /\ n \in DOMAIN Put(env, n, new)
          /\ Keeps(env, Put(env, n, new))
      BY <2>2, <3>1, NewKeeps
    <3>4. QED
      BY <3>2, <3>3
  <2>3. QED
    BY <2>1, <2>2
<1> HIDE DEF made
<1>6. array \in Env /\ Keeps(made, array)
  <2>1. CASE made[n].kind # "scalar"
    BY <1>5, <2>1, KeepsSelf
  <2>2. CASE made[n].kind = "scalar"
    <3>1. made[n] \in Variable
      BY <1>5, EnvIs
    <3>2. DOMAIN made[n].at = {0} /\ made[n].at \in Partial(Int, Word)
      BY <2>2, <3>1, VariableParts DEF Fits
    <3>3. /\ at \in Partial(Int, Word) /\ Fits([kind |-> kind, at |-> at])
          /\ \A k : (IF k \in DOMAIN at THEN at[k] ELSE Empty) = KeyOr(made[n], k)
      <4>1. CASE as_scalar(made[n]) = Empty
        <5> DEFINE b == Bare(kind).at
        <5>1. at = b
          BY <4>1
        <5>2. b \in Partial(Int, Word) /\ Fits([kind |-> kind, at |-> b])
          BY <1>2, BareTyped, NoAttrs
        <5>3. DOMAIN b = {}
          BY <1>2, BareIs
        <5> HIDE DEF b, at
        <5>4. \A k : KeyOr(made[n], k) = Empty
          BY <3>2, <4>1 DEF as_scalar, KeyOr
        <5>5. QED
          BY <5>1, <5>2, <5>3, <5>4
      <4>2. CASE as_scalar(made[n]) # Empty
        <5>1. at = made[n].at
          BY <4>2
        <5> HIDE DEF at
        <5>2. {0} \subseteq 0..0
          OBVIOUS
        <5>3. Fits([kind |-> kind, at |-> at])
          BY <1>2, <3>2, <5>1, <5>2 DEF Fits
        <5>4. QED
          BY <3>2, <5>1, <5>3 DEF KeyOr
      <4>3. QED
        BY <4>1, <4>2
    <3> HIDE DEF at
    <3>4. array = WithVal(made, n, at, kind)
      BY <2>2
    <3>5. QED
      BY <1>2, <1>5, <3>3, <3>4, SwapKeeps
  <2>3. QED
    BY <2>1, <2>2
<1> HIDE DEF array
<1>7. t \in Outcome /\ Keeps(array, t.env)
  BY <1>2, <1>3, <1>4, <1>6, SetElementsKeeps
<1> HIDE DEF t, r
<1>8. r \in Outcome /\ Keeps(t.env, r.env)
  BY <1>1, <1>3, <1>7, MarkedKeeps
<1>9. Keeps(env, r.env)
  BY <1>5, <1>6, <1>7, <1>8, KeepsTrans
<1>10. QED
  BY <1>8, <1>9 DEF r

LEMMA DeclareAppendKeeps ==
  ASSUME NEW env \in Env, NEW n \in Word, NEW d, IsDeclaration(d), d.form = "append"
  PROVE  LET r == declare_append_value(env, n, d)
         IN  r \in Outcome /\ Keeps(env, r.env)
<1> DEFINE r == declare_append_value(env, n, d)
           w == ScalarOf(env, n) \o Word1(d)
           t == IF IsKind(env, n, "indexed") THEN set_array_element(env, n, 0, w)
                ELSE set_variable(env, n, w)
<1>1. r = Err(env, "shell") \/ (d.list /\ r = AppendList(env, n, d))
        \/ (~d.list /\ r = Marked(t, n, d.attrs))
  BY DEF declare_append_value
<1>2. CASE r = Err(env, "shell")
  BY <1>2, OutcomeParts, KeepsSelf DEF Error
<1>3. CASE d.list /\ r = AppendList(env, n, d)
  BY <1>3, AppendListKeeps
<1>4. CASE ~d.list /\ r = Marked(t, n, d.attrs)
  <2>1. w \in Word /\ d.attrs \in SUBSET Attr /\ "nameref" \notin d.attrs
    BY <1>4, DeclarationIs, ScalarTyped, Joined
  <2> HIDE DEF w
  <2>2. t \in Outcome /\ Keeps(env, t.env)
    <3>1. CASE IsKind(env, n, "indexed")
      <4>1. t = SetElement(env, resolve_nameref(env, n), 0, w, "indexed")
        BY <3>1 DEF set_array_element
      <4> HIDE DEF t
      <4>2. QED
        BY <2>1, <4>1, ElementKeeps
    <3>2. CASE ~IsKind(env, n, "indexed")
      <4>1. t = set_variable(env, n, w)
        BY <3>2
      <4> HIDE DEF t
      <4>2. QED
        BY <2>1, <4>1, SetVariableKeeps
    <3>3. QED
      BY <3>1, <3>2
  <2> HIDE DEF t, r
  <2>3. r \in Outcome /\ Keeps(t.env, r.env)
    BY <1>4, <2>1, <2>2, MarkedKeeps
  <2>4. QED
    BY <2>2, <2>3, KeepsTrans DEF r
<1>5. QED
  BY <1>1, <1>2, <1>3, <1>4

LEMMA DeclaredKeeps ==
  ASSUME NEW env \in Env, NEW d, IsDeclaration(d)
  PROVE  LET r == Declared(env, d)
         IN  /\ r \in Outcome
             /\ d.form = "append" \/ (d.shape = "scalar" /\ ~d.list)
                  => Keeps(env, r.env)
             /\ Spares(env, r.env, d.name)
<1> DEFINE r == Declared(env, d)
<1>1. d.name \in Word /\ d.form \in {"none", "set", "append"}
  BY DeclarationIs
<1>2. CASE d.form = "set"
  <2>1. r = declare_with_value(env, d.name, d)
    BY <1>2 DEF Declared
  <2> HIDE DEF r
  <2>2. QED
    BY <1>1, <1>2, <2>1, DeclareSetKeeps DEF r
<1>3. CASE d.form = "append"
  <2>1. r = declare_append_value(env, d.name, d)
    BY <1>3 DEF Declared
  <2> HIDE DEF r
  <2>2. QED
    BY <1>1, <1>3, <2>1, DeclareAppendKeeps, KeepsLeaves,
       LeavesSpares DEF r
<1>4. CASE d.form = "none"
  <2>1. r = declare_without_value(env, d.name, d)
    BY <1>4 DEF Declared
  <2> HIDE DEF r
  <2>2. QED
    BY <1>1, <1>4, <2>1, DeclareBareKeeps DEF r
<1>5. QED
  BY <1>1, <1>2, <1>3, <1>4


(***************************************************************************)
(* The shell's bindings.                                                   *)
(***************************************************************************)
LEMMA ShellParts ==
  ASSUME NEW t \in Shell
  PROVE  /\ t.env \in Env /\ t.scopes \in Seq(Bindings) /\ t.temps \in Seq(Bindings)
         /\ t.err \in Error /\ t.posix \in BOOLEAN /\ t.localvar_unset \in BOOLEAN
BY DEF Shell

LEMMA WithIs ==
  ASSUME NEW t \in Shell, NEW r \in Outcome
  PROVE  LET u == With(t, r)
         IN  /\ u \in Shell /\ u.env = r.env /\ u.err = r.err
             /\ u.scopes = t.scopes /\ u.temps = t.temps
             /\ u.posix = t.posix /\ u.localvar_unset = t.localvar_unset
<1>1. r.env \in Env /\ r.err \in Error
  BY OutcomeParts
<1>2. QED
  BY <1>1 DEF With, Shell

LEMMA ScopesIs ==
  ASSUME NEW t \in Shell, NEW sc \in Seq(Bindings)
  PROVE  LET u == [t EXCEPT !.scopes = sc]
         IN  /\ u \in Shell /\ u.env = t.env /\ u.err = t.err
             /\ u.scopes = sc /\ u.temps = t.temps
             /\ u.posix = t.posix /\ u.localvar_unset = t.localvar_unset
BY DEF Shell

LEMMA UnsetTyped == Unset \in BindingOf
BY DEF BindingOf

LEMMA BindingTyped ==
  ASSUME NEW env \in Env, NEW n
  PROVE  Binding(env, n) \in BindingOf
BY EnvIs DEF Binding, BindingOf, IsSet

LEMMA BindingsIs ==
  ASSUME NEW b \in Bindings
  PROVE  /\ b \in [DOMAIN b -> BindingOf] /\ DOMAIN b \subseteq Word
         /\ \A n \in DOMAIN b : b[n] \in BindingOf
BY PartialIs DEF Bindings

\* The innermost of a set of places in a sequence.
LEMMA Innermost ==
  ASSUME NEW q, NEW S, q \in Seq(Bindings), S \subseteq DOMAIN q, S # {}
  PROVE  LET i == CHOOSE i \in S : \A j \in S : j <= i
         IN  i \in S /\ \A j \in S : j <= i
<1>1. S \subseteq 0..Len(q) /\ Len(q) \in Nat
  OBVIOUS
<1>2. \E i \in S : \A j \in S : j <= i
  BY <1>1, GreatestNatural
<1>3. QED
  BY <1>2

LEMMA OriginalTyped ==
  ASSUME NEW temps \in Seq(Bindings), NEW n, Hiding(temps, n) # {}
  PROVE  current_temp_binding_original(temps, n) \in BindingOf
<1> DEFINE H == Hiding(temps, n)
           i == CHOOSE i \in H : \A j \in H : j <= i
<1>1. H \subseteq DOMAIN temps
  BY DEF Hiding
<1> HIDE DEF H
<1>2. i \in H
  BY <1>1, Innermost DEF H
<1>3. current_temp_binding_original(temps, n) = temps[i][n]
  BY DEF current_temp_binding_original, H
<1> HIDE DEF i
<1>4. temps[i] \in Bindings /\ n \in DOMAIN temps[i]
  BY <1>1, <1>2 DEF H, Hiding
<1>5. QED
  BY <1>3, <1>4, BindingsIs

LEMMA SavedTyped ==
  ASSUME NEW t \in Shell, NEW n
  PROVE  saved_local_restore_value(t, n) \in BindingOf
<1>1. t.temps \in Seq(Bindings) /\ t.env \in Env
  BY ShellParts
<1>2. QED
  BY <1>1, OriginalTyped, BindingTyped DEF saved_local_restore_value

LEMMA RestoredIs ==
  ASSUME NEW env \in Env, NEW n \in Word, NEW v \in BindingOf
  PROVE  LET e == Restored(env, n, v)
         IN  e \in Env /\ Only(env, e, n) /\ Binding(e, n) = v
<1>1. CASE v = Unset
  BY <1>1, DropEnv DEF Restored, Binding, IsSet
<1>2. CASE v # Unset
  <2>1. v \in Variable
    BY <1>2 DEF BindingOf
  <2>2. QED
    BY <1>2, <2>1, PutEnv DEF Restored, Binding, IsSet
<1>3. QED
  BY <1>1, <1>2

(***************************************************************************)
(* What a builtin does to the bindings beside the variables: at most the   *)
(* current call has one more local, with what it hides.                    *)
(***************************************************************************)
Hides(t, u, n) ==
  /\ u.temps = t.temps
  /\ u.posix = t.posix /\ u.localvar_unset = t.localvar_unset
  /\ \/ u.scopes = t.scopes
     \/ /\ InCall(t) /\ ~IsLocal(t, n)
        /\ u.scopes = [t.scopes EXCEPT ![Len(t.scopes)] =
                         Put(t.scopes[Len(t.scopes)], n,
                             saved_local_restore_value(t, n))]

LEMMA LocalisedIs ==
  ASSUME NEW t \in Shell, NEW n \in Word
  PROVE  LET u == Localised(t, n)
         IN  /\ u \in Shell /\ u.env = t.env /\ u.err = t.err
             /\ Hides(t, u, n)
<1> DEFINE k == Len(t.scopes)
           b == Put(t.scopes[k], n, saved_local_restore_value(t, n))
           sc == [t.scopes EXCEPT ![k] = b]
           u == Localised(t, n)
<1>1. CASE ~InCall(t) \/ IsLocal(t, n)
  BY <1>1 DEF Localised, Hides
<1>2. CASE InCall(t) /\ ~IsLocal(t, n)
  <2>1. t.scopes \in Seq(Bindings) /\ k \in DOMAIN t.scopes
    BY <1>2, ShellParts DEF InCall
  <2>2. b \in Bindings
    <3>1. t.scopes[k] \in Bindings
      BY <2>1
    <3>2. QED
      BY <3>1, SavedTyped, PutTyped DEF Bindings
  <2>3. sc \in Seq(Bindings)
    <3> HIDE DEF b, k
    <3> QED BY <2>1, <2>2
  <2>4. u = [t EXCEPT !.scopes = sc]
    BY <1>2 DEF Localised
  <2> HIDE DEF u, sc
  <2>5. /\ u \in Shell /\ u.env = t.env /\ u.err = t.err
        /\ u.scopes = sc /\ u.temps = t.temps
        /\ u.posix = t.posix /\ u.localvar_unset = t.localvar_unset
    BY <2>3, <2>4, ScopesIs
  <2>6. Hides(t, u, n)
    BY <1>2, <2>5 DEF Hides, sc
  <2>7. QED
    BY <2>5, <2>6 DEF u
<1>3. QED
  BY <1>1, <1>2

LEMMA HidesSelf ==
  ASSUME NEW t, NEW n
  PROVE  Hides(t, t, n)
BY DEF Hides

LEMMA WithHides ==
  ASSUME NEW t \in Shell, NEW u \in Shell, NEW n, Hides(t, u, n), NEW r \in Outcome
  PROVE  LET v == With(u, r)
         IN  v \in Shell /\ v.env = r.env /\ Hides(t, v, n)
<1> DEFINE v == With(u, r)
<1>1. /\ v \in Shell /\ v.env = r.env /\ v.scopes = u.scopes /\ v.temps = u.temps
      /\ v.posix = u.posix /\ v.localvar_unset = u.localvar_unset
  BY WithIs
<1> HIDE DEF v
<1>2. Hides(t, v, n)
  BY <1>1 DEF Hides
<1>3. QED
  BY <1>1, <1>2 DEF v

\* What running a builtin comes to: bindings of the same shape, one more local
\* at most and, when it starts no value anew, every readonly variable as it was.
Serves(t, u, keeps) ==
  /\ u \in Shell
  /\ \E n \in Word : Hides(t, u, n)
  /\ keeps => Keeps(t.env, u.env)

LEMMA WithServes ==
  ASSUME NEW t \in Shell, NEW n \in Word, NEW r \in Outcome,
         NEW keeps \in BOOLEAN, keeps => Keeps(t.env, r.env)
  PROVE  Serves(t, With(t, r), keeps)
<1>1. Hides(t, t, n)
  BY HidesSelf
<1>2. /\ With(t, r) \in Shell /\ With(t, r).env = r.env
      /\ Hides(t, With(t, r), n)
  BY <1>1, WithHides
<1>3. QED
  BY <1>2 DEF Serves

LEMMA SelfServes ==
  ASSUME NEW t \in Shell, NEW n \in Word, NEW keeps
  PROVE  Serves(t, t, keeps)
BY HidesSelf, KeepsSelf DEF Serves

LEMMA DeclareServes ==
  ASSUME NEW t \in Shell, NEW d, IsDeclaration(d)
  PROVE  LET v == builtin_declare(t, d)
         IN  /\ Serves(t, v, d.form = "append" \/ (d.shape = "scalar" /\ ~d.list))
             /\ Spares(t.env, v.env, d.name)
<1> DEFINE u == IF d.global THEN t ELSE Localised(t, d.name)
           r == Declared(u.env, d)
<1>1. d.name \in Word /\ t.env \in Env
  BY DeclarationIs, ShellParts
<1>2. u \in Shell /\ u.env = t.env /\ Hides(t, u, d.name)
  BY <1>1, LocalisedIs, HidesSelf
<1>3. builtin_declare(t, d) = With(u, r)
  BY DEF builtin_declare
<1> HIDE DEF u
<1>4. /\ r \in Outcome /\ Spares(t.env, r.env, d.name)
      /\ d.form = "append" \/ (d.shape = "scalar" /\ ~d.list) => Keeps(t.env, r.env)
  BY <1>1, <1>2, DeclaredKeeps
<1> HIDE DEF r
<1>5. With(u, r) \in Shell /\ With(u, r).env = r.env /\ Hides(t, With(u, r), d.name)
  BY <1>2, <1>4, WithHides
<1>6. QED
  BY <1>1, <1>3, <1>4, <1>5 DEF Serves

LEMMA LocalAppendTyped ==
  ASSUME NEW env \in Env, NEW n \in Word, NEW d, IsDeclaration(d), d.form = "append"
  PROVE  LET r == LocalAppend(env, n, d)
         IN  r \in Outcome /\ Others(env, r.env, n)
<1>1. CASE ~d.list
  <2>1. Word1(d) \in Word
    BY <1>1, DeclarationIs
  <2> DEFINE w == ScalarOf(env, n) \o Word1(d)
  <2>2. w \in Word
    BY <2>1, ScalarTyped, Joined
  <2>3. LocalAppend(env, n, d) = set_variable(env, n, w)
    BY <1>1 DEF LocalAppend
  <2> HIDE DEF w
  <2>4. QED
    BY <2>2, <2>3, SetVariableKeeps, KeepsOthers
<1>2. CASE d.list
  <2> DEFINE start == IF ~IsSet(env, n) THEN 0
                      ELSE IF env[n].kind = "indexed" THEN NextKey(env[n])
                      ELSE IF env[n].kind = "scalar" /\ ScalarOf(env, n) # Empty
                        THEN 1 ELSE 0
             e == Fresh(env, n, "indexed")
  <2>1. start \in Nat
    <3>1. CASE IsSet(env, n) /\ env[n].kind = "indexed"
      <4>1. env[n] \in Variable
        BY <3>1, EnvIs DEF IsSet
      <4>2. NextKey(env[n]) \in Nat
        BY <3>1, <4>1, LastKeyIs
      <4>3. QED
        BY <3>1, <4>2
    <3>2. CASE ~(IsSet(env, n) /\ env[n].kind = "indexed")
      <4>1. start \in {0, 1}
        BY <3>2
      <4>2. QED
        BY <4>1
    <3>3. QED
      BY <3>1, <3>2
  <2>2. LocalAppend(env, n, d) = SetElements(e, n, d.items, start, "indexed")
    BY <1>2 DEF LocalAppend
  <2>3. e \in Env /\ Keeps(env, e) /\ d.items \in Seq(Word)
    BY FreshKeeps, DeclarationIs DEF Kind
  <2> HIDE DEF e, start
  <2> DEFINE r == LocalAppend(env, n, d)
  <2> HIDE DEF r
  <2>4. r \in Outcome /\ Keeps(e, r.env)
    BY <2>1, <2>2, <2>3, SetElementsKeeps DEF r
  <2>5. QED
    BY <2>3, <2>4, KeepsTrans, KeepsOthers DEF r
<1>3. QED
  BY <1>1, <1>2

LEMMA LocalSetTyped ==
  ASSUME NEW env \in Env, NEW n \in Word, NEW d, IsDeclaration(d), d.form = "set"
  PROVE  LET r == LocalSet(env, n, d)
         IN  r \in Outcome /\ Others(env, r.env, n)
<1> DEFINE a == Put(env, n, Var(Bare("assoc"), {}))
           i == Put(env, n, Var(Bare("indexed"), {}))
           l == parse_and_set_array(i, n, d.items, "indexed")
           v == set_variable(env, n, Word1(d))
           at == [k \in 0..(Len(d.items) - 1) |-> d.items[k + 1]]
<1>1. /\ d.items \in Seq(Word) /\ (~d.list => Word1(d) \in Word)
  BY DeclarationIs
<1>2. /\ a \in Env /\ n \in DOMAIN a /\ i \in Env
      /\ Others(env, a, n) /\ Others(env, i, n)
  <2>1. Var(Bare("assoc"), {}) \in Variable /\ Var(Bare("indexed"), {}) \in Variable
    BY BareTyped, NoAttrs DEF Kind
  <2>2. QED
    BY <2>1, PutEnv, OnlyOthers
<1> HIDE DEF a, i
<1>3. at \in Partial(Int, Word) /\ Fits([kind |-> "assoc", at |-> at])
  <2>1. DOMAIN at \subseteq Int /\ at \in [DOMAIN at -> Word]
    BY <1>1
  <2> HIDE DEF at
  <2>2. QED
    BY <2>1, PartialIs DEF Fits
<1> HIDE DEF at
<1> DEFINE w == WithVal(a, n, at, "assoc")
           r == LocalSet(env, n, d)
<1>4. r = Ok(w) \/ r = l \/ (~d.list /\ r = v)
  BY DEF LocalSet, a, i, at
<1> HIDE DEF r
<1>5. CASE r = Ok(w)
  <2>1. w \in Env /\ Leaves(a, w, n)
    BY <1>2, <1>3, ValChanged, ChangeLeaves DEF Kind
  <2> HIDE DEF w
  <2>2. Others(env, w, n)
    BY <1>2, <2>1, OthersTrans DEF Leaves
  <2>3. QED
    BY <1>5, <2>1, <2>2, OutcomeParts DEF r
<1>6. CASE r = l
  <2>1. l \in Outcome /\ Leaves(i, l.env, n)
    BY <1>1, <1>2, ListTyped
  <2> HIDE DEF l
  <2>2. Others(env, l.env, n)
    BY <1>2, <2>1, OthersTrans DEF Leaves
  <2>3. QED
    BY <1>6, <2>1, <2>2 DEF r
<1>7. CASE ~d.list /\ r = v
  <2>1. v \in Outcome /\ Keeps(env, v.env)
    BY <1>1, <1>7, SetVariableKeeps
  <2> HIDE DEF v
  <2>2. QED
    BY <1>7, <2>1, KeepsOthers DEF r
<1>8. QED
  BY <1>4, <1>5, <1>6, <1>7

LEMMA LocalAttrsTyped ==
  ASSUME NEW d, IsDeclaration(d)
  PROVE  LocalAttrs(d) \in SUBSET Attr /\ LocalAttrs(d) \cup {"declared_only"} \in SUBSET Attr
BY DeclarationIs DEF LocalAttrs, Attr

LEMMA LocalBareTyped ==
  ASSUME NEW t \in Shell, NEW n \in Word, NEW d, IsDeclaration(d)
  PROVE  LET r == LocalBare(t, n, d)
         IN  r \in Outcome /\ Others(t.env, r.env, n)
<1> DEFINE kind == IF d.shape \in Kind THEN d.shape ELSE "scalar"
           as == LocalAttrs(d) \cup {"declared_only"}
           e == Put(t.env, n, Var(Bare(kind), as))
<1>1. kind \in Kind /\ as \in SUBSET Attr /\ t.env \in Env
  BY LocalAttrsTyped, ShellParts DEF Kind
<1>2. LocalBare(t, n, d) = Ok(t.env) \/ LocalBare(t, n, d) = Ok(e)
  BY DEF LocalBare
<1> HIDE DEF kind, as
<1>3. Var(Bare(kind), as) \in Variable
  BY <1>1, BareTyped
<1>4. e \in Env /\ Others(t.env, e, n)
  BY <1>1, <1>3, PutEnv, OnlyOthers
<1>5. Others(t.env, t.env, n)
  BY KeepsSelf, KeepsOthers
<1> HIDE DEF e
<1>6. QED
  BY <1>1, <1>2, <1>4, <1>5, OutcomeParts

LEMMA LocalServes ==
  ASSUME NEW t \in Shell, NEW d, IsDeclaration(d)
  PROVE  LET v == builtin_local(t, d)
         IN  Serves(t, v, FALSE) /\ Others(t.env, v.env, d.name)
<1> DEFINE n == d.name
           u == Localised(t, n)
           append == LocalAppend(u.env, n, d)
           set == Marked(LocalSet(u.env, n, d), n, LocalAttrs(d))
           bare == LocalBare(u, n, d)
<1>1. n \in Word /\ d.form \in {"none", "set", "append"}
  BY DeclarationIs
<1>2. u \in Shell /\ u.env = t.env /\ u.env \in Env /\ Hides(t, u, n)
  BY <1>1, LocalisedIs, ShellParts
<1>3. \/ d.form = "append" /\ builtin_local(t, d) = With(u, append)
      \/ d.form = "set" /\ builtin_local(t, d) = With(u, set)
      \/ d.form = "none" /\ builtin_local(t, d) = t
      \/ d.form = "none" /\ builtin_local(t, d) = With(u, bare)
  BY <1>1 DEF builtin_local
<1> HIDE DEF u
<1>4. d.form = "append" => append \in Outcome /\ Others(t.env, append.env, n)
  BY <1>1, <1>2, LocalAppendTyped
<1>5. d.form = "set" => set \in Outcome /\ Others(t.env, set.env, n)
  <2> SUFFICES ASSUME d.form = "set"
               PROVE  set \in Outcome /\ Others(t.env, set.env, n)
    OBVIOUS
  <2> DEFINE r == LocalSet(u.env, n, d)
             as == LocalAttrs(d)
  <2>1. r \in Outcome /\ Others(t.env, r.env, n) /\ as \in SUBSET Attr
    BY <1>1, <1>2, LocalSetTyped, LocalAttrsTyped
  <2> HIDE DEF r, as
  <2>2. Marked(r, n, as) \in Outcome /\ Spares(r.env, Marked(r, n, as).env, n)
    BY <2>1, MarkedKeeps
  <2>3. set = Marked(r, n, as)
    BY DEF r, as
  <2> HIDE DEF set
  <2>4. QED
    BY <2>1, <2>2, <2>3, OthersTrans DEF Spares
<1>6. bare \in Outcome /\ Others(t.env, bare.env, n)
  BY <1>1, <1>2, LocalBareTyped
<1> HIDE DEF append, set, bare, n
<1>7. ASSUME NEW r \in Outcome, Others(t.env, r.env, n),
             builtin_local(t, d) = With(u, r)
      PROVE  /\ Serves(t, builtin_local(t, d), FALSE)
             /\ Others(t.env, builtin_local(t, d).env, n)
  <2>1. With(u, r) \in Shell /\ With(u, r).env = r.env /\ Hides(t, With(u, r), n)
    BY <1>2, <1>7, WithHides
  <2>2. QED
    BY <1>1, <1>7, <2>1 DEF Serves
<1>8. ASSUME builtin_local(t, d) = t
      PROVE  /\ Serves(t, builtin_local(t, d), FALSE)
             /\ Others(t.env, builtin_local(t, d).env, n)
  BY <1>1, <1>8, SelfServes, KeepsSelf, KeepsOthers
<1>9. QED
  BY <1>3, <1>4, <1>5, <1>6, <1>7, <1>8 DEF n

LEMMA AttrsOfDeclaration ==
  ASSUME NEW d, IsDeclaration(d), NEW as \in SUBSET Flags
  PROVE  /\ IsDeclaration([d EXCEPT !.attrs = as])
         /\ [d EXCEPT !.attrs = as].form = d.form
         /\ IsDeclaration([d EXCEPT !.attrs = as, !.shape = "scalar"])
         /\ [d EXCEPT !.attrs = as, !.shape = "scalar"].form = d.form
         /\ [d EXCEPT !.attrs = as, !.shape = "scalar"].shape = "scalar"
BY DEF IsDeclaration, Kind

LEMMA ExportServes ==
  ASSUME NEW t \in Shell, NEW d, IsDeclaration(d), d.list => d.form = "append"
  PROVE  Serves(t, builtin_export(t, d), TRUE)
<1> DEFINE n == d.name
           env == t.env
           mark == {"exported"}
           e == [d EXCEPT !.attrs = mark]
           append == declare_append_value(env, n, e)
           set == Marked(set_variable(env, n, Word1(d)), n, mark)
           bare == Ok(WithAttrs(Fresh(env, n, "scalar"), n, mark))
<1>1. /\ n \in Word /\ d.form \in {"none", "set", "append"} /\ env \in Env
      /\ d.form = "set" => Word1(d) \in Word
  BY DeclarationIs, ShellParts
<1>2. mark \in SUBSET Attr /\ "nameref" \notin mark /\ mark \in SUBSET Flags
  BY DEF Attr, Flags
<1>3. \/ d.form = "append" /\ builtin_export(t, d) = With(t, append)
      \/ d.form = "set" /\ builtin_export(t, d) = With(t, set)
      \/ d.form = "none" /\ builtin_export(t, d) = With(t, bare)
  BY <1>1 DEF builtin_export
<1>4. d.form = "append" => append \in Outcome /\ Keeps(env, append.env)
  <2>1. IsDeclaration(e) /\ e.form = d.form
    BY <1>2, AttrsOfDeclaration
  <2> HIDE DEF e
  <2>2. QED
    BY <1>1, <2>1, DeclareAppendKeeps
<1>5. d.form = "set" => set \in Outcome /\ Keeps(env, set.env)
  <2> SUFFICES ASSUME d.form = "set" PROVE set \in Outcome /\ Keeps(env, set.env)
    OBVIOUS
  <2> DEFINE r == set_variable(env, n, Word1(d))
  <2>1. r \in Outcome /\ Keeps(env, r.env)
    BY <1>1, SetVariableKeeps
  <2> HIDE DEF r, mark
  <2>2. Marked(r, n, mark) \in Outcome /\ Keeps(r.env, Marked(r, n, mark).env)
    BY <1>2, <2>1, MarkedKeeps
  <2>3. QED
    BY <2>1, <2>2, KeepsTrans DEF r
<1>6. bare \in Outcome /\ Keeps(env, bare.env)
  <2> DEFINE f == Fresh(env, n, "scalar")
             g == WithAttrs(f, n, mark)
  <2>1. f \in Env /\ Keeps(env, f)
    BY <1>1, FreshKeeps DEF Kind
  <2> HIDE DEF f, mark
  <2>2. g \in Env /\ Keeps(f, g)
    BY <1>2, <2>1, WithAttrsKeeps
  <2> HIDE DEF g
  <2>3. Ok(g) \in Outcome /\ Ok(g).env = g /\ Keeps(env, g)
    BY <2>1, <2>2, OutcomeParts, KeepsTrans
  <2>4. QED
    BY <2>3 DEF g, f
<1> HIDE DEF append, set, bare, n, env
<1>7. \/ append \in Outcome /\ Keeps(t.env, append.env) /\ builtin_export(t, d) = With(t, append)
      \/ set \in Outcome /\ Keeps(t.env, set.env) /\ builtin_export(t, d) = With(t, set)
      \/ bare \in Outcome /\ Keeps(t.env, bare.env) /\ builtin_export(t, d) = With(t, bare)
  BY <1>3, <1>4, <1>5, <1>6 DEF env
<1>8. QED
  BY <1>1, <1>7, WithServes

LEMMA ReadonlyServes ==
  ASSUME NEW t \in Shell, NEW d, IsDeclaration(d), d.list => d.form = "append"
  PROVE  Serves(t, builtin_readonly(t, d), TRUE)
<1> DEFINE n == d.name
           env == t.env
           mark == {"readonly"}
           e == [d EXCEPT !.attrs = mark, !.shape = "scalar"]
           append == declare_append_value(env, n, e)
           set == Marked(set_variable(env, n, Word1(d)), n, mark)
           bare == Marked(declare_without_value(env, n, e), n, mark)
<1>1. /\ n \in Word /\ d.form \in {"none", "set", "append"} /\ env \in Env
      /\ d.form = "set" => Word1(d) \in Word
  BY DeclarationIs, ShellParts
<1>2. mark \in SUBSET Attr /\ "nameref" \notin mark /\ mark \in SUBSET Flags
  BY DEF Attr, Flags
<1>3. \/ d.form = "append" /\ builtin_readonly(t, d) = With(t, append)
      \/ d.form = "set" /\ builtin_readonly(t, d) = With(t, set)
      \/ d.form = "none" /\ builtin_readonly(t, d) = With(t, bare)
  BY <1>1 DEF builtin_readonly
<1>4. IsDeclaration(e) /\ e.form = d.form /\ e.shape = "scalar"
  BY <1>2, AttrsOfDeclaration
<1> HIDE DEF e, mark
<1>5. d.form = "append" => append \in Outcome /\ Keeps(env, append.env)
  BY <1>1, <1>4, DeclareAppendKeeps
<1>6. ASSUME NEW r \in Outcome, Keeps(env, r.env)
      PROVE  Marked(r, n, mark) \in Outcome /\ Keeps(env, Marked(r, n, mark).env)
  <2>1. Marked(r, n, mark) \in Outcome /\ Keeps(r.env, Marked(r, n, mark).env)
    BY <1>2, <1>6, MarkedKeeps
  <2>2. QED
    BY <1>6, <2>1, KeepsTrans
<1>7. d.form = "set" => set \in Outcome /\ Keeps(env, set.env)
  BY <1>1, <1>6, SetVariableKeeps
<1>8. bare \in Outcome /\ Keeps(env, bare.env)
  <2> DEFINE r == declare_without_value(env, n, e)
  <2>1. r \in Outcome /\ Keeps(env, r.env)
    BY <1>1, <1>4, DeclareBareKeeps
  <2> HIDE DEF r
  <2>2. QED
    BY <1>6, <2>1 DEF r
<1> HIDE DEF append, set, bare, n, env
<1>9. \/ append \in Outcome /\ Keeps(t.env, append.env) /\ builtin_readonly(t, d) = With(t, append)
      \/ set \in Outcome /\ Keeps(t.env, set.env) /\ builtin_readonly(t, d) = With(t, set)
      \/ bare \in Outcome /\ Keeps(t.env, bare.env) /\ builtin_readonly(t, d) = With(t, bare)
  BY <1>3, <1>5, <1>7, <1>8 DEF env
<1>10. QED
  BY <1>1, <1>9, WithServes

LEMMA UnsetVarIs ==
  ASSUME NEW t \in Shell, NEW n \in Word, IsSet(t.env, n)
  PROVE  UnsetVar(t, n) \in Env /\ Only(t.env, UnsetVar(t, n), n)
<1>1. t.env \in Env /\ t.scopes \in Seq(Bindings) /\ t.temps \in Seq(Bindings)
  BY ShellParts
<1> DEFINE hid == current_temp_binding_original(t.temps, n)
<1>2. Hiding(t.temps, n) # {} =>
        /\ Restored(t.env, n, hid) \in Env
        /\ Only(t.env, Restored(t.env, n, hid), n)
  <2>1. SUFFICES ASSUME Hiding(t.temps, n) # {} PROVE hid \in BindingOf
    BY <1>1, RestoredIs
  <2>2. QED
    BY <1>1, <2>1, OriginalTyped
<1> HIDE DEF hid
<1>3. CASE ~t.localvar_unset /\ Owning(t, n) # {}
  <2> DEFINE S == Owning(t, n)
             q == t.scopes
             i == CHOOSE i \in S : \A j \in S : j <= i
             shadow == declared_only_shadow_variable(t.env[n])
  <2>1. q \in Seq(Bindings) /\ S \subseteq DOMAIN q /\ S # {}
    BY <1>1, <1>3 DEF Owning
  <2>2. Owner(t, n) = i
    BY DEF Owner
  <2> HIDE DEF S, q
  <2>3. i \in S
    BY <2>1, Innermost
  <2> HIDE DEF i
  <2>4. i \in DOMAIN t.scopes /\ n \in DOMAIN t.scopes[i]
    BY <2>3 DEF S, Owning
  <2>5. t.scopes[i][n] \in BindingOf
    <3>1. t.scopes[i] \in Bindings
      BY <1>1, <2>4
    <3>2. QED
      BY <2>4, <3>1, BindingsIs
  <2>6. /\ Restored(t.env, n, t.scopes[i][n]) \in Env
        /\ Only(t.env, Restored(t.env, n, t.scopes[i][n]), n)
    BY <1>1, <2>5, RestoredIs
  <2>7. Put(t.env, n, shadow) \in Env /\ Only(t.env, Put(t.env, n, shadow), n)
    <3>1. t.env[n] \in Variable
      BY <1>1, EnvIs DEF IsSet
    <3>2. t.env[n].kind \in Kind /\ t.env[n].attrs \cup {"declared_only"} \in SUBSET Attr
      BY <3>1, VariableParts, MarksTyped
    <3>3. shadow \in Variable
      BY <3>2, BareTyped DEF declared_only_shadow_variable
    <3> HIDE DEF shadow
    <3>4. QED
      BY <1>1, <3>3, PutEnv
  <2>8. UnsetVar(t, n) = UnsetLocal(t, n)
    BY <1>3 DEF UnsetVar
  <2> HIDE DEF shadow
  <2>9. \/ UnsetLocal(t, n) = Restored(t.env, n, t.scopes[i][n])
        \/ Hiding(t.temps, n) # {} /\ UnsetLocal(t, n) = Restored(t.env, n, hid)
        \/ UnsetLocal(t, n) = Put(t.env, n, shadow)
    BY <2>2 DEF UnsetLocal, hid, shadow
  <2>10. QED
    BY <1>2, <2>6, <2>7, <2>8, <2>9
<1>4. CASE ~(~t.localvar_unset /\ Owning(t, n) # {})
  <2>1. UnsetVar(t, n) = UnsetOther(t, n)
    BY <1>4 DEF UnsetVar
  <2>2. \/ Hiding(t.temps, n) # {} /\ UnsetOther(t, n) = Restored(t.env, n, hid)
        \/ UnsetOther(t, n) = Drop(t.env, n)
    BY DEF UnsetOther, hid
  <2>3. QED
    BY <1>1, <1>2, <2>1, <2>2, DropEnv
<1>5. QED
  BY <1>3, <1>4

LEMMA UnsetServes ==
  ASSUME NEW t \in Shell, NEW n \in Word
  PROVE  Serves(t, builtin_unset(t, n), TRUE)
<1> DEFINE env == t.env
           m == resolve_nameref_or_self(env, n)
           u == UnsetVar(t, n)
<1>1. env \in Env /\ Err(env, "shell") \in Outcome /\ Err(env, "shell").env = env
  BY ShellParts, OutcomeParts DEF Error
<1> HIDE DEF env, m
<1>2. \/ builtin_unset(t, n) = t
      \/ builtin_unset(t, n) = With(t, Err(env, "shell"))
      \/ ~readonly(env, m) /\ builtin_unset(t, n) = With(t, Ok(Drop(env, m)))
      \/ /\ IsSet(env, n) /\ ~readonly(env, n)
         /\ builtin_unset(t, n) = With(t, Ok(u))
  BY DEF builtin_unset, env, m
<1>3. ASSUME NEW e \in Env, NEW k, Only(env, e, k), ~readonly(env, k)
      PROVE  Serves(t, With(t, Ok(e)), TRUE)
  <2>1. Keeps(env, e)
    BY <1>3, OnlyKeeps DEF Firm
  <2>2. Ok(e) \in Outcome /\ Ok(e).env = e
    BY <1>3, OutcomeParts
  <2>3. QED
    BY <2>1, <2>2, WithServes DEF env
<1>4. CASE builtin_unset(t, n) = t
  BY <1>4, SelfServes
<1>5. CASE builtin_unset(t, n) = With(t, Err(env, "shell"))
  <2>1. Keeps(t.env, Err(env, "shell").env)
    BY <1>1, KeepsSelf DEF env
  <2>2. QED
    BY <1>1, <1>5, <2>1, WithServes
<1>6. CASE ~readonly(env, m) /\ builtin_unset(t, n) = With(t, Ok(Drop(env, m)))
  <2> DEFINE e == Drop(env, m)
  <2>1. e \in Env /\ Only(env, e, m)
    BY <1>1, DropEnv
  <2> HIDE DEF e
  <2>2. Serves(t, With(t, Ok(e)), TRUE)
    BY <1>3, <1>6, <2>1
  <2>3. QED
    BY <1>6, <2>2 DEF e
<1>7. CASE /\ IsSet(env, n) /\ ~readonly(env, n)
           /\ builtin_unset(t, n) = With(t, Ok(u))
  <2>1. u \in Env /\ Only(env, u, n)
    BY <1>7, UnsetVarIs DEF env
  <2> HIDE DEF u
  <2>2. QED
    BY <1>3, <1>7, <2>1
<1>8. QED
  BY <1>2, <1>4, <1>5, <1>6, <1>7

LEMMA DropKey ==
  ASSUME NEW v \in Variable, NEW k, v.kind # "scalar"
  PROVE  /\ Drop(v.at, k) \in Partial(Int, Word)
         /\ Fits([kind |-> v.kind, at |-> Drop(v.at, k)])
<1>1. v.at \in Partial(Int, Word) /\ Fits(v)
  BY VariableParts
<1>2. Drop(v.at, k) \in Partial(Int, Word)
  BY <1>1, DropTyped
<1>3. \A x : x \in DOMAIN Drop(v.at, k) => x \in DOMAIN v.at
  BY DropIs
<1>4. QED
  BY <1>1, <1>2, <1>3 DEF Fits

LEMMA UnsetElementServes ==
  ASSUME NEW t \in Shell, NEW n \in Word, NEW k \in Int
  PROVE  Serves(t, unset_element(t, n, k), TRUE)
<1> DEFINE env == t.env
           v == env[n]
           i == FromEnd(v, k)
           u == unset_element(t, n, k)
           gone(j) == [env EXCEPT ![n].at = Drop(@, j)]
           blank == [env EXCEPT ![n].at = Scalar(Empty).at]
<1>1. env \in Env
  BY ShellParts
<1>2. \/ u = t
      \/ u = With(t, Err(env, "shell"))
      \/ IsSet(env, n) /\ ~readonly(env, n) /\ v.kind # "scalar" /\ u = With(t, Ok(gone(k)))
      \/ IsSet(env, n) /\ ~readonly(env, n) /\ v.kind # "scalar" /\ u = With(t, Ok(gone(i)))
      \/ IsSet(env, n) /\ ~readonly(env, n) /\ v.kind = "scalar" /\ u = With(t, Ok(blank))
  BY DEF unset_element
<1>3. ASSUME NEW at \in Partial(Int, Word), IsSet(env, n), ~readonly(env, n),
             Fits([kind |-> v.kind, at |-> at])
      PROVE  Serves(t, With(t, Ok(NewAt(env, n, at))), TRUE)
  <2> DEFINE e == NewAt(env, n, at)
  <2>1. e \in Env /\ Only(env, e, n)
    BY <1>1, <1>3, AtChanged DEF IsSet
  <2> HIDE DEF e
  <2>2. Keeps(env, e)
    BY <1>3, <2>1, OnlyKeeps DEF Firm
  <2>3. Ok(e) \in Outcome /\ Ok(e).env = e
    BY <2>1, OutcomeParts
  <2>4. QED
    BY <2>2, <2>3, WithServes DEF e
<1>4. \A j : gone(j) = NewAt(env, n, Drop(v.at, j))
  BY DEF NewAt
<1>5. blank = NewAt(env, n, Scalar(Empty).at)
  BY DEF NewAt
<1>6. IsSet(env, n) => v \in Variable
  BY <1>1, EnvIs DEF IsSet
<1> HIDE DEF gone, blank, v, i
<1>7. CASE u = t
  BY <1>7, SelfServes
<1>8. CASE u = With(t, Err(env, "shell"))
  <2>1. /\ Err(env, "shell") \in Outcome /\ Err(env, "shell").env = env
    BY <1>1, OutcomeParts DEF Error
  <2>2. Keeps(t.env, Err(env, "shell").env)
    BY <2>1, KeepsSelf
  <2>3. QED
    BY <1>8, <2>1, <2>2, WithServes
<1>9. ASSUME NEW j, IsSet(env, n), ~readonly(env, n), v.kind # "scalar", u = With(t, Ok(gone(j)))
      PROVE  Serves(t, u, TRUE)
  <2>1. Drop(v.at, j) \in Partial(Int, Word) /\ Fits([kind |-> v.kind, at |-> Drop(v.at, j)])
    BY <1>6, <1>9, DropKey
  <2>2. u = With(t, Ok(NewAt(env, n, Drop(v.at, j))))
    BY <1>4, <1>9
  <2>3. QED
    BY <1>3, <1>9, <2>1, <2>2
<1>10. CASE IsSet(env, n) /\ ~readonly(env, n) /\ v.kind = "scalar" /\ u = With(t, Ok(blank))
  <2>1. /\ Scalar(Empty).at \in Partial(Int, Word)
        /\ Fits([kind |-> v.kind, at |-> Scalar(Empty).at])
    BY <1>10, ScalarFits, EmptyTyped
  <2>2. QED
    BY <1>3, <1>5, <1>10, <2>1
<1> HIDE DEF u
<1>11. QED
  BY <1>2, <1>7, <1>8, <1>9, <1>10 DEF u

\* What starts a new value before it looks.
Anew(b) == b.op = "local" \/ Restarts(b, b.d.name)

LEMMA RunBuiltinServes ==
  ASSUME NEW t \in Shell, NEW b \in Builtins
  PROVE  LET u == RunBuiltin(t, b)
         IN  /\ Serves(t, u, ~Anew(b))
             /\ b.op = "declare" => Spares(t.env, u.env, b.d.name)
             /\ b.op = "local" => Others(t.env, u.env, b.d.name)
<1> DEFINE u == RunBuiltin(t, b)
<1>1. CASE b \in [op : {"declare", "local"}, d : Declaration]
  <2>1. IsDeclaration(b.d) /\ b.op \in {"declare", "local"}
    BY <1>1, ScriptAssumption
  <2>2. CASE b.op = "declare"
    <3>1. u = builtin_declare(t, b.d)
      BY <2>2 DEF RunBuiltin
    <3>2. ~Anew(b) => b.d.form = "append" \/ (b.d.shape = "scalar" /\ ~b.d.list)
      BY <2>2 DEF Anew, Restarts
    <3>3. /\ Serves(t, builtin_declare(t, b.d),
                    b.d.form = "append" \/ (b.d.shape = "scalar" /\ ~b.d.list))
          /\ Spares(t.env, builtin_declare(t, b.d).env, b.d.name)
      BY <2>1, DeclareServes
    <3> HIDE DEF u
    <3>4. QED
      BY <2>2, <3>1, <3>2, <3>3 DEF Serves, u
  <2>3. CASE b.op = "local"
    <3>1. u = builtin_local(t, b.d)
      BY <2>3 DEF RunBuiltin
    <3>2. Anew(b)
      BY <2>3 DEF Anew
    <3>3. /\ Serves(t, builtin_local(t, b.d), FALSE)
          /\ Others(t.env, builtin_local(t, b.d).env, b.d.name)
      BY <2>1, LocalServes
    <3> HIDE DEF u
    <3>4. QED
      BY <2>3, <3>1, <3>2, <3>3 DEF Serves, u
  <2>4. QED
    BY <2>1, <2>2, <2>3
<1>2. CASE b \in [op : {"export", "readonly"}, d : Marking]
  <2>1. /\ IsDeclaration(b.d) /\ (b.d.list => b.d.form = "append")
        /\ b.op \in {"export", "readonly"}
    BY <1>2, ScriptAssumption
  <2>2. CASE b.op = "export"
    <3>1. u = builtin_export(t, b.d)
      BY <2>2 DEF RunBuiltin
    <3>2. Serves(t, builtin_export(t, b.d), TRUE)
      BY <2>1, ExportServes
    <3> HIDE DEF u
    <3>3. QED
      BY <2>2, <3>1, <3>2 DEF Serves, u
  <2>3. CASE b.op = "readonly"
    <3>1. u = builtin_readonly(t, b.d)
      BY <2>3 DEF RunBuiltin
    <3>2. Serves(t, builtin_readonly(t, b.d), TRUE)
      BY <2>1, ReadonlyServes
    <3> HIDE DEF u
    <3>3. QED
      BY <2>3, <3>1, <3>2 DEF Serves, u
  <2>4. QED
    BY <2>1, <2>2, <2>3
<1>3. CASE b \in [op : {"unset"}, name : Name]
  <2>1. b.name \in Word /\ b.op = "unset"
    BY <1>3, ScriptAssumption
  <2>2. u = builtin_unset(t, b.name)
    BY <2>1 DEF RunBuiltin
  <2>3. Serves(t, builtin_unset(t, b.name), TRUE)
    BY <2>1, UnsetServes
  <2> HIDE DEF u
  <2>4. QED
    BY <2>1, <2>2, <2>3 DEF Serves, u
<1>4. CASE b \in [op : {"unset_element"}, name : Name, key : Key]
  <2>1. b.name \in Word /\ b.key \in Int /\ b.op = "unset_element"
    BY <1>4, ScriptAssumption
  <2>2. u = unset_element(t, b.name, b.key)
    BY <2>1 DEF RunBuiltin
  <2>3. Serves(t, unset_element(t, b.name, b.key), TRUE)
    BY <2>1, UnsetElementServes
  <2> HIDE DEF u
  <2>4. QED
    BY <2>1, <2>2, <2>3 DEF Serves, u
<1>5. QED
  BY <1>1, <1>2, <1>3, <1>4 DEF Builtins

(***************************************************************************)
(* The assignments before a command's name.                                *)
(***************************************************************************)
\* What the bindings remember of the assignments: for each name that has one,
\* the value the first of them replaced.
Records(saved, first) ==
  /\ \A n : n \in DOMAIN first <=> \E i \in DOMAIN saved : saved[i][1] = n
  /\ \A i \in DOMAIN saved :
       (\A j \in DOMAIN saved : j < i => saved[j][1] # saved[i][1])
         => first[saved[i][1]] = saved[i][2]

Beside(t, u) ==
  /\ u.scopes = t.scopes /\ u.temps = t.temps
  /\ u.posix = t.posix /\ u.localvar_unset = t.localvar_unset

BoundTo(t, b) ==
  /\ b \in [s : Shell, saved : Saved, first : Bindings]
  /\ Beside(t, b.s)
  /\ Records(b.saved, b.first)

LEMMA RecordsMore ==
  ASSUME NEW saved \in Saved, NEW first \in Bindings, Records(saved, first),
         NEW n \in Word, NEW v \in BindingOf
  PROVE  LET sv == Append(saved, <<n, v>>)
             fi == IF n \in DOMAIN first THEN first ELSE Put(first, n, v)
         IN  sv \in Saved /\ fi \in Bindings /\ Records(sv, fi)
<1> DEFINE sv == Append(saved, <<n, v>>)
           fi == IF n \in DOMAIN first THEN first ELSE Put(first, n, v)
           k == Len(saved) + 1
<1>1. /\ sv \in Saved /\ k \in DOMAIN sv /\ sv[k] = <<n, v>>
      /\ k \notin DOMAIN saved
      /\ \A i : i \in DOMAIN sv <=> i \in DOMAIN saved \/ i = k
      /\ \A i \in DOMAIN saved : sv[i] = saved[i] /\ i < k
  BY DEF Saved
<1>2. /\ fi \in Bindings
      /\ \A m : m \in DOMAIN fi <=> m \in DOMAIN first \/ m = n
      /\ \A m \in DOMAIN first : fi[m] = first[m]
      /\ n \notin DOMAIN first => fi[n] = v
  <2>1. CASE n \in DOMAIN first
    BY <2>1
  <2>2. CASE n \notin DOMAIN first
    <3>1. fi = Put(first, n, v)
      BY <2>2
    <3>2. Put(first, n, v) \in Bindings
      BY PutTyped DEF Bindings
    <3> HIDE DEF fi
    <3>3. QED
      BY <2>2, <3>1, <3>2, PutIs
  <2>3. QED
    BY <2>1, <2>2
<1> HIDE DEF sv, fi, k
<1>3. \A m : m \in DOMAIN fi <=> \E i \in DOMAIN sv : sv[i][1] = m
  BY <1>1, <1>2 DEF Records
<1>4. ASSUME NEW i \in DOMAIN sv,
             \A j \in DOMAIN sv : j < i => sv[j][1] # sv[i][1]
      PROVE  fi[sv[i][1]] = sv[i][2]
  <2>1. CASE i \in DOMAIN saved
    <3>1. saved[i][1] \in DOMAIN first
      BY <2>1 DEF Records
    <3>2. first[saved[i][1]] = saved[i][2]
      BY <1>1, <1>4, <2>1 DEF Records
    <3>3. QED
      BY <1>1, <1>2, <2>1, <3>1, <3>2
  <2>2. CASE i = k
    <3>1. \A j \in DOMAIN saved : saved[j][1] # n
      BY <1>1, <1>4, <2>2
    <3>2. n \notin DOMAIN first
      BY <3>1 DEF Records
    <3>3. QED
      BY <1>1, <1>2, <2>2, <3>2
  <2>3. QED
    BY <1>1, <2>1, <2>2
<1>5. Records(sv, fi)
  BY <1>3, <1>4 DEF Records
<1>6. QED
  BY <1>1, <1>2, <1>5 DEF sv, fi

LEMMA BindTo ==
  ASSUME NEW t \in Shell, NEW b, BoundTo(t, b), NEW a, IsAssignment(a)
  PROVE  BoundTo(t, Bind(b, a))
<1> DEFINE r == apply_assignment(b.s.env, a)
           old == Binding(b.s.env, a.name)
           er == IF r.err = "limit" THEN "limit" ELSE "ok"
           en == IF r.err = "limit" THEN r.env
                 ELSE WithAttrs(r.env, a.name, {"exported"})
           u == [b.s EXCEPT !.err = er, !.env = en]
           sv == Append(b.saved, <<a.name, old>>)
           fi == IF a.name \in DOMAIN b.first THEN b.first
                 ELSE Put(b.first, a.name, old)
           c == [s |-> u, saved |-> sv, first |-> fi]
<1>1. /\ b.s \in Shell /\ b.saved \in Saved /\ b.first \in Bindings
      /\ Beside(t, b.s) /\ Records(b.saved, b.first)
  BY DEF BoundTo
<1>2. a.name \in Word
  BY DEF IsAssignment
<1>3. Bind(b, a) = b \/ Bind(b, a) = c
  BY DEF Bind
<1>4. r \in Outcome /\ old \in BindingOf
  <2>1. b.s.env \in Env
    BY <1>1, ShellParts
  <2>2. QED
    BY <2>1, AssignmentKeeps, BindingTyped
<1>5. er \in Error /\ en \in Env
  <2> HIDE DEF r
  <2>1. r.env \in Env /\ {"exported"} \in SUBSET Attr
    BY <1>4, OutcomeParts DEF Attr
  <2>2. WithAttrs(r.env, a.name, {"exported"}) \in Env
    BY <2>1, AttrsAdded
  <2>3. QED
    BY <2>1, <2>2 DEF Error
<1>6. sv \in Saved /\ fi \in Bindings /\ Records(sv, fi)
  <2> HIDE DEF old
  <2> QED BY <1>1, <1>2, <1>4, RecordsMore
<1> HIDE DEF er, en, sv, fi
<1>7. u \in Shell /\ Beside(t, u)
  BY <1>1, <1>5 DEF Shell, Beside
<1> HIDE DEF u
<1>8. BoundTo(t, c)
  BY <1>6, <1>7 DEF BoundTo
<1>9. QED
  BY <1>3, <1>8

LEMMA BoundIs ==
  ASSUME NEW t \in Shell, NEW p \in Prefix
  PROVE  BoundTo(t, Bound(t, p))
<1> DEFINE K == Len(p)
           D == {b \in [s : Shell, saved : Saved, first : Bindings] : BoundTo(t, b)}
           none == [n \in {} |-> Unset]
           b0 == [s |-> [t EXCEPT !.err = "ok"], saved |-> <<>>, first |-> none]
           Step(b, i) == Bind(b, p[i])
           G == [q \in (1..K) \X D |-> Step(q[2], q[1])]
           P(f) == f = [i \in 0..K |-> IF i = 0 THEN b0 ELSE Step(f[i - 1], i)]
           upto == CHOOSE f : P(f)
<1>1. K \in Nat /\ \A i \in 1..K : IsAssignment(p[i])
  <2>1. p \in Seq({p[i] : i \in DOMAIN p}) /\ \A i \in DOMAIN p : IsAssignment(p[i])
    BY ScriptAssumption
  <2>2. QED
    BY <2>1
<1>2. b0 \in D
  <2>1. [t EXCEPT !.err = "ok"] \in Shell /\ Beside(t, [t EXCEPT !.err = "ok"])
    BY DEF Shell, Beside, Error
  <2>2. <<>> \in Saved
    BY DEF Saved
  <2>3. none \in Bindings /\ DOMAIN none = {}
    <3>1. none \in [DOMAIN none -> BindingOf] /\ DOMAIN none = {}
      OBVIOUS
    <3> HIDE DEF none
    <3>2. QED
      BY <3>1, PartialIs DEF Bindings
  <2> HIDE DEF none
  <2>4. Records(<<>>, none)
    BY <2>3 DEF Records
  <2>5. QED
    BY <2>1, <2>2, <2>3, <2>4 DEF BoundTo
<1>3. \A i \in 1..K, b \in D : Step(b, i) \in D
  <2> SUFFICES ASSUME NEW i \in 1..K, NEW b \in D PROVE Step(b, i) \in D
    OBVIOUS
  <2>1. BoundTo(t, Step(b, i))
    BY <1>1, BindTo
  <2> HIDE DEF Step
  <2>2. QED
    BY <2>1 DEF BoundTo
<1>4. Bound(t, p) = upto[K]
  BY DEF Bound
<1> HIDE DEF K, Step, b0, D
<1>5. G \in [(1..K) \X D -> D]
  BY <1>3
<1>6. PICK f : Recurs(f, D, b0, G, K)
  <2> HIDE DEF G
  <2> QED BY <1>1, <1>2, <1>5, RecursionExists
<1>7. f \in [0..K -> D] /\ f[0] = b0
  BY <1>6 DEF Recurs
<1>8. \A i \in 1..K : f[i] = Step(f[i - 1], i)
  <2> SUFFICES ASSUME NEW i \in 1..K PROVE f[i] = Step(f[i - 1], i)
    OBVIOUS
  <2>1. f[i - 1] \in D /\ f[i] = G[<<i, f[i - 1]>>]
    <3> HIDE DEF G
    <3> QED BY <1>1, <1>6, <1>7 DEF Recurs
  <2>2. QED
    BY <2>1
<1>9. P(f)
  BY <1>1, <1>7, <1>8
<1>10. P(upto)
  <2> HIDE DEF P
  <2> QED BY <1>9
<1> HIDE DEF upto
<1>11. upto[0] = b0 /\ \A i \in 1..K : upto[i] = Step(upto[i - 1], i)
  BY <1>1, <1>10
<1>12. \A i \in 0..K : upto[i] \in D
  <2> DEFINE S == {i \in 0..K : upto[i] \in D}
  <2>1. SUFFICES 0..K \subseteq S
    OBVIOUS
  <2>2. 0 \in S
    BY <1>1, <1>2, <1>11
  <2>3. SUFFICES ASSUME NEW m \in 1..K, m \notin S, m - 1 \in S PROVE FALSE
    <3> HIDE DEF S
    <3> QED BY <1>1, <2>2, LeastFailure
  <2>4. QED
    BY <1>1, <1>3, <1>11, <2>3
<1>13. QED
  BY <1>1, <1>4, <1>12 DEF D

(***************************************************************************)
(* Taking the assignments back: each name gets the value its last record   *)
(* has, and no other name changes.                                         *)
(***************************************************************************)
Undone(env, e, saved, k) ==
  /\ \A n : (\A i \in 1..k : saved[i][1] # n) => Binding(e, n) = Binding(env, n)
  /\ \A i \in 1..k :
       (\A j \in 1..k : i < j => saved[j][1] # saved[i][1])
         => Binding(e, saved[i][1]) = saved[i][2]

LEMMA OnlyBinding ==
  ASSUME NEW env, NEW e, NEW n, Only(env, e, n), NEW m, m # n
  PROVE  Binding(e, m) = Binding(env, m)
BY DEF Only, Binding, IsSet

LEMMA UndoStep ==
  ASSUME NEW env \in Env, NEW saved \in Saved, NEW k \in 1..Len(saved), NEW e \in Env,
         Undone(env, e, saved, k - 1)
  PROVE  LET f == Restored(e, saved[k][1], saved[k][2])
         IN  f \in Env /\ Undone(env, f, saved, k)
<1> DEFINE n == saved[k][1]
           v == saved[k][2]
           f == Restored(e, n, v)
<1>1. n \in Word /\ v \in BindingOf
  BY DEF Saved
<1> HIDE DEF n, v
<1>2. f \in Env /\ Only(e, f, n) /\ Binding(f, n) = v
  BY <1>1, RestoredIs
<1> HIDE DEF f
<1>3. \A m : m # n => Binding(f, m) = Binding(e, m)
  BY <1>2, OnlyBinding
<1>4. \A i \in 1..k : i = k \/ i \in 1..(k - 1)
  OBVIOUS
<1>5. k \in 1..k /\ \A i \in 1..(k - 1) : i \in 1..k /\ i < k
  OBVIOUS
<1>6. ASSUME NEW m, \A i \in 1..k : saved[i][1] # m
      PROVE  Binding(f, m) = Binding(env, m)
  BY <1>3, <1>5, <1>6 DEF Undone, n
<1>7. ASSUME NEW i \in 1..k, \A j \in 1..k : i < j => saved[j][1] # saved[i][1]
      PROVE  Binding(f, saved[i][1]) = saved[i][2]
  <2>1. CASE i = k
    BY <1>2, <2>1 DEF n, v
  <2>2. CASE i \in 1..(k - 1)
    <3>1. saved[i][1] # n
      BY <1>5, <1>7, <2>2 DEF n
    <3>2. Binding(e, saved[i][1]) = saved[i][2]
      BY <1>5, <1>7, <2>2 DEF Undone
    <3>3. QED
      BY <1>3, <3>1, <3>2
  <2>3. QED
    BY <1>4, <2>1, <2>2
<1>8. QED
  BY <1>2, <1>6, <1>7 DEF Undone, f, n, v

LEMMA RestoreSavedIs ==
  ASSUME NEW env \in Env, NEW saved \in Saved
  PROVE  LET e == RestoreSaved(env, saved)
         IN  e \in Env /\ Undone(env, e, saved, Len(saved))
<1> DEFINE K == Len(saved)
           Step(e, i) == Restored(e, saved[i][1], saved[i][2])
           G == [q \in (1..K) \X Env |-> Step(q[2], q[1])]
           P(f) == f = [i \in 0..K |-> IF i = 0 THEN env ELSE Step(f[i - 1], i)]
           upto == CHOOSE f : P(f)
<1>1. K \in Nat
  BY DEF Saved
<1>2. \A i \in 1..K, e \in Env : Step(e, i) \in Env
  <2> SUFFICES ASSUME NEW i \in 1..K, NEW e \in Env PROVE Step(e, i) \in Env
    OBVIOUS
  <2>1. saved[i][1] \in Word /\ saved[i][2] \in BindingOf
    BY DEF Saved
  <2>2. QED
    BY <2>1, RestoredIs
<1>3. RestoreSaved(env, saved) = upto[K]
  BY DEF RestoreSaved
<1>4. ASSUME NEW i \in 1..K, NEW e \in Env, Undone(env, e, saved, i - 1)
      PROVE  Undone(env, Step(e, i), saved, i)
  BY <1>4, UndoStep
<1> HIDE DEF K, Step
<1>5. G \in [(1..K) \X Env -> Env]
  BY <1>2
<1>6. PICK f : Recurs(f, Env, env, G, K)
  <2> HIDE DEF G
  <2> QED BY <1>1, <1>5, RecursionExists
<1>7. f \in [0..K -> Env] /\ f[0] = env
  BY <1>6 DEF Recurs
<1>8. \A i \in 1..K : f[i] = Step(f[i - 1], i)
  <2> SUFFICES ASSUME NEW i \in 1..K PROVE f[i] = Step(f[i - 1], i)
    OBVIOUS
  <2>1. f[i - 1] \in Env /\ f[i] = G[<<i, f[i - 1]>>]
    <3> HIDE DEF G
    <3> QED BY <1>1, <1>6, <1>7 DEF Recurs
  <2>2. QED
    BY <2>1
<1>9. P(f)
  BY <1>1, <1>7, <1>8
<1>10. P(upto)
  <2> HIDE DEF P
  <2> QED BY <1>9
<1> HIDE DEF upto
<1>11. upto[0] = env /\ \A i \in 1..K : upto[i] = Step(upto[i - 1], i)
  BY <1>1, <1>10
<1>12. \A i \in 0..K : upto[i] \in Env /\ Undone(env, upto[i], saved, i)
  <2> DEFINE S == {i \in 0..K : upto[i] \in Env /\ Undone(env, upto[i], saved, i)}
  <2>1. SUFFICES 0..K \subseteq S
    OBVIOUS
  <2>2. 0 \in S
    BY <1>1, <1>11 DEF Undone
  <2>3. SUFFICES ASSUME NEW m \in 1..K, m \notin S, m - 1 \in S PROVE FALSE
    <3> HIDE DEF S
    <3> QED BY <1>1, <2>2, LeastFailure
  <2>4. upto[m - 1] \in Env /\ Undone(env, upto[m - 1], saved, m - 1)
        /\ upto[m] = Step(upto[m - 1], m)
    BY <1>11, <2>3
  <2>5. upto[m] \in Env /\ Undone(env, upto[m], saved, m)
    BY <1>2, <1>4, <2>4
  <2>6. QED
    BY <1>1, <2>3, <2>5
<1>13. QED
  BY <1>1, <1>3, <1>12 DEF K

(***************************************************************************)
(* The stack of what commands' assignments hide, and the calls.            *)
(***************************************************************************)
LEMMA OpenedIs ==
  ASSUME NEW t \in Shell, NEW b, BoundTo(t, b)
  PROVE  LET u == Opened(b)
         IN  /\ u \in Shell /\ u.env = b.s.env /\ u.scopes = t.scopes
             /\ u.posix = t.posix /\ u.localvar_unset = t.localvar_unset
             /\ u.temps = IF b.saved = <<>> THEN t.temps ELSE Append(t.temps, b.first)
<1>1. b.s \in Shell /\ b.first \in Bindings /\ Beside(t, b.s)
  BY DEF BoundTo
<1>2. CASE b.saved = <<>>
  BY <1>1, <1>2 DEF Opened, Beside
<1>3. CASE b.saved # <<>>
  <2> DEFINE q == Append(b.s.temps, b.first)
  <2>1. q \in Seq(Bindings)
    BY <1>1, ShellParts
  <2>2. Opened(b) = [b.s EXCEPT !.temps = q]
    BY <1>3 DEF Opened
  <2> HIDE DEF q
  <2>3. /\ Opened(b) \in Shell /\ Opened(b).temps = q /\ Opened(b).env = b.s.env
        /\ Opened(b).scopes = b.s.scopes /\ Opened(b).posix = b.s.posix
        /\ Opened(b).localvar_unset = b.s.localvar_unset
    BY <1>1, <2>1, <2>2 DEF Shell
  <2>4. QED
    BY <1>1, <1>3, <2>3 DEF Beside, q
<1>4. QED
  BY <1>2, <1>3

LEMMA ClosedIs ==
  ASSUME NEW t \in Shell, NEW saved \in Saved, NEW keep \in BOOLEAN,
         saved # <<>> => t.temps # <<>>
  PROVE  LET u == Closed(t, saved, keep)
         IN  /\ u \in Shell /\ u.scopes = t.scopes /\ u.err = t.err
             /\ u.posix = t.posix /\ u.localvar_unset = t.localvar_unset
             /\ u.temps = IF saved = <<>> THEN t.temps
                          ELSE SubSeq(t.temps, 1, Len(t.temps) - 1)
             /\ ~keep => u.env = RestoreSaved(t.env, saved)
<1> DEFINE q == IF saved = <<>> THEN t.temps ELSE SubSeq(t.temps, 1, Len(t.temps) - 1)
           e == IF keep THEN t.env ELSE RestoreSaved(t.env, saved)
<1>1. q \in Seq(Bindings)
  BY ShellParts
<1>2. e \in Env
  BY ShellParts, RestoreSavedIs
<1>3. Closed(t, saved, keep) = [t EXCEPT !.temps = q, !.env = e]
  BY DEF Closed, Shell
<1>4. ~keep => e = RestoreSaved(t.env, saved)
  OBVIOUS
<1> HIDE DEF q, e
<1>5. LET u == Closed(t, saved, keep)
      IN  /\ u \in Shell /\ u.scopes = t.scopes /\ u.temps = q /\ u.err = t.err
          /\ u.posix = t.posix /\ u.localvar_unset = t.localvar_unset /\ u.env = e
  BY <1>1, <1>2, <1>3 DEF Shell
<1>6. QED
  BY <1>4, <1>5 DEF q

LEMMA TopTyped ==
  ASSUME NEW t \in Shell, InCall(t)
  PROVE  /\ Top(t) \in Bindings /\ t.scopes # <<>> /\ t.scopes \in Seq(Bindings)
         /\ Len(t.scopes) \in DOMAIN t.scopes /\ Len(t.scopes) \in Nat \ {0}
<1>1. t.scopes \in Seq(Bindings)
  BY ShellParts
<1>2. QED
  BY <1>1 DEF Top, InCall

LEMMA PoppedIs ==
  ASSUME NEW t \in Shell, InCall(t)
  PROVE  LET u == Popped(t)
         IN  /\ u \in Shell /\ u.temps = t.temps /\ u.err = t.err
             /\ u.scopes = SubSeq(t.scopes, 1, Len(t.scopes) - 1)
             /\ u.posix = t.posix /\ u.localvar_unset = t.localvar_unset
             /\ \A n \in DOMAIN Top(t) : Binding(u.env, n) = Top(t)[n]
<1> DEFINE r == Top(t)
           D == (DOMAIN t.env \cup DOMAIN r) \ {m \in DOMAIN r : r[m] = Unset}
           e == [n \in D |-> IF n \in DOMAIN r THEN r[n] ELSE t.env[n]]
           q == SubSeq(t.scopes, 1, Len(t.scopes) - 1)
<1>1. r \in Bindings /\ t.env \in Env /\ q \in Seq(Bindings)
  BY TopTyped, ShellParts
<1>2. Popped(t) = [t EXCEPT !.env = e, !.scopes = q]
  BY DEF Popped, Shell
<1> HIDE DEF r
<1>3. DOMAIN e = D /\ \A n \in D : e[n] = IF n \in DOMAIN r THEN r[n] ELSE t.env[n]
  OBVIOUS
<1>4. e \in Env
  <2>1. D \subseteq Word
    BY <1>1, BindingsIs, EnvIs
  <2>2. ASSUME NEW n \in D
        PROVE  (IF n \in DOMAIN r THEN r[n] ELSE t.env[n]) \in Variable
    <3>1. CASE n \in DOMAIN r
      <4>1. r[n] \in BindingOf /\ r[n] # Unset
        BY <1>1, <3>1, BindingsIs
      <4>2. QED
        BY <3>1, <4>1 DEF BindingOf
    <3>2. CASE n \notin DOMAIN r
      BY <1>1, <3>2, EnvIs
    <3>3. QED
      BY <3>1, <3>2
  <2> HIDE DEF D
  <2>3. e \in [D -> Variable]
    BY <2>2
  <2> HIDE DEF e
  <2>4. QED
    BY <1>3, <2>1, <2>3, PartialIs DEF Env
<1>5. ASSUME NEW n \in DOMAIN r PROVE Binding(e, n) = r[n]
  <2>1. n \in D <=> r[n] # Unset
    BY <1>5
  <2> HIDE DEF D, e
  <2>2. QED
    BY <1>3, <1>5, <2>1 DEF Binding, IsSet
<1> HIDE DEF e, q
<1>6. LET u == Popped(t)
      IN  /\ u \in Shell /\ u.temps = t.temps /\ u.err = t.err /\ u.env = e
          /\ u.scopes = q
          /\ u.posix = t.posix /\ u.localvar_unset = t.localvar_unset
  BY <1>1, <1>2, <1>4 DEF Shell
<1>7. QED
  BY <1>5, <1>6 DEF r, q

LEMMA EnteredIs ==
  ASSUME NEW t \in Shell, NEW b, BoundTo(t, b)
  PROVE  LET u == Entered(b)
             none == [n \in {} |-> Unset]
         IN  /\ u \in Shell /\ u.env = b.s.env
             /\ u.scopes = Append(t.scopes, none) /\ none \in Bindings
             /\ u.temps = IF b.saved = <<>> THEN t.temps ELSE Append(t.temps, b.first)
<1> DEFINE none == [n \in {} |-> Unset]
           q == Append(t.scopes, none)
           o == Opened(b)
<1>1. /\ o \in Shell /\ o.env = b.s.env /\ o.scopes = t.scopes
      /\ o.temps = IF b.saved = <<>> THEN t.temps ELSE Append(t.temps, b.first)
  BY OpenedIs
<1>2. none \in Bindings
  <2>1. none \in [DOMAIN none -> BindingOf] /\ DOMAIN none = {}
    OBVIOUS
  <2> HIDE DEF none
  <2>2. QED
    BY <2>1, PartialIs DEF Bindings
<1>3. Entered(b) = [o EXCEPT !.scopes = Append(@, none)]
  BY DEF Entered
<1> HIDE DEF o, none
<1>4. q \in Seq(Bindings)
  BY <1>2, ShellParts
<1>5. Entered(b) = [o EXCEPT !.scopes = q]
  BY <1>1, <1>3 DEF Shell
<1>6. /\ Entered(b) \in Shell /\ Entered(b).env = o.env /\ Entered(b).scopes = q
      /\ Entered(b).temps = o.temps
  <2> HIDE DEF q
  <2> QED BY <1>1, <1>4, <1>5, ScopesIs
<1>7. QED
  BY <1>1, <1>2, <1>6 DEF none

\* A builtin with assignments before its name: it may leave one more local in
\* the current call, and the stack of assignments is as it was.
NewLocal(t, u, n, v) ==
  /\ InCall(t) /\ n \notin DOMAIN Top(t)
  /\ u.scopes = [t.scopes EXCEPT ![Len(t.scopes)] = Put(Top(t), n, v)]

LEMMA ExecuteIs ==
  ASSUME NEW t \in Shell, NEW p \in Prefix, NEW b \in Builtins
  PROVE  LET u == execute_builtin(t, p, b)
             o == Opened(Bound(t, p))
         IN  /\ u \in Shell /\ u.temps = t.temps
             /\ u.posix = t.posix /\ u.localvar_unset = t.localvar_unset
             /\ \/ u.scopes = t.scopes
                \/ \E n \in Word :
                     NewLocal(t, u, n, saved_local_restore_value(o, n))
<1> DEFINE c == Bound(t, p)
           o == Opened(c)
           r == RunBuiltin(o, b)
           keep == t.posix /\ b.op \in Special
           cl == Closed(r, c.saved, keep)
           u == execute_builtin(t, p, b)
<1>1. BoundTo(t, c)
  BY BoundIs
<1>2. \/ c.s.err = "limit" /\ u = c.s
      \/ c.s.err # "limit" /\ u = cl
  BY DEF execute_builtin
<1> HIDE DEF c, u
<1>3. CASE u = c.s
  <2>1. u \in Shell /\ Beside(t, u)
    BY <1>1, <1>3 DEF BoundTo
  <2>2. QED
    BY <2>1 DEF Beside, u
<1>4. CASE u = cl
  <2>1. /\ o \in Shell /\ o.env = c.s.env /\ o.scopes = t.scopes
        /\ o.posix = t.posix /\ o.localvar_unset = t.localvar_unset
        /\ o.temps = IF c.saved = <<>> THEN t.temps ELSE Append(t.temps, c.first)
    BY <1>1, OpenedIs
  <2> HIDE DEF o
  <2>2. PICK n \in Word : r \in Shell /\ Hides(o, r, n)
    BY <2>1, RunBuiltinServes DEF Serves
  <2> HIDE DEF r
  <2>3. /\ r.temps = o.temps /\ r.posix = o.posix
        /\ r.localvar_unset = o.localvar_unset
    BY <2>2 DEF Hides
  <2>4. /\ c.saved \in Saved /\ c.first \in Bindings /\ keep \in BOOLEAN
        /\ t.temps \in Seq(Bindings)
    BY <1>1, ShellParts DEF BoundTo
  <2> HIDE DEF keep
  <2>5. c.saved # <<>> => /\ r.temps # <<>>
                          /\ SubSeq(r.temps, 1, Len(r.temps) - 1) = t.temps
    <3> SUFFICES ASSUME c.saved # <<>>
                 PROVE  /\ r.temps # <<>>
                        /\ SubSeq(r.temps, 1, Len(r.temps) - 1) = t.temps
      OBVIOUS
    <3> DEFINE w == t.temps
               y == c.first
    <3>1. r.temps = Append(w, y) /\ w \in Seq(Bindings) /\ y \in Bindings
      BY <2>1, <2>3, <2>4
    <3> HIDE DEF w, y
    <3>2. Append(w, y) # <<>> /\ Len(Append(w, y)) - 1 = Len(w)
      BY ONLY <3>1
    <3>3. SubSeq(Append(w, y), 1, Len(w)) = w
      BY ONLY <3>1
    <3>4. QED
      BY <3>1, <3>2, <3>3 DEF w
  <2>6. /\ cl \in Shell /\ cl.scopes = r.scopes
        /\ cl.posix = r.posix /\ cl.localvar_unset = r.localvar_unset
        /\ cl.temps = t.temps
    <3>1. /\ cl \in Shell /\ cl.scopes = r.scopes
          /\ cl.posix = r.posix /\ cl.localvar_unset = r.localvar_unset
          /\ cl.temps = IF c.saved = <<>> THEN r.temps
                        ELSE SubSeq(r.temps, 1, Len(r.temps) - 1)
      BY <2>2, <2>4, <2>5, ClosedIs
    <3>2. QED
      BY <2>1, <2>3, <2>5, <3>1
  <2> HIDE DEF cl
  <2>7. \/ u.scopes = t.scopes
        \/ NewLocal(t, u, n, saved_local_restore_value(o, n))
    BY <1>4, <2>1, <2>2, <2>6 DEF Hides, NewLocal, InCall, IsLocal, Top
  <2>8. QED
    BY <1>4, <2>1, <2>3, <2>6, <2>7 DEF u, o, c
<1>5. QED
  BY <1>2, <1>3, <1>4

LEMMA SettledIs ==
  ASSUME NEW t \in Shell
  PROVE  LET u == Settled(t)
         IN  u \in Shell /\ u.env = t.env /\ Beside(t, u)
<1>1. t.err \in Error
  BY ShellParts
<1>2. QED
  BY <1>1 DEF Settled, Shell, Error, Beside

(***************************************************************************)
(* The inductive invariant: the bindings and the frames are well typed and *)
(* the two stacks belong to the open calls.                                *)
(***************************************************************************)
FrameOf == [saved : Saved, hid : Bindings]

Consistent(t, fs) ==
  /\ t \in Shell /\ fs \in Seq(FrameOf)
  /\ Len(t.scopes) = Len(fs)
  /\ Stacked(t.temps, fs)
  /\ \A i \in DOMAIN fs : Recalls(t.scopes[i], fs, i)

IInv == Consistent(s, frames)

\* Calls count: those that bind something, up to one of them.
LEMMA BindersFinite ==
  ASSUME NEW fs \in Seq(FrameOf), NEW S \in SUBSET (DOMAIN fs)
  PROVE  IsFiniteSet(S) /\ Cardinality(S) \in Nat
<1>1. IsFiniteSet(1..Len(fs)) /\ S \subseteq 1..Len(fs)
  BY FS_Interval
<1>2. QED
  BY <1>1, FS_Subset, FS_CardinalityType

\* The stack depends on what the frames save alone.
LEMMA StackedSame ==
  ASSUME NEW temps, NEW fs, NEW gs, Stacked(temps, fs), DOMAIN gs = DOMAIN fs,
         \A i \in DOMAIN fs : gs[i].saved = fs[i].saved
  PROVE  Stacked(temps, gs)
<1>1. Binders(gs) = Binders(fs)
  BY DEF Binders
<1>2. \A i : Depth(gs, i) = Depth(fs, i)
  BY <1>1 DEF Depth
<1>3. \A i \in Binders(fs) : \A n : Named(fs[i], n) => Named(gs[i], n)
  BY DEF Binders, Named
<1>4. QED
  BY <1>1, <1>2, <1>3 DEF Stacked

LEMMA StackedPush ==
  ASSUME NEW temps \in Seq(Bindings), NEW fs \in Seq(FrameOf), Stacked(temps, fs),
         NEW f \in FrameOf, NEW first \in Bindings,
         \A n \in DOMAIN first : Named(f, n)
  PROVE  Stacked(IF f.saved = <<>> THEN temps ELSE Append(temps, first), Append(fs, f))
<1> DEFINE gs == Append(fs, f)
           L == Len(fs) + 1
           q == IF f.saved = <<>> THEN temps ELSE Append(temps, first)
<1>1. /\ L \in DOMAIN gs /\ gs[L] = f /\ L \notin DOMAIN fs
      /\ \A i : i \in DOMAIN gs <=> i \in DOMAIN fs \/ i = L
      /\ \A i \in DOMAIN fs : gs[i] = fs[i] /\ i < L /\ i \in Nat
      /\ L \in Nat
  OBVIOUS
<1> HIDE DEF gs, L
<1>2. \A i : i \in Binders(gs) <=> i \in Binders(fs) \/ (i = L /\ f.saved # <<>>)
  BY <1>1 DEF Binders
<1>3. Binders(fs) \subseteq DOMAIN fs
  BY DEF Binders
<1>4. \A i \in Binders(fs) : Depth(gs, i) = Depth(fs, i)
  <2> SUFFICES ASSUME NEW i \in Binders(fs) PROVE Depth(gs, i) = Depth(fs, i)
    OBVIOUS
  <2>1. i < L /\ ~(L <= i)
    BY <1>1, <1>3
  <2>2. {j \in Binders(gs) : j <= i} = {j \in Binders(fs) : j <= i}
    BY <1>2, <2>1
  <2>3. QED
    BY <2>2 DEF Depth
<1>5. \A i \in Binders(fs) : \A n : Named(fs[i], n) => Named(gs[i], n)
  BY <1>1, <1>3
<1>6. IsFiniteSet(Binders(fs)) /\ Cardinality(Binders(fs)) \in Nat
  BY <1>3, BindersFinite
<1>7. CASE f.saved = <<>>
  <2>1. Binders(gs) = Binders(fs)
    BY <1>2, <1>7
  <2>2. Stacked(temps, gs)
    BY <1>4, <1>5, <2>1 DEF Stacked
  <2>3. QED
    BY <1>7, <2>2 DEF gs
<1>8. CASE f.saved # <<>>
  <2>1. /\ Cardinality(Binders(gs)) = Cardinality(Binders(fs)) + 1
    <3>1. Binders(gs) = Binders(fs) \cup {L} /\ L \notin Binders(fs)
      BY <1>1, <1>2, <1>3, <1>8
    <3>2. QED
      BY <1>6, <3>1, FS_AddElement
  <2>2. Depth(gs, L) = Len(temps) + 1
    <3>1. {j \in Binders(gs) : j <= L} = Binders(gs)
      BY <1>1, <1>2, <1>3
    <3>2. QED
      BY <2>1, <3>1 DEF Depth, Stacked
  <2> DEFINE tt == Append(temps, first)
             M == Len(temps) + 1
  <2>3. /\ Len(tt) = M /\ tt[M] = first
        /\ \A k : k \in DOMAIN tt <=> k \in DOMAIN temps \/ k = M
        /\ \A k \in DOMAIN temps : tt[k] = temps[k]
    OBVIOUS
  <2> HIDE DEF tt
  <2>4. Len(tt) = Cardinality(Binders(gs))
    BY <2>1, <2>3 DEF Stacked
  <2>5. ASSUME NEW k \in DOMAIN tt
        PROVE  \E i \in Binders(gs) :
                 Depth(gs, i) = k /\ \A n \in DOMAIN tt[k] : Named(gs[i], n)
    <3>1. CASE k \in DOMAIN temps
      <4>1. PICK i \in Binders(fs) :
              Depth(fs, i) = k /\ \A n \in DOMAIN temps[k] : Named(fs[i], n)
        BY <3>1 DEF Stacked
      <4>2. QED
        BY <1>2, <1>4, <1>5, <2>3, <3>1, <4>1
    <3>2. CASE k = M
      <4>1. L \in Binders(gs) /\ gs[L] = f
        BY <1>1, <1>2, <1>8
      <4>2. QED
        BY <2>2, <2>3, <3>2, <4>1
    <3>3. QED
      BY <2>3, <3>1, <3>2
  <2>6. Stacked(tt, gs)
    BY <2>4, <2>5 DEF Stacked
  <2>7. QED
    BY <1>8, <2>6 DEF tt, gs
<1>9. QED
  BY <1>7, <1>8

\* A sequence without its last element.
LEMMA Shorter ==
  ASSUME NEW S, NEW q \in Seq(S), q # <<>>
  PROVE  LET r == SubSeq(q, 1, Len(q) - 1)
         IN  /\ r \in Seq(S) /\ Len(r) = Len(q) - 1 /\ Len(q) \in Nat \ {0}
             /\ \A i : i \in DOMAIN r <=> i \in DOMAIN q /\ i # Len(q)
             /\ \A i \in DOMAIN r : r[i] = q[i]
<1> DEFINE m == Len(q) - 1
           r == SubSeq(q, 1, m)
<1>1. m \in Nat /\ Len(q) = m + 1 /\ \A i \in 1..m : q[i] \in S
  OBVIOUS
<1>2. DOMAIN q = 1..(m + 1)
  BY <1>1
<1>3. \A i \in 1..m : r[i] = q[i]
  BY <1>1
<1> HIDE DEF m
<1>4. r \in Seq(S) /\ Len(r) = IF 1 <= m THEN m - 1 + 1 ELSE 0
  BY <1>1, SubSeqProperties
<1> HIDE DEF r
<1>5. Len(r) = m /\ DOMAIN r = 1..m
  BY <1>1, <1>4
<1>6. \A i : i \in DOMAIN r <=> i \in DOMAIN q /\ i # Len(q)
  BY <1>1, <1>2, <1>5
<1>7. QED
  BY <1>1, <1>3, <1>4, <1>5, <1>6 DEF r, m

LEMMA StackedPop ==
  ASSUME NEW temps \in Seq(Bindings), NEW fs \in Seq(FrameOf), fs # <<>>,
         Stacked(temps, fs)
  PROVE  LET saved == fs[Len(fs)].saved
         IN  /\ saved # <<>> => temps # <<>>
             /\ Stacked(IF saved = <<>> THEN temps
                        ELSE SubSeq(temps, 1, Len(temps) - 1),
                        SubSeq(fs, 1, Len(fs) - 1))
<1> DEFINE L == Len(fs)
           gs == SubSeq(fs, 1, L - 1)
           saved == fs[L].saved
<1>1. /\ L \in DOMAIN fs /\ L \in Nat
      /\ \A i : i \in DOMAIN gs <=> i \in DOMAIN fs /\ i # L
      /\ \A i \in DOMAIN gs : gs[i] = fs[i]
      /\ \A i \in DOMAIN fs : i <= L /\ i \in Nat
  OBVIOUS
<1> HIDE DEF gs, L
<1>2. \A i : i \in Binders(gs) <=> i \in Binders(fs) /\ i # L
  BY <1>1 DEF Binders
<1>3. Binders(fs) \subseteq DOMAIN fs /\ (L \in Binders(fs) <=> saved # <<>>)
  BY <1>1 DEF Binders
<1>4. \A i \in Binders(gs) : Depth(gs, i) = Depth(fs, i)
  <2> SUFFICES ASSUME NEW i \in Binders(gs) PROVE Depth(gs, i) = Depth(fs, i)
    OBVIOUS
  <2>1. i < L /\ ~(L <= i)
    BY <1>1, <1>2, <1>3
  <2>2. {j \in Binders(gs) : j <= i} = {j \in Binders(fs) : j <= i}
    BY <1>2, <2>1
  <2>3. QED
    BY <2>2 DEF Depth
<1>5. \A i \in Binders(gs) : \A n : Named(fs[i], n) => Named(gs[i], n)
  BY <1>1 DEF Binders
<1>6. IsFiniteSet(Binders(fs)) /\ Cardinality(Binders(fs)) \in Nat
  BY <1>3, BindersFinite
<1>7. Cardinality(Binders(fs)) = Len(temps)
  BY DEF Stacked
<1>8. CASE saved = <<>>
  <2>1. Binders(gs) = Binders(fs)
    BY <1>2, <1>3, <1>8
  <2>2. Stacked(temps, gs)
    BY <1>4, <1>5, <2>1 DEF Stacked
  <2>3. QED
    BY <1>8, <2>2 DEF gs, L
<1>9. CASE saved # <<>>
  <2>1. temps # <<>>
    <3>1. Len(temps) # 0
      BY <1>3, <1>6, <1>7, <1>9, FS_EmptySet
    <3>2. QED
      BY <3>1
  <2>2. Cardinality(Binders(gs)) = Len(temps) - 1
    <3>1. Binders(gs) = Binders(fs) \ {L}
      BY <1>2
    <3>2. QED
      BY <1>3, <1>6, <1>7, <1>9, <3>1, FS_RemoveElement
  <2>3. Depth(fs, L) = Len(temps)
    <3>1. {j \in Binders(fs) : j <= L} = Binders(fs)
      BY <1>1, <1>3
    <3>2. QED
      BY <1>7, <3>1 DEF Depth
  <2> DEFINE tt == SubSeq(temps, 1, Len(temps) - 1)
  <2>4. /\ Len(tt) = Len(temps) - 1
        /\ \A k \in DOMAIN tt : k \in DOMAIN temps /\ k # Len(temps) /\ tt[k] = temps[k]
    BY <2>1, Shorter
  <2> HIDE DEF tt
  <2>5. ASSUME NEW k \in DOMAIN tt
        PROVE  \E i \in Binders(gs) :
                 Depth(gs, i) = k /\ \A n \in DOMAIN tt[k] : Named(gs[i], n)
    <3>1. PICK i \in Binders(fs) :
            Depth(fs, i) = k /\ \A n \in DOMAIN temps[k] : Named(fs[i], n)
      BY <2>4 DEF Stacked
    <3>2. i \in Binders(gs)
      BY <1>2, <2>3, <2>4, <3>1
    <3>3. QED
      BY <1>4, <1>5, <2>4, <3>1, <3>2
  <2>6. Stacked(tt, gs)
    BY <2>2, <2>4, <2>5 DEF Stacked
  <2>7. QED
    BY <1>9, <2>1, <2>6 DEF tt, gs, L
<1>10. QED
  BY <1>8, <1>9

\* What a local hides is what the name was before the builtin, unless a command
\* around it binds the name.
LEMMA RestoresBefore ==
  ASSUME NEW t \in Shell, NEW b, BoundTo(t, b), NEW n
  PROVE  \/ saved_local_restore_value(Opened(b), n) = Before(b, n)
         \/ \E k \in DOMAIN t.temps : n \in DOMAIN t.temps[k]
<1> DEFINE o == Opened(b)
           q == o.temps
           H == Hiding(q, n)
           k == CHOOSE i \in H : \A j \in H : j <= i
<1>1. /\ o \in Shell /\ o.env = b.s.env
      /\ q = IF b.saved = <<>> THEN t.temps ELSE Append(t.temps, b.first)
  BY OpenedIs
<1>2. /\ q \in Seq(Bindings) /\ t.temps \in Seq(Bindings) /\ b.saved \in Saved
      /\ Records(b.saved, b.first)
  BY <1>1, ShellParts DEF BoundTo
<1>3. saved_local_restore_value(o, n) = IF H # {} THEN q[k][n] ELSE Binding(b.s.env, n)
  <2> HIDE DEF o
  <2> QED BY <1>1 DEF saved_local_restore_value, current_temp_binding_original
<1> HIDE DEF o, q
<1>4. H \subseteq DOMAIN q /\ \A i : i \in H <=> i \in DOMAIN q /\ n \in DOMAIN q[i]
  BY DEF Hiding
<1>5. b.saved = <<>> => n \notin DOMAIN b.first
  BY <1>2 DEF Records
<1>6. CASE n \in DOMAIN b.first
  <2>1. b.saved # <<>> /\ q = Append(t.temps, b.first)
    BY <1>1, <1>5, <1>6
  <2> DEFINE M == Len(t.temps) + 1
  <2>2. M \in DOMAIN q /\ q[M] = b.first /\ \A i \in DOMAIN q : i <= M
    BY <1>2, <2>1
  <2>3. M \in H /\ H # {}
    BY <1>4, <1>6, <2>2
  <2>4. k \in H /\ \A j \in H : j <= k
    <3> HIDE DEF H
    <3> QED BY <1>2, <1>4, <2>3, Innermost
  <2> HIDE DEF k, H
  <2>5. k = M
    <3>1. k \in Nat /\ M \in Nat /\ k <= M /\ M <= k
      BY <1>2, <1>4, <2>2, <2>3, <2>4
    <3>2. QED
      BY <3>1
  <2>6. QED
    BY <1>3, <1>6, <2>2, <2>3, <2>5 DEF Before, o
<1>7. CASE n \notin DOMAIN b.first /\ H = {}
  <2>1. Before(b, n) = Binding(b.s.env, n)
    BY <1>7 DEF Before
  <2>2. QED
    BY <1>3, <1>7, <2>1 DEF o
<1>8. CASE n \notin DOMAIN b.first /\ H # {}
  <2>1. PICK i \in DOMAIN q : n \in DOMAIN q[i]
    BY <1>4, <1>8
  <2>2. i \in DOMAIN t.temps /\ q[i] = t.temps[i]
    <3>1. CASE b.saved = <<>>
      BY <1>1, <2>1, <3>1
    <3>2. CASE b.saved # <<>>
      <4>1. q = Append(t.temps, b.first)
        BY <1>1, <3>2
      <4>2. i = Len(t.temps) + 1 \/ (i \in DOMAIN t.temps /\ q[i] = t.temps[i])
        BY <1>2, <2>1, <4>1
      <4>3. q[Len(t.temps) + 1] = b.first
        BY <1>2, <4>1
      <4>4. QED
        BY <1>8, <2>1, <4>2, <4>3
    <3>3. QED
      BY <3>1, <3>2
  <2>3. QED
    BY <2>1, <2>2
<1>9. QED
  BY <1>6, <1>7, <1>8

LEMMA HiddenIs ==
  ASSUME NEW t \in Shell, NEW b, BoundTo(t, b), NEW u \in Shell, InCall(u),
         NEW fs \in Seq(FrameOf), fs # <<>>
  PROVE  LET gs == Hidden(fs, b, u)
             L == Len(fs)
             h == gs[L].hid
         IN  /\ gs \in Seq(FrameOf) /\ DOMAIN gs = DOMAIN fs /\ Len(gs) = L
             /\ \A i \in DOMAIN fs : gs[i].saved = fs[i].saved
             /\ \A i \in DOMAIN fs : i # L => gs[i] = fs[i]
             /\ \A n : n \in DOMAIN h <=> n \in DOMAIN fs[L].hid \/ n \in DOMAIN Top(u)
             /\ \A n \in DOMAIN h : h[n] = IF n \in DOMAIN fs[L].hid THEN fs[L].hid[n]
                                           ELSE Before(b, n)
<1> DEFINE L == Len(fs)
           hid == fs[L].hid
           D == DOMAIN hid \cup DOMAIN Top(u)
           h == [n \in D |-> IF n \in DOMAIN hid THEN hid[n] ELSE Before(b, n)]
           f == [saved |-> fs[L].saved, hid |-> h]
           gs == Hidden(fs, b, u)
<1>1. L \in DOMAIN fs /\ fs[L] \in FrameOf
  OBVIOUS
<1>2. hid \in Bindings /\ fs[L].saved \in Saved /\ Top(u) \in Bindings
  BY <1>1, TopTyped DEF FrameOf
<1>3. gs = [fs EXCEPT ![L] = f]
  BY <1>1 DEF Hidden
<1> HIDE DEF hid
<1>4. \A n : Before(b, n) \in BindingOf
  <2>1. b.first \in Bindings /\ b.s.env \in Env
    BY ShellParts DEF BoundTo
  <2>2. QED
    BY <2>1, BindingsIs, BindingTyped DEF Before
<1>5. h \in Bindings /\ DOMAIN h = D
  <2>1. D \subseteq Word
    BY <1>2, BindingsIs
  <2>2. \A n \in DOMAIN hid : hid[n] \in BindingOf
    BY <1>2, BindingsIs
  <2> HIDE DEF D
  <2>3. h \in [D -> BindingOf] /\ DOMAIN h = D
    BY <1>4, <2>2
  <2> HIDE DEF h
  <2>4. QED
    BY <2>1, <2>3, PartialIs DEF Bindings
<1>6. \A n \in D : h[n] = IF n \in DOMAIN hid THEN hid[n] ELSE Before(b, n)
  OBVIOUS
<1>7. \A n : n \in D <=> n \in DOMAIN hid \/ n \in DOMAIN Top(u)
  OBVIOUS
<1> HIDE DEF h, D
<1>8. f \in FrameOf /\ f.hid = h /\ f.saved = fs[L].saved
  BY <1>2, <1>5 DEF FrameOf
<1> HIDE DEF f, gs
<1>9. /\ gs \in Seq(FrameOf) /\ DOMAIN gs = DOMAIN fs /\ Len(gs) = L
      /\ gs[L] = f /\ \A i \in DOMAIN fs : i # L => gs[i] = fs[i]
  BY <1>1, <1>3, <1>8
<1>10. QED
  BY <1>5, <1>6, <1>7, <1>8, <1>9 DEF gs, hid

\* What a call recalls depends on its own frame and on what those around save.
LEMMA RecallsSame ==
  ASSUME NEW locals, NEW fs, NEW gs, NEW i \in Nat, Recalls(locals, fs, i),
         gs[i] = fs[i], \A j \in 1..i : gs[j].saved = fs[j].saved
  PROVE  Recalls(locals, gs, i)
<1>1. \A j \in 1..i : \A n : Named(fs[j], n) => Named(gs[j], n)
  BY DEF Named
<1>2. \A n : Named(gs[i], n) <=> Named(fs[i], n)
  BY DEF Named
<1>3. QED
  BY <1>1, <1>2 DEF Recalls

LEMMA RecallsTop ==
  ASSUME NEW t \in Shell, NEW b, BoundTo(t, b), NEW u \in Shell,
         NEW fs \in Seq(FrameOf), fs # <<>>,
         Len(t.scopes) = Len(fs), InCall(t), InCall(u),
         Stacked(t.temps, fs), Recalls(Top(t), fs, Len(fs)),
         \/ Top(u) = Top(t)
         \/ \E n \in Word : /\ n \notin DOMAIN Top(t)
                            /\ Top(u) = Put(Top(t), n,
                                            saved_local_restore_value(Opened(b), n))
  PROVE  Recalls(Top(u), Hidden(fs, b, u), Len(fs))
<1> DEFINE gs == Hidden(fs, b, u)
           L == Len(fs)
           f == fs[L]
           g == gs[L]
           r == Top(t)
           q == Top(u)
<1>1. /\ \A i \in DOMAIN fs : gs[i].saved = fs[i].saved
      /\ \A n : n \in DOMAIN g.hid <=> n \in DOMAIN f.hid \/ n \in DOMAIN q
      /\ \A n \in DOMAIN g.hid : g.hid[n] = IF n \in DOMAIN f.hid THEN f.hid[n]
                                            ELSE Before(b, n)
  <2> HIDE DEF r, q, f, g
  <2>1. /\ \A i \in DOMAIN fs : gs[i].saved = fs[i].saved
        /\ \A n : n \in DOMAIN gs[L].hid <=> n \in DOMAIN fs[L].hid \/ n \in DOMAIN Top(u)
        /\ \A n \in DOMAIN gs[L].hid : gs[L].hid[n] =
             IF n \in DOMAIN fs[L].hid THEN fs[L].hid[n] ELSE Before(b, n)
    <3>1. /\ BoundTo(t, b) /\ InCall(u) /\ fs # <<>>
          /\ t \in Shell /\ u \in Shell /\ fs \in Seq(FrameOf)
      OBVIOUS
    <3> DEFINE h == gs[L].hid
    <3>2. \A i \in DOMAIN fs : gs[i].saved = fs[i].saved
      BY ONLY <3>1, HiddenIs
    <3>3. \A n : n \in DOMAIN h <=> n \in DOMAIN fs[L].hid \/ n \in DOMAIN Top(u)
      BY ONLY <3>1, HiddenIs
    <3>4. \A n \in DOMAIN h : h[n] = IF n \in DOMAIN fs[L].hid THEN fs[L].hid[n]
                                           ELSE Before(b, n)
      BY ONLY <3>1, HiddenIs
    <3>5. QED
      BY <3>2, <3>3, <3>4
  <2>2. QED
    BY <2>1 DEF q, f, g
<1>2. L \in DOMAIN fs /\ DOMAIN fs = 1..L /\ L \in Nat
  OBVIOUS
<1> HIDE DEF gs, L
<1>3. \A j \in DOMAIN fs : \A n : Named(gs[j], n) <=> Named(fs[j], n)
  BY <1>1 DEF Named
<1>4. g.saved = f.saved
  BY <1>1, <1>2
<1> HIDE DEF r, q
<1>5. /\ \A n \in DOMAIN f.hid : Named(f, n) \/ n \in DOMAIN r
      /\ \A n \in DOMAIN r : n \in DOMAIN f.hid
      /\ \A n \in DOMAIN r : (\E j \in 1..L : Named(fs[j], n)) \/ r[n] = f.hid[n]
  BY DEF Recalls, r, L
<1>6. /\ \A n \in DOMAIN r : n \in DOMAIN q /\ q[n] = r[n]
      /\ \A n \in DOMAIN q : n \in DOMAIN r \/ q[n] = saved_local_restore_value(Opened(b), n)
  <2>1. CASE q = r
    BY <2>1
  <2>2. CASE \E n \in Word : /\ n \notin DOMAIN r
                             /\ q = Put(r, n, saved_local_restore_value(Opened(b), n))
    BY <2>2, PutIs
  <2>3. QED
    BY <2>1, <2>2 DEF q, r
<1>7. \A n \in DOMAIN g.hid : Named(g, n) \/ n \in DOMAIN q
  BY <1>1, <1>2, <1>3, <1>5, <1>6
<1>8. \A n \in DOMAIN q : n \in DOMAIN g.hid
  BY <1>1
<1>9. ASSUME NEW j \in DOMAIN g.saved,
             \A k \in DOMAIN g.saved : k < j => g.saved[k][1] # g.saved[j][1]
      PROVE  g.hid[g.saved[j][1]] = g.saved[j][2]
  <2>2. f.hid[f.saved[j][1]] = f.saved[j][2]
    BY <1>4, <1>9 DEF Recalls, L
  <2>3. f.saved[j][1] \in DOMAIN f.hid
    BY <1>4 DEF Recalls, L
  <2>4. QED
    BY <1>1, <1>4, <2>2, <2>3
<1>12. \A j \in DOMAIN g.saved : g.saved[j][1] \in DOMAIN g.hid
  BY <1>1, <1>4 DEF Recalls, L
<1>10. ASSUME NEW n \in DOMAIN q
       PROVE  (\E j \in 1..L : Named(gs[j], n)) \/ q[n] = g.hid[n]
  <2>1. CASE n \in DOMAIN r
    BY <1>1, <1>2, <1>3, <1>5, <1>6, <1>8, <2>1
  <2>2. CASE n \notin DOMAIN r /\ n \in DOMAIN f.hid
    BY <1>2, <1>3, <1>5, <2>2
  <2>3. CASE n \notin DOMAIN r /\ n \notin DOMAIN f.hid
    <3>1. g.hid[n] = Before(b, n)
      BY <1>1, <2>3
    <3>2. q[n] = saved_local_restore_value(Opened(b), n)
      BY <1>6, <2>3
    <3>3. CASE \E k \in DOMAIN t.temps : n \in DOMAIN t.temps[k]
      <4>1. PICK i \in Binders(fs) : Named(fs[i], n)
        BY <3>3 DEF Stacked
      <4>2. i \in 1..L
        BY <1>2 DEF Binders
      <4>3. QED
        BY <1>2, <1>3, <4>1, <4>2
    <3>4. QED
      BY <3>1, <3>2, <3>3, RestoresBefore
  <2>4. QED
    BY <2>1, <2>2, <2>3
<1>11. QED
  BY <1>7, <1>8, <1>9, <1>10, <1>12 DEF Recalls, gs, L, q

\* A step that leaves the frames and the two stacks as they are keeps it.
LEMMA BesideConsistent ==
  ASSUME NEW t, NEW fs, Consistent(t, fs), NEW u \in Shell, Beside(t, u)
  PROVE  Consistent(u, fs)
BY DEF Consistent, Beside

LEMMA InitConsistent == Init => Consistent(s, frames)
<1> SUFFICES ASSUME Init PROVE Consistent(s, frames)
  OBVIOUS
<1>1. frames = <<>> /\ frames \in Seq(FrameOf) /\ DOMAIN frames = {} /\ Len(frames) = 0
  BY DEF Init
<1>2. PICK o \in Options : s = [Start EXCEPT !.posix = o[1], !.localvar_unset = o[2]]
  BY DEF Init
<1>3. o[1] \in BOOLEAN /\ o[2] \in BOOLEAN
  BY ScriptAssumption
<1>4. Start.env \in Env
  <2> DEFINE none == [n \in {} |-> Unset]
  <2>1. none \in [DOMAIN none -> Variable] /\ DOMAIN none = {}
    OBVIOUS
  <2>2. none = Start.env
    BY DEF Start
  <2> HIDE DEF none
  <2>3. QED
    BY <2>1, <2>2, PartialIs DEF Env
<1>5. Start \in Shell /\ Start.scopes = <<>> /\ Start.temps = <<>>
  BY <1>4 DEF Start, Shell, Error
<1> HIDE DEF Start
<1>6. s \in Shell /\ s.scopes = <<>> /\ s.temps = <<>>
  BY <1>2, <1>3, <1>5 DEF Shell
<1>7. Stacked(<<>>, frames)
  <2>1. Binders(frames) = {}
    BY <1>1 DEF Binders
  <2>2. QED
    BY <2>1, FS_EmptySet DEF Stacked
<1>8. QED
  BY <1>1, <1>6, <1>7 DEF Consistent

LEMMA AssignConsistent ==
  ASSUME Consistent(s, frames), Assign
  PROVE  Consistent(s', frames')
<1>1. PICK a \in Assignment :
        s' = Settled(With(s, apply_assignment(s.env, a))) /\ frames' = frames
  BY DEF Assign
<1> DEFINE r == apply_assignment(s.env, a)
           u == With(s, r)
           v == Settled(u)
<1>2. s \in Shell /\ s.env \in Env
  BY ShellParts DEF Consistent
<1>3. r \in Outcome
  BY <1>2, ScriptAssumption, AssignmentKeeps
<1> HIDE DEF r
<1>4. u \in Shell /\ Beside(s, u)
  BY <1>2, <1>3, WithIs DEF Beside
<1> HIDE DEF u
<1>5. v \in Shell /\ Beside(u, v)
  BY <1>4, SettledIs
<1> HIDE DEF v
<1>6. Consistent(v, frames)
  BY <1>4, <1>5, BesideConsistent
<1>7. s' = v
  BY <1>1 DEF v, u, r
<1>8. QED
  BY <1>1, <1>6, <1>7

LEMMA BuiltinConsistent ==
  ASSUME Consistent(s, frames), Builtin
  PROVE  Consistent(s', frames')
<1>1. PICK b \in Builtins, p \in Prefix :
        /\ s' = Settled(execute_builtin(s, p, b))
        /\ frames' = Hidden(frames, Bound(s, p), s')
  BY DEF Builtin
<1> DEFINE c == Bound(s, p)
           e == execute_builtin(s, p, b)
           u == Settled(e)
           gs == Hidden(frames, c, u)
           L == Len(frames)
<1>2. /\ s \in Shell /\ frames \in Seq(FrameOf) /\ Len(s.scopes) = Len(frames)
      /\ Stacked(s.temps, frames)
      /\ \A i \in DOMAIN frames : Recalls(s.scopes[i], frames, i)
      /\ s.scopes \in Seq(Bindings)
  BY ShellParts DEF Consistent
<1>3. BoundTo(s, c)
  BY <1>2, BoundIs
<1>4. /\ e \in Shell /\ e.temps = s.temps
      /\ \/ e.scopes = s.scopes
         \/ \E n \in Word : NewLocal(s, e, n, saved_local_restore_value(Opened(c), n))
  BY <1>2, ExecuteIs
<1> HIDE DEF c, e
<1>5. u \in Shell /\ u.scopes = e.scopes /\ u.temps = e.temps
  BY <1>4, SettledIs DEF Beside
<1> HIDE DEF u
<1>6. u.scopes \in Seq(Bindings)
  BY <1>5, ShellParts
<1>7. s' = u /\ frames' = gs
  BY <1>1 DEF u, gs, c, e
<1>8. CASE frames = <<>>
  <2>1. ~InCall(s) /\ gs = frames
    BY <1>2, <1>8 DEF InCall, Hidden
  <2>2. u.scopes = s.scopes /\ u.temps = s.temps
    BY <1>4, <1>5, <2>1 DEF NewLocal
  <2>3. Consistent(u, frames)
    BY <1>5, <2>2 DEF Consistent
  <2>4. QED
    BY <1>7, <2>1, <2>3
<1>9. CASE frames # <<>>
  <2>1. InCall(s) /\ L \in DOMAIN s.scopes /\ L = Len(s.scopes) /\ L \in Nat
    BY <1>2, <1>9 DEF InCall
  <2>2. /\ Len(u.scopes) = L
        /\ \A i \in DOMAIN frames : i # L => u.scopes[i] = s.scopes[i]
        /\ \/ u.scopes[L] = s.scopes[L]
           \/ \E n \in Word :
                /\ n \notin DOMAIN s.scopes[L]
                /\ u.scopes[L] = Put(s.scopes[L], n,
                                     saved_local_restore_value(Opened(c), n))
    <3>1. CASE e.scopes = s.scopes
      BY <1>5, <2>1, <3>1
    <3>2. CASE \E n \in Word : NewLocal(s, e, n, saved_local_restore_value(Opened(c), n))
      <4>1. PICK n \in Word : NewLocal(s, e, n, saved_local_restore_value(Opened(c), n))
        BY <3>2
      <4> DEFINE v == saved_local_restore_value(Opened(c), n)
                 new == Put(s.scopes[L], n, v)
      <4>2. /\ n \notin DOMAIN s.scopes[L]
            /\ u.scopes = [s.scopes EXCEPT ![L] = new]
        BY <1>5, <2>1, <4>1 DEF NewLocal, Top
      <4> HIDE DEF new
      <4>3. /\ Len(u.scopes) = L /\ u.scopes[L] = new
            /\ \A i \in DOMAIN frames : i # L => u.scopes[i] = s.scopes[i]
        BY <1>2, <2>1, <4>2
      <4>4. QED
        BY <4>2, <4>3 DEF new
    <3>3. QED
      BY <1>4, <3>1, <3>2
  <2>3. InCall(u) /\ Top(u) = u.scopes[L] /\ Top(s) = s.scopes[L]
    BY <1>6, <2>1, <2>2 DEF InCall, Top
  <2>4. /\ gs \in Seq(FrameOf) /\ DOMAIN gs = DOMAIN frames /\ Len(gs) = L
        /\ \A i \in DOMAIN frames : gs[i].saved = frames[i].saved
        /\ \A i \in DOMAIN frames : i # L => gs[i] = frames[i]
    BY <1>2, <1>3, <1>5, <1>9, <2>3, HiddenIs
  <2>5. Stacked(u.temps, gs)
    BY <1>2, <1>4, <1>5, <2>4, StackedSame
  <2>6. Recalls(u.scopes[L], gs, L)
    <3>1. Recalls(Top(s), frames, L)
      BY <1>2, <2>1, <2>3
    <3>2. \/ Top(u) = Top(s)
          \/ \E n \in Word : /\ n \notin DOMAIN Top(s)
                             /\ Top(u) = Put(Top(s), n,
                                             saved_local_restore_value(Opened(c), n))
      BY <2>2, <2>3
    <3>3. Recalls(Top(u), gs, L)
      BY <1>2, <1>3, <1>5, <1>9, <2>1, <2>3, <3>1, <3>2, RecallsTop
    <3>4. QED
      BY <2>3, <3>3
  <2> HIDE DEF gs, L
  <2>7. ASSUME NEW i \in DOMAIN frames, i # L
        PROVE  Recalls(u.scopes[i], gs, i)
    <3>1. i \in Nat /\ \A j \in 1..i : j \in DOMAIN frames
      BY <1>2
    <3>2. Recalls(u.scopes[i], frames, i)
      BY <1>2, <2>2, <2>7
    <3>3. QED
      BY <2>4, <2>7, <3>1, <3>2, RecallsSame
  <2>8. \A i \in DOMAIN gs : Recalls(u.scopes[i], gs, i)
    BY <2>4, <2>6, <2>7
  <2>9. Consistent(u, gs)
    BY <1>5, <2>2, <2>4, <2>5, <2>8 DEF Consistent
  <2>10. QED
    BY <1>7, <2>9
<1>10. QED
  BY <1>8, <1>9

LEMMA EnterConsistent ==
  ASSUME NEW t, NEW fs, Consistent(t, fs), NEW b, BoundTo(t, b)
  PROVE  Consistent(Entered(b), Append(fs, Frame(b)))
<1> DEFINE u == Entered(b)
           f == Frame(b)
           gs == Append(fs, f)
           L == Len(fs) + 1
           none == [n \in {} |-> Unset]
<1>1. /\ t \in Shell /\ fs \in Seq(FrameOf) /\ Len(t.scopes) = Len(fs)
      /\ Stacked(t.temps, fs) /\ \A i \in DOMAIN fs : Recalls(t.scopes[i], fs, i)
      /\ t.scopes \in Seq(Bindings) /\ t.temps \in Seq(Bindings)
  BY ShellParts DEF Consistent
<1>2. /\ b.saved \in Saved /\ b.first \in Bindings /\ Records(b.saved, b.first)
  BY DEF BoundTo
<1>3. f \in FrameOf /\ f.saved = b.saved /\ f.hid = b.first
  BY <1>2 DEF Frame, FrameOf
<1>4. /\ u \in Shell /\ u.scopes = Append(t.scopes, none) /\ none \in Bindings
      /\ u.temps = IF b.saved = <<>> THEN t.temps ELSE Append(t.temps, b.first)
  BY <1>1, EnteredIs
<1>5. DOMAIN none = {}
  OBVIOUS
<1> HIDE DEF u, f, none
<1>6. /\ gs \in Seq(FrameOf) /\ L \in DOMAIN gs /\ gs[L] = f /\ Len(gs) = L
      /\ L \in Nat
      /\ \A i \in DOMAIN gs : i = L \/ i \in DOMAIN fs
      /\ \A i \in DOMAIN fs : gs[i] = fs[i] /\ i \in Nat /\ \A j \in 1..i : j \in DOMAIN fs
  <2>1. fs \in Seq(FrameOf) /\ f \in FrameOf
    BY <1>1, <1>3
  <2>2. gs \in Seq(FrameOf) /\ Len(gs) = L /\ L \in Nat
    BY ONLY <2>1
  <2>3. gs[L] = f
    BY ONLY <2>1
  <2>4. \A i \in DOMAIN fs : gs[i] = fs[i]
    BY ONLY <2>1
  <2>5. L \in DOMAIN gs /\ \A i \in DOMAIN gs : i = L \/ i \in DOMAIN fs
    BY ONLY <2>1
  <2>6. \A i \in DOMAIN fs : i \in Nat /\ \A j \in 1..i : j \in DOMAIN fs
    BY ONLY <2>1
  <2>7. QED
    BY <2>2, <2>3, <2>4, <2>5, <2>6
<1>7. /\ Len(u.scopes) = L /\ u.scopes[L] = none
      /\ \A i \in DOMAIN fs : u.scopes[i] = t.scopes[i]
  BY <1>1, <1>4
<1>8. Stacked(u.temps, gs)
  <2>1. \A n \in DOMAIN b.first : Named(f, n)
    BY <1>2, <1>3 DEF Records, Named
  <2>2. QED
    BY <1>1, <1>2, <1>3, <1>4, <2>1, StackedPush
<1> HIDE DEF gs, L
<1>9. Recalls(none, gs, L)
  <2>1. \A n \in DOMAIN f.hid : Named(f, n)
    BY <1>2, <1>3 DEF Records, Named
  <2>2. \A j \in DOMAIN f.saved : f.saved[j][1] \in DOMAIN f.hid
    BY <1>2, <1>3 DEF Records
  <2>3. \A j \in DOMAIN f.saved :
          (\A k \in DOMAIN f.saved : k < j => f.saved[k][1] # f.saved[j][1])
            => f.hid[f.saved[j][1]] = f.saved[j][2]
    BY <1>2, <1>3 DEF Records
  <2>4. QED
    BY <1>5, <1>6, <2>1, <2>2, <2>3 DEF Recalls
<1>10. ASSUME NEW i \in DOMAIN fs PROVE Recalls(u.scopes[i], gs, i)
  <2>1. Recalls(u.scopes[i], fs, i)
    BY <1>1, <1>7
  <2>2. QED
    BY <1>6, <2>1, RecallsSame
<1>11. \A i \in DOMAIN gs : Recalls(u.scopes[i], gs, i)
  BY <1>6, <1>7, <1>9, <1>10
<1>12. QED
  BY <1>4, <1>6, <1>7, <1>8, <1>11 DEF Consistent, u, gs, f

LEMMA CallConsistent ==
  ASSUME Consistent(s, frames), Call
  PROVE  Consistent(s', frames')
<1>1. PICK p \in Prefix : \E b \in {Bound(s, p)} :
        IF b.s.err = "limit" THEN s' = b.s /\ UNCHANGED frames
        ELSE /\ s' = Entered(b)
             /\ frames' = Append(frames, Frame(b))
  BY DEF Call
<1> DEFINE c == Bound(s, p)
<1>2. \/ s' = c.s /\ frames' = frames
      \/ s' = Entered(c) /\ frames' = Append(frames, Frame(c))
  BY <1>1
<1>3. BoundTo(s, c)
  BY BoundIs DEF Consistent
<1> HIDE DEF c
<1>4. Consistent(c.s, frames)
  BY <1>3, BesideConsistent DEF BoundTo
<1>5. Consistent(Entered(c), Append(frames, Frame(c)))
  BY <1>3, EnterConsistent
<1>6. QED
  BY <1>2, <1>4, <1>5

LEMMA ReturnConsistent ==
  ASSUME NEW t, NEW fs, Consistent(t, fs), fs # <<>>
  PROVE  Consistent(Closed(Popped(t), fs[Len(fs)].saved, FALSE),
                    SubSeq(fs, 1, Len(fs) - 1))
<1> DEFINE L == Len(fs)
           saved == fs[L].saved
           o == Popped(t)
           u == Closed(o, saved, FALSE)
           gs == SubSeq(fs, 1, L - 1)
<1>1. /\ t \in Shell /\ fs \in Seq(FrameOf) /\ Len(t.scopes) = L
      /\ Stacked(t.temps, fs) /\ \A i \in DOMAIN fs : Recalls(t.scopes[i], fs, i)
      /\ t.scopes \in Seq(Bindings) /\ t.temps \in Seq(Bindings)
  BY ShellParts DEF Consistent
<1>2. L \in Nat \ {0} /\ L \in DOMAIN fs /\ InCall(t)
  BY <1>1 DEF InCall
<1>3. /\ o \in Shell /\ o.temps = t.temps
      /\ o.scopes = SubSeq(t.scopes, 1, L - 1)
  BY <1>1, <1>2, PoppedIs
<1>4. saved \in Saved
  <2>1. fs[L] \in FrameOf
    BY <1>1, <1>2
  <2>2. QED
    BY <2>1 DEF FrameOf
<1>5. /\ saved # <<>> => t.temps # <<>>
      /\ Stacked(IF saved = <<>> THEN t.temps
                 ELSE SubSeq(t.temps, 1, Len(t.temps) - 1), gs)
  BY <1>1, StackedPop
<1>6. /\ gs \in Seq(FrameOf) /\ Len(gs) = L - 1
      /\ \A i \in DOMAIN gs : /\ i \in DOMAIN fs /\ gs[i] = fs[i] /\ i \in Nat
                              /\ \A j \in 1..i : gs[j] = fs[j]
  <2>1. /\ gs \in Seq(FrameOf) /\ Len(gs) = L - 1
        /\ \A i \in DOMAIN gs : i \in DOMAIN fs /\ gs[i] = fs[i]
    BY <1>1, Shorter
  <2> HIDE DEF gs
  <2>2. \A i \in DOMAIN gs : i \in Nat /\ \A j \in 1..i : j \in DOMAIN gs
    BY <2>1
  <2>3. QED
    BY <2>1, <2>2
<1> HIDE DEF saved, o, gs
<1>7. /\ u \in Shell /\ u.scopes = o.scopes
      /\ u.temps = IF saved = <<>> THEN o.temps
                   ELSE SubSeq(o.temps, 1, Len(o.temps) - 1)
  BY <1>3, <1>4, <1>5, ClosedIs
<1> HIDE DEF u
<1>8. Stacked(u.temps, gs)
  BY <1>3, <1>5, <1>7
<1>9. /\ Len(u.scopes) = L - 1
      /\ \A i \in DOMAIN gs : u.scopes[i] = t.scopes[i]
  <2> DEFINE q == SubSeq(t.scopes, 1, L - 1)
  <2>1. /\ q \in Seq(Bindings) /\ Len(q) = L - 1
        /\ \A i \in DOMAIN q : q[i] = t.scopes[i]
    <3>1. t.scopes # <<>>
      BY <1>2 DEF InCall
    <3>2. QED
      BY <1>1, <3>1, Shorter
  <2>2. u.scopes = q
    BY <1>3, <1>7
  <2> HIDE DEF q
  <2>3. DOMAIN q = 1..(L - 1) /\ DOMAIN gs = 1..(L - 1)
    BY <1>6, <2>1
  <2>4. QED
    BY <2>1, <2>2, <2>3
<1>10. ASSUME NEW i \in DOMAIN gs PROVE Recalls(u.scopes[i], gs, i)
  <2>1. Recalls(t.scopes[i], fs, i) /\ u.scopes[i] = t.scopes[i]
    BY <1>1, <1>6, <1>9
  <2>2. QED
    BY <1>6, <2>1, RecallsSame
<1>11. QED
  BY <1>6, <1>7, <1>8, <1>9, <1>10 DEF Consistent, u, gs, saved, o

\* Every step keeps the invariant.
LEMMA IInvStep == IInv /\ [Next]_vars => IInv'
<1> SUFFICES ASSUME IInv, [Next]_vars PROVE IInv'
  OBVIOUS
<1>1. Consistent(s, frames)
  BY DEF IInv
<1>2. CASE Assign
  BY <1>1, <1>2, AssignConsistent DEF IInv
<1>3. CASE Builtin
  BY <1>1, <1>3, BuiltinConsistent DEF IInv
<1>4. CASE Call
  BY <1>1, <1>4, CallConsistent DEF IInv
<1>5. CASE Return
  <2>1. /\ frames # <<>>
        /\ s' = Closed(Popped(s), frames[Len(frames)].saved, FALSE)
        /\ frames' = SubSeq(frames, 1, Len(frames) - 1)
    BY <1>5 DEF Return
  <2>2. QED
    BY <1>1, <2>1, ReturnConsistent DEF IInv
<1>6. CASE NextScript
  <2> DEFINE u == [s EXCEPT !.err = "ok"]
  <2>1. s' = u /\ frames' = frames
    BY <1>6 DEF NextScript
  <2>2. u \in Shell /\ Beside(s, u)
    BY <1>1 DEF Consistent, Shell, Error, Beside
  <2> HIDE DEF u
  <2>3. Consistent(u, frames)
    BY <1>1, <2>2, BesideConsistent
  <2>4. QED
    BY <2>1, <2>3 DEF IInv
<1>7. CASE UNCHANGED vars
  BY <1>1, <1>7 DEF IInv, vars
<1>8. QED
  BY <1>2, <1>3, <1>4, <1>5, <1>6, <1>7 DEF Next

LEMMA IInvAlways == Spec => []IInv
<1>1. Init => IInv
  BY InitConsistent DEF IInv
<1>2. QED
  BY <1>1, IInvStep, PTL DEF Spec

\* In every reachable state each variable has a kind, attributes and values of
\* its kind, there is one scope per open call, and the stack of what commands'
\* assignments hide (temp_binding_scopes) has one entry per open call that has
\* assignments: what a return pops is always the returning call's own.
THEOREM TypeCorrect == Spec => []TypeOK
<1>1. IInv => TypeOK
  <2> SUFFICES ASSUME IInv PROVE TypeOK
    OBVIOUS
  <2>1. s.env \in Env
    BY ShellParts DEF IInv, Consistent
  <2>2. ASSUME NEW n \in DOMAIN s.env
        PROVE  /\ s.env[n].kind \in Kind /\ s.env[n].attrs \subseteq Attr
               /\ s.env[n].kind = "scalar" => DOMAIN s.env[n].at = {0}
               /\ \A k \in DOMAIN s.env[n].at : s.env[n].at[k] \in Word
    <3> DEFINE v == s.env[n]
    <3>1. v \in Variable
      BY <2>1, EnvIs
    <3> HIDE DEF v
    <3>2. /\ v.kind \in Kind /\ v.at \in Partial(Int, Word) /\ v.attrs \in SUBSET Attr
          /\ v.kind = "scalar" => DOMAIN v.at = {0}
      BY <3>1, VariableParts DEF Fits
    <3>3. v.at \in [DOMAIN v.at -> Word]
      BY <3>2, PartialIs
    <3>4. QED
      BY <3>2, <3>3 DEF v
  <2>3. QED
    BY <2>2 DEF TypeOK, IInv, Consistent
<1>2. QED
  BY <1>1, IInvAlways, PTL

(***************************************************************************)
(* What assignments and builtins promise in every reachable state.         *)
(***************************************************************************)
\* In every reachable state no assignment, export, readonly, declare, local or
\* unset of any name, through any chain of references of any length, changes an
\* element of a readonly variable, and none but local of its own name takes the
\* attribute from it.  Excepted are a list assigned to a readonly associative
\* array and declare with a list or a shape for the variable itself: these lose
\* elements and keep the attribute.  Each of set_variable, set_array_element
\* and their callers looks at the attribute of the variable it lands in, not of
\* the name it was given.
THEOREM ReadonlyAlwaysStands == Spec => []ReadonlyStands
<1>1. IInv => ReadonlyStands
  <2> SUFFICES ASSUME IInv, NEW n \in DOMAIN s.env, readonly(s.env, n),
                      ~Has(s.env, n, "nameref")
               PROVE  /\ \A a \in Assignment : \A e \in {apply_assignment(s.env, a).env} :
                           readonly(e, n) /\ (Empties(a, n) \/ Stands(e, n))
                      /\ \A b \in Builtins : \A e \in {RunBuiltin(s, b).env} :
                           Shadows(b, n) \/ (readonly(e, n)
                                            /\ (Restarts(b, n) \/ Stands(e, n)))
    BY DEF ReadonlyStands
  <2>1. s \in Shell /\ s.env \in Env /\ Firm(s.env, n)
    BY ShellParts DEF IInv, Consistent, Firm
  <2>2. ASSUME NEW e, Unmoved(s.env, e, n)
        PROVE  Stands(e, n) /\ readonly(e, n)
    BY <2>2 DEF Unmoved, Stands, Firm, IsSet
  <2>3. ASSUME NEW a \in Assignment
        PROVE  /\ readonly(apply_assignment(s.env, a).env, n)
               /\ Empties(a, n) \/ Stands(apply_assignment(s.env, a).env, n)
    <3> DEFINE e == apply_assignment(s.env, a).env
    <3>1. /\ Leaves(s.env, e, a.name)
          /\ (a.form = "array" /\ IsKind(s.env, a.name, "assoc")) \/ Keeps(s.env, e)
      BY <2>1, ScriptAssumption, AssignmentKeeps
    <3> HIDE DEF e
    <3>2. CASE Keeps(s.env, e) \/ n # a.name
      <4>1. Unmoved(s.env, e, n)
        BY <2>1, <3>1, <3>2 DEF Keeps, Leaves, Others
      <4>2. QED
        BY <2>2, <4>1 DEF e
    <3>3. CASE ~Keeps(s.env, e) /\ n = a.name
      <4>1. Firm(e, n) /\ Empties(a, n)
        BY <2>1, <3>1, <3>3 DEF Leaves, Empties
      <4>2. QED
        BY <4>1 DEF Firm, e
    <3>4. QED
      BY <3>2, <3>3
  <2>4. ASSUME NEW b \in Builtins, ~Shadows(b, n)
        PROVE  /\ readonly(RunBuiltin(s, b).env, n)
               /\ Restarts(b, n) \/ Stands(RunBuiltin(s, b).env, n)
    <3> DEFINE e == RunBuiltin(s, b).env
    <3>1. /\ ~Anew(b) => Keeps(s.env, e)
          /\ b.op = "declare" => Spares(s.env, e, b.d.name)
          /\ b.op = "local" => Others(s.env, e, b.d.name)
      BY <2>1, RunBuiltinServes DEF Serves
    <3>2. Anew(b) => b.op \in {"declare", "local"}
      BY DEF Anew, Restarts
    <3> HIDE DEF e
    <3>3. CASE ~Anew(b) \/ n # b.d.name
      <4>1. Unmoved(s.env, e, n)
        BY <2>1, <3>1, <3>2, <3>3 DEF Keeps, Spares, Others
      <4>2. QED
        BY <2>2, <4>1 DEF e
    <3>4. CASE Anew(b) /\ n = b.d.name
      <4>1. Restarts(b, n) /\ b.op = "declare"
        BY <2>4, <3>4 DEF Anew, Restarts, Shadows
      <4>2. readonly(e, n)
        BY <2>1, <3>1, <3>4, <4>1 DEF Spares
      <4>3. QED
        BY <4>1, <4>2 DEF e
    <3>5. QED
      BY <3>3, <3>4
  <2>5. QED
    BY <2>3, <2>4
<1>2. QED
  BY <1>1, IInvAlways, PTL

LEMMA EndOfNoReference ==
  ASSUME NEW env \in Env, NEW n \in Word, ~Has(env, n, "nameref")
  PROVE  resolve_nameref(env, n) = n /\ resolve_nameref_or_self(env, n) = n
<1>1. PICK hop : Chain(env, n, hop) /\ resolve_nameref(env, n) = End(env, hop[MaxRefs - 1])
  BY ResolveIs
<1> DEFINE K == MaxRefs - 1
           S == {i \in 0..K : hop[i] = n}
<1>2. K \in Nat
  BY VarsAssumption
<1>3. 0..K \subseteq S
  <2>1. 0 \in S
    BY <1>1, <1>2 DEF Chain
  <2>2. SUFFICES ASSUME NEW m \in 1..K, m \notin S, m - 1 \in S PROVE FALSE
    <3> HIDE DEF S, K
    <3> QED BY <1>2, <2>1, LeastFailure
  <2>3. hop[m] = Refers(env, n)
    BY <1>1, <2>2 DEF Chain
  <2>4. QED
    BY <1>2, <2>2, <2>3 DEF Refers
<1>4. resolve_nameref(env, n) = n
  <2>1. hop[K] = n
    BY <1>2, <1>3
  <2>2. QED
    BY <1>1, <2>1 DEF End
<1>5. QED
  BY <1>4 DEF resolve_nameref_or_self

\* A chain of references is as it was when what changed is no reference.
LEMMA SameEnd ==
  ASSUME NEW env \in Env, NEW e \in Env, NEW b, Only(env, e, b),
         ~Has(env, b, "nameref"), ~Has(e, b, "nameref"), NEW n \in Word
  PROVE  resolve_nameref(e, n) = resolve_nameref(env, n)
<1>1. PICK hop : Chain(env, n, hop) /\ resolve_nameref(env, n) = End(env, hop[MaxRefs - 1])
  BY ResolveIs
<1>2. PICK hip : Chain(e, n, hip) /\ resolve_nameref(e, n) = End(e, hip[MaxRefs - 1])
  BY ResolveIs
<1>3. \A w, a : Has(e, w, a) /\ w # b <=> Has(env, w, a) /\ w # b
  BY DEF Only, Has, IsSet
<1>4. \A w : Refers(e, w) = Refers(env, w) /\ End(e, w) = End(env, w)
  <2> SUFFICES ASSUME NEW w PROVE Refers(e, w) = Refers(env, w) /\ End(e, w) = End(env, w)
    OBVIOUS
  <2>1. CASE w = b
    BY <2>1 DEF Refers, End
  <2>2. CASE w # b
    BY <1>3, <2>2 DEF Refers, End, Only, Has, IsSet
  <2>3. QED
    BY <2>1, <2>2
<1> DEFINE K == MaxRefs - 1
           S == {i \in 0..K : hip[i] = hop[i]}
<1>5. K \in Nat
  BY VarsAssumption
<1>6. 0..K \subseteq S
  <2>1. 0 \in S
    BY <1>1, <1>2, <1>5 DEF Chain
  <2>2. SUFFICES ASSUME NEW m \in 1..K, m \notin S, m - 1 \in S PROVE FALSE
    <3> HIDE DEF S, K
    <3> QED BY <1>5, <2>1, LeastFailure
  <2>3. hip[m] = Refers(e, hip[m - 1]) /\ hop[m] = Refers(env, hop[m - 1])
    BY <1>1, <1>2, <2>2 DEF Chain
  <2>4. QED
    BY <1>4, <1>5, <2>2, <2>3
<1>7. hip[K] = hop[K]
  BY <1>5, <1>6
<1>8. QED
  BY <1>1, <1>2, <1>4, <1>7

\* The element read back at an index from the end is the one set there.
LEMMA FromEndStays ==
  ASSUME NEW v \in Variable, v.kind = "indexed", NEW k \in Int, FromEnd(v, k) >= 0,
         NEW u \in Variable, u.kind = "indexed", NEW w,
         u.at = Put(v.at, FromEnd(v, k), w)
  PROVE  KeyOr(u, FromEnd(u, k)) = w
<1> DEFINE i == FromEnd(v, k)
<1>1. i \in Int
  BY FromEndIs
<1>2. /\ \A x : x \in DOMAIN u.at <=> x \in DOMAIN v.at \/ x = i
      /\ u.at[i] = w
  BY PutIs
<1>3. FromEnd(u, k) = i
  <2>1. CASE k >= 0
    BY <2>1 DEF FromEnd
  <2>2. CASE ~(k >= 0)
    <3>1. i = LastKey(v) + 1 + k /\ FromEnd(u, k) = LastKey(u) + 1 + k
      BY <2>2 DEF FromEnd
    <3> HIDE DEF i
    <3>2. u.at # <<>>
      BY <1>2, EmptyTyped
    <3>3. LastKey(v) \in Nat
      BY LastKeyIs
    <3>4. i <= LastKey(v) /\ i >= 0
      BY <1>1, <2>2, <3>1, <3>3 DEF i
    <3>5. /\ LastKey(u) = MaxKey(u) /\ MaxKey(u) \in Nat /\ MaxKey(u) \in DOMAIN u.at
          /\ \A j \in DOMAIN u.at : j <= MaxKey(u)
      BY <3>2, MaxKeyIs DEF LastKey
    <3>6. LastKey(u) = LastKey(v)
      <4>1. CASE v.at = <<>>
        <5>1. LastKey(v) = 0 /\ DOMAIN v.at = {}
          BY <4>1, EmptyTyped DEF LastKey
        <5>2. i = 0
          BY <1>1, <3>4, <5>1
        <5>3. QED
          BY <1>2, <3>5, <5>1, <5>2
      <4>2. CASE v.at # <<>>
        <5>1. /\ LastKey(v) = MaxKey(v) /\ MaxKey(v) \in Nat /\ MaxKey(v) \in DOMAIN v.at
              /\ \A j \in DOMAIN v.at : j <= MaxKey(v)
          BY <4>2, MaxKeyIs DEF LastKey
        <5>2. MaxKey(v) <= MaxKey(u)
          BY <1>2, <3>5, <5>1
        <5>3. MaxKey(u) <= MaxKey(v)
          BY <1>2, <3>4, <3>5, <5>1
        <5>4. QED
          BY <3>5, <5>1, <5>2, <5>3
      <4>3. QED
        BY <4>1, <4>2
    <3>7. QED
      BY <3>1, <3>6
  <2>3. QED
    BY <2>1, <2>2
<1>4. QED
  BY <1>2, <1>3 DEF KeyOr

\* An element set through a reference is the one an expansion reads, when an
\* array can have it.
Reachable(env, a, k) ==
  /\ ~Has(env, a, "nameref")
  /\ IF IsSet(env, a)
       THEN /\ env[a].kind = "scalar" => k \in {0, -1}
            /\ env[a].kind = "indexed" => FromEnd(env[a], k) >= 0
       ELSE k >= 0

LEMMA ElementReadBack ==
  ASSUME NEW env \in Env, NEW a \in Word, NEW k \in Int, NEW w \in Word,
         Reachable(env, a, k)
  PROVE  LET r == SetReferenced(env, a, k, w)
         IN  r.err = "ok" => /\ ~Has(r.env, a, "nameref")
                             /\ resolve_array_element(r.env, a, k) = w
<1> DEFINE r == SetReferenced(env, a, k, w)
           e == r.env
<1>1. r \in Outcome /\ e \in Env
  BY SetReferencedLands DEF Lands, Outcome
<1> SUFFICES ASSUME r.err = "ok"
             PROVE  ~Has(e, a, "nameref") /\ resolve_array_element(e, a, k) = w
  OBVIOUS
<1>2. ~readonly(env, a)
  BY DEF SetReferenced, Err
<1>3. ASSUME ~Has(e, a, "nameref"), a \in DOMAIN e,
             e[a].kind = "assoc" => KeyOr(e[a], k) = w,
             e[a].kind = "scalar" => k \in {0, -1} /\ as_scalar(e[a]) = w,
             e[a].kind = "indexed" => KeyOr(e[a], FromEnd(e[a], k)) = w
      PROVE  ~Has(e, a, "nameref") /\ resolve_array_element(e, a, k) = w
  <2> HIDE DEF e
  <2>1. resolve_nameref_or_self(e, a) = a
    BY <1>1, <1>3, EndOfNoReference
  <2>2. e[a].kind \in {"scalar", "indexed", "assoc"}
    <3>1. e[a] \in Variable
      BY <1>1, <1>3, EnvIs
    <3>2. QED
      BY <3>1, VariableParts DEF Kind
  <2>3. QED
    BY <1>3, <2>1, <2>2 DEF resolve_array_element, IsSet
<1>4. CASE ~IsSet(env, a)
  <2> DEFINE at == [j \in {Clamp(k)} |-> w]
             v == Var([kind |-> "indexed", at |-> at], {})
  <2>1. k \in Nat /\ Clamp(k) = k
    BY <1>4 DEF Reachable, Clamp
  <2>2. r = Ok(Put(env, a, v))
    BY <1>2, <1>4 DEF SetReferenced
  <2>3. e = Put(env, a, v)
    BY <2>2 DEF Ok
  <2>4. v.kind = "indexed" /\ v.attrs = {} /\ v.at = at
    BY DEF Var
  <2> HIDE DEF v, e, r
  <2>5. a \in DOMAIN e /\ e[a] = v
    BY <2>3, PutIs
  <2>6. KeyOr(v, FromEnd(v, k)) = w
    BY <2>1, <2>4 DEF KeyOr, FromEnd
  <2>7. ~Has(e, a, "nameref")
    BY <2>4, <2>5 DEF Has
  <2>8. QED
    BY <1>3, <2>4, <2>5, <2>6, <2>7
<1>5. ASSUME IsSet(env, a), NEW at \in Partial(Int, Word),
             Fits([kind |-> env[a].kind, at |-> at]), e = NewAt(env, a, at)
      PROVE  /\ a \in DOMAIN e /\ ~Has(e, a, "nameref")
             /\ e[a].kind = env[a].kind /\ e[a].at = at
  <2>1. Holds(e, a, env[a].kind, at) /\ SameAttrs(env, e, a) /\ DOMAIN e = DOMAIN env
    BY <1>5, AtChanged DEF IsSet
  <2> HIDE DEF e
  <2>2. QED
    BY <1>5, <2>1 DEF Holds, SameAttrs, IsSet, Reachable
<1>6. CASE IsSet(env, a)
  <2> DEFINE v == env[a]
             i == FromEnd(v, k)
  <2>1. v \in Variable
    BY <1>6, EnvIs DEF IsSet
  <2>2. CASE v.kind = "assoc"
    <3> DEFINE at == Put(v.at, k, w)
    <3>1. r = Ok([env EXCEPT ![a].at = Put(@, k, w)])
      BY <1>2, <1>6, <2>2 DEF SetReferenced
    <3>2. e = NewAt(env, a, at)
      BY <1>6, <3>1 DEF Ok, NewAt, IsSet
    <3>3. at \in Partial(Int, Word) /\ Fits([kind |-> v.kind, at |-> at])
      BY <2>1, <2>2, PutKey
    <3>4. k \in DOMAIN at /\ at[k] = w
      BY PutIs
    <3> HIDE DEF at, e
    <3>5. /\ a \in DOMAIN e /\ ~Has(e, a, "nameref")
          /\ e[a].kind = v.kind /\ e[a].at = at
      BY <1>5, <1>6, <3>2, <3>3
    <3>6. KeyOr(e[a], k) = w
      BY <3>4, <3>5 DEF KeyOr
    <3>7. QED
      BY <1>3, <2>2, <3>5, <3>6
  <2>3. CASE v.kind = "indexed"
    <3> DEFINE at == Put(v.at, i, w)
    <3>1. i >= 0 /\ i \in Nat /\ Clamp(i) = i
      <4>1. i \in Int
        BY <2>1, <2>3, FromEndIs
      <4>2. i >= 0
        BY <1>6, <2>3 DEF Reachable
      <4> HIDE DEF i
      <4>3. QED
        BY <4>1, <4>2 DEF Clamp
    <3>2. r = Ok([env EXCEPT ![a].at = Put(@, Clamp(i), w)])
      BY <1>2, <1>6, <2>3 DEF SetReferenced
    <3>3. e = NewAt(env, a, at)
      BY <1>6, <3>1, <3>2 DEF Ok, NewAt, IsSet
    <3>4. at \in Partial(Int, Word) /\ Fits([kind |-> v.kind, at |-> at])
      <4> HIDE DEF i
      <4>1. i \in Int
        BY <3>1
      <4>2. QED
        BY <2>1, <2>3, <3>1, <4>1, PutKey
    <3> HIDE DEF at, e
    <3>5. /\ a \in DOMAIN e /\ ~Has(e, a, "nameref")
          /\ e[a].kind = v.kind /\ e[a].at = at
      BY <1>5, <1>6, <3>3, <3>4
    <3>6. KeyOr(e[a], FromEnd(e[a], k)) = w
      <4>1. e[a] \in Variable
        BY <1>1, <3>5, EnvIs
      <4>2. e[a].kind = "indexed" /\ e[a].at = Put(v.at, FromEnd(v, k), w)
        BY <2>3, <3>5 DEF at
      <4>3. QED
        BY <2>1, <2>3, <3>1, <4>1, <4>2, FromEndStays
    <3>7. QED
      BY <1>3, <2>3, <3>5, <3>6
  <2>4. CASE v.kind = "scalar"
    <3> DEFINE at == Scalar(w).at
    <3>1. k \in {0, -1}
      BY <1>6, <2>4 DEF Reachable
    <3>2. r = Ok([env EXCEPT ![a].at = Scalar(w).at])
      BY <1>2, <1>6, <2>4, <3>1 DEF SetReferenced
    <3>3. e = NewAt(env, a, at)
      BY <1>6, <3>2 DEF Ok, NewAt, IsSet
    <3>4. /\ at \in Partial(Int, Word) /\ Fits([kind |-> v.kind, at |-> at])
          /\ DOMAIN at = {0} /\ at[0] = w
      BY <2>4, ScalarFits
    <3> HIDE DEF at, e
    <3>5. /\ a \in DOMAIN e /\ ~Has(e, a, "nameref")
          /\ e[a].kind = v.kind /\ e[a].at = at
      BY <1>5, <1>6, <3>3, <3>4
    <3>6. as_scalar(e[a]) = w
      BY <3>4, <3>5 DEF as_scalar, KeyOr
    <3>7. QED
      BY <1>3, <2>4, <3>1, <3>5, <3>6
  <2>5. v.kind \in Kind
    BY <2>1, VariableParts
  <2>6. QED
    BY <2>2, <2>3, <2>4, <2>5 DEF Kind
<1>7. QED
  BY <1>4, <1>6

LEMMA VariableReadBack ==
  ASSUME NEW env \in Env, NEW n \in Word, NEW w \in Word
  PROVE  LET r == set_variable(env, n, w)
             t == resolve_nameref(env, n)
         IN  (/\ r.err = "ok"
              /\ BaseOf(env, n) # n \/ ~Has(env, n, "nameref")
              /\ t \in DOMAIN Subscripted => Reachable(env, Subscripted[t].arr, Subscripted[t].key))
                => get_var(r.env, n) \in Shown(w)
<1> DEFINE r == set_variable(env, n, w)
           t == resolve_nameref(env, n)
           e == r.env
           a == Subscripted[t].arr
           k == Subscripted[t].key
<1> SUFFICES ASSUME r.err = "ok", BaseOf(env, n) # n \/ ~Has(env, n, "nameref"),
                    t \in DOMAIN Subscripted => Reachable(env, a, k)
             PROVE  get_var(e, n) \in Shown(w)
  OBVIOUS
<1>1. r = SetTarget(env, n, t, w)
  BY DEF set_variable, Err
<1>2. t # Circular
  BY <1>1 DEF SetTarget, Err
<1>3. t \in Word /\ ~Has(env, t, "nameref")
  <2>1. PICK hop : Chain(env, n, hop) /\ t = End(env, hop[MaxRefs - 1])
    BY ResolveIs
  <2>2. hop[MaxRefs - 1] \in Word
    <3>1. MaxRefs - 1 \in 0..(MaxRefs - 1)
      BY VarsAssumption
    <3>2. QED
      BY <2>1, <3>1 DEF Chain
  <2> HIDE DEF t
  <2>3. QED
    BY <1>2, <2>1, <2>2 DEF End
<1>4. ~(t = Empty /\ Has(env, n, "nameref"))
  BY DEF BaseOf
<1>5. r \in Outcome /\ e \in Env /\ Only(env, e, BaseOf(env, n))
  <2>1. Lands(env, r, BaseOf(env, n))
    BY SetVariableLands
  <2>2. QED
    BY <2>1, LandsKeeps DEF Lands
<1>6. BaseOf(env, n) = IF t \in DOMAIN Subscripted THEN a ELSE t
  BY <1>4 DEF BaseOf
<1>7. ASSUME NEW b, BaseOf(env, n) = b, ~Has(env, b, "nameref"), ~Has(e, b, "nameref")
      PROVE  resolve_nameref_or_self(e, n) = t
  <2> HIDE DEF e, r
  <2>1. resolve_nameref(e, n) = t
    BY <1>5, <1>7, SameEnd
  <2> HIDE DEF t
  <2>2. QED
    BY <1>2, <2>1 DEF resolve_nameref_or_self
<1>8. CASE t \in DOMAIN Subscripted
  <2>1. a \in Word /\ k \in Int
    BY <1>8, VarsAssumption
  <2>2. r = SetReferenced(env, a, k, w)
    BY <1>1, <1>2, <1>4, <1>8 DEF SetTarget
  <2>3. Reachable(env, a, k)
    BY <1>8
  <2>4. ~Has(env, a, "nameref")
    BY <2>3 DEF Reachable
  <2> HIDE DEF a, k, r
  <2>5. ~Has(e, a, "nameref") /\ resolve_array_element(e, a, k) = w
    BY <2>1, <2>2, <2>3, ElementReadBack DEF r
  <2>6. resolve_nameref_or_self(e, n) = t
    BY <1>6, <1>7, <1>8, <2>4, <2>5
  <2>7. get_var(e, n) = w
    BY <1>8, <2>5, <2>6 DEF get_var, a, k
  <2>8. QED
    BY <2>7 DEF Shown
<1>9. CASE t \notin DOMAIN Subscripted
  <2>1. r = SetPlain(env, t, w)
    BY <1>1, <1>2, <1>4, <1>9 DEF SetTarget
  <2> HIDE DEF r
  <2>2. ScalarOf(e, t) \in Shown(w) /\ ~Has(e, t, "nameref")
    BY <1>3, <2>1, SetPlainLands DEF r
  <2>3. resolve_nameref_or_self(e, n) = t
    BY <1>3, <1>6, <1>7, <1>9, <2>2
  <2>4. get_var(e, n) = ScalarOf(e, t)
    BY <1>9, <2>3 DEF get_var
  <2>5. QED
    BY <2>2, <2>4
<1>10. QED
  BY <1>8, <1>9

\* In every reachable state an assignment that set_variable reports done, through
\* a chain of references of any length and to an element at any index an array
\* can have, is what get_var of the same name reads afterwards, and no other
\* variable changes; an assignment that fails changes nothing.
THEOREM AssignmentsAlwaysLand == Spec => []AssignmentsLand
<1>1. IInv => AssignmentsLand
  <2> SUFFICES ASSUME IInv, NEW n \in Name, NEW a \in Assignment, a.form = "set"
               PROVE  LET w == a.word
                          r == set_variable(s.env, n, w)
                      IN  IF r.err # "ok" THEN r.env = s.env
                          ELSE Reaches(n) =>
                               /\ Base(n) # n \/ ~Has(s.env, n, "nameref") =>
                                    get_var(r.env, n) \in Shown(w)
                               /\ \A m \in (DOMAIN s.env \cup DOMAIN r.env) \ {Base(n)} :
                                    Binding(r.env, m) = Binding(s.env, m)
    BY DEF AssignmentsLand
  <2> DEFINE w == a.word
             r == set_variable(s.env, n, w)
             t == resolve_nameref(s.env, n)
  <2>1. s.env \in Env /\ n \in Word /\ w \in Word
    BY ScriptAssumption, ShellParts DEF IInv, Consistent, IsAssignment
  <2>2. Base(n) = BaseOf(s.env, n)
    BY DEF Base, BaseOf
  <2>3. Lands(s.env, r, Base(n))
    BY <2>1, <2>2, SetVariableLands
  <2>4. Reaches(n) => (t \in DOMAIN Subscripted =>
                         Reachable(s.env, Subscripted[t].arr, Subscripted[t].key))
    BY DEF Reaches, Reachable
  <2>5. r.err = "ok" /\ Reaches(n) /\ (Base(n) # n \/ ~Has(s.env, n, "nameref"))
          => get_var(r.env, n) \in Shown(w)
    BY <2>1, <2>2, <2>4, VariableReadBack
  <2> HIDE DEF r
  <2>6. r.err # "ok" => r.env = s.env
    BY <2>3 DEF Lands
  <2>7. \A m : m # Base(n) => Binding(r.env, m) = Binding(s.env, m)
    BY <2>3, OnlyBinding DEF Lands
  <2>8. QED
    BY <2>5, <2>6, <2>7 DEF r
<1>2. QED
  BY <1>1, IInvAlways, PTL

(***************************************************************************)
(* Calls that are over.                                                    *)
(***************************************************************************)
LEMMA ReturnRestores ==
  ASSUME NEW t, NEW fs, Consistent(t, fs), fs # <<>>, ~Repeats(fs[Len(fs)]),
         NEW n \in DOMAIN fs[Len(fs)].hid,
         \A i \in 1..(Len(fs) - 1) : ~Named(fs[i], n)
  PROVE  Binding(Closed(Popped(t), fs[Len(fs)].saved, FALSE).env, n) = fs[Len(fs)].hid[n]
<1> DEFINE L == Len(fs)
           f == fs[L]
           o == Popped(t)
           u == Closed(o, f.saved, FALSE)
           locals == t.scopes[L]
<1>1. /\ t \in Shell /\ fs \in Seq(FrameOf) /\ Len(t.scopes) = L
      /\ Stacked(t.temps, fs) /\ \A i \in DOMAIN fs : Recalls(t.scopes[i], fs, i)
      /\ t.scopes \in Seq(Bindings)
  BY ShellParts DEF Consistent
<1>2. L \in Nat \ {0} /\ L \in DOMAIN fs /\ InCall(t) /\ Top(t) = locals
  BY <1>1 DEF InCall, Top
<1>3. f \in FrameOf
  BY <1>1, <1>2
<1>4. f.saved \in Saved
  BY <1>3 DEF FrameOf
<1>5. Recalls(locals, fs, L) /\ (\A i \in 1..L : i = L \/ i \in 1..(L - 1))
  BY <1>1, <1>2
<1> HIDE DEF L, locals
<1>6. /\ o \in Shell /\ o.temps = t.temps /\ o.env \in Env
      /\ \A m \in DOMAIN locals : Binding(o.env, m) = locals[m]
  BY <1>1, <1>2, PoppedIs, ShellParts
<1>7. f.saved # <<>> => o.temps # <<>>
  <2>1. t.temps \in Seq(Bindings)
    BY <1>1, ShellParts
  <2>2. QED
    BY <1>1, <1>6, <2>1, StackedPop DEF L
<1> HIDE DEF o
<1>8. u.env = RestoreSaved(o.env, f.saved)
  BY <1>4, <1>6, <1>7, ClosedIs
<1>9. Undone(o.env, u.env, f.saved, Len(f.saved))
  BY <1>4, <1>6, <1>8, RestoreSavedIs
<1>10. DOMAIN f.saved = 1..Len(f.saved)
  BY <1>4 DEF Saved
<1> HIDE DEF u
<1>11. CASE Named(f, n)
  <2>1. PICK i \in DOMAIN f.saved : f.saved[i][1] = n
    BY <1>11 DEF Named
  <2>2. \A j \in DOMAIN f.saved : j # i => f.saved[j][1] # n
    <3> SUFFICES ASSUME NEW j \in DOMAIN f.saved, j # i, f.saved[j][1] = n PROVE FALSE
      OBVIOUS
    <3>1. i < j \/ j < i
      BY <1>10
    <3>2. QED
      BY <2>1, <3>1 DEF Repeats, L
  <2>3. Binding(u.env, n) = f.saved[i][2]
    <3>1. i \in 1..Len(f.saved) /\ i \in Int
      BY <1>4, <1>10
    <3>2. \A j \in 1..Len(f.saved) : i < j => f.saved[j][1] # f.saved[i][1]
      BY <1>10, <2>1, <2>2, <3>1
    <3>3. QED
      BY <1>9, <2>1, <3>1, <3>2 DEF Undone
  <2>4. f.hid[n] = f.saved[i][2]
    BY <1>5, <1>10, <2>1, <2>2 DEF Recalls
  <2>5. QED
    BY <2>3, <2>4 DEF u, o, L
<1>12. CASE ~Named(f, n)
  <2>1. n \in DOMAIN locals
    BY <1>5, <1>12 DEF Recalls, L
  <2>2. locals[n] = f.hid[n]
    BY <1>5, <1>12, <2>1 DEF Recalls, L
  <2>3. Binding(u.env, n) = Binding(o.env, n)
    BY <1>9, <1>10, <1>12 DEF Undone, Named
  <2>4. QED
    BY <1>6, <2>1, <2>2, <2>3 DEF u, o, L
<1>13. QED
  BY <1>11, <1>12

\* A call that returns, or is left by a limit error, however deep and with
\* whatever assignments before its name, leaves every name it declared local or
\* bound as it was when it first hid it (execute_function_call restores
\* local_scopes, execute_simple_command what it saved), but for names that a
\* command around it binds and commands that bind one name twice.
THEOREM CallsAlwaysRestore == Spec => CallsRestore
<1> DEFINE A == Len(frames') < Len(frames) =>
                  LET f == frames[Len(frames)]
                  IN  Repeats(f) \/
                      \A n \in DOMAIN f.hid :
                        BoundBelow(n) \/ Binding(s'.env, n) = f.hid[n]
<1>1. IInv /\ [Next]_vars => [A]_vars
  <2> SUFFICES ASSUME IInv, [Next]_vars, Len(frames') < Len(frames)
               PROVE  LET f == frames[Len(frames)]
                      IN  Repeats(f) \/
                          \A n \in DOMAIN f.hid :
                            BoundBelow(n) \/ Binding(s'.env, n) = f.hid[n]
    OBVIOUS
  <2>1. Consistent(s, frames) /\ frames \in Seq(FrameOf)
    BY DEF IInv, Consistent
  <2>2. frames' # frames
    BY <2>1
  <2>3. ~Assign /\ ~NextScript /\ ~(UNCHANGED vars)
    BY <2>2 DEF Assign, NextScript, vars
  <2>4. ~Builtin
    <3> SUFFICES ASSUME Builtin PROVE FALSE
      OBVIOUS
    <3>1. PICK p \in Prefix : frames' = Hidden(frames, Bound(s, p), s')
      BY DEF Builtin
    <3>2. Len(Hidden(frames, Bound(s, p), s')) = Len(frames)
      BY <2>1 DEF Hidden
    <3>3. QED
      BY <2>1, <3>1, <3>2
  <2>5. ~Call
    <3> SUFFICES ASSUME Call PROVE FALSE
      OBVIOUS
    <3>1. PICK p \in Prefix : frames' = Append(frames, Frame(Bound(s, p)))
      BY <2>2 DEF Call
    <3>2. QED
      BY <2>1, <3>1
  <2>6. Return
    BY <2>3, <2>4, <2>5 DEF Next
  <2> DEFINE f == frames[Len(frames)]
  <2>7. frames # <<>> /\ s' = Closed(Popped(s), f.saved, FALSE)
    BY <2>6 DEF Return
  <2>8. ASSUME ~Repeats(f), NEW n \in DOMAIN f.hid, ~BoundBelow(n)
        PROVE  Binding(s'.env, n) = f.hid[n]
    <3>1. \A i \in 1..(Len(frames) - 1) : ~Named(frames[i], n)
      BY <2>8 DEF BoundBelow, Named
    <3>2. QED
      BY <2>1, <2>7, <2>8, <3>1, ReturnRestores
  <2>9. QED
    BY <2>8
<1>2. QED
  BY <1>1, IInvAlways, PTL DEF Spec, CallsRestore
=============================================================================
