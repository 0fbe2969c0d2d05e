----------------------------- MODULE ShellArith -----------------------------
(***************************************************************************)
(* $((...)): the evaluator of src/interpreter/arithmetic.rs.  An           *)
(* expression is the tree the external parser makes of a text:             *)
(*   [k |-> "num", n]  [k |-> "ref", name]  [k |-> "elem", name, index]    *)
(*   [k |-> "un", op, e]  [k |-> "bin", op, l, r]  [k |-> "if", c, t, f]   *)
(*   [k |-> "set", to, e]  [k |-> "opset", op, to, e]                      *)
(*   [k |-> "inc", to, by, pre]                                            *)
(* An evaluation gives an error or a value, and the state it leaves.       *)
(* Elements of associative arrays are not modelled.                        *)
(***************************************************************************)
EXTENDS ShellVars, FiniteSetsExt

(***************************************************************************)
(* Decimal numbers and the texts that spell them, as str::parse and        *)
(* to_string of an integer read and write them.  A text is a sequence of   *)
(* character codes.                                                        *)
(***************************************************************************)
MINUS == 45
PLUS  == 43

Digits(w) == w # <<>> /\ \A i \in DOMAIN w : w[i] \in 48..57
Signed(w) == w # <<>> /\ w[1] \in {MINUS, PLUS}
IsNumber(w) == Digits(IF Signed(w) THEN Tail(w) ELSE w)

RECURSIVE ValueOf(_)
ValueOf(w) ==
  IF w = <<>> THEN 0
  ELSE IF w[1] = MINUS THEN -ValueOf(Tail(w))
  ELSE IF w[1] = PLUS THEN ValueOf(Tail(w))
  ELSE 10 * ValueOf(SubSeq(w, 1, Len(w) - 1)) + w[Len(w)] - 48

Abs(n) == IF n < 0 THEN -n ELSE n
LargerOf(m, n) == IF m > n THEN m ELSE n
SmallerOf(m, n) == IF m < n THEN m ELSE n

RECURSIVE Numeral(_)
Numeral(n) ==
  IF n < 0 THEN <<MINUS>> \o Numeral(-n)
  ELSE IF n < 10 THEN <<48 + n>> ELSE Numeral(n \div 10) \o <<48 + (n % 10)>>

CONSTANTS
  Bits,        \* the width of a number (64 in the code)
  Parsed,      \* the texts that are expressions: text -> tree
  MaxNesting   \* bound: how deep a value may be evaluated as an expression

Half == 2 ^ (Bits - 1)
Number == -Half..(Half - 1)
Wrap(n) == ((n + Half) % (2 * Half)) - Half

Val(t, n) == [err |-> "ok", v |-> n, t |-> t]
Bad(t, e) == [err |-> e, v |-> 0, t |-> t]
Truth(b) == IF b THEN 1 ELSE 0

(***************************************************************************)
(* Operators.                                                              *)
(***************************************************************************)
Quot(l, r) ==
  IF (l < 0) = (r < 0) THEN Abs(l) \div Abs(r) ELSE -(Abs(l) \div Abs(r))
Bit(n, i) == (n \div 2 ^ i) % 2
FromBits(S) == Wrap(SumSet({2 ^ i : i \in S}))

RECURSIVE wrapping_pow(_, _, _)
wrapping_pow(base, exp, result) ==
  IF exp = 0 THEN result
  ELSE wrapping_pow(Wrap(base * base), exp \div 2,
                    IF exp % 2 = 1 THEN Wrap(result * base) ELSE result)

apply_binary_arith(op, l, r, t) ==
  CASE op = "+"  -> Val(t, Wrap(l + r))
    [] op = "-"  -> Val(t, Wrap(l - r))
    [] op = "*"  -> Val(t, Wrap(l * r))
    [] op \in {"/", "%"} /\ r = 0 -> Bad(t, "shell")
    [] op = "/" /\ r # 0 -> Val(t, Wrap(Quot(l, r)))
    [] op = "%" /\ r # 0 -> Val(t, l - r * Quot(l, r))
    [] op = "**" -> IF r < 0 THEN Bad(t, "shell") ELSE Val(t, wrapping_pow(l, r, 1))
    [] op = "<<" -> Val(t, Wrap(l * 2 ^ (r % Bits)))
    [] op = ">>" -> Val(t, l \div 2 ^ (r % Bits))
    [] op = "&"  -> Val(t, FromBits({i \in 0..(Bits - 1) : Bit(l, i) = 1 /\ Bit(r, i) = 1}))
    [] op = "|"  -> Val(t, FromBits({i \in 0..(Bits - 1) : Bit(l, i) = 1 \/ Bit(r, i) = 1}))
    [] op = "^"  -> Val(t, FromBits({i \in 0..(Bits - 1) : Bit(l, i) # Bit(r, i)}))
    [] op = "==" -> Val(t, Truth(l = r))
    [] op = "!=" -> Val(t, Truth(l # r))
    [] op = "<"  -> Val(t, Truth(l < r))
    [] op = ">"  -> Val(t, Truth(l > r))
    [] op = "<=" -> Val(t, Truth(l <= r))
    [] op = ">=" -> Val(t, Truth(l >= r))

Unary(op, n) ==
  CASE op = "!" -> Truth(n = 0) [] op = "~" -> -n - 1
    [] op = "+" -> n            [] op = "-" -> Wrap(-n)

(***************************************************************************)
(* Evaluation.  The state t has the environment t.env, the positional      *)
(* parameters t.params, the status t.status and the option t.nounset;      *)
(* t.guard counts the elements being evaluated as expressions, t.nest all  *)
(* values being so.                                                        *)
(***************************************************************************)
RECURSIVE eval(_, _)
RECURSIVE value_from_string(_, _)
RECURSIVE resolve_var_recursive(_, _, _)

\* An expression from a text: what does not parse is an error, no text is 0.
\* A value that is evaluated for ever overflows the stack.
eval_arithmetic(w, t) ==
  IF w = Empty THEN Val(t, 0)
  ELSE IF w \notin DOMAIN Parsed THEN Bad(t, "shell")
  ELSE IF t.nest >= MaxNesting THEN Bad(t, "overflow")
  ELSE [eval(Parsed[w], [t EXCEPT !.nest = @ + 1]) EXCEPT !.t.nest = t.nest]

ParsesAsNumber(w) == IsNumber(w) /\ ValueOf(w) \in Number
Unbound(t, n) == t.nounset /\ ~IsSet(t.env, resolve_nameref_or_self(t.env, n))

\* The value of an element, guarded against elements that name themselves.
MAX_DEPTH == 10
value_from_string(w, t) ==
  IF w = Empty THEN Val(t, 0)
  ELSE IF ParsesAsNumber(w) THEN Val(t, ValueOf(w))
  ELSE IF t.guard >= MAX_DEPTH THEN Bad(t, "deep")
  ELSE [eval_arithmetic(w, [t EXCEPT !.guard = @ + 1]) EXCEPT !.t.guard = t.guard]

\* The value of a variable: a name is followed, any other text evaluated.
Resolved(t, n) == resolve_nameref_or_self(t.env, n)
ResolvedText(w, t, depth) ==
  IF w = Empty THEN Val(t, 0)
  ELSE IF ParsesAsNumber(w) THEN Val(t, ValueOf(w))
  ELSE IF depth >= MAX_DEPTH THEN Val(t, 0)
  ELSE IF w \in Valid THEN resolve_var_recursive(w, t, depth + 1)
  ELSE eval_arithmetic(w, t)
resolve_var_recursive(n, t, depth) ==
  ResolvedText(ScalarOf(t.env, Resolved(t, n)), t, depth)

HASH  == <<35>>
QUERY == <<63>>
\* A positional parameter that is no number counts as 0.
read_var(n, t) ==
  IF n = HASH THEN Val(t, Wrap(Len(t.params)))
  ELSE IF n = QUERY THEN Val(t, t.status)
  ELSE IF Digits(n)
  THEN LET i == ValueOf(n)
       IN  Val(t, IF i \in DOMAIN t.params /\ ParsesAsNumber(t.params[i])
                  THEN ValueOf(t.params[i]) ELSE 0)
  ELSE IF Unbound(t, n) THEN Bad(t, "fatal")
  ELSE resolve_var_recursive(n, t, 0)

ElementText(v, i) ==
  IF v.kind = "scalar" THEN (IF i \in {0, -1} THEN as_scalar(v) ELSE Empty)
  ELSE IF FromEnd(v, i) < 0 THEN Empty ELSE KeyOr(v, FromEnd(v, i))
read_indexed_element(n, i, t) ==
  value_from_string(IF IsSet(t.env, n) THEN ElementText(t.env[n], i) ELSE Empty, t)

\* A stored outcome of the environment as the outcome of an evaluation.
Stored(t, r, n) == [err |-> r.err, v |-> n, t |-> [t EXCEPT !.env = r.env]]

WriteAt(n, k, x, t) ==
  IF k < 0 THEN Bad(t, "shell")
  ELSE Stored(t, set_array_element(t.env, n, k, Numeral(x)), x)
write_indexed_element(n, i, x, t) ==
  WriteAt(n, IF i >= 0 THEN i ELSE IF IsSet(t.env, n) THEN FromEnd(t.env[n], i) ELSE Below,
          x, t)

\* The operators below take the outcomes r, l, i of evaluations, and go on
\* from them unless they are errors.
ReadAt(n, i) ==
  IF i.err # "ok" THEN i ELSE read_indexed_element(Resolved(i.t, n), i.v, i.t)
read_target(to, t) ==
  IF to.k = "ref" THEN read_var(to.name, t)
  ELSE IF Unbound(t, to.name) THEN Bad(t, "fatal")
  ELSE ReadAt(to.name, eval(to.index, t))

WriteTo(n, i, x) ==
  IF i.err # "ok" THEN i ELSE write_indexed_element(Resolved(i.t, n), i.v, x, i.t)
write_target(to, x, t) ==
  IF to.k = "ref" THEN Stored(t, set_variable(t.env, to.name, Numeral(x)), x)
  ELSE WriteTo(to.name, eval(to.index, t), x)

\* Both sides, unless the left one decides.
BothSides(op, l, r) ==
  IF r.err # "ok" \/ op = "," THEN r
  ELSE IF op \in {"||", "&&"} THEN Val(r.t, Truth(r.v # 0))
  ELSE apply_binary_arith(op, l.v, r.v, r.t)

\* Mutant: the right side is evaluated in any case.
RightOf_eager(e, l) ==
  IF l.err # "ok" THEN l
  ELSE IF e.op = "||" /\ l.v # 0 THEN Val(eval(e.r, l.t).t, 1)
  ELSE BothSides(e.op, l, eval(e.r, l.t))

RightOf(e, l) ==
  IF l.err # "ok" THEN l
  ELSE IF e.op = "||" /\ l.v # 0 THEN Val(l.t, 1)
  ELSE IF e.op = "&&" /\ l.v = 0 THEN Val(l.t, 0)
  ELSE BothSides(e.op, l, eval(e.r, l.t))
eval_binary(e, t) == RightOf(e, eval(e.l, t))

\* The value stored, unless storing it failed; v is what the expression is.
Store(to, r, v) == IF r.err # "ok" THEN r ELSE [write_target(to, r.v, r.t) EXCEPT !.v = v]

\* The right side first, then the old value: an index is evaluated twice.
Combined(op, l, r) ==
  IF r.err # "ok" THEN r ELSE IF l.err # "ok" THEN l
  ELSE apply_binary_arith(op, l.v, r.v, l.t)
StoreWhole(to, r) == Store(to, r, r.v)
AssignOp(e, r) == StoreWhole(e.to, Combined(e.op, read_target(e.to, r.t), r))
BinaryAssignment(e, t) == AssignOp(e, eval(e.e, t))

Stepped(e, old) ==
  Store(e.to, [old EXCEPT !.v = Wrap(@ + e.by)], IF e.pre THEN Wrap(old.v + e.by) ELSE old.v)
UnaryAssignment(e, t) == Stepped(e, read_target(e.to, t))

Choice(e, c) == IF c.err # "ok" THEN c ELSE eval(IF c.v # 0 THEN e.t ELSE e.f, c.t)
UnaryOp(op, r) == IF r.err # "ok" THEN r ELSE Val(r.t, Unary(op, r.v))

eval(e, t) ==
  CASE e.k = "num"   -> Val(t, e.n)
    [] e.k \in {"ref", "elem"} -> read_target(e, t)
    [] e.k = "un"    -> UnaryOp(e.op, eval(e.e, t))
    [] e.k = "bin"   -> eval_binary(e, t)
    [] e.k = "if"    -> Choice(e, eval(e.c, t))
    [] e.k = "set"   -> StoreWhole(e.to, eval(e.e, t))
    [] e.k = "opset" -> BinaryAssignment(e, t)
    [] e.k = "inc"   -> UnaryAssignment(e, t)
=============================================================================
