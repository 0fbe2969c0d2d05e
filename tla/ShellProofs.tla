----------------------------- MODULE ShellProofs ----------------------------
(***************************************************************************)
(* For every script, nesting and bound: the counters of InterpreterState   *)
(* follow the walker's stack, and nothing starts while a jump or an exit   *)
(* is pending.                                                             *)
(***************************************************************************)
EXTENDS ShellControl, SequenceTheorems, FiniteSetTheorems, TLAPS

(***************************************************************************)
(* Types.                                                                  *)
(***************************************************************************)
Flow == {f \in [to: {"none", "break", "continue", "return"}, n: Nat] :
           (f.to = "none" => f.n = 0) /\ (f.to = "return" => f.n \in Status)}

State == [errexit: BOOLEAN, suppressed: Nat, bang: Nat, immune: BOOLEAN,
          loop_depth: Nat, in_function_depth: Nat, control_flow: Flow,
          should_exit: BOOLEAN, abort: BOOLEAN, had_error: BOOLEAN,
          in_trap: BOOLEAN, err_trap: Handler, exit_trap: Handler]

PlainFrame == [at: {"list", "command", "if", "function", "exec"}]
ProgFrame  == [at: {"program"}, ran: BOOLEAN]
ItemFrame  == [at: {"item"}, role: {"only", "left", "last"}, bang: BOOLEAN,
               pipe: {"none", "stages", "last"}]
KidFrame   == [at: {"child"}, how: {"stage", "async", "subshell"}, parent: State]
LoopFrame  == [at: {"loop"}, kind: Loops, part: {"top", "condition", "body"},
               status: Status]
HandlerFrame == [at: {"trap"}, signal: {"ERR", "EXIT"}, was: BOOLEAN, status: Status]
Frame == PlainFrame \cup ProgFrame \cup ItemFrame \cup KidFrame \cup LoopFrame
           \cup HandlerFrame

Result == {Go} \cup [is: {"ok"}, status: Status] \cup [is: {"err"}, error: Errors]

(***************************************************************************)
(* What is counted.                                                        *)
(***************************************************************************)
Stack == Seq(Frame)
Push(f, st) == <<f>> \o st

Conditions(st) == {i \in DOMAIN st : InCondition(st[i])}
Calls(st)      == {i \in DOMAIN st : IsCall(st[i])}
OwnOf(st)      == {i \in DOMAIN st : \A j \in 1..i : st[j].at # "child"}
OwnLoops(st)   == {i \in OwnOf(st) : IsLoop(st[i])}
OwnTraps(st)   == {i \in OwnOf(st) : IsTrap(st[i])}

CondCount(st) == Cardinality(Conditions(st))
CallCount(st) == Cardinality(Calls(st))
LoopCount(st) == Cardinality(OwnLoops(st))
InHandler(st) == OwnTraps(st) # {}

One(b) == IF b THEN 1 ELSE 0

(***************************************************************************)
(* Pushing and popping.                                                    *)
(***************************************************************************)
LEMMA PushProperties ==
  ASSUME NEW f \in Frame, NEW st \in Stack
  PROVE  /\ Push(f, st) \in Stack /\ Push(f, st) # <<>>
         /\ Len(Push(f, st)) = Len(st) + 1
         /\ Push(f, st)[1] = f
         /\ \A i \in 1..Len(st) : Push(f, st)[i + 1] = st[i]
         /\ Head(Push(f, st)) = f /\ Tail(Push(f, st)) = st
<1>1. /\ <<f>> \in Seq(Frame) /\ Len(<<f>>) = 1 /\ <<f>>[1] = f
      /\ st \in Seq(Frame) /\ Len(st) \in Nat
  BY DEF Stack
<1>2. /\ Push(f, st) \in Seq(Frame)
      /\ Len(Push(f, st)) = 1 + Len(st)
      /\ \A i \in 1..1 + Len(st) :
           Push(f, st)[i] = IF i <= 1 THEN <<f>>[i] ELSE st[i - 1]
  BY <1>1, ConcatProperties DEF Push
<1>3. Push(f, st) # <<>>
  BY <1>1, <1>2
<1>4. Push(f, st)[1] = f
  BY <1>1, <1>2
<1>5. \A i \in 1..Len(st) : Push(f, st)[i + 1] = st[i]
  BY <1>1, <1>2
<1>6. Head(Push(f, st)) = f
  BY <1>2, <1>3, <1>4
<1>7. Tail(Push(f, st)) = st
  <2>1. /\ Tail(Push(f, st)) \in Seq(Frame) /\ Len(Tail(Push(f, st))) = Len(st)
        /\ \A i \in 1..Len(st) : Tail(Push(f, st))[i] = Push(f, st)[i + 1]
    BY <1>1, <1>2, <1>3, HeadTailProperties
  <2> QED
    BY <1>1, <1>5, <2>1, SeqEqual
<1> QED
  BY <1>1, <1>2, <1>3, <1>4, <1>5, <1>6, <1>7 DEF Stack

LEMMA PopProperties ==
  ASSUME NEW st \in Stack, st # <<>>
  PROVE  /\ Head(st) \in Frame /\ Tail(st) \in Stack
         /\ st = Push(Head(st), Tail(st)) /\ st[1] = Head(st)
<1>1. /\ st \in Seq(Frame) /\ Head(st) \in Frame /\ Tail(st) \in Stack
      /\ Len(st) \in Nat \ {0} /\ Len(Tail(st)) = Len(st) - 1
      /\ \A i \in 1..Len(Tail(st)) : Tail(st)[i] = st[i + 1]
  BY HeadTailProperties, EmptySeq DEF Stack
<1>2. st[1] = Head(st)
  BY <1>1
<1>3. /\ Push(Head(st), Tail(st)) \in Seq(Frame)
      /\ Len(Push(Head(st), Tail(st))) = Len(st)
      /\ Push(Head(st), Tail(st))[1] = Head(st)
      /\ \A i \in 1..Len(Tail(st)) : Push(Head(st), Tail(st))[i + 1] = Tail(st)[i]
  <2>1. /\ Push(Head(st), Tail(st)) \in Stack
        /\ Len(Push(Head(st), Tail(st))) = Len(Tail(st)) + 1
        /\ Push(Head(st), Tail(st))[1] = Head(st)
        /\ \A i \in 1..Len(Tail(st)) : Push(Head(st), Tail(st))[i + 1] = Tail(st)[i]
    BY <1>1, PushProperties
  <2> QED
    BY <1>1, <2>1 DEF Stack
<1>4. ASSUME NEW i \in 1..Len(st) PROVE Push(Head(st), Tail(st))[i] = st[i]
  <2>1. CASE i = 1
    BY <1>2, <1>3, <2>1
  <2>2. CASE i # 1
    <3>1. i - 1 \in 1..Len(Tail(st)) /\ (i - 1) + 1 = i
      BY <1>1, <2>2
    <3> QED
      BY <1>1, <1>3, <3>1
  <2> QED
    BY <2>1, <2>2
<1>5. Push(Head(st), Tail(st)) = st
  BY <1>1, <1>3, <1>4, SeqEqual
<1> QED
  BY <1>1, <1>2, <1>5

\* Two frames in a sequence are two sequences of one frame.
LEMMA PairIs ==
  ASSUME NEW f \in Frame, NEW g \in Frame
  PROVE  <<f, g>> = <<f>> \o <<g>>
<1>1. <<f, g>> \in Seq(Frame) /\ Len(<<f, g>>) = 2
  OBVIOUS
<1>2. /\ <<f>> \o <<g>> \in Seq(Frame) /\ Len(<<f>> \o <<g>>) = 2
      /\ (<<f>> \o <<g>>)[1] = f /\ (<<f>> \o <<g>>)[2] = g
  <2>1. /\ Len(<<f>>) = 1 /\ Len(<<g>>) = 1 /\ <<f>>[1] = f /\ <<g>>[1] = g
        /\ <<f>> \in Seq(Frame) /\ <<g>> \in Seq(Frame)
    OBVIOUS
  <2>2. /\ <<f>> \o <<g>> \in Seq(Frame) /\ Len(<<f>> \o <<g>>) = 1 + 1
        /\ \A i \in 1..1 + 1 : (<<f>> \o <<g>>)[i] =
                                 IF i <= 1 THEN <<f>>[i] ELSE <<g>>[i - 1]
    BY <2>1, ConcatProperties
  <2> QED
    BY <2>1, <2>2
<1>3. \A i \in 1..2 : <<f, g>>[i] = (<<f>> \o <<g>>)[i]
  BY <1>2
<1> QED
  BY <1>1, <1>2, <1>3, SeqEqual

\* The forms in which ShellControl writes several frames on a stack.
LEMMA PushTwo ==
  ASSUME NEW f \in Frame, NEW g \in Frame, NEW st \in Stack
  PROVE  (<<f>> \o <<g>>) \o st = Push(f, Push(g, st))
<1>1. <<f>> \in Seq(Frame) /\ <<g>> \in Seq(Frame) /\ st \in Seq(Frame)
  BY DEF Stack
<1>2. (<<f>> \o <<g>>) \o st = <<f>> \o (<<g>> \o st)
  BY <1>1, ConcatAssociative
<1> QED
  BY <1>2, Zenon DEF Push

LEMMA PushBoth ==
  ASSUME NEW f \in Frame, NEW g \in Frame, NEW st \in Stack
  PROVE  <<f, g>> \o st = Push(f, Push(g, st))
<1>1. <<f, g>> = <<f>> \o <<g>>
  BY PairIs
<1>2. (<<f>> \o <<g>>) \o st = Push(f, Push(g, st))
  BY PushTwo
<1> QED
  BY <1>1, <1>2, Zenon

LEMMA PushThree ==
  ASSUME NEW f \in Frame, NEW g \in Frame, NEW h \in Frame, NEW st \in Stack
  PROVE  (<<f, g>> \o <<h>>) \o st = Push(f, Push(g, Push(h, st)))
<1>1. /\ <<f>> \in Seq(Frame) /\ <<g>> \in Seq(Frame) /\ <<h>> \in Seq(Frame)
      /\ st \in Seq(Frame) /\ <<f, g>> \in Seq(Frame)
  BY DEF Stack
<1>2. <<h>> \o st \in Seq(Frame)
  BY <1>1, ConcatProperties
<1>3. (<<f, g>> \o <<h>>) \o st = <<f, g>> \o (<<h>> \o st)
  BY <1>1, ConcatAssociative
<1>4. (<<f>> \o <<g>>) \o (<<h>> \o st) = <<f>> \o (<<g>> \o (<<h>> \o st))
  BY <1>1, <1>2, ConcatAssociative
<1>5. <<f, g>> = <<f>> \o <<g>>
  BY PairIs
<1> QED
  BY <1>3, <1>4, <1>5, Zenon DEF Push

LEMMA PushSeveral ==
  ASSUME NEW f \in Frame, NEW g \in Frame, NEW h \in Frame, NEW st \in Stack
  PROVE  /\ <<f>> \o st = Push(f, st)
         /\ (<<>> \o <<f>>) \o st = Push(f, st)
         /\ (<<f>> \o <<g>>) \o st = Push(f, Push(g, st))
         /\ <<f, g>> \o st = Push(f, Push(g, st))
         /\ (<<f, g>> \o <<h>>) \o st = Push(f, Push(g, Push(h, st)))
         /\ <<f, g>> = Push(f, Push(g, <<>>))
<1>1. <<f>> \in Seq(Frame) /\ <<g>> \in Seq(Frame)
  OBVIOUS
<1>2. <<f, g>> = <<f>> \o <<g>>
  BY PairIs
<1>3. (<<f>> \o <<g>>) \o st = Push(f, Push(g, st))
  BY PushTwo
<1>4. (<<f, g>> \o <<h>>) \o st = Push(f, Push(g, Push(h, st)))
  BY PushThree
<1>5. <<>> \o <<f>> = <<f>> /\ <<g>> \o <<>> = <<g>>
  BY <1>1, ConcatEmptySeq
<1> QED
  BY <1>2, <1>3, <1>4, <1>5, Zenon DEF Push

(***************************************************************************)
(* Sets of places, moved up by one more frame.                             *)
(***************************************************************************)
Up(S) == {i + 1 : i \in S}

LEMMA UpCount ==
  ASSUME NEW n \in Nat, NEW S \in SUBSET (1..n), NEW b \in BOOLEAN
  PROVE  /\ IsFiniteSet(S) /\ Cardinality(S) \in Nat
         /\ Cardinality((IF b THEN {1} ELSE {}) \cup Up(S)) = Cardinality(S) + One(b)
<1>1. IsFiniteSet(S) /\ Cardinality(S) \in Nat
  <2>1. IsFiniteSet(1..n)
    <3>1. 1 \in Int /\ n \in Int
      OBVIOUS
    <3> QED
      BY <3>1, FS_Interval
  <2>2. IsFiniteSet(S)
    BY <2>1, FS_Subset
  <2> QED
    BY <2>2, FS_CardinalityType
<1>2. IsFiniteSet(Up(S)) /\ Cardinality(Up(S)) = Cardinality(S)
  <2> DEFINE g == [i \in S |-> i + 1]
  <2>1. g \in Bijection(S, Up(S))
    BY DEF Up, Bijection, Injection, Surjection, IsInjective
  <2>2. ExistsBijection(S, Up(S))
    BY <2>1 DEF ExistsBijection
  <2> QED
    BY <1>1, <2>2, FS_Bijection
<1>3. 1 \notin Up(S)
  BY DEF Up
<1>4. Cardinality(Up(S) \cup {1}) = Cardinality(S) + 1
  BY <1>2, <1>3, FS_AddElement
<1>5. /\ b => (IF b THEN {1} ELSE {}) \cup Up(S) = Up(S) \cup {1} /\ One(b) = 1
      /\ ~b => (IF b THEN {1} ELSE {}) \cup Up(S) = Up(S) /\ One(b) = 0
  BY DEF One
<1>6. CASE b
  BY <1>1, <1>4, <1>5, <1>6
<1>7. CASE ~b
  BY <1>1, <1>2, <1>5, <1>7
<1> QED
  BY <1>1, <1>6, <1>7

LEMMA OwnPushed ==
  ASSUME NEW f \in Frame, NEW st \in Stack
  PROVE  OwnOf(Push(f, st)) = IF f.at = "child" THEN {} ELSE {1} \cup Up(OwnOf(st))
<1> DEFINE p == Push(f, st)
<1>1. /\ DOMAIN p = 1..Len(st) + 1 /\ DOMAIN st = 1..Len(st) /\ Len(st) \in Nat
      /\ p[1] = f /\ \A i \in 1..Len(st) : p[i + 1] = st[i]
  BY PushProperties, LenProperties DEF Stack
<1> HIDE DEF p
<1>2. CASE f.at = "child"
  <2>1. ASSUME NEW i \in DOMAIN p PROVE \E j \in 1..i : p[j].at = "child"
    BY <1>1, <1>2
  <2> QED
    BY <1>2, <2>1 DEF OwnOf, p
<1>3. CASE f.at # "child"
  <2>1. ASSUME NEW i \in OwnOf(p) PROVE i \in {1} \cup Up(OwnOf(st))
    <3>1. i \in 1..Len(st) + 1 /\ \A j \in 1..i : p[j].at # "child"
      BY <1>1 DEF OwnOf
    <3>2. CASE i # 1
      <4>1. i - 1 \in DOMAIN st /\ (i - 1) + 1 = i
        BY <1>1, <3>1, <3>2
      <4>2. ASSUME NEW j \in 1..i - 1 PROVE st[j].at # "child"
        <5>1. j \in 1..Len(st) /\ j + 1 \in 1..i
          BY <1>1, <3>1
        <5> QED
          BY <1>1, <3>1, <5>1
      <4>3. i - 1 \in OwnOf(st)
        BY <4>1, <4>2 DEF OwnOf
      <4> QED
        BY <4>1, <4>3 DEF Up
    <3> QED
      BY <3>2
  <2>2. 1 \in OwnOf(p)
    <3>1. 1 \in DOMAIN p /\ \A j \in 1..1 : j = 1
      BY <1>1
    <3> QED
      BY <1>1, <1>3, <3>1 DEF OwnOf
  <2>3. ASSUME NEW i \in OwnOf(st) PROVE i + 1 \in OwnOf(p)
    <3>1. i \in 1..Len(st) /\ \A j \in 1..i : st[j].at # "child"
      BY <1>1 DEF OwnOf
    <3>2. i + 1 \in DOMAIN p
      BY <1>1, <3>1
    <3>3. ASSUME NEW j \in 1..i + 1 PROVE p[j].at # "child"
      <4>1. CASE j = 1
        BY <1>1, <1>3, <4>1
      <4>2. CASE j # 1
        <5>1. j - 1 \in 1..i /\ j - 1 \in 1..Len(st) /\ (j - 1) + 1 = j
          BY <1>1, <3>1, <4>2
        <5> QED
          BY <1>1, <3>1, <5>1
      <4> QED
        BY <4>1, <4>2
    <3> QED
      BY <3>2, <3>3 DEF OwnOf
  <2>4. OwnOf(p) = {1} \cup Up(OwnOf(st))
    BY <2>1, <2>2, <2>3 DEF Up
  <2> QED
    BY <1>3, <2>4 DEF p
<1> QED
  BY <1>2, <1>3

\* One more frame counts for what it is; a child's loops and handlers are not
\* its parent's.
LEMMA CountsPushed ==
  ASSUME NEW f \in Frame, NEW st \in Stack
  PROVE  /\ CondCount(st) \in Nat /\ CallCount(st) \in Nat /\ LoopCount(st) \in Nat
         /\ CondCount(Push(f, st)) = CondCount(st) + One(InCondition(f))
         /\ CallCount(Push(f, st)) = CallCount(st) + One(IsCall(f))
         /\ LoopCount(Push(f, st)) = IF f.at = "child" THEN 0
                                     ELSE LoopCount(st) + One(IsLoop(f))
         /\ InHandler(Push(f, st)) = (f.at # "child" /\ (IsTrap(f) \/ InHandler(st)))
<1> DEFINE p == Push(f, st)
<1>1. /\ DOMAIN p = 1..Len(st) + 1 /\ DOMAIN st = 1..Len(st) /\ Len(st) \in Nat
      /\ p[1] = f /\ \A i \in 1..Len(st) : p[i + 1] = st[i]
  BY PushProperties, LenProperties DEF Stack
<1>2. OwnOf(p) = IF f.at = "child" THEN {} ELSE {1} \cup Up(OwnOf(st))
  BY OwnPushed
<1> HIDE DEF p
<1>3. ASSUME NEW i \in DOMAIN p, i # 1
      PROVE  i - 1 \in 1..Len(st) /\ (i - 1) + 1 = i /\ p[i] = st[i - 1]
  <2>1. i - 1 \in 1..Len(st) /\ (i - 1) + 1 = i
    BY <1>1, <1>3
  <2> QED
    BY <1>1, <2>1
<1>4. Conditions(p) = (IF InCondition(f) THEN {1} ELSE {}) \cup Up(Conditions(st))
  <2>1. ASSUME NEW i \in Conditions(p)
        PROVE  i \in (IF InCondition(f) THEN {1} ELSE {}) \cup Up(Conditions(st))
    <3>1. i \in DOMAIN p /\ InCondition(p[i])
      BY DEF Conditions
    <3>2. CASE i = 1
      BY <1>1, <3>1, <3>2
    <3>3. CASE i # 1
      <4>1. i - 1 \in Conditions(st) /\ (i - 1) + 1 = i
        BY <1>1, <1>3, <3>1, <3>3 DEF Conditions
      <4> QED
        BY <4>1 DEF Up
    <3> QED
      BY <3>2, <3>3
  <2>2. ASSUME InCondition(f) PROVE 1 \in Conditions(p)
    BY <1>1, <2>2 DEF Conditions
  <2>3. ASSUME NEW i \in Conditions(st) PROVE i + 1 \in Conditions(p)
    <3>1. i \in 1..Len(st) /\ i + 1 \in DOMAIN p /\ p[i + 1] = st[i]
      BY <1>1 DEF Conditions
    <3> QED
      BY <3>1 DEF Conditions
  <2> QED
    BY <2>1, <2>2, <2>3 DEF Up
<1>5. Calls(p) = (IF IsCall(f) THEN {1} ELSE {}) \cup Up(Calls(st))
  <2>1. ASSUME NEW i \in Calls(p)
        PROVE  i \in (IF IsCall(f) THEN {1} ELSE {}) \cup Up(Calls(st))
    <3>1. i \in DOMAIN p /\ IsCall(p[i])
      BY DEF Calls
    <3>2. CASE i = 1
      BY <1>1, <3>1, <3>2
    <3>3. CASE i # 1
      <4>1. i - 1 \in Calls(st) /\ (i - 1) + 1 = i
        BY <1>1, <1>3, <3>1, <3>3 DEF Calls
      <4> QED
        BY <4>1 DEF Up
    <3> QED
      BY <3>2, <3>3
  <2>2. ASSUME IsCall(f) PROVE 1 \in Calls(p)
    BY <1>1, <2>2 DEF Calls
  <2>3. ASSUME NEW i \in Calls(st) PROVE i + 1 \in Calls(p)
    <3>1. i \in 1..Len(st) /\ i + 1 \in DOMAIN p /\ p[i + 1] = st[i]
      BY <1>1 DEF Calls
    <3> QED
      BY <3>1 DEF Calls
  <2> QED
    BY <2>1, <2>2, <2>3 DEF Up
<1>6. ASSUME NEW i \in OwnOf(st) PROVE i \in 1..Len(st) /\ p[i + 1] = st[i]
  BY <1>1 DEF OwnOf
<1>7. OwnLoops(p) = IF f.at = "child" THEN {}
                    ELSE (IF IsLoop(f) THEN {1} ELSE {}) \cup Up(OwnLoops(st))
  BY <1>1, <1>2, <1>6 DEF OwnLoops, Up
<1>8. OwnTraps(p) = IF f.at = "child" THEN {}
                    ELSE (IF IsTrap(f) THEN {1} ELSE {}) \cup Up(OwnTraps(st))
  BY <1>1, <1>2, <1>6 DEF OwnTraps, Up
<1>9. /\ Conditions(st) \in SUBSET (1..Len(st)) /\ Calls(st) \in SUBSET (1..Len(st))
      /\ OwnLoops(st) \in SUBSET (1..Len(st))
  BY <1>1 DEF Conditions, Calls, OwnLoops, OwnOf
<1>10. InCondition(f) \in BOOLEAN /\ IsCall(f) \in BOOLEAN /\ IsLoop(f) \in BOOLEAN
  BY DEF InCondition, IsCall, IsLoop, Suppresses
<1>11. CondCount(st) \in Nat /\ CondCount(p) = CondCount(st) + One(InCondition(f))
  BY <1>1, <1>4, <1>9, <1>10, UpCount DEF CondCount
<1>12. CallCount(st) \in Nat /\ CallCount(p) = CallCount(st) + One(IsCall(f))
  BY <1>1, <1>5, <1>9, <1>10, UpCount DEF CallCount
<1>13. /\ LoopCount(st) \in Nat
       /\ LoopCount(p) = IF f.at = "child" THEN 0 ELSE LoopCount(st) + One(IsLoop(f))
  BY <1>1, <1>7, <1>9, <1>10, UpCount, FS_EmptySet DEF LoopCount
<1>14. InHandler(p) = (f.at # "child" /\ (IsTrap(f) \/ InHandler(st)))
  BY <1>8 DEF InHandler, Up
<1> QED
  BY <1>11, <1>12, <1>13, <1>14 DEF p

LEMMA CountsEmpty ==
  /\ <<>> \in Stack
  /\ CondCount(<<>>) = 0 /\ CallCount(<<>>) = 0 /\ LoopCount(<<>>) = 0
  /\ ~InHandler(<<>>)
<1>1. DOMAIN <<>> = {}
  OBVIOUS
<1>2. /\ Conditions(<<>>) = {} /\ Calls(<<>>) = {} /\ OwnLoops(<<>>) = {}
      /\ OwnTraps(<<>>) = {}
  BY <1>1 DEF Conditions, Calls, OwnLoops, OwnTraps, OwnOf
<1>3. <<>> \in Stack
  BY DEF Stack
<1>4. /\ CondCount(<<>>) = 0 /\ CallCount(<<>>) = 0 /\ LoopCount(<<>>) = 0
  BY <1>2, FS_EmptySet DEF CondCount, CallCount, LoopCount
<1>5. ~InHandler(<<>>)
  BY <1>2 DEF InHandler
<1> QED
  BY <1>3, <1>4, <1>5

(***************************************************************************)
(* The inductive invariant.  A state fits a stack when its counters are    *)
(* what the stack makes them, or too high after an error (l).  A frame is  *)
(* settled on what is below it when the state it gives back fits there.    *)
(***************************************************************************)
Fits(s, st, l) ==
  /\ s.suppressed >= CondCount(st) /\ (~l => s.suppressed = CondCount(st))
  /\ s.loop_depth >= LoopCount(st) /\ (~l => s.loop_depth = LoopCount(st))
  /\ (InHandler(st) => s.in_trap) /\ (~l => (s.in_trap => InHandler(st)))
  /\ s.in_function_depth = CallCount(st)
  /\ s.control_flow.to = "return" => s.in_function_depth > 0

On(st, what) == st # <<>> /\ Head(st).at = what

Settled(f, st, l) ==
  /\ f.at = "child" => /\ Fits(f.parent, st, l) /\ ~Leaving(f.parent)
                       /\ f.how = "async" => On(st, "list")
  /\ f.at = "trap" => /\ f.was = FALSE /\ ~InHandler(st)
                      /\ f.signal = "ERR" => On(st, "list")
                      /\ f.signal = "EXIT" => st = <<>>
  /\ f.at = "exec" => st = <<>>

Below(st, i) == SubSeq(st, i + 1, Len(st))
AllSettled(st, l) == \A i \in DOMAIN st : Settled(st[i], Below(st, i), l)

Fine(s, st, l) == s \in State /\ st \in Stack /\ Fits(s, st, l) /\ AllSettled(st, l)

\* The frame on top may act: a loop is at its top, a command may start.
Resumable(s, st) ==
  /\ On(st, "loop") => Head(st).part = "top"
  /\ On(st, "item") \/ (On(st, "child") /\ Head(st).how = "stage") => ~Leaving(s)

Gives(s, st, r, l) == Fine(s, st, l) /\ r \in Result /\ (r = Go => Resumable(s, st))

IInv == script \in Script /\ leaked \in BOOLEAN /\ Gives(sh, stack, ret, leaked)

(***************************************************************************)
(* Frames on stacks.                                                       *)
(***************************************************************************)
LEMMA BelowPushed ==
  ASSUME NEW f \in Frame, NEW st \in Stack
  PROVE  /\ Below(Push(f, st), 1) = st
         /\ \A i \in 1..Len(st) : Below(Push(f, st), i + 1) = Below(st, i)
<1> DEFINE p == Push(f, st)
<1>1. /\ p \in Seq(Frame) /\ st \in Seq(Frame) /\ Len(st) \in Nat
      /\ Len(p) = Len(st) + 1 /\ \A i \in 1..Len(st) : p[i + 1] = st[i]
  BY PushProperties, LenProperties DEF Stack
<1> HIDE DEF p
<1>2. ASSUME NEW i \in 0..Len(st)
      PROVE  Below(p, i + 1) = SubSeq(st, i + 1, Len(st))
  <2>1. \A j \in i + 2..Len(st) + 1 : p[j] \in Frame
    BY <1>1, ElementOfSeq
  <2>2. \A j \in i + 1..Len(st) : st[j] \in Frame
    BY <1>1, ElementOfSeq
  <2>3. /\ SubSeq(p, i + 2, Len(st) + 1) \in Seq(Frame)
        /\ Len(SubSeq(p, i + 2, Len(st) + 1)) = Len(st) - i
        /\ \A j \in 1..Len(st) - i : SubSeq(p, i + 2, Len(st) + 1)[j] = p[i + 1 + j]
    <3>1. /\ SubSeq(p, i + 2, Len(st) + 1) \in Seq(Frame)
          /\ Len(SubSeq(p, i + 2, Len(st) + 1)) =
               IF i + 2 <= Len(st) + 1 THEN (Len(st) + 1) - (i + 2) + 1 ELSE 0
          /\ \A j \in 1..(Len(st) + 1) - (i + 2) + 1 :
               SubSeq(p, i + 2, Len(st) + 1)[j] = p[i + 2 + j - 1]
      <4>1. i + 2 \in Int /\ Len(st) + 1 \in Int
        BY <1>1
      <4> QED
        BY <2>1, <4>1, SubSeqProperties
    <3> QED
      BY <1>1, <3>1
  <2>4. /\ SubSeq(st, i + 1, Len(st)) \in Seq(Frame)
        /\ Len(SubSeq(st, i + 1, Len(st))) = Len(st) - i
        /\ \A j \in 1..Len(st) - i : SubSeq(st, i + 1, Len(st))[j] = st[i + j]
    <3>1. /\ SubSeq(st, i + 1, Len(st)) \in Seq(Frame)
          /\ Len(SubSeq(st, i + 1, Len(st))) =
               IF i + 1 <= Len(st) THEN Len(st) - (i + 1) + 1 ELSE 0
          /\ \A j \in 1..Len(st) - (i + 1) + 1 :
               SubSeq(st, i + 1, Len(st))[j] = st[i + 1 + j - 1]
      <4>1. i + 1 \in Int /\ Len(st) \in Int
        BY <1>1
      <4> QED
        BY <2>2, <4>1, SubSeqProperties
    <3> QED
      BY <1>1, <3>1
  <2>5. ASSUME NEW j \in 1..Len(st) - i PROVE p[i + 1 + j] = st[i + j]
    <3>1. i + j \in 1..Len(st) /\ (i + j) + 1 = i + 1 + j
      BY <1>1
    <3> QED
      BY <1>1, <3>1
  <2>6. SubSeq(p, i + 2, Len(st) + 1) = SubSeq(st, i + 1, Len(st))
    <3>1. \A j \in 1..Len(SubSeq(p, i + 2, Len(st) + 1)) :
            SubSeq(p, i + 2, Len(st) + 1)[j] = SubSeq(st, i + 1, Len(st))[j]
      BY <2>3, <2>4, <2>5
    <3>2. Len(SubSeq(p, i + 2, Len(st) + 1)) = Len(SubSeq(st, i + 1, Len(st)))
      BY <2>3, <2>4
    <3> HIDE <2>5
    <3> QED
      BY <2>3, <2>4, <3>1, <3>2, SeqEqual
  <2>7. (i + 1) + 1 = i + 2
    OBVIOUS
  <2> QED
    BY <1>1, <2>6, <2>7 DEF Below
<1>3. SubSeq(st, 0 + 1, Len(st)) = st
  BY <1>1, SubSeqFull
<1>4. Below(p, 1) = st
  <2>1. 0 \in 0..Len(st) /\ 0 + 1 = 1
    BY <1>1
  <2> QED
    BY <1>2, <1>3, <2>1
<1>5. ASSUME NEW i \in 1..Len(st) PROVE Below(p, i + 1) = Below(st, i)
  <2>1. i \in 0..Len(st)
    BY <1>1
  <2> QED
    BY <1>2, <2>1 DEF Below
<1> QED
  BY <1>4, <1>5 DEF p

LEMMA SettledPushed ==
  ASSUME NEW f \in Frame, NEW st \in Stack, NEW l
  PROVE  AllSettled(Push(f, st), l) <=> Settled(f, st, l) /\ AllSettled(st, l)
<1> DEFINE p == Push(f, st)
<1>1. /\ DOMAIN p = 1..Len(st) + 1 /\ DOMAIN st = 1..Len(st) /\ Len(st) \in Nat
      /\ p[1] = f /\ \A i \in 1..Len(st) : p[i + 1] = st[i]
  BY PushProperties, LenProperties DEF Stack
<1>2. /\ Below(p, 1) = st
      /\ \A i \in 1..Len(st) : Below(p, i + 1) = Below(st, i)
  BY BelowPushed
<1> HIDE DEF p
<1>3. ASSUME AllSettled(p, l) PROVE Settled(f, st, l) /\ AllSettled(st, l)
  <2>1. Settled(f, st, l)
    <3>1. 1 \in DOMAIN p
      BY <1>1
    <3> QED
      BY <1>1, <1>2, <1>3, <3>1 DEF AllSettled
  <2>2. ASSUME NEW i \in DOMAIN st PROVE Settled(st[i], Below(st, i), l)
    <3>1. i \in 1..Len(st) /\ i + 1 \in DOMAIN p
      BY <1>1
    <3> QED
      BY <1>1, <1>2, <1>3, <3>1 DEF AllSettled
  <2> QED
    BY <2>1, <2>2 DEF AllSettled
<1>4. ASSUME Settled(f, st, l), AllSettled(st, l) PROVE AllSettled(p, l)
  <2>1. ASSUME NEW i \in DOMAIN p PROVE Settled(p[i], Below(p, i), l)
    <3>1. CASE i = 1
      BY <1>1, <1>2, <1>4, <3>1
    <3>2. CASE i # 1
      <4>1. i - 1 \in 1..Len(st) /\ (i - 1) + 1 = i
        BY <1>1, <3>2
      <4>2. Settled(st[i - 1], Below(st, i - 1), l)
        BY <1>1, <1>4, <4>1 DEF AllSettled
      <4> QED
        BY <1>1, <1>2, <4>1, <4>2
    <3> QED
      BY <3>1, <3>2
  <2> QED
    BY <2>1 DEF AllSettled
<1> QED
  BY <1>3, <1>4 DEF p

LEMMA SettledEmpty == ASSUME NEW l PROVE AllSettled(<<>>, l)
<1>1. DOMAIN <<>> = {}
  OBVIOUS
<1> QED
  BY <1>1 DEF AllSettled

\* After an error less is asked.
LEMMA Weaker ==
  ASSUME NEW s, NEW st, NEW l \in BOOLEAN, NEW m \in BOOLEAN, l => m
  PROVE  /\ Fits(s, st, l) => Fits(s, st, m)
         /\ AllSettled(st, l) => AllSettled(st, m)
         /\ Fine(s, st, l) => Fine(s, st, m)
<1>1. \A t, u : Fits(t, u, l) => Fits(t, u, m)
  BY DEF Fits
<1>2. \A f, u : Settled(f, u, l) => Settled(f, u, m)
  BY <1>1 DEF Settled
<1> QED
  BY <1>1, <1>2 DEF AllSettled, Fine

\* What Fine says of the frame on top, and of the rest.
LEMMA FinePushed ==
  ASSUME NEW s, NEW f \in Frame, NEW st \in Stack, NEW l
  PROVE  Fine(s, Push(f, st), l) <=>
           /\ s \in State /\ Settled(f, st, l) /\ AllSettled(st, l)
           /\ Fits(s, Push(f, st), l)
BY SettledPushed, PushProperties DEF Fine

LEMMA FinePopped ==
  ASSUME NEW s, NEW st, NEW l, Fine(s, st, l), st # <<>>
  PROVE  /\ Head(st) \in Frame /\ Tail(st) \in Stack
         /\ st = Push(Head(st), Tail(st))
         /\ Settled(Head(st), Tail(st), l) /\ AllSettled(Tail(st), l)
BY PopProperties, SettledPushed DEF Fine

\* Frames by what they are.
LEMMA FrameKinds ==
  ASSUME NEW f \in Frame
  PROVE  /\ f.at = "item" => f \in ItemFrame
         /\ f.at = "child" => f \in KidFrame
         /\ f.at = "loop" => f \in LoopFrame
         /\ f.at = "trap" => f \in HandlerFrame
         /\ f.at = "program" => f \in ProgFrame
         /\ f.at \in {"list", "command", "if", "function", "exec", "program", "item",
                      "child", "loop", "trap"}
BY DEF Frame, PlainFrame, ProgFrame, ItemFrame, KidFrame, LoopFrame, HandlerFrame

(***************************************************************************)
(* Values.                                                                 *)
(***************************************************************************)
LEMMA Results ==
  /\ Go \in Result /\ Go.is = "go"
  /\ \A c \in Status : Ok(c) \in Result /\ Ok(c) # Go /\ Ok(c).is = "ok"
  /\ \A e \in Errors : Err(e) \in Result /\ Err(e) # Go /\ Err(e).is = "err"
<1>1. Go \in Result /\ Go.is = "go"
  BY DEF Go, Result
<1>2. \A c \in Status : Ok(c) \in Result /\ Ok(c).is = "ok"
  BY DEF Ok, Result
<1>3. \A e \in Errors : Err(e) \in Result /\ Err(e).is = "err"
  BY DEF Err, Result
<1> QED
  BY <1>1, <1>2, <1>3

LEMMA ResultKinds ==
  ASSUME NEW r \in Result
  PROVE  /\ (r # Go) <=> (r.is \in {"ok", "err"})
         /\ r.is = "ok" => r.status \in Status
         /\ r.is = "err" => r.error \in Errors
<1>1. CASE r = Go
  BY <1>1, Results
<1>2. CASE r \in [is: {"ok"}, status: Status]
  BY <1>2, Results
<1>3. CASE r \in [is: {"err"}, error: Errors]
  BY <1>3, Results
<1> QED
  BY <1>1, <1>2, <1>3 DEF Result

LEMMA Flows ==
  /\ NoFlow \in Flow /\ NoFlow.to = "none"
  /\ \A n \in Nat : Break(n) \in Flow /\ Continue(n) \in Flow
  /\ \A n : Break(n).to = "break" /\ Continue(n).to = "continue"
  /\ \A c \in Status : Return(c) \in Flow
BY DEF Flow, NoFlow, Break, Continue, Return, Status

\* s and t differ in flags that are not counted.
Alike(s, t) ==
  /\ t \in State
  /\ t.suppressed = s.suppressed /\ t.loop_depth = s.loop_depth
  /\ t.in_function_depth = s.in_function_depth /\ t.in_trap = s.in_trap
  /\ t.control_flow = s.control_flow

LEMMA AlikeFits ==
  ASSUME NEW s, NEW t, NEW st, NEW l, Alike(s, t)
  PROVE  /\ Fits(s, st, l) => Fits(t, st, l)
         /\ Fine(s, st, l) => Fine(t, st, l)
BY DEF Alike, Fits, Fine

LEMMA CheckedAlike ==
  ASSUME NEW s \in State, NEW c
  PROVE  Alike(s, check_errexit(s, c))
BY DEF check_errexit, Alike, State

LEMMA ChildState ==
  ASSUME NEW s \in State
  PROVE  /\ Child(s) \in State /\ ~Leaving(Child(s))
         /\ Child(s).suppressed = s.suppressed /\ Child(s).loop_depth = 0
         /\ Child(s).in_function_depth = s.in_function_depth
         /\ Child(s).in_trap = FALSE /\ Child(s).control_flow = NoFlow
BY Flows DEF Child, State, Leaving

(***************************************************************************)
(* Pushing the frames of ShellControl.                                     *)
(***************************************************************************)
\* Lists, programs and commands are not counted.
LEMMA QuietPushed ==
  ASSUME NEW f \in Frame, f.at \in {"list", "command", "program"},
         NEW s, NEW st \in Stack, NEW l
  PROVE  /\ Fits(s, Push(f, st), l) <=> Fits(s, st, l)
         /\ Fine(s, Push(f, st), l) <=> Fine(s, st, l)
<1>1. /\ CondCount(st) \in Nat /\ CallCount(st) \in Nat /\ LoopCount(st) \in Nat
      /\ CondCount(Push(f, st)) = CondCount(st)
      /\ CallCount(Push(f, st)) = CallCount(st)
      /\ LoopCount(Push(f, st)) = LoopCount(st)
      /\ InHandler(Push(f, st)) = InHandler(st)
  <2>1. ~InCondition(f) /\ ~IsCall(f) /\ ~IsLoop(f) /\ ~IsTrap(f) /\ f.at # "child"
    BY DEF InCondition, IsCall, IsLoop, IsTrap
  <2>2. InHandler(st) \in BOOLEAN
    BY DEF InHandler
  <2> QED
    BY <2>1, <2>2, CountsPushed DEF One
<1>2. Fits(s, Push(f, st), l) <=> Fits(s, st, l)
  BY <1>1 DEF Fits
<1>3. Settled(f, st, l)
  BY DEF Settled
<1> QED
  BY <1>2, <1>3, FinePushed DEF Fine

\* A child starts with its own loops and handlers, and its parent waits.
LEMMA ChildPushed ==
  ASSUME NEW s \in State, NEW st \in Stack, NEW l, Fine(s, st, l), ~Leaving(s),
         NEW how \in {"stage", "async", "subshell"}, how = "async" => On(st, "list")
  PROVE  /\ ChildFrame(how, s) \in Frame
         /\ Fine(Child(s), Push(ChildFrame(how, s), st), l)
<1> DEFINE f == ChildFrame(how, s)
<1>1. f \in Frame /\ f.at = "child" /\ f.how = how /\ f.parent = s
  BY DEF Frame, KidFrame, ChildFrame
<1>2. Settled(f, st, l)
  BY <1>1 DEF Settled, Fine
<1>3. ~InCondition(f) /\ ~IsCall(f)
  BY <1>1 DEF InCondition, IsCall
<1>4. Fits(Child(s), Push(f, st), l)
  <2>1. /\ CondCount(st) \in Nat /\ CallCount(st) \in Nat
        /\ CondCount(Push(f, st)) = CondCount(st)
        /\ CallCount(Push(f, st)) = CallCount(st)
        /\ LoopCount(Push(f, st)) = 0 /\ ~InHandler(Push(f, st))
    <3> HIDE DEF f
    <3>1. /\ CondCount(st) \in Nat /\ CallCount(st) \in Nat
          /\ CondCount(Push(f, st)) = CondCount(st) + One(InCondition(f))
          /\ CallCount(Push(f, st)) = CallCount(st) + One(IsCall(f))
          /\ LoopCount(Push(f, st)) = 0 /\ ~InHandler(Push(f, st))
      BY <1>1, CountsPushed
    <3>2. One(InCondition(f)) = 0 /\ One(IsCall(f)) = 0
      BY <1>3 DEF One
    <3> QED
      BY <3>1, <3>2
  <2>2. /\ Child(s).suppressed = s.suppressed /\ Child(s).loop_depth = 0
        /\ Child(s).in_function_depth = s.in_function_depth
        /\ Child(s).in_trap = FALSE /\ Child(s).control_flow.to = "none"
    BY ChildState, Flows
  <2>3. Fits(s, st, l)
    BY DEF Fine
  <2> HIDE DEF f
  <2> QED
    BY <2>1, <2>2, <2>3 DEF Fits
<1> QED
  BY <1>1, <1>2, <1>4, ChildState, FinePushed DEF Fine

\* A pipeline that is an operand on the left is one more condition.
Item(role, bang, pipe) == [at |-> "item", role |-> role, bang |-> bang, pipe |-> pipe]
LEMMA ItemPushed ==
  ASSUME NEW role \in {"only", "left", "last"}, NEW bang \in BOOLEAN,
         NEW pipe \in {"none", "stages", "last"}, NEW s, NEW t \in State,
         NEW st \in Stack, NEW l, Fine(s, st, l),
         Alike([s EXCEPT !.suppressed = @ + One(role = "left")], t)
  PROVE  /\ Item(role, bang, pipe) \in Frame
         /\ Fine(t, Push(Item(role, bang, pipe), st), l)
<1> DEFINE f == Item(role, bang, pipe)
<1>1. f \in Frame /\ f.at = "item" /\ f.role = role
  BY DEF Frame, ItemFrame, Item
<1>2. /\ InCondition(f) = (role = "left")
      /\ ~IsCall(f) /\ ~IsLoop(f) /\ ~IsTrap(f)
  BY <1>1 DEF InCondition, Suppresses, IsCall, IsLoop, IsTrap
<1>3. /\ CondCount(st) \in Nat /\ CallCount(st) \in Nat /\ LoopCount(st) \in Nat
      /\ CondCount(Push(f, st)) = CondCount(st) + One(role = "left")
      /\ CallCount(Push(f, st)) = CallCount(st)
      /\ LoopCount(Push(f, st)) = LoopCount(st)
      /\ InHandler(Push(f, st)) = InHandler(st)
  <2> HIDE DEF f
  <2>1. InHandler(st) \in BOOLEAN /\ InHandler(Push(f, st)) \in BOOLEAN
    BY DEF InHandler
  <2>2. /\ CondCount(st) \in Nat /\ CallCount(st) \in Nat /\ LoopCount(st) \in Nat
        /\ CondCount(Push(f, st)) = CondCount(st) + One(InCondition(f))
        /\ CallCount(Push(f, st)) = CallCount(st) + One(IsCall(f))
        /\ LoopCount(Push(f, st)) = LoopCount(st) + One(IsLoop(f))
        /\ InHandler(Push(f, st)) = (IsTrap(f) \/ InHandler(st))
    BY <1>1, CountsPushed
  <2>3. One(IsCall(f)) = 0 /\ One(IsLoop(f)) = 0
    BY <1>2 DEF One
  <2>4. One(InCondition(f)) = One(role = "left")
    BY <1>2
  <2>5. InHandler(Push(f, st)) = InHandler(st)
    BY <1>2, <2>1, <2>2
  <2> QED
    BY <2>2, <2>3, <2>4, <2>5
<1>4. /\ s \in State /\ t.suppressed = s.suppressed + One(role = "left")
      /\ t.loop_depth = s.loop_depth /\ t.in_function_depth = s.in_function_depth
      /\ t.in_trap = s.in_trap /\ t.control_flow = s.control_flow
  BY DEF Alike, Fine, State
<1>5. Fits(t, Push(f, st), l)
  <2>1. One(role = "left") \in Nat /\ s.suppressed \in Nat
    BY <1>4 DEF One, State
  <2> QED
    BY <1>3, <1>4, <2>1 DEF Fits, Fine
<1>6. Settled(f, st, l)
  BY <1>1 DEF Settled
<1> QED
  BY <1>1, <1>5, <1>6, FinePushed DEF Fine

(***************************************************************************)
(* Lists and pipelines.                                                    *)
(***************************************************************************)
LEMMA ListPopped ==
  ASSUME NEW s, NEW st, NEW l, Fine(s, st, l), On(st, "list")
  PROVE  st \in Stack /\ Tail(st) \in Stack /\ Fine(s, Tail(st), l)
<1>1. /\ Head(st) \in Frame /\ Tail(st) \in Stack /\ st = Push(Head(st), Tail(st))
      /\ Head(st).at = "list"
  BY FinePopped DEF On
<1> QED
  BY <1>1, QuietPushed DEF Fine

\* What the top of a new stack lets resume.
LEMMA Resumes ==
  ASSUME NEW s, NEW f \in Frame, NEW st \in Stack,
         \/ f.at \in {"list", "program"}
         \/ f.at \in {"item", "child"} /\ ~Leaving(s)
         \/ f.at = "loop" /\ f.part = "top"
  PROVE  Resumable(s, Push(f, st))
BY PushProperties DEF Resumable, On

LEMMA StartPipelineGives ==
  ASSUME NEW s, NEW below \in Stack, NEW l, Fine(s, below, l), ~Leaving(s),
         NEW role \in {"only", "left", "last"}, StartPipeline(s, below, role)
  PROVE  Gives(sh', stack', ret', l)
<1>1. PICK bang \in BOOLEAN, pipe \in BOOLEAN :
        LET begun == [s EXCEPT !.suppressed = @ + (IF Suppresses(role) THEN 1 ELSE 0),
                               !.bang = @ + (IF bang THEN 1 ELSE 0)]
            item  == [at |-> "item", role |-> role, bang |-> bang,
                      pipe |-> IF pipe THEN "stages" ELSE "none"]
        IN  /\ stack' = (IF pipe THEN <<ChildFrame("stage", begun)>> ELSE <<>>)
                          \o <<item>> \o below
            /\ sh' = IF pipe THEN Child(begun) ELSE begun
            /\ ret' = Go
  BY DEF StartPipeline
<1> DEFINE begun == [s EXCEPT !.suppressed = @ + (IF Suppresses(role) THEN 1 ELSE 0),
                              !.bang = @ + (IF bang THEN 1 ELSE 0)]
           item  == Item(role, bang, IF pipe THEN "stages" ELSE "none")
<1>2. /\ stack' = (IF pipe THEN <<ChildFrame("stage", begun)>> ELSE <<>>)
                    \o <<item>> \o below
      /\ sh' = IF pipe THEN Child(begun) ELSE begun
      /\ ret' = Go
  BY <1>1 DEF Item
<1>3. /\ begun \in State /\ ~Leaving(begun)
      /\ Alike([s EXCEPT !.suppressed = @ + One(role = "left")], begun)
  <2> DEFINE more == IF Suppresses(role) THEN 1 ELSE 0
             bangs == IF bang THEN 1 ELSE 0
  <2>1. s \in State
    BY DEF Fine
  <2>2. more \in Nat /\ bangs \in Nat /\ One(role = "left") = more
    BY DEF One, Suppresses
  <2>3. begun = [s EXCEPT !.suppressed = @ + more, !.bang = @ + bangs]
    OBVIOUS
  <2> HIDE DEF more, bangs, begun
  <2>4. begun \in State
    <3>1. s.suppressed + more \in Nat /\ s.bang + bangs \in Nat
      BY <2>1, <2>2 DEF State
    <3> QED
      BY <2>1, <2>3, <3>1 DEF State
  <2>5. /\ begun.suppressed = s.suppressed + more /\ begun.loop_depth = s.loop_depth
        /\ begun.in_function_depth = s.in_function_depth
        /\ begun.in_trap = s.in_trap /\ begun.control_flow = s.control_flow
        /\ begun.should_exit = s.should_exit
    BY <2>1, <2>3 DEF State
  <2>6. Alike([s EXCEPT !.suppressed = @ + One(role = "left")], begun)
    BY <2>1, <2>2, <2>4, <2>5 DEF State, Alike
  <2> QED
    BY <2>4, <2>5, <2>6 DEF Leaving
<1>4. item \in Frame /\ item.at = "item" /\ Fine(begun, Push(item, below), l)
  <2>1. item.at = "item"
    BY DEF Item
  <2>2. (IF pipe THEN "stages" ELSE "none") \in {"none", "stages", "last"}
    OBVIOUS
  <2> HIDE DEF begun
  <2> QED
    BY <1>3, <2>1, <2>2, ItemPushed
<1>5. Push(item, below) \in Stack
  BY <1>4, PushProperties
<1>6. Go \in Result
  BY Results
<1> HIDE DEF begun, item
<1>7. CASE pipe
  <2> DEFINE kid == ChildFrame("stage", begun)
  <2>1. /\ kid \in Frame /\ Fine(Child(begun), Push(kid, Push(item, below)), l)
    BY <1>3, <1>4, <1>5, ChildPushed
  <2>2. kid.at = "child" /\ ~Leaving(Child(begun))
    BY <1>3, ChildState DEF ChildFrame
  <2>3. stack' = Push(kid, Push(item, below)) /\ sh' = Child(begun)
    BY <1>2, <1>4, <1>7, <2>1, PushSeveral
  <2> HIDE DEF kid
  <2>4. Resumable(Child(begun), Push(kid, Push(item, below)))
    BY <1>5, <2>1, <2>2, Resumes
  <2> QED
    BY <1>2, <1>6, <2>1, <2>3, <2>4 DEF Gives
<1>8. CASE ~pipe
  <2>1. stack' = Push(item, below) /\ sh' = begun
    BY <1>2, <1>4, <1>8, PushSeveral
  <2>2. Resumable(begun, Push(item, below))
    BY <1>3, <1>4, Resumes
  <2> QED
    BY <1>2, <1>4, <1>6, <2>1, <2>2 DEF Gives
<1> QED
  BY <1>7, <1>8

LEMMA StartItemGives ==
  ASSUME NEW s, NEW st, NEW l, Fine(s, st, l), On(st, "list"), ~Leaving(s),
         StartItem(s, st)
  PROVE  Gives(sh', stack', ret', l)
<1>1. st \in Stack /\ s \in State
  BY DEF Fine
<1>2. PICK role \in {"only", "left"} :
        \/ StartPipeline(s, st, role)
        \/ StartPipeline(Child(s), <<ChildFrame("async", s)>> \o st, role)
  BY DEF StartItem
<1>3. CASE StartPipeline(s, st, role)
  BY <1>1, <1>3, StartPipelineGives
<1>4. CASE StartPipeline(Child(s), <<ChildFrame("async", s)>> \o st, role)
  <2>1. /\ ChildFrame("async", s) \in Frame
        /\ Fine(Child(s), Push(ChildFrame("async", s), st), l)
    BY <1>1, ChildPushed
  <2>2. <<ChildFrame("async", s)>> \o st = Push(ChildFrame("async", s), st)
    BY DEF Push
  <2>3. Push(ChildFrame("async", s), st) \in Stack /\ ~Leaving(Child(s))
    BY <1>1, <2>1, PushProperties, ChildState
  <2> QED
    BY <1>4, <2>1, <2>2, <2>3, StartPipelineGives
<1> QED
  BY <1>2, <1>3, <1>4

LEMMA ListEndsGives ==
  ASSUME NEW s, NEW st, NEW l, Fine(s, st, l), On(st, "list"), NEW c \in Status,
         ListEnds(s, st, c)
  PROVE  Gives(sh', stack', ret', l)
<1>1. Alike(s, [s EXCEPT !.abort = FALSE])
  BY DEF Fine, Alike, State
<1>2. Fine(sh', stack', l)
  BY <1>1, ListPopped, AlikeFits DEF ListEnds
<1> QED
  BY <1>2, Results DEF ListEnds, Gives

LEMMA ListContinuesGives ==
  ASSUME NEW s, NEW st, NEW l, Fine(s, st, l), On(st, "list"), NEW c \in Status,
         ListContinues(s, st, c)
  PROVE  Gives(sh', stack', ret', l)
BY ListEndsGives, StartItemGives DEF ListContinues, ListStops, Leaving

(***************************************************************************)
(* The other frames.                                                       *)
(***************************************************************************)
\* What each kind of frame counts.
LEMMA Counted ==
  ASSUME NEW f \in Frame, NEW st \in Stack, f.at # "child"
  PROVE  /\ CondCount(st) \in Nat /\ CallCount(st) \in Nat /\ LoopCount(st) \in Nat
         /\ f.at = "if" => CondCount(Push(f, st)) = CondCount(st) + 1
         /\ f.at \in {"function", "trap", "exec"} => CondCount(Push(f, st)) = CondCount(st)
         /\ f.at = "loop" => CondCount(Push(f, st)) =
                               CondCount(st) + One(f.part = "condition")
         /\ f.at = "function" => CallCount(Push(f, st)) = CallCount(st) + 1
         /\ f.at \in {"if", "loop", "trap", "exec"} => CallCount(Push(f, st)) = CallCount(st)
         /\ f.at = "loop" => LoopCount(Push(f, st)) = LoopCount(st) + 1
         /\ f.at \in {"if", "function", "trap", "exec"} =>
              LoopCount(Push(f, st)) = LoopCount(st)
         /\ f.at = "trap" => InHandler(Push(f, st))
         /\ f.at \in {"if", "function", "loop", "exec"} =>
              InHandler(Push(f, st)) = InHandler(st)
<1>1. /\ CondCount(st) \in Nat /\ CallCount(st) \in Nat /\ LoopCount(st) \in Nat
      /\ CondCount(Push(f, st)) = CondCount(st) + One(InCondition(f))
      /\ CallCount(Push(f, st)) = CallCount(st) + One(IsCall(f))
      /\ LoopCount(Push(f, st)) = LoopCount(st) + One(IsLoop(f))
      /\ InHandler(Push(f, st)) = (IsTrap(f) \/ InHandler(st))
  BY CountsPushed
<1>2. InHandler(st) \in BOOLEAN
  BY DEF InHandler
<1>3. /\ f.at = "if" => One(InCondition(f)) = 1
      /\ f.at \in {"function", "trap", "exec"} => One(InCondition(f)) = 0
      /\ f.at = "loop" => One(InCondition(f)) = One(f.part = "condition")
  BY DEF One, InCondition
<1>4. /\ f.at = "function" => One(IsCall(f)) = 1 /\ One(IsLoop(f)) = 0 /\ ~IsTrap(f)
      /\ f.at = "loop" => One(IsCall(f)) = 0 /\ One(IsLoop(f)) = 1 /\ ~IsTrap(f)
      /\ f.at = "trap" => One(IsCall(f)) = 0 /\ One(IsLoop(f)) = 0 /\ IsTrap(f)
      /\ f.at \in {"if", "exec"} => One(IsCall(f)) = 0 /\ One(IsLoop(f)) = 0 /\ ~IsTrap(f)
  BY DEF One, IsCall, IsLoop, IsTrap
<1>5. ~IsTrap(f) => InHandler(Push(f, st)) = InHandler(st)
  BY <1>1, <1>2
<1>6. IsTrap(f) => InHandler(Push(f, st))
  BY <1>1
<1>7. f.at = "if" => /\ CondCount(Push(f, st)) = CondCount(st) + 1
                     /\ CallCount(Push(f, st)) = CallCount(st)
                     /\ LoopCount(Push(f, st)) = LoopCount(st)
  BY <1>1, <1>3, <1>4
<1>8. f.at = "function" => /\ CondCount(Push(f, st)) = CondCount(st)
                           /\ CallCount(Push(f, st)) = CallCount(st) + 1
                           /\ LoopCount(Push(f, st)) = LoopCount(st)
  BY <1>1, <1>3, <1>4
<1>9. f.at = "loop" => /\ CondCount(Push(f, st)) = CondCount(st) + One(f.part = "condition")
                       /\ CallCount(Push(f, st)) = CallCount(st)
                       /\ LoopCount(Push(f, st)) = LoopCount(st) + 1
  BY <1>1, <1>3, <1>4
<1>10. f.at \in {"trap", "exec"} => /\ CondCount(Push(f, st)) = CondCount(st)
                                    /\ CallCount(Push(f, st)) = CallCount(st)
                                    /\ LoopCount(Push(f, st)) = LoopCount(st)
  BY <1>1, <1>3, <1>4
<1>11. /\ f.at = "trap" => InHandler(Push(f, st))
       /\ f.at \in {"if", "function", "loop", "exec"} =>
            InHandler(Push(f, st)) = InHandler(st)
  BY <1>4, <1>5, <1>6
<1> QED
  BY <1>1, <1>7, <1>8, <1>9, <1>10, <1>11, Zenon

LEMMA ListFrame ==
  /\ List \in Frame /\ List.at = "list" /\ Command \in Frame /\ Command.at = "command"
  /\ Program \in Frame /\ Program.at = "program"
BY DEF List, Command, Program, Frame, PlainFrame, ProgFrame

\* The forms in which Open pushes.
LEMMA OpenForms ==
  ASSUME NEW f \in Frame, NEW st \in Stack
  PROVE  /\ (<<List>> \o <<Command>>) \o st = Push(List, Push(Command, st))
         /\ (<<f>> \o <<Command>>) \o st = Push(f, Push(Command, st))
         /\ (<<List, f>> \o <<Command>>) \o st = Push(List, Push(f, Push(Command, st)))
<1>1. List \in Frame /\ Command \in Frame
  BY ListFrame
<1>2. (<<List>> \o <<Command>>) \o st = Push(List, Push(Command, st))
  BY <1>1, PushTwo, Zenon
<1>3. (<<f>> \o <<Command>>) \o st = Push(f, Push(Command, st))
  BY <1>1, PushTwo, Zenon
<1>4. (<<List, f>> \o <<Command>>) \o st = Push(List, Push(f, Push(Command, st)))
  BY <1>1, PushThree, Zenon
<1> QED
  BY <1>2, <1>3, <1>4, Zenon

\* A list on a stack runs next.
LEMMA ListRuns ==
  ASSUME NEW s, NEW st \in Stack, NEW l, Fine(s, st, l), NEW f \in {List, Program}
  PROVE  Gives(s, Push(f, st), Go, l)
<1>1. f \in Frame /\ f.at \in {"list", "program"}
  BY ListFrame
<1>2. Fine(s, Push(f, st), l)
  BY <1>1, QuietPushed
<1>3. Resumable(s, Push(f, st))
  BY <1>1, Resumes
<1> QED
  BY <1>2, <1>3, Results DEF Gives

\* A handler starts where none runs, and its frame gives back just that.
LEMMA HandlerRuns ==
  ASSUME NEW st, NEW l, Fine(sh, st, l), ~sh.in_trap, NEW signal \in {"ERR", "EXIT"},
         NEW c \in Status, signal = "ERR" => On(st, "list"), signal = "EXIT" => st = <<>>
  PROVE  /\ TrapFrame(signal, c) \in Frame
         /\ Gives([sh EXCEPT !.in_trap = TRUE],
                  Push(Program, Push(TrapFrame(signal, c), st)), Go, l)
<1> DEFINE f == TrapFrame(signal, c)
           s == [sh EXCEPT !.in_trap = TRUE]
<1>1. sh \in State /\ st \in Stack /\ sh.in_trap = FALSE /\ ~InHandler(st)
  BY DEF Fine, Fits, State
<1>2. f \in Frame /\ f.at = "trap" /\ f.was = FALSE /\ f.signal = signal
  BY <1>1 DEF TrapFrame, Frame, HandlerFrame
<1>3. /\ s \in State /\ s.suppressed = sh.suppressed /\ s.loop_depth = sh.loop_depth
      /\ s.in_function_depth = sh.in_function_depth
      /\ s.control_flow = sh.control_flow /\ s.in_trap = TRUE
  BY <1>1 DEF State
<1> HIDE DEF f, s
<1>4. Settled(f, st, l)
  BY <1>1, <1>2 DEF Settled
<1>5. /\ CondCount(Push(f, st)) = CondCount(st) /\ CallCount(Push(f, st)) = CallCount(st)
      /\ LoopCount(Push(f, st)) = LoopCount(st) /\ InHandler(Push(f, st)) = TRUE
  <2>1. InHandler(Push(f, st)) \in BOOLEAN
    BY DEF InHandler
  <2> QED
    BY <1>1, <1>2, <2>1, Counted
<1>6. Fits(s, Push(f, st), l)
  BY <1>3, <1>5 DEF Fits, Fine
<1>7. Fine(s, Push(f, st), l) /\ Push(f, st) \in Stack
  BY <1>1, <1>2, <1>3, <1>4, <1>6, FinePushed, PushProperties DEF Fine
<1> QED
  BY <1>2, <1>7, ListRuns DEF f, s

(***************************************************************************)
(* One lemma per action, named for it.                                     *)
(***************************************************************************)
Moves == leaked' \in BOOLEAN /\ Gives(sh', stack', ret', leaked')

LEMMA OkStatus == ASSUME IInv, ret.is = "ok" PROVE ret.status \in Status /\ ret # Go
<1>1. ret \in Result
  BY DEF IInv, Gives
<1> QED
  BY <1>1, ResultKinds

LEMMA ErrKind == ASSUME IInv, ret.is = "err" PROVE ret.error \in Errors /\ ret # Go
<1>1. ret \in Result
  BY DEF IInv, Gives
<1> QED
  BY <1>1, ResultKinds

LEMMA ListBeginsMoves == ASSUME IInv, ListBegins PROVE Moves
<1>1. Fine(sh, stack, leaked) /\ On(stack, "list") /\ leaked' = leaked
  BY DEF IInv, Gives, ListBegins, On, Top
<1>2. CASE ListEnds(sh, stack, 0)
  <2>1. 0 \in Status
    BY DEF Status
  <2> QED
    BY <1>1, <1>2, <2>1, ListEndsGives DEF Moves, IInv
<1>3. CASE ~ListStops(sh) /\ StartItem(sh, stack)
  BY <1>1, <1>3, StartItemGives DEF Moves, IInv, ListStops
<1> QED
  BY <1>2, <1>3 DEF ListBegins

LEMMA ListReceivesMoves == ASSUME IInv, ListReceives PROVE Moves
<1> DEFINE c == ret.status
<1>1. /\ Fine(sh, stack, leaked) /\ On(stack, "list") /\ leaked \in BOOLEAN
      /\ sh \in State /\ stack \in Stack
  BY DEF IInv, Gives, ListReceives, On, Top, Fine
<1>2. c \in Status
  BY OkStatus DEF ListReceives
<1>3. CASE ListContinues(sh, stack, c) /\ leaked' = leaked
  BY <1>1, <1>2, <1>3, ListContinuesGives DEF Moves
<1>4. CASE ErrTrapFires(c)
  <2>1. sh' = [sh EXCEPT !.in_trap = TRUE] /\ ~sh.in_trap
    BY <1>4 DEF ListReceives, ErrTrapFires
  <2>2. CASE sh.err_trap = "ok"
    <3>1. stack' = <<Program, TrapFrame("ERR", c)>> \o stack /\ ret' = Go /\ leaked' = leaked
      BY <1>4, <2>2 DEF ListReceives
    <3>2. /\ TrapFrame("ERR", c) \in Frame
          /\ Gives([sh EXCEPT !.in_trap = TRUE],
                   Push(Program, Push(TrapFrame("ERR", c), stack)), Go, leaked)
      BY <1>1, <1>2, <2>1, HandlerRuns
    <3>3. <<Program, TrapFrame("ERR", c)>> \o stack
            = Push(Program, Push(TrapFrame("ERR", c), stack))
      <4>1. Program \in Frame
        BY ListFrame
      <4> QED
        BY <1>1, <3>2, <4>1, PushSeveral
    <3> QED
      BY <1>1, <2>1, <3>1, <3>2, <3>3 DEF Moves
  <2>3. CASE sh.err_trap # "ok"
    <3>1. stack' = Rest /\ ret' = Err("hard") /\ leaked' = TRUE
      BY <1>4, <2>3 DEF ListReceives
    <3>2. Fine(sh, Tail(stack), leaked')
      BY <1>1, <3>1, ListPopped, Weaker
    <3>3. Fine(sh', stack', leaked')
      BY <1>1, <2>1, <3>1, <3>2 DEF Fine, Fits, State, Rest
    <3>4. ret' \in Result /\ ret' # Go
      BY <3>1, Results DEF Errors
    <3> QED
      BY <3>1, <3>3, <3>4 DEF Moves, Gives
  <2> QED
    BY <2>2, <2>3
<1> QED
  BY <1>3, <1>4 DEF ListReceives

LEMMA ListCatchesMoves == ASSUME IInv, ListCatches PROVE Moves
<1>1. /\ Fine(sh, stack, leaked) /\ On(stack, "list") /\ leaked \in BOOLEAN
      /\ leaked' = leaked /\ sh \in State
  BY DEF IInv, Gives, ListCatches, On, Top, Fine
<1>2. ret.is = "err" /\ ret \in Result /\ ret # Go /\ ret.error \in Errors
  BY ErrKind DEF ListCatches, IInv, Gives
<1> DEFINE failed == [sh EXCEPT !.had_error = TRUE]
<1>3. /\ failed \in State /\ Alike(sh, failed)
      /\ Alike(sh, [failed EXCEPT !.should_exit = TRUE])
  BY <1>1 DEF Alike, State
<1>4. Alike(sh, check_errexit(failed, 1))
  <2>1. Alike(failed, check_errexit(failed, 1))
    BY <1>3, CheckedAlike
  <2> QED
    BY <1>3, <2>1 DEF Alike
<1>5. /\ ret.error = "soft" => sh' = failed /\ ret' = Ok(1) /\ stack' = stack
      /\ ret.error = "unbound" => /\ sh' = [failed EXCEPT !.should_exit = TRUE]
                                  /\ ret' = Ok(1) /\ stack' = stack
      /\ ret.error = "failglob" => /\ sh' = check_errexit(failed, 1)
                                   /\ ret' = Ok(1) /\ stack' = stack
      /\ ret.error \notin {"soft", "unbound", "failglob"} =>
           stack' = Rest /\ sh' = sh /\ ret' = ret
  BY DEF ListCatches
<1> HIDE DEF failed
<1>6. Ok(1) \in Result /\ Ok(1) # Go
  BY Results DEF Status
<1>7. CASE ret.error \in {"soft", "unbound", "failglob"}
  <2>1. Alike(sh, sh') /\ stack' = stack
    BY <1>3, <1>4, <1>5, <1>7
  <2>2. Fine(sh', stack', leaked)
    BY <1>1, <2>1, AlikeFits
  <2> QED
    BY <1>1, <1>5, <1>6, <1>7, <2>2 DEF Moves, Gives
<1>8. CASE ret.error \notin {"soft", "unbound", "failglob"}
  <2>1. Fine(sh', stack', leaked)
    BY <1>1, <1>5, <1>8, ListPopped DEF Rest
  <2> QED
    BY <1>1, <1>2, <1>5, <1>8, <2>1 DEF Moves, Gives
<1> QED
  BY <1>7, <1>8

\* A pipeline off the stack: an operand on the left was one condition more.
LEMMA ItemPopped ==
  ASSUME NEW s, NEW st, NEW l \in BOOLEAN, Fine(s, st, l), On(st, "item")
  PROVE  /\ Head(st) \in ItemFrame /\ Tail(st) \in Stack /\ s \in State
         /\ Head(st).role # "left" => Fine(s, Tail(st), l)
         /\ Fine(s, Tail(st), TRUE)
         /\ Head(st).role = "left" => Fine([s EXCEPT !.suppressed = Less(@)], Tail(st), l)
<1> DEFINE f == Head(st)
           rest == Tail(st)
           less == [s EXCEPT !.suppressed = Less(@)]
<1>1. /\ f \in Frame /\ f.at = "item" /\ rest \in Stack /\ st = Push(f, rest)
      /\ AllSettled(rest, l) /\ s \in State /\ Fits(s, st, l)
  BY FinePopped DEF On, Fine
<1>2. f \in ItemFrame
  BY <1>1, FrameKinds
<1> HIDE DEF f, rest
<1>3. /\ InCondition(f) = (f.role = "left")
      /\ ~IsCall(f) /\ ~IsLoop(f) /\ ~IsTrap(f)
  BY <1>1 DEF InCondition, Suppresses, IsCall, IsLoop, IsTrap
<1>4. /\ CondCount(rest) \in Nat /\ CallCount(rest) \in Nat /\ LoopCount(rest) \in Nat
      /\ CondCount(st) = CondCount(rest) + One(InCondition(f))
      /\ CallCount(st) = CallCount(rest) + One(IsCall(f))
      /\ LoopCount(st) = LoopCount(rest) + One(IsLoop(f))
      /\ InHandler(st) = (IsTrap(f) \/ InHandler(rest))
  BY <1>1, CountsPushed
<1>5. One(IsCall(f)) = 0 /\ One(IsLoop(f)) = 0
  BY <1>3 DEF One
<1>6. InHandler(st) = InHandler(rest)
  BY <1>3, <1>4 DEF InHandler
<1>7. s.suppressed \in Nat /\ s.loop_depth \in Nat
  BY <1>1 DEF State
<1>8. CASE f.role # "left"
  <2>1. One(InCondition(f)) = 0
    BY <1>3, <1>8 DEF One
  <2>2. Fits(s, rest, l)
    BY <1>1, <1>4, <1>5, <1>6, <2>1 DEF Fits
  <2>3. Fine(s, rest, l)
    BY <1>1, <2>2 DEF Fine
  <2>4. Fine(s, rest, TRUE)
    BY <2>3, Weaker
  <2> QED
    BY <1>1, <1>2, <1>8, <2>3, <2>4 DEF f, rest
<1>9. CASE f.role = "left"
  <2>1. One(InCondition(f)) = 1
    BY <1>3, <1>9 DEF One
  <2>2. /\ s.suppressed >= CondCount(rest) + 1
        /\ ~l => s.suppressed = CondCount(rest) + 1
    BY <1>1, <1>4, <2>1 DEF Fits
  <2>3. less \in State /\ less.suppressed = s.suppressed - 1
    BY <1>1, <1>4, <1>7, <2>2 DEF Less, State
  <2>4. /\ less.loop_depth = s.loop_depth /\ less.in_trap = s.in_trap
        /\ less.in_function_depth = s.in_function_depth
        /\ less.control_flow = s.control_flow
    BY <1>1 DEF State
  <2> HIDE DEF less
  <2>5. Fits(less, rest, l)
    BY <1>1, <1>4, <1>5, <1>6, <1>7, <2>2, <2>3, <2>4 DEF Fits
  <2>6. Fine(less, rest, l)
    BY <1>1, <2>3, <2>5 DEF Fine
  <2>7. AllSettled(rest, TRUE)
    BY <1>1, Weaker
  <2>8. Fits(s, rest, TRUE)
    BY <1>1, <1>4, <1>5, <1>6, <1>7, <2>2 DEF Fits
  <2>9. Fine(s, rest, TRUE)
    BY <1>1, <2>7, <2>8 DEF Fine
  <2> QED
    BY <1>1, <1>2, <1>9, <2>6, <2>9 DEF f, rest, less
<1> QED
  BY <1>8, <1>9

LEMMA ChainContinuesGives ==
  ASSUME NEW s, NEW l \in BOOLEAN, Fine(s, stack, l), On(stack, "item"),
         NEW c \in Status, ChainContinues(s, c)
  PROVE  Gives(sh', stack', ret', l)
<1> DEFINE uncounted == [s EXCEPT !.suppressed = Less(@)]
           checked   == check_errexit(s, c)
<1>1. /\ Top \in ItemFrame /\ Rest \in Stack /\ s \in State
      /\ Top.role # "left" => Fine(s, Rest, l)
      /\ Top.role = "left" => Fine(uncounted, Rest, l)
  BY ItemPopped DEF Top, Rest
<1>2. checked \in State /\ Alike(s, checked)
  BY <1>1, CheckedAlike DEF Alike
<1>3. Ok(c) \in Result /\ Ok(c) # Go
  BY Results
<1>4. \/ /\ Top.role = "only"
         /\ sh' = IF checked.should_exit THEN checked ELSE [checked EXCEPT !.immune = FALSE]
         /\ stack' = Rest /\ ret' = Ok(c)
      \/ /\ Top.role = "last"
         /\ sh' = [checked EXCEPT !.immune = c # 0 /\ ~checked.should_exit]
         /\ stack' = Rest /\ ret' = Ok(c)
      \/ /\ Top.role = "left"
         /\ sh' = [uncounted EXCEPT !.immune = c # 0 /\ ~uncounted.should_exit]
         /\ stack' = Rest /\ ret' = Ok(c)
      \/ /\ Top.role = "left" /\ ~Leaving(uncounted)
         /\ \E role \in {"left", "last"} : StartPipeline(uncounted, Rest, role)
  BY DEF ChainContinues, Suppresses
<1> HIDE DEF uncounted, checked
<1>5. \A b \in BOOLEAN : Alike(s, [checked EXCEPT !.immune = b])
  BY <1>2 DEF Alike, State
<1>6. ASSUME Top.role = "only" \/ Top.role = "last", stack' = Rest, ret' = Ok(c),
             Alike(s, sh')
      PROVE  Gives(sh', stack', ret', l)
  <2>1. Fine(sh', Rest, l)
    BY <1>1, <1>6, AlikeFits
  <2> QED
    BY <1>3, <1>6, <2>1 DEF Gives
<1>7. CASE /\ Top.role = "only"
           /\ sh' = IF checked.should_exit THEN checked ELSE [checked EXCEPT !.immune = FALSE]
           /\ stack' = Rest /\ ret' = Ok(c)
  BY <1>2, <1>5, <1>6, <1>7
<1>8. CASE /\ Top.role = "last"
           /\ sh' = [checked EXCEPT !.immune = c # 0 /\ ~checked.should_exit]
           /\ stack' = Rest /\ ret' = Ok(c)
  <2>1. (c # 0 /\ ~checked.should_exit) \in BOOLEAN
    OBVIOUS
  <2> QED
    BY <1>5, <1>6, <1>8, <2>1
<1>9. CASE /\ Top.role = "left"
           /\ sh' = [uncounted EXCEPT !.immune = c # 0 /\ ~uncounted.should_exit]
           /\ stack' = Rest /\ ret' = Ok(c)
  <2>1. uncounted \in State /\ Fine(uncounted, Rest, l)
    BY <1>1, <1>9 DEF Fine
  <2>2. \A b \in BOOLEAN : Alike(uncounted, [uncounted EXCEPT !.immune = b])
    BY <2>1 DEF Alike, State
  <2>3. (c # 0 /\ ~uncounted.should_exit) \in BOOLEAN
    OBVIOUS
  <2>4. Fine(sh', Rest, l)
    BY <1>9, <2>1, <2>2, <2>3, AlikeFits
  <2> QED
    BY <1>3, <1>9, <2>4 DEF Gives
<1>10. CASE /\ Top.role = "left" /\ ~Leaving(uncounted)
            /\ \E role \in {"left", "last"} : StartPipeline(uncounted, Rest, role)
  BY <1>1, <1>10, StartPipelineGives
<1> QED
  BY <1>4, <1>7, <1>8, <1>9, <1>10

LEMMA PipelineEndsMoves == ASSUME IInv, PipelineEnds PROVE Moves
<1>1. /\ Fine(sh, stack, leaked) /\ On(stack, "item") /\ leaked \in BOOLEAN
      /\ leaked' = leaked /\ sh \in State /\ ret.is = "ok"
  BY DEF IInv, Gives, PipelineEnds, On, Top, Fine
<1>2. ret.status \in Status
  BY <1>1, OkStatus
<1> DEFINE uncounted == [sh EXCEPT !.bang = IF Top.bang THEN Less(@) ELSE @]
<1>3. PICK c \in {ret.status, 1} :
        IF Top.bang /\ ~sh.should_exit
        THEN ChainContinues([uncounted EXCEPT !.immune = TRUE], 1 - c)
        ELSE ChainContinues(uncounted, c)
  BY DEF PipelineEnds
<1>4. c \in Status /\ 1 - c \in Status
  BY <1>2 DEF Status
<1>5. Alike(sh, uncounted) /\ Alike(sh, [uncounted EXCEPT !.immune = TRUE])
  <2> DEFINE bangs == IF Top.bang THEN Less(sh.bang) ELSE sh.bang
  <2>1. bangs \in Nat
    BY <1>1 DEF State, Less
  <2>2. uncounted = [sh EXCEPT !.bang = bangs]
    OBVIOUS
  <2> HIDE DEF bangs, uncounted
  <2> QED
    BY <1>1, <2>1, <2>2 DEF Alike, State
<1> HIDE DEF uncounted
<1>6. Fine(uncounted, stack, leaked) /\ Fine([uncounted EXCEPT !.immune = TRUE], stack, leaked)
  BY <1>1, <1>5, AlikeFits
<1>7. Gives(sh', stack', ret', leaked)
  BY <1>1, <1>3, <1>4, <1>6, ChainContinuesGives
<1> QED
  BY <1>1, <1>7 DEF Moves

LEMMA NextStageMoves == ASSUME IInv, NextStage PROVE Moves
<1>1. /\ Fine(sh, stack, leaked) /\ On(stack, "item") /\ leaked \in BOOLEAN
      /\ leaked' = leaked /\ sh \in State /\ ~Leaving(sh) /\ ret' = Go
      /\ stack \in Stack /\ stack # <<>>
  BY DEF IInv, Gives, NextStage, On, Top, Fine
<1>2. CASE stack' = <<ChildFrame("stage", sh)>> \o stack /\ sh' = Child(sh)
  <2>1. /\ ChildFrame("stage", sh) \in Frame
        /\ Fine(sh', Push(ChildFrame("stage", sh), stack), leaked)
    BY <1>1, <1>2, ChildPushed
  <2>2. stack' = Push(ChildFrame("stage", sh), stack)
    BY <1>2 DEF Push
  <2>3. ~Leaving(sh') /\ ChildFrame("stage", sh).at = "child"
    BY <1>1, <1>2, ChildState DEF ChildFrame
  <2>4. Resumable(sh', Push(ChildFrame("stage", sh), stack))
    BY <1>1, <2>1, <2>3, Resumes
  <2> QED
    BY <1>1, <2>1, <2>2, <2>4, Results DEF Moves, Gives
<1>3. CASE stack' = <<[Top EXCEPT !.pipe = "last"]>> \o Rest /\ sh' = sh
  <2> DEFINE f == [Top EXCEPT !.pipe = "last"]
  <2>1. /\ Top \in Frame /\ Top.at = "item" /\ Rest \in Stack /\ stack = Push(Top, Rest)
        /\ AllSettled(Rest, leaked)
    BY <1>1, FinePopped DEF Top, Rest, On
  <2>2. Top \in ItemFrame
    BY <2>1, FrameKinds
  <2>3. f \in Frame /\ f.at = "item" /\ f.role = Top.role
    BY <2>2 DEF ItemFrame, Frame
  <2> HIDE DEF f
  <2>4. /\ InCondition(f) = InCondition(Top) /\ IsCall(f) = IsCall(Top)
        /\ IsLoop(f) = IsLoop(Top) /\ IsTrap(f) = IsTrap(Top)
    BY <2>1, <2>3 DEF InCondition, IsCall, IsLoop, IsTrap
  <2>5. /\ CondCount(Push(f, Rest)) = CondCount(stack)
        /\ CallCount(Push(f, Rest)) = CallCount(stack)
        /\ LoopCount(Push(f, Rest)) = LoopCount(stack)
        /\ InHandler(Push(f, Rest)) = InHandler(stack)
    BY <2>1, <2>3, <2>4, CountsPushed
  <2>6. Fits(sh, Push(f, Rest), leaked)
    BY <1>1, <2>5 DEF Fits, Fine
  <2>7. Settled(f, Rest, leaked)
    BY <2>3 DEF Settled
  <2>8. Fine(sh, Push(f, Rest), leaked)
    BY <1>1, <2>1, <2>3, <2>6, <2>7, FinePushed
  <2>9. Resumable(sh, Push(f, Rest)) /\ stack' = Push(f, Rest)
    BY <1>1, <1>3, <2>1, <2>3, Resumes DEF Push, f
  <2> QED
    BY <1>1, <1>3, <2>8, <2>9, Results DEF Moves, Gives
<1> QED
  BY <1>2, <1>3 DEF NextStage

LEMMA PipelineFailsMoves == ASSUME IInv, PipelineFails PROVE Moves
<1>1. /\ Fine(sh, stack, leaked) /\ On(stack, "item") /\ leaked \in BOOLEAN
      /\ sh' = sh /\ ret' = ret /\ ret \in Result /\ ret.is = "err" /\ stack' = Rest
      /\ leaked' = (leaked \/ Top.bang \/ Suppresses(Top.role))
  BY DEF IInv, Gives, PipelineFails, On, Top
<1>2. ret # Go
  BY <1>1, ErrKind
<1>3. /\ Top.role # "left" => Fine(sh, Rest, leaked)
      /\ Fine(sh, Rest, TRUE)
  BY <1>1, ItemPopped DEF Top, Rest
<1>4. leaked' \in BOOLEAN /\ (leaked => leaked') /\ (Top.role = "left" => leaked')
  BY <1>1 DEF Suppresses
<1>5. CASE leaked'
  <2>1. leaked' = TRUE
    BY <1>4, <1>5
  <2>2. Fine(sh', stack', TRUE) /\ ret' \in Result /\ ret' # Go
    BY <1>1, <1>2, <1>3
  <2>3. Fine(sh', stack', leaked')
    BY <2>1, <2>2, Zenon
  <2> QED
    BY <1>4, <2>2, <2>3 DEF Moves, Gives
<1>6. CASE ~leaked'
  <2>1. leaked' = FALSE /\ leaked = FALSE /\ Top.role # "left"
    BY <1>1, <1>4, <1>6
  <2>2. Fine(sh', stack', leaked) /\ ret' \in Result /\ ret' # Go
    BY <1>1, <1>2, <1>3, <2>1
  <2>3. Fine(sh', stack', leaked')
    BY <2>1, <2>2, Zenon
  <2> QED
    BY <1>4, <2>2, <2>3 DEF Moves, Gives
<1> QED
  BY <1>5, <1>6

LEMMA ChildEndsMoves == ASSUME IInv, ChildEnds PROVE Moves
<1>1. /\ Fine(sh, stack, leaked) /\ On(stack, "child") /\ leaked \in BOOLEAN
      /\ leaked' = leaked /\ sh' = Top.parent /\ ret \in Result /\ ret # Go
  BY DEF IInv, Gives, ChildEnds, On, Top
<1>2. /\ Top \in Frame /\ Top.at = "child" /\ Rest \in Stack
      /\ Settled(Top, Rest, leaked) /\ AllSettled(Rest, leaked)
  BY <1>1, FinePopped DEF Top, Rest, On
<1>3. Top \in KidFrame
  BY <1>2, FrameKinds
<1>4. /\ Fine(sh', Rest, leaked) /\ (Top.how = "async" => On(Rest, "list"))
  BY <1>1, <1>2, <1>3 DEF Settled, Fine, KidFrame
<1>5. \/ stack' = Rest /\ (ret' = ret \/ ret' = Ok(0))
      \/ Top.how = "async" /\ stack' = Tail(Rest) /\ ret' = ret
  BY DEF ChildEnds
<1>6. Ok(0) \in Result /\ Ok(0) # Go
  BY Results DEF Status
<1>7. Fine(sh', stack', leaked)
  BY <1>4, <1>5, ListPopped
<1> QED
  BY <1>1, <1>5, <1>6, <1>7 DEF Moves, Gives

(***************************************************************************)
(* Simple commands.                                                        *)
(***************************************************************************)
LEMMA QuietPopped ==
  ASSUME NEW s, NEW st, NEW l, Fine(s, st, l),
         On(st, "list") \/ On(st, "command") \/ On(st, "program")
  PROVE  Tail(st) \in Stack /\ Fine(s, Tail(st), l)
<1>1. /\ Head(st) \in Frame /\ Tail(st) \in Stack /\ st = Push(Head(st), Tail(st))
      /\ Head(st).at \in {"list", "command", "program"}
  BY FinePopped DEF On
<1> QED
  BY <1>1, QuietPushed

LEMMA FlowFits ==
  ASSUME NEW s, NEW st, NEW l, Fine(s, st, l), NEW flow \in Flow,
         flow.to = "return" => s.in_function_depth > 0
  PROVE  Fine([s EXCEPT !.control_flow = flow], st, l)
<1> DEFINE t == [s EXCEPT !.control_flow = flow]
<1>1. s \in State
  BY DEF Fine
<1>2. /\ t \in State /\ t.suppressed = s.suppressed /\ t.loop_depth = s.loop_depth
      /\ t.in_function_depth = s.in_function_depth /\ t.in_trap = s.in_trap
      /\ t.control_flow = flow
  BY <1>1 DEF State
<1> HIDE DEF t
<1>3. Fits(t, st, l)
  BY <1>2 DEF Fits, Fine
<1> QED
  BY <1>2, <1>3 DEF Fine, t

LEMMA ReadyState ==
  ASSUME IInv, Ready
  PROVE  /\ Fine(sh, stack, leaked) /\ sh \in State /\ stack \in Stack
         /\ ~Leaving(sh) /\ leaked \in BOOLEAN /\ script \in Script
BY DEF IInv, Gives, Fine, Ready, Resumable, On, Top

LEMMA SimpleMoves ==
  ASSUME IInv, NEW s, Fine(s, stack, leaked), NEW c \in Status, Simple(s, c)
  PROVE  Moves
<1>1. /\ sh' = [s EXCEPT !.had_error = FALSE] /\ ret' = Ok(c)
      /\ stack' = stack /\ leaked' = leaked /\ leaked \in BOOLEAN
  BY DEF Simple, CommandSucceeds, IInv
<1>2. Alike(s, [s EXCEPT !.had_error = FALSE])
  BY DEF Fine, Alike, State
<1>3. Fine(sh', stack', leaked)
  BY <1>1, <1>2, AlikeFits
<1>4. ret' \in Result /\ ret' # Go
  BY <1>1, Results
<1> QED
  BY <1>1, <1>3, <1>4 DEF Moves, Gives

LEMMA CommandFailsAlike ==
  ASSUME NEW s \in State, NEW e \in Errors, CommandFails(s, e)
  PROVE  Alike(s, sh') /\ ret' \in Result /\ ret' # Go
<1>1. /\ e \in {"expansion", "expansion-exit", "redirect"} =>
           /\ sh' = [s EXCEPT !.had_error = TRUE,
                              !.should_exit = @ \/ e = "expansion-exit"]
           /\ ret' = Ok(1)
      /\ e = "failglob" => sh' = s /\ ret' = Err(e)
      /\ e \notin {"expansion", "expansion-exit", "redirect", "failglob"} =>
           sh' = [s EXCEPT !.had_error = TRUE] /\ ret' = Err(e)
  BY DEF CommandFails
<1>2. (s.should_exit \/ e = "expansion-exit") \in BOOLEAN
  OBVIOUS
<1>3. /\ Alike(s, s) /\ Alike(s, [s EXCEPT !.had_error = TRUE])
      /\ \A b \in BOOLEAN : Alike(s, [s EXCEPT !.had_error = TRUE, !.should_exit = b])
  BY DEF Alike, State
<1>4. Ok(1) \in Result /\ Ok(1) # Go /\ Err(e) \in Result /\ Err(e) # Go
  BY Results DEF Status
<1> QED
  BY <1>1, <1>2, <1>3, <1>4

LEMMA RunMoves == ASSUME IInv, Run PROVE Moves
<1>1. PICK c \in Status : Simple(sh, c)
  BY DEF Run
<1> QED
  BY <1>1, SimpleMoves DEF IInv, Gives

LEMMA RaiseMoves == ASSUME IInv, Raise PROVE Moves
<1>1. PICK e \in script.raises :
        Ready /\ CommandFails(sh, e) /\ stack' = stack /\ leaked' = leaked
  BY DEF Raise
<1>2. /\ Fine(sh, stack, leaked) /\ sh \in State /\ leaked \in BOOLEAN /\ e \in Errors
  BY <1>1, ReadyState DEF Script
<1>3. Alike(sh, sh') /\ ret' \in Result /\ ret' # Go
  BY <1>1, <1>2, CommandFailsAlike
<1>4. Fine(sh', stack, leaked)
  BY <1>2, <1>3, AlikeFits
<1> QED
  BY <1>1, <1>2, <1>3, <1>4 DEF Moves, Gives

LEMMA CommandEndsMoves == ASSUME IInv, CommandEnds PROVE Moves
<1>1. /\ Fine(sh, stack, leaked) /\ On(stack, "command") /\ leaked \in BOOLEAN
      /\ leaked' = leaked /\ stack' = Rest /\ ret \in Result /\ ret # Go
      /\ sh \in State /\ script \in Script
  BY DEF IInv, Gives, CommandEnds, On, Top, Fine
<1>2. Fine(sh, Rest, leaked)
  BY <1>1, QuietPopped DEF Rest
<1>3. \/ ret.is = "ok" /\ CommandSucceeds(sh, ret.status)
      \/ "redirect" \in script.raises /\ CommandFails(sh, "redirect")
      \/ ret.is # "ok" /\ CommandFails(sh, ret.error)
  BY DEF CommandEnds
<1>4. CASE ret.is = "ok" /\ CommandSucceeds(sh, ret.status)
  <2>1. ret' = Ok(ret.status) /\ sh' = [sh EXCEPT !.had_error = FALSE]
    BY <1>4 DEF CommandSucceeds
  <2>2. ret' \in Result /\ ret' # Go
    BY <1>1, <1>4, <2>1, ResultKinds, Results
  <2>3. Alike(sh, [sh EXCEPT !.had_error = FALSE])
    BY <1>1 DEF Alike, State
  <2>4. Fine(sh', Rest, leaked)
    BY <1>2, <2>1, <2>3, AlikeFits
  <2> QED
    BY <1>1, <2>2, <2>4 DEF Moves, Gives
<1>5. ASSUME NEW e \in Errors, CommandFails(sh, e) PROVE Moves
  <2>1. Alike(sh, sh') /\ ret' \in Result /\ ret' # Go
    BY <1>1, <1>5, CommandFailsAlike
  <2>2. Fine(sh', Rest, leaked)
    BY <1>2, <2>1, AlikeFits
  <2> QED
    BY <1>1, <2>1, <2>2 DEF Moves, Gives
<1>6. "redirect" \in Errors
  BY DEF Errors
<1>7. ret.is # "ok" => ret.error \in Errors
  BY <1>1, ResultKinds
<1> QED
  BY <1>3, <1>4, <1>5, <1>6, <1>7

LEMMA BuiltinMoves == ASSUME IInv, Builtin PROVE Moves
<1>1. /\ Fine(sh, stack, leaked) /\ sh \in State /\ script \in Script
  BY DEF IInv, Gives, Fine
<1>2. 0 \in Status /\ 1 \in Status
  BY DEF Status
<1>3. ASSUME NEW s, Alike(sh, s), NEW c \in Status, Simple(s, c) PROVE Moves
  <2>1. Fine(s, stack, leaked)
    BY <1>1, <1>3, AlikeFits
  <2> QED
    BY <1>3, <2>1, SimpleMoves
<1>4. ASSUME NEW flow \in Flow, flow.to = "return" => sh.in_function_depth > 0,
             NEW c \in Status, Simple([sh EXCEPT !.control_flow = flow], c)
      PROVE  Moves
  <2>1. Fine([sh EXCEPT !.control_flow = flow], stack, leaked)
    BY <1>1, <1>4, FlowFits
  <2> QED
    BY <1>4, <2>1, SimpleMoves
<1>5. Alike(sh, sh) /\ Alike(sh, [sh EXCEPT !.should_exit = TRUE])
  BY <1>1 DEF Alike, State
<1>6. ASSUME NEW n \in 1..MaxLevel
      PROVE  (IF n < sh.loop_depth THEN n ELSE sh.loop_depth) \in Nat
  BY <1>1, ShellAssumption DEF State
<1>7. CASE SetErrexit
  <2>1. PICK on \in BOOLEAN :
          Simple([sh EXCEPT !.errexit = on,
                            !.bang = IF on /\ sh.in_function_depth > 0
                                     THEN Less(@) ELSE @], 0)
    BY <1>7 DEF SetErrexit
  <2> DEFINE bangs == IF on /\ sh.in_function_depth > 0 THEN Less(sh.bang) ELSE sh.bang
  <2>2. bangs \in Nat
    BY <1>1 DEF State, Less
  <2>3. Simple([sh EXCEPT !.errexit = on, !.bang = bangs], 0)
    BY <2>1
  <2> HIDE DEF bangs
  <2>4. Alike(sh, [sh EXCEPT !.errexit = on, !.bang = bangs])
    BY <1>1, <2>2 DEF Alike, State
  <2> QED
    BY <1>2, <1>3, <2>3, <2>4
<1>8. CASE SetTrap
  <2>1. PICK h \in script.handlers : \/ Simple([sh EXCEPT !.err_trap = h], 0)
                                     \/ Simple([sh EXCEPT !.exit_trap = h], 0)
    BY <1>8 DEF SetTrap
  <2>2. h \in Handler
    BY <1>1 DEF Script
  <2>3. Alike(sh, [sh EXCEPT !.err_trap = h]) /\ Alike(sh, [sh EXCEPT !.exit_trap = h])
    BY <1>1, <2>2 DEF Alike, State
  <2> QED
    BY <1>2, <1>3, <2>1, <2>3
<1>9. CASE builtin_exit
  BY <1>3, <1>5, <1>9 DEF builtin_exit
<1>10. CASE builtin_break
  <2>1. \/ \E c \in Status : Simple(sh, c)
        \/ Simple([sh EXCEPT !.should_exit = TRUE], 1)
        \/ \E n \in 1..MaxLevel :
             Simple([sh EXCEPT !.control_flow =
                       Break(IF n < sh.loop_depth THEN n ELSE sh.loop_depth)], 0)
    BY <1>10 DEF builtin_break, ToLevel
  <2>2. CASE \E n \in 1..MaxLevel :
               Simple([sh EXCEPT !.control_flow =
                         Break(IF n < sh.loop_depth THEN n ELSE sh.loop_depth)], 0)
    <3>1. PICK n \in Nat : Simple([sh EXCEPT !.control_flow = Break(n)], 0)
      BY <1>6, <2>2
    <3>2. Break(n) \in Flow /\ Break(n).to = "break"
      BY Flows
    <3> QED
      BY <1>2, <1>4, <3>1, <3>2
  <2> QED
    BY <1>2, <1>3, <1>5, <2>1, <2>2
<1>11. CASE builtin_continue
  <2>1. \/ \E c \in Status : Simple(sh, c)
        \/ Simple([sh EXCEPT !.should_exit = TRUE], 1)
        \/ \E n \in 1..MaxLevel :
             Simple([sh EXCEPT !.control_flow =
                       Continue(IF n < sh.loop_depth THEN n ELSE sh.loop_depth)], 0)
        \/ Simple([sh EXCEPT !.control_flow = Break(1)], 0)
    BY <1>11 DEF builtin_continue, ToLevel
  <2>2. CASE \E n \in 1..MaxLevel :
               Simple([sh EXCEPT !.control_flow =
                         Continue(IF n < sh.loop_depth THEN n ELSE sh.loop_depth)], 0)
    <3>1. PICK n \in Nat : Simple([sh EXCEPT !.control_flow = Continue(n)], 0)
      BY <1>6, <2>2
    <3>2. Continue(n) \in Flow /\ Continue(n).to = "continue"
      BY Flows
    <3> QED
      BY <1>2, <1>4, <3>1, <3>2
  <2>3. CASE Simple([sh EXCEPT !.control_flow = Break(1)], 0)
    <3>1. Break(1) \in Flow /\ Break(1).to = "break"
      BY Flows
    <3> QED
      BY <1>2, <1>4, <2>3, <3>1
  <2> QED
    BY <1>2, <1>3, <1>5, <2>1, <2>2, <2>3
<1>12. CASE builtin_return
  <2>1. \/ Simple(sh, 1)
        \/ /\ sh.in_function_depth > 0
           /\ \E c \in Status : Simple([sh EXCEPT !.control_flow = Return(c)], c)
    BY <1>12 DEF builtin_return
  <2>2. \A c \in Status : Return(c) \in Flow
    BY Flows
  <2> QED
    BY <1>2, <1>3, <1>4, <1>5, <2>1, <2>2
<1>13. CASE AssignmentFails
  <2>1. Alike(sh, [sh EXCEPT !.abort = TRUE])
    BY <1>1 DEF Alike, State
  <2> QED
    BY <1>2, <1>3, <1>13, <2>1 DEF AssignmentFails
<1> QED
  BY <1>7, <1>8, <1>9, <1>10, <1>11, <1>12, <1>13 DEF Builtin

(***************************************************************************)
(* Compound commands.                                                      *)
(***************************************************************************)
\* The command frame that every compound command stands on.
LEMMA Opened ==
  ASSUME IInv, Ready
  PROVE  /\ Push(Command, stack) \in Stack /\ Fine(sh, Push(Command, stack), leaked)
         /\ Push(Command, stack) # <<>>
<1>1. Fine(sh, stack, leaked) /\ stack \in Stack
  BY ReadyState
<1> QED
  BY <1>1, ListFrame, QuietPushed, PushProperties

LEMMA OpenGroupMoves == ASSUME IInv, OpenGroup PROVE Moves
<1>1. /\ Ready /\ sh' = sh /\ ret' = Go /\ leaked' = leaked
      /\ stack' = (<<List>> \o <<Command>>) \o stack
  BY DEF OpenGroup, Open
<1>2. Fine(sh, Push(Command, stack), leaked) /\ Push(Command, stack) \in Stack
  BY <1>1, Opened
<1>3. stack' = Push(List, Push(Command, stack))
  <2>1. stack \in Stack /\ List \in Frame
    BY <1>1, ReadyState, ListFrame
  <2>2. (<<List>> \o <<Command>>) \o stack = Push(List, Push(Command, stack))
    BY <2>1, OpenForms
  <2> QED
    BY <1>1, <2>2
<1>4. Gives(sh, Push(List, Push(Command, stack)), Go, leaked)
  BY <1>2, ListRuns
<1> QED
  BY <1>1, <1>3, <1>4 DEF Moves, IInv

LEMMA OpenSubshellMoves == ASSUME IInv, OpenSubshell PROVE Moves
<1> DEFINE kid == ChildFrame("subshell", sh)
<1>1. /\ Ready /\ sh' = Child(sh) /\ ret' = Go /\ leaked' = leaked
      /\ stack' = (<<List, kid>> \o <<Command>>) \o stack
  BY DEF OpenSubshell, Open
<1>2. Fine(sh, Push(Command, stack), leaked) /\ Push(Command, stack) \in Stack
  BY <1>1, Opened
<1>3. kid \in Frame /\ Fine(Child(sh), Push(kid, Push(Command, stack)), leaked)
  BY <1>1, <1>2, ReadyState, ChildPushed
<1> HIDE DEF kid
<1>4. stack' = Push(List, Push(kid, Push(Command, stack)))
  <2>1. stack \in Stack
    BY <1>1, ReadyState
  <2>2. (<<List, kid>> \o <<Command>>) \o stack = Push(List, Push(kid, Push(Command, stack)))
    BY <1>3, <2>1, OpenForms
  <2> QED
    BY <1>1, <2>2
<1>5. Gives(Child(sh), Push(List, Push(kid, Push(Command, stack))), Go, leaked)
  BY <1>2, <1>3, PushProperties, ListRuns
<1> QED
  BY <1>1, <1>4, <1>5 DEF Moves, IInv

LEMMA OpenIfMoves == ASSUME IInv, OpenIf PROVE Moves
<1> DEFINE f == [at |-> "if"]
           s == [sh EXCEPT !.suppressed = @ + 1]
           below == Push(Command, stack)
<1>1. /\ Ready /\ sh' = s /\ ret' = Go /\ leaked' = leaked
      /\ stack' = (<<List, f>> \o <<Command>>) \o stack
  BY DEF OpenIf, Open
<1>2. Fine(sh, below, leaked) /\ below \in Stack /\ sh \in State
  BY <1>1, Opened, ReadyState
<1>3. f \in Frame /\ f.at = "if"
  BY DEF Frame, PlainFrame
<1>4. stack' = Push(List, Push(f, below))
  <2>1. stack \in Stack
    BY <1>1, ReadyState
  <2> HIDE DEF f
  <2>2. (<<List, f>> \o <<Command>>) \o stack = Push(List, Push(f, below))
    BY <1>3, <2>1, OpenForms
  <2> QED
    BY <1>1, <2>2
<1>5. /\ s \in State /\ s.suppressed = sh.suppressed + 1 /\ s.loop_depth = sh.loop_depth
      /\ s.in_function_depth = sh.in_function_depth /\ s.in_trap = sh.in_trap
      /\ s.control_flow = sh.control_flow /\ sh.suppressed \in Nat
  BY <1>2 DEF State
<1> HIDE DEF f, s, below
<1>6. Fits(s, Push(f, below), leaked)
  BY <1>2, <1>3, <1>5, Counted DEF Fits, Fine
<1>7. Settled(f, below, leaked)
  BY <1>3 DEF Settled
<1>8. Fine(s, Push(f, below), leaked) /\ Push(f, below) \in Stack
  BY <1>2, <1>3, <1>5, <1>6, <1>7, FinePushed, PushProperties DEF Fine
<1>9. Gives(s, Push(List, Push(f, below)), Go, leaked)
  BY <1>8, ListRuns
<1> QED
  BY <1>1, <1>4, <1>9 DEF Moves, IInv

\* An if off the stack.
LEMMA IfPopped ==
  ASSUME NEW s, NEW st, NEW l \in BOOLEAN, Fine(s, st, l), On(st, "if")
  PROVE  /\ Tail(st) \in Stack /\ s \in State /\ Fine(s, Tail(st), TRUE)
         /\ Fine([s EXCEPT !.suppressed = Less(@)], Tail(st), l)
<1> DEFINE f == Head(st)
           rest == Tail(st)
           less == [s EXCEPT !.suppressed = Less(@)]
<1>1. /\ f \in Frame /\ f.at = "if" /\ rest \in Stack /\ st = Push(f, rest)
      /\ AllSettled(rest, l) /\ s \in State /\ Fits(s, st, l)
  BY FinePopped DEF On, Fine
<1> HIDE DEF f, rest
<1>2. /\ CondCount(rest) \in Nat /\ CallCount(rest) \in Nat /\ LoopCount(rest) \in Nat
      /\ CondCount(st) = CondCount(rest) + 1 /\ CallCount(st) = CallCount(rest)
      /\ LoopCount(st) = LoopCount(rest) /\ InHandler(st) = InHandler(rest)
  BY <1>1, Counted
<1>3. s.suppressed \in Nat /\ s.loop_depth \in Nat
  BY <1>1 DEF State
<1>4. /\ s.suppressed >= CondCount(rest) + 1
      /\ ~l => s.suppressed = CondCount(rest) + 1
  BY <1>1, <1>2 DEF Fits
<1>5. less \in State /\ less.suppressed = s.suppressed - 1
  BY <1>1, <1>2, <1>3, <1>4 DEF Less, State
<1>6. /\ less.loop_depth = s.loop_depth /\ less.in_trap = s.in_trap
      /\ less.in_function_depth = s.in_function_depth
      /\ less.control_flow = s.control_flow
  BY <1>1 DEF State
<1> HIDE DEF less
<1>7. Fits(less, rest, l)
  BY <1>1, <1>2, <1>3, <1>4, <1>5, <1>6 DEF Fits
<1>8. Fits(s, rest, TRUE)
  BY <1>1, <1>2, <1>3, <1>4 DEF Fits
<1>9. AllSettled(rest, TRUE)
  BY <1>1, Weaker
<1> QED
  BY <1>1, <1>5, <1>7, <1>8, <1>9 DEF Fine, f, rest, less

LEMMA IfDecidesMoves == ASSUME IInv, IfDecides PROVE Moves
<1>1. /\ Fine(sh, stack, leaked) /\ On(stack, "if") /\ leaked \in BOOLEAN
      /\ leaked' = leaked /\ ret.is = "ok" /\ stack \in Stack
  BY DEF IInv, Gives, IfDecides, On, Top, Fine
<1>2. ret.status \in Status /\ 0 \in Status
  BY <1>1, OkStatus DEF Status
<1> DEFINE uncounted == [sh EXCEPT !.suppressed = Less(@)]
<1>3. Rest \in Stack /\ Fine(uncounted, Rest, leaked)
  BY <1>1, IfPopped DEF Rest
<1>4. \/ \E c \in Status : sh' = uncounted /\ stack' = Rest /\ ret' = Ok(c)
      \/ sh' = uncounted /\ stack' = <<List>> \o Rest /\ ret' = Go
      \/ sh' = sh /\ stack' = <<List>> \o stack /\ ret' = Go
  BY <1>2 DEF IfDecides
<1> HIDE DEF uncounted
<1>5. CASE \E c \in Status : sh' = uncounted /\ stack' = Rest /\ ret' = Ok(c)
  BY <1>1, <1>3, <1>5, Results DEF Moves, Gives
<1>6. CASE sh' = uncounted /\ stack' = <<List>> \o Rest /\ ret' = Go
  <2>1. Gives(uncounted, Push(List, Rest), Go, leaked)
    BY <1>3, ListRuns
  <2> QED
    BY <1>1, <1>6, <2>1 DEF Moves, Push
<1>7. CASE sh' = sh /\ stack' = <<List>> \o stack /\ ret' = Go
  <2>1. Gives(sh, Push(List, stack), Go, leaked)
    BY <1>1, ListRuns
  <2> QED
    BY <1>1, <1>7, <2>1 DEF Moves, Push
<1> QED
  BY <1>4, <1>5, <1>6, <1>7

LEMMA IfFailsMoves == ASSUME IInv, IfFails PROVE Moves
<1>1. /\ Fine(sh, stack, leaked) /\ On(stack, "if") /\ leaked \in BOOLEAN
      /\ leaked' = TRUE /\ sh' = sh /\ stack' = Rest /\ ret' = ret
      /\ ret \in Result /\ ret.is = "err"
  BY DEF IInv, Gives, IfFails, On, Top
<1>2. Fine(sh, Rest, TRUE) /\ ret # Go
  BY <1>1, IfPopped, ErrKind DEF Rest
<1> QED
  BY <1>1, <1>2 DEF Moves, Gives
(***************************************************************************)
(* Loops.                                                                  *)
(***************************************************************************)
LEMMA LoopCounted ==
  ASSUME NEW s, NEW st, NEW l, Fine(s, st, l), On(st, "loop")
  PROVE  /\ Head(st) \in LoopFrame /\ Head(st) \in Frame /\ Tail(st) \in Stack
         /\ s \in State /\ Fits(s, st, l) /\ AllSettled(Tail(st), l)
         /\ CondCount(Tail(st)) \in Nat /\ CallCount(Tail(st)) \in Nat
         /\ LoopCount(Tail(st)) \in Nat
         /\ CondCount(st) = CondCount(Tail(st)) + One(Head(st).part = "condition")
         /\ CallCount(st) = CallCount(Tail(st))
         /\ LoopCount(st) = LoopCount(Tail(st)) + 1
         /\ InHandler(st) = InHandler(Tail(st))
<1>1. /\ Head(st) \in Frame /\ Head(st).at = "loop" /\ Tail(st) \in Stack
      /\ st = Push(Head(st), Tail(st)) /\ AllSettled(Tail(st), l)
      /\ s \in State /\ Fits(s, st, l)
  BY FinePopped DEF On, Fine
<1>2. Head(st) \in LoopFrame
  BY <1>1, FrameKinds
<1> QED
  BY <1>1, <1>2, Counted

\* t is s without the condition that a loop in this part counts.
Uncounts(s, t, part) ==
  /\ t \in State
  /\ t.suppressed = s.suppressed - One(part = "condition")
  /\ t.loop_depth = s.loop_depth /\ t.in_function_depth = s.in_function_depth
  /\ t.in_trap = s.in_trap /\ t.control_flow = s.control_flow

LEMMA LoopLeft ==
  ASSUME NEW s, NEW st, NEW l \in BOOLEAN, Fine(s, st, l), On(st, "loop"),
         NEW t, Uncounts(s, t, Head(st).part)
  PROVE  Fine([t EXCEPT !.loop_depth = @ - 1], Tail(st), l)
<1> DEFINE u == [t EXCEPT !.loop_depth = @ - 1]
           rest == Tail(st)
           n == One(Head(st).part = "condition")
<1>1. /\ rest \in Stack /\ s \in State /\ Fits(s, st, l) /\ AllSettled(rest, l)
      /\ CondCount(rest) \in Nat /\ CallCount(rest) \in Nat /\ LoopCount(rest) \in Nat
      /\ CondCount(st) = CondCount(rest) + n /\ CallCount(st) = CallCount(rest)
      /\ LoopCount(st) = LoopCount(rest) + 1 /\ InHandler(st) = InHandler(rest)
  BY LoopCounted
<1>2. /\ t \in State /\ t.suppressed = s.suppressed - n
      /\ t.loop_depth = s.loop_depth /\ t.in_function_depth = s.in_function_depth
      /\ t.in_trap = s.in_trap /\ t.control_flow = s.control_flow
  BY DEF Uncounts
<1>3. n \in Nat
  BY DEF One
<1>4. s.suppressed \in Nat /\ s.loop_depth \in Nat
  BY <1>1 DEF State
<1> HIDE DEF rest, n
<1>5. s.loop_depth >= LoopCount(rest) + 1
  BY <1>1 DEF Fits
<1>6. u \in State /\ u.loop_depth = s.loop_depth - 1
  BY <1>1, <1>2, <1>4, <1>5 DEF State
<1>7. /\ u.suppressed = t.suppressed /\ u.in_trap = t.in_trap
      /\ u.in_function_depth = t.in_function_depth /\ u.control_flow = t.control_flow
  BY <1>2 DEF State
<1> HIDE DEF u
<1>8. Fits(u, rest, l)
  <2>1. /\ s.suppressed >= CondCount(rest) + n
        /\ ~l => s.suppressed = CondCount(rest) + n
        /\ ~l => s.loop_depth = LoopCount(rest) + 1
    BY <1>1 DEF Fits
  <2>2. /\ u.suppressed >= CondCount(rest) /\ (~l => u.suppressed = CondCount(rest))
        /\ u.loop_depth >= LoopCount(rest) /\ (~l => u.loop_depth = LoopCount(rest))
    BY <1>1, <1>2, <1>3, <1>4, <1>5, <1>6, <1>7, <2>1
  <2>3. /\ u.in_trap = s.in_trap /\ u.in_function_depth = s.in_function_depth
        /\ u.control_flow = s.control_flow
    BY <1>2, <1>7
  <2> QED
    BY <1>1, <2>2, <2>3 DEF Fits
<1> QED
  BY <1>1, <1>6, <1>8 DEF Fine, u, rest

LEMMA LoopDropped ==
  ASSUME NEW s, NEW st, NEW l \in BOOLEAN, Fine(s, st, l), On(st, "loop")
  PROVE  Fine(s, Tail(st), TRUE)
<1> DEFINE rest == Tail(st)
           n == One(Head(st).part = "condition")
<1>1. /\ rest \in Stack /\ s \in State /\ Fits(s, st, l) /\ AllSettled(rest, l)
      /\ CondCount(rest) \in Nat /\ CallCount(rest) \in Nat /\ LoopCount(rest) \in Nat
      /\ CondCount(st) = CondCount(rest) + n /\ CallCount(st) = CallCount(rest)
      /\ LoopCount(st) = LoopCount(rest) + 1 /\ InHandler(st) = InHandler(rest)
  BY LoopCounted
<1>2. n \in Nat
  BY DEF One
<1>3. s.suppressed \in Nat /\ s.loop_depth \in Nat
  BY <1>1 DEF State
<1> HIDE DEF rest, n
<1>4. Fits(s, rest, TRUE)
  BY <1>1, <1>2, <1>3 DEF Fits
<1>5. AllSettled(rest, TRUE)
  BY <1>1, Weaker
<1> QED
  BY <1>1, <1>4, <1>5 DEF Fine, rest

\* A loop that goes on to another part.
LEMMA LoopReplaced ==
  ASSUME NEW s, NEW st, NEW l, Fine(s, st, l), On(st, "loop"), NEW g \in LoopFrame,
         NEW t \in State,
         t.suppressed = s.suppressed - One(Head(st).part = "condition")
                                     + One(g.part = "condition"),
         t.loop_depth = s.loop_depth, t.in_function_depth = s.in_function_depth,
         t.in_trap = s.in_trap, t.control_flow = s.control_flow
  PROVE  /\ g \in Frame /\ g.at = "loop" /\ Tail(st) \in Stack
         /\ Fine(t, Push(g, Tail(st)), l)
<1> DEFINE rest == Tail(st)
           n == One(Head(st).part = "condition")
           m == One(g.part = "condition")
           p == Push(g, rest)
<1>1. /\ rest \in Stack /\ s \in State /\ Fits(s, st, l) /\ AllSettled(rest, l)
      /\ CondCount(rest) \in Nat /\ CallCount(rest) \in Nat /\ LoopCount(rest) \in Nat
      /\ CondCount(st) = CondCount(rest) + n /\ CallCount(st) = CallCount(rest)
      /\ LoopCount(st) = LoopCount(rest) + 1 /\ InHandler(st) = InHandler(rest)
  BY LoopCounted
<1>2. g \in Frame /\ g.at = "loop"
  BY DEF LoopFrame, Frame
<1>3. /\ CondCount(p) = CondCount(rest) + m /\ CallCount(p) = CallCount(rest)
      /\ LoopCount(p) = LoopCount(rest) + 1 /\ InHandler(p) = InHandler(rest)
  BY <1>1, <1>2, Counted
<1>4. n \in Nat /\ m \in Nat /\ s.suppressed \in Nat /\ s.loop_depth \in Nat
  BY <1>1 DEF One, State
<1>5. t.suppressed = s.suppressed - n + m
  OBVIOUS
<1> HIDE DEF rest, n, m, p
<1>6. Fits(t, p, l)
  BY <1>1, <1>3, <1>4, <1>5 DEF Fits
<1>7. Settled(g, rest, l)
  BY <1>2 DEF Settled
<1>8. Fine(t, Push(g, rest), l)
  BY <1>1, <1>2, <1>6, <1>7, FinePushed DEF p
<1> QED
  BY <1>1, <1>2, <1>8 DEF rest

LEMMA LoopEndsGives ==
  ASSUME NEW s, NEW l \in BOOLEAN, Fine(s, stack, l), On(stack, "loop"),
         NEW t, Uncounts(s, t, Top.part), NEW c \in Status, LoopEnds(t, c)
  PROVE  Gives(sh', stack', ret', l)
<1>1. sh' = [t EXCEPT !.loop_depth = @ - 1] /\ stack' = Rest /\ ret' = Ok(c)
  BY DEF LoopEnds
<1>2. Fine([t EXCEPT !.loop_depth = @ - 1], Rest, l)
  BY LoopLeft DEF Top, Rest
<1>3. Ok(c) \in Result /\ Ok(c) # Go
  BY Results
<1> QED
  BY <1>1, <1>2, <1>3 DEF Gives

LEMMA LoopFailsMoves ==
  ASSUME IInv, On(stack, "loop"), NEW e \in Errors, LoopFails(e)
  PROVE  Moves
<1>1. /\ Fine(sh, stack, leaked) /\ leaked \in BOOLEAN /\ sh' = sh /\ stack' = Rest
      /\ ret' = Err(e) /\ leaked' = TRUE
  BY DEF IInv, Gives, LoopFails
<1>2. Fine(sh, Rest, TRUE)
  BY <1>1, LoopDropped DEF Rest
<1>3. Err(e) \in Result /\ Err(e) # Go
  BY Results
<1> QED
  BY <1>1, <1>2, <1>3 DEF Moves, Gives

LEMMA LoopRunsGives ==
  ASSUME NEW s, NEW l, Fine(s, stack, l), On(stack, "loop"),
         NEW part \in {"condition", "body"}, LoopRuns(part), sh' \in State,
         sh'.suppressed = s.suppressed - One(Top.part = "condition")
                                       + One(part = "condition"),
         sh'.loop_depth = s.loop_depth, sh'.in_function_depth = s.in_function_depth,
         sh'.in_trap = s.in_trap, sh'.control_flow = s.control_flow
  PROVE  Gives(sh', stack', ret', l)
<1> DEFINE g == [Top EXCEPT !.part = part]
           t == sh'
<1>1. stack' = <<List, g>> \o Rest /\ ret' = Go
  BY DEF LoopRuns
<1>2. Top \in LoopFrame /\ Rest \in Stack
  BY LoopCounted DEF Top, Rest
<1>3. g \in LoopFrame /\ g.part = part
  BY <1>2 DEF LoopFrame
<1>4. /\ t.suppressed = s.suppressed - One(Top.part = "condition")
                                     + One(g.part = "condition")
      /\ t \in State
      /\ t.loop_depth = s.loop_depth /\ t.in_function_depth = s.in_function_depth
      /\ t.in_trap = s.in_trap /\ t.control_flow = s.control_flow
  BY <1>3
<1> HIDE DEF g, t
<1>5. g \in Frame /\ Fine(t, Push(g, Rest), l)
  BY <1>3, <1>4, LoopReplaced DEF Top, Rest
<1>6. Push(g, Rest) \in Stack
  BY <1>2, <1>5, PushProperties
<1>7. Gives(t, Push(List, Push(g, Rest)), Go, l)
  BY <1>5, <1>6, ListRuns
<1>8. <<List, g>> \o Rest = Push(List, Push(g, Rest))
  <2>1. List \in Frame
    BY ListFrame
  <2> QED
    BY <1>2, <1>5, <2>1, PushSeveral
<1> QED
  BY <1>1, <1>7, <1>8 DEF t

LEMMA OpenLoopMoves == ASSUME IInv, OpenLoop PROVE Moves
<1> DEFINE s == [sh EXCEPT !.loop_depth = @ + 1]
           below == Push(Command, stack)
<1>1. PICK kind \in Loops : Open(kind, s, <<Loop(kind, 0)>>)
  BY DEF OpenLoop
<1> DEFINE f == Loop(kind, 0)
<1>2. /\ Ready /\ sh' = s /\ ret' = Go /\ leaked' = leaked
      /\ stack' = (<<f>> \o <<Command>>) \o stack
  BY <1>1 DEF Open
<1>3. Fine(sh, below, leaked) /\ below \in Stack /\ sh \in State /\ stack \in Stack
  BY <1>2, Opened, ReadyState
<1>4. f \in Frame /\ f.at = "loop" /\ f.part = "top"
  BY DEF Frame, LoopFrame, Loop, Status
<1>5. /\ s \in State /\ s.suppressed = sh.suppressed /\ s.loop_depth = sh.loop_depth + 1
      /\ s.in_function_depth = sh.in_function_depth /\ s.in_trap = sh.in_trap
      /\ s.control_flow = sh.control_flow /\ sh.loop_depth \in Nat
  BY <1>3 DEF State
<1> HIDE DEF f, s
<1>6. stack' = Push(f, below)
  <2>1. (<<f>> \o <<Command>>) \o stack = Push(f, below)
    BY <1>3, <1>4, OpenForms
  <2> QED
    BY <1>2, <2>1
<1> HIDE DEF below
<1>7. /\ CondCount(below) \in Nat /\ CallCount(below) \in Nat /\ LoopCount(below) \in Nat
      /\ CondCount(Push(f, below)) = CondCount(below)
      /\ CallCount(Push(f, below)) = CallCount(below)
      /\ LoopCount(Push(f, below)) = LoopCount(below) + 1
      /\ InHandler(Push(f, below)) = InHandler(below)
  <2>1. One(f.part = "condition") = 0
    BY <1>4 DEF One
  <2>2. /\ CondCount(below) \in Nat /\ CallCount(below) \in Nat /\ LoopCount(below) \in Nat
        /\ CondCount(Push(f, below)) = CondCount(below) + One(f.part = "condition")
        /\ CallCount(Push(f, below)) = CallCount(below)
        /\ LoopCount(Push(f, below)) = LoopCount(below) + 1
        /\ InHandler(Push(f, below)) = InHandler(below)
    BY <1>3, <1>4, Counted
  <2> QED
    BY <2>1, <2>2
<1>8. Fits(s, Push(f, below), leaked)
  BY <1>3, <1>5, <1>7 DEF Fits, Fine
<1>9. Settled(f, below, leaked)
  BY <1>4 DEF Settled
<1>10. Fine(s, Push(f, below), leaked)
  BY <1>3, <1>4, <1>5, <1>8, <1>9, FinePushed DEF Fine
<1>11. Resumable(s, Push(f, below))
  BY <1>3, <1>4, Resumes
<1>12. Gives(s, Push(f, below), Go, leaked)
  BY <1>10, <1>11, Results DEF Gives
<1> QED
  BY <1>2, <1>6, <1>12 DEF Moves, IInv

LEMMA LoopTopMoves == ASSUME IInv, LoopTop PROVE Moves
<1>1. /\ Fine(sh, stack, leaked) /\ On(stack, "loop") /\ leaked \in BOOLEAN
      /\ ret = Go /\ sh \in State /\ script \in Script
  BY DEF IInv, Gives, LoopTop, AtLoop, On, Top, Fine
<1>2. Top \in LoopFrame /\ Top.part = "top"
  BY <1>1, LoopCounted DEF Top, IInv, Gives, Resumable
<1>3. Top.status \in Status
  BY <1>2 DEF LoopFrame
<1>4. One(Top.part = "condition") = 0 /\ One("body" = "condition") = 0
      /\ One("condition" = "condition") = 1 /\ sh.suppressed \in Nat
  BY <1>1, <1>2 DEF One, State
<1>5. Uncounts(sh, sh, Top.part)
  BY <1>1, <1>4 DEF Uncounts
<1>6. CASE LoopEnds(sh, Top.status) /\ leaked' = leaked
  BY <1>1, <1>3, <1>5, <1>6, LoopEndsGives DEF Moves
<1>7. CASE LoopRuns("body") /\ sh' = sh /\ leaked' = leaked
  <2>1. sh.suppressed = sh.suppressed - One(Top.part = "condition")
                                      + One("body" = "condition")
    BY <1>4
  <2>2. /\ sh' \in State /\ sh'.loop_depth = sh.loop_depth
        /\ sh'.suppressed = sh.suppressed - One(Top.part = "condition")
                                          + One("body" = "condition")
        /\ sh'.in_function_depth = sh.in_function_depth
        /\ sh'.in_trap = sh.in_trap /\ sh'.control_flow = sh.control_flow
    BY <1>1, <1>7, <2>1
  <2> QED
    BY <1>1, <1>7, <2>2, LoopRunsGives DEF Moves
<1>8. CASE /\ sh' = [sh EXCEPT !.suppressed = @ + 1]
           /\ LoopRuns("condition") /\ leaked' = leaked
  <2> DEFINE t == [sh EXCEPT !.suppressed = @ + 1]
  <2>1. /\ t \in State /\ t.loop_depth = sh.loop_depth
        /\ t.suppressed = sh.suppressed + 1
        /\ t.in_function_depth = sh.in_function_depth
        /\ t.in_trap = sh.in_trap /\ t.control_flow = sh.control_flow
    BY <1>1 DEF State
  <2>2. sh' = t
    BY <1>8
  <2> HIDE DEF t
  <2>3. t.suppressed = sh.suppressed - One(Top.part = "condition")
                                     + One("condition" = "condition")
    BY <1>4, <2>1
  <2>4. /\ sh' \in State /\ sh'.loop_depth = sh.loop_depth
        /\ sh'.suppressed = sh.suppressed - One(Top.part = "condition")
                                          + One("condition" = "condition")
        /\ sh'.in_function_depth = sh.in_function_depth
        /\ sh'.in_trap = sh.in_trap /\ sh'.control_flow = sh.control_flow
    BY <2>1, <2>2, <2>3
  <2> QED
    BY <1>1, <1>8, <2>4, LoopRunsGives DEF Moves
<1>9. ASSUME NEW e \in Errors, LoopFails(e) PROVE Moves
  BY <1>1, <1>9, LoopFailsMoves
<1>10. CASE /\ sh' = [sh EXCEPT !.loop_depth = @ - 1]
            /\ stack' = Rest /\ ret' = Err("hard") /\ leaked' = leaked
  <2>1. Fine([sh EXCEPT !.loop_depth = @ - 1], Rest, leaked)
    BY <1>1, <1>5, LoopLeft DEF Top, Rest
  <2>2. Err("hard") \in Result /\ Err("hard") # Go
    BY Results DEF Errors
  <2> QED
    BY <1>1, <1>10, <2>1, <2>2 DEF Moves, Gives
<1>11. "hard" \in Errors /\ script.raises \subseteq Errors
  BY <1>1 DEF Errors, Script
<1>12. ASSUME Condition PROVE Moves
  <2>1. Top.kind \in {"while", "until", "for", "arith-for"}
    BY <1>2 DEF LoopFrame, Loops
  <2>2. CASE Top.kind \in {"while", "until"}
    BY <1>8, <1>12, <2>2 DEF Condition
  <2>3. CASE Top.kind = "for"
    BY <1>6, <1>7, <1>9, <1>11, <1>12, <2>3 DEF Condition
  <2>4. CASE Top.kind = "arith-for"
    <3>1. \/ LoopEnds(sh, Top.status) /\ leaked' = leaked
          \/ LoopRuns("body") /\ sh' = sh /\ leaked' = leaked
          \/ \E e \in script.raises \ {"redirect", "failglob"} : LoopFails(e)
      BY <1>12, <2>4 DEF Condition
    <3> QED
      BY <1>6, <1>7, <1>9, <1>11, <3>1
  <2> QED
    BY <2>1, <2>2, <2>3, <2>4
<1> QED
  BY <1>6, <1>10, <1>12 DEF LoopTop

LEMMA LoopDecidesMoves == ASSUME IInv, LoopDecides PROVE Moves
<1>1. /\ Fine(sh, stack, leaked) /\ On(stack, "loop") /\ leaked \in BOOLEAN
      /\ leaked' = leaked /\ ret.is = "ok" /\ Top.part = "condition"
  BY DEF IInv, Gives, LoopDecides, AtLoop, On, Top
<1>2. Top \in LoopFrame /\ Top.status \in Status /\ ret.status \in Status
  BY <1>1, LoopCounted, OkStatus DEF Top, LoopFrame
<1> DEFINE t == [sh EXCEPT !.suppressed = Less(@)]
<1>3. /\ t \in State /\ t.suppressed = sh.suppressed - 1
      /\ t.loop_depth = sh.loop_depth /\ t.in_function_depth = sh.in_function_depth
      /\ t.in_trap = sh.in_trap /\ t.control_flow = sh.control_flow
      /\ sh.suppressed \in Nat
  <2>1. sh \in State /\ sh.suppressed \in Nat /\ sh.suppressed >= 1
    <3>1. One(Head(stack).part = "condition") = 1
      BY <1>1 DEF One, Top
    <3>2. /\ sh \in State /\ sh.suppressed >= CondCount(stack)
          /\ CondCount(stack) = CondCount(Tail(stack)) + One(Head(stack).part = "condition")
          /\ CondCount(Tail(stack)) \in Nat
      BY <1>1, LoopCounted DEF Fits
    <3>3. sh.suppressed \in Nat
      BY <3>2 DEF State
    <3> QED
      BY <3>1, <3>2, <3>3
  <2>2. Less(sh.suppressed) = sh.suppressed - 1 /\ Less(sh.suppressed) \in Nat
    BY <2>1 DEF Less
  <2> QED
    BY <2>1, <2>2 DEF State
<1>4. \/ \E c \in Status : LoopEnds(t, c)
      \/ sh' = t /\ LoopRuns("body")
  BY <1>2 DEF LoopDecides
<1> HIDE DEF t
<1>5. One(Top.part = "condition") = 1 /\ One("body" = "condition") = 0
  BY <1>1 DEF One
<1>6. CASE \E c \in Status : LoopEnds(t, c)
  <2>1. Uncounts(sh, t, Top.part)
    BY <1>3, <1>5 DEF Uncounts
  <2> QED
    BY <1>1, <1>6, <2>1, LoopEndsGives DEF Moves
<1>7. CASE sh' = t /\ LoopRuns("body")
  <2>1. t.suppressed = sh.suppressed - One(Top.part = "condition")
                                     + One("body" = "condition")
    BY <1>3, <1>5
  <2>2. /\ sh' \in State /\ sh'.loop_depth = sh.loop_depth
        /\ sh'.suppressed = sh.suppressed - One(Top.part = "condition")
                                          + One("body" = "condition")
        /\ sh'.in_function_depth = sh.in_function_depth
        /\ sh'.in_trap = sh.in_trap /\ sh'.control_flow = sh.control_flow
    BY <1>3, <1>7, <2>1
  <2> QED
    BY <1>1, <1>7, <2>2, LoopRunsGives DEF Moves
<1> QED
  BY <1>4, <1>6, <1>7

LEMMA LoopAgainMoves ==
  ASSUME IInv, On(stack, "loop"), Top.part = "body", NEW s, Fine(s, stack, leaked),
         NEW c \in Status, LoopAgain(s, c)
  PROVE  Moves
<1>1. leaked \in BOOLEAN /\ script \in Script /\ s \in State
  BY DEF IInv, Fine
<1>2. CASE sh' = s /\ stack' = <<Loop(Top.kind, c)>> \o Rest /\ ret' = Go /\ leaked' = leaked
  <2> DEFINE g == Loop(Top.kind, c)
  <2>1. Top \in LoopFrame /\ Rest \in Stack
    BY LoopCounted DEF Top, Rest
  <2>2. g \in LoopFrame /\ g.part = "top"
    BY <2>1 DEF LoopFrame, Loop
  <2>3. stack' = Push(g, Rest)
    BY <1>2 DEF Push
  <2> HIDE DEF g
  <2>4. One(Top.part = "condition") = 0 /\ One(g.part = "condition") = 0
        /\ s.suppressed \in Nat
    BY <1>1, <2>2 DEF One, State
  <2>5. s.suppressed = s.suppressed - One(Top.part = "condition")
                                    + One(g.part = "condition")
    BY <2>4
  <2>6. g \in Frame /\ g.at = "loop" /\ Fine(s, Push(g, Rest), leaked)
    BY <1>1, <2>2, <2>5, LoopReplaced DEF Top, Rest
  <2>7. Resumable(s, Push(g, Rest))
    BY <2>1, <2>2, <2>6, Resumes
  <2> QED
    BY <1>1, <1>2, <2>3, <2>6, <2>7, Results DEF Moves, Gives
<1>3. CASE /\ sh' = s /\ stack' = Rest /\ leaked' = TRUE
           /\ \E e \in script.raises \ {"redirect", "failglob"} : ret' = Err(e)
  <2>1. Fine(s, Rest, TRUE)
    BY <1>1, LoopDropped DEF Rest
  <2>2. ret' \in Result /\ ret' # Go
    BY <1>1, <1>3, Results DEF Script
  <2> QED
    BY <1>3, <2>1, <2>2 DEF Moves, Gives
<1> QED
  BY <1>2, <1>3 DEF LoopAgain

LEMMA LoopBodyEndsMoves == ASSUME IInv, LoopBodyEnds PROVE Moves
<1> DEFINE flow  == sh.control_flow
           taken == [sh EXCEPT !.control_flow = NoFlow]
           outer == [sh EXCEPT !.control_flow = [flow EXCEPT !.n = @ - 1]]
           c     == ret.status
<1>1. /\ Fine(sh, stack, leaked) /\ On(stack, "loop") /\ leaked \in BOOLEAN
      /\ ret.is = "ok" /\ Top.part = "body" /\ sh \in State
  BY DEF IInv, Gives, LoopBodyEnds, AtLoop, On, Top, Fine
<1>2. c \in Status /\ flow \in Flow
  BY <1>1, OkStatus DEF State
<1>3. ASSUME NEW s, Fine(s, stack, leaked), LoopEnds(s, c), leaked' = leaked
      PROVE  Moves
  <2>1. s \in State /\ s.suppressed \in Nat
    BY <1>3 DEF Fine, State
  <2>2. One(Top.part = "condition") = 0
    BY <1>1 DEF One
  <2>3. Uncounts(s, s, Top.part)
    BY <2>1, <2>2 DEF Uncounts
  <2>4. Gives(sh', stack', ret', leaked)
    BY <1>1, <1>2, <1>3, <2>3, LoopEndsGives
  <2> QED
    BY <1>1, <1>3, <2>4 DEF Moves
<1>4. Fine(taken, stack, leaked)
  <2>1. NoFlow \in Flow /\ NoFlow.to # "return"
    BY Flows
  <2> QED
    BY <1>1, <2>1, FlowFits
<1>5. ASSUME flow.to \in {"break", "continue"}, flow.n > 1,
             LoopEnds(outer, c), leaked' = leaked
      PROVE  Moves
  <2> DEFINE less == [flow EXCEPT !.n = @ - 1]
  <2>1. less \in Flow /\ less.to # "return"
    BY <1>2, <1>5 DEF Flow
  <2>2. outer = [sh EXCEPT !.control_flow = less]
    OBVIOUS
  <2> HIDE DEF less
  <2>3. Fine(outer, stack, leaked)
    BY <1>1, <2>1, <2>2, FlowFits
  <2> HIDE DEF outer
  <2> QED
    BY <1>3, <1>5, <2>3
<1>6. \/ LoopAgain(sh, c)
      \/ LoopEnds(sh, c) /\ leaked' = leaked
      \/ /\ flow.to \in {"break", "continue"} /\ flow.n > 1
         /\ LoopEnds(outer, c) /\ leaked' = leaked
      \/ LoopEnds(taken, c) /\ leaked' = leaked
      \/ LoopAgain(taken, c)
  BY DEF LoopBodyEnds
<1> HIDE DEF taken, outer, flow, c
<1> QED
  BY <1>1, <1>2, <1>3, <1>4, <1>5, <1>6, LoopAgainMoves

LEMMA LoopErrMoves == ASSUME IInv, LoopErr PROVE Moves
<1>1. On(stack, "loop") /\ ret.is = "err" /\ LoopFails(ret.error)
  BY DEF LoopErr, AtLoop, On, Top
<1>2. ret.error \in Errors
  BY <1>1, ErrKind
<1> QED
  BY <1>1, <1>2, LoopFailsMoves

(***************************************************************************)
(* Function calls.                                                         *)
(***************************************************************************)
LEMMA OpenFunctionMoves == ASSUME IInv, OpenFunction PROVE Moves
<1> DEFINE f == [at |-> "function"]
           s == [sh EXCEPT !.in_function_depth = @ + 1]
           below == Push(Command, stack)
<1>1. /\ Ready /\ sh' = s /\ ret' = Go /\ leaked' = leaked
      /\ stack' = (<<List, f>> \o <<Command>>) \o stack
  BY DEF OpenFunction, Open
<1>2. Fine(sh, below, leaked) /\ below \in Stack /\ sh \in State
  BY <1>1, Opened, ReadyState
<1>3. f \in Frame /\ f.at = "function"
  BY DEF Frame, PlainFrame
<1>4. stack' = Push(List, Push(f, below))
  <2>1. stack \in Stack
    BY <1>1, ReadyState
  <2> HIDE DEF f
  <2>2. (<<List, f>> \o <<Command>>) \o stack = Push(List, Push(f, below))
    BY <1>3, <2>1, OpenForms
  <2> QED
    BY <1>1, <2>2
<1>5. /\ s \in State /\ s.suppressed = sh.suppressed /\ s.loop_depth = sh.loop_depth
      /\ s.in_function_depth = sh.in_function_depth + 1 /\ s.in_trap = sh.in_trap
      /\ s.control_flow = sh.control_flow /\ sh.in_function_depth \in Nat
  BY <1>2 DEF State
<1> HIDE DEF f, s, below
<1>6. Fits(s, Push(f, below), leaked)
  BY <1>2, <1>3, <1>5, Counted DEF Fits, Fine
<1>7. Settled(f, below, leaked)
  BY <1>3 DEF Settled
<1>8. Fine(s, Push(f, below), leaked) /\ Push(f, below) \in Stack
  BY <1>2, <1>3, <1>5, <1>6, <1>7, FinePushed, PushProperties DEF Fine
<1>9. Gives(s, Push(List, Push(f, below)), Go, leaked)
  BY <1>8, ListRuns
<1> QED
  BY <1>1, <1>4, <1>9 DEF Moves, IInv

LEMMA FunctionEndsMoves == ASSUME IInv, FunctionEnds PROVE Moves
<1> DEFINE returns == sh.control_flow.to = "return"
           flow == IF returns THEN NoFlow ELSE sh.control_flow
           t == [sh EXCEPT !.in_function_depth = @ - 1, !.control_flow = flow]
<1>1. /\ Fine(sh, stack, leaked) /\ On(stack, "function") /\ leaked \in BOOLEAN
      /\ leaked' = leaked /\ stack' = Rest /\ sh' = t /\ sh \in State
      /\ ret \in Result /\ ret # Go
      /\ ret' = IF ret.is = "ok" /\ returns THEN Ok(sh.control_flow.n) ELSE ret
  BY DEF IInv, Gives, FunctionEnds, On, Top, Fine
<1>2. /\ Top \in Frame /\ Top.at = "function" /\ Rest \in Stack
      /\ stack = Push(Top, Rest) /\ AllSettled(Rest, leaked) /\ Fits(sh, stack, leaked)
  BY <1>1, FinePopped DEF On, Fine, Top, Rest
<1>3. /\ CondCount(Rest) \in Nat /\ CallCount(Rest) \in Nat /\ LoopCount(Rest) \in Nat
      /\ CondCount(stack) = CondCount(Rest) /\ CallCount(stack) = CallCount(Rest) + 1
      /\ LoopCount(stack) = LoopCount(Rest) /\ InHandler(stack) = InHandler(Rest)
  BY <1>2, Counted
<1>4. flow \in Flow /\ flow.to # "return"
  BY <1>1, Flows DEF State
<1> HIDE DEF flow
<1>5. sh.in_function_depth = CallCount(Rest) + 1
  BY <1>2, <1>3 DEF Fits
<1>6. /\ t \in State /\ t.in_function_depth = CallCount(Rest)
      /\ t.suppressed = sh.suppressed /\ t.loop_depth = sh.loop_depth
      /\ t.in_trap = sh.in_trap /\ t.control_flow = flow
  <2> DEFINE d == sh.in_function_depth - 1
  <2>1. d = CallCount(Rest) /\ d \in Nat
    BY <1>3, <1>5
  <2>2. t = [sh EXCEPT !.in_function_depth = d, !.control_flow = flow]
    OBVIOUS
  <2> HIDE DEF d, t
  <2> QED
    BY <1>1, <1>4, <2>1, <2>2 DEF State
<1> HIDE DEF t
<1>7. Fits(t, Rest, leaked)
  BY <1>2, <1>3, <1>4, <1>6 DEF Fits
<1>8. Fine(t, Rest, leaked)
  BY <1>2, <1>6, <1>7 DEF Fine
<1>9. ret' \in Result /\ ret' # Go
  <2>1. sh.control_flow \in Flow /\ (returns => sh.control_flow.n \in Status)
    BY <1>1 DEF State, Flow
  <2> QED
    BY <1>1, <2>1, Results
<1> QED
  BY <1>1, <1>8, <1>9 DEF Moves, Gives

(***************************************************************************)
(* Programs, handlers and exec().                                          *)
(***************************************************************************)
LEMMA ProgramBeginsMoves == ASSUME IInv, ProgramBegins PROVE Moves
<1>1. /\ Fine(sh, stack, leaked) /\ On(stack, "program") /\ leaked \in BOOLEAN
      /\ leaked' = leaked /\ sh' = sh
  BY DEF IInv, Gives, ProgramBegins, On, Top
<1>2. /\ Top \in Frame /\ Top.at = "program" /\ Rest \in Stack
      /\ stack = Push(Top, Rest) /\ Fine(sh, Rest, leaked)
  BY <1>1, FinePopped, QuietPopped DEF Top, Rest, On
<1>3. CASE stack' = Rest /\ ret' = Ok(0)
  <2>1. Ok(0) \in Result /\ Ok(0) # Go
    BY Results DEF Status
  <2> QED
    BY <1>1, <1>2, <1>3, <2>1 DEF Moves, Gives
<1>4. CASE stack' = <<List, [Top EXCEPT !.ran = TRUE]>> \o Rest /\ ret' = Go
  <2> DEFINE f == [Top EXCEPT !.ran = TRUE]
  <2>1. f \in Frame /\ f.at = "program"
    BY <1>2, FrameKinds DEF ProgFrame, Frame
  <2>2. stack' = <<List, f>> \o Rest
    BY <1>4
  <2> HIDE DEF f
  <2>3. Fine(sh, Push(f, Rest), leaked) /\ Push(f, Rest) \in Stack
    BY <1>2, <2>1, QuietPushed, PushProperties
  <2>4. Gives(sh, Push(List, Push(f, Rest)), Go, leaked)
    BY <2>3, ListRuns
  <2>5. <<List, f>> \o Rest = Push(List, Push(f, Rest))
    <3>1. List \in Frame /\ Rest \in Stack
      BY <1>2, ListFrame
    <3> QED
      BY <2>1, <3>1, PushBoth, Zenon
  <2> QED
    BY <1>1, <1>4, <2>2, <2>4, <2>5 DEF Moves
<1> QED
  BY <1>3, <1>4 DEF ProgramBegins

LEMMA ProgramContinuesMoves == ASSUME IInv, ProgramContinues PROVE Moves
<1>1. /\ Fine(sh, stack, leaked) /\ On(stack, "program") /\ leaked \in BOOLEAN
      /\ leaked' = leaked /\ sh' = sh /\ ret \in Result /\ ret # Go /\ stack \in Stack
  BY DEF IInv, Gives, ProgramContinues, On, Top, Fine
<1>2. Fine(sh, Rest, leaked)
  BY <1>1, QuietPopped DEF Rest
<1>3. \/ stack' = Rest /\ (ret' = ret \/ ret' = Err("hard") \/ ret' = Ok(0))
      \/ stack' = <<List>> \o stack /\ ret' = Go
  BY DEF ProgramContinues
<1>4. /\ Err("hard") \in Result /\ Err("hard") # Go
      /\ Ok(0) \in Result /\ Ok(0) # Go
  BY Results DEF Errors, Status
<1>5. CASE stack' = Rest /\ (ret' = ret \/ ret' = Err("hard") \/ ret' = Ok(0))
  BY <1>1, <1>2, <1>4, <1>5 DEF Moves, Gives
<1>6. CASE stack' = <<List>> \o stack /\ ret' = Go
  <2>1. Gives(sh, Push(List, stack), Go, leaked)
    BY <1>1, ListRuns
  <2> QED
    BY <1>1, <1>6, <2>1 DEF Moves, Push
<1> QED
  BY <1>3, <1>5, <1>6

\* A handler off the stack: where it was set, none ran.
LEMMA HandlerPopped ==
  ASSUME NEW s, NEW st, NEW l, Fine(s, st, l), On(st, "trap")
  PROVE  /\ Head(st) \in HandlerFrame /\ Tail(st) \in Stack
         /\ Head(st).signal = "ERR" => On(Tail(st), "list")
         /\ Head(st).signal = "EXIT" => Tail(st) = <<>>
         /\ Fine([s EXCEPT !.in_trap = Head(st).was], Tail(st), l)
<1> DEFINE f == Head(st)
           rest == Tail(st)
           t == [s EXCEPT !.in_trap = f.was]
<1>1. /\ f \in Frame /\ f.at = "trap" /\ rest \in Stack /\ st = Push(f, rest)
      /\ Settled(f, rest, l) /\ AllSettled(rest, l) /\ s \in State /\ Fits(s, st, l)
  BY FinePopped DEF On, Fine
<1>2. f \in HandlerFrame
  BY <1>1, FrameKinds
<1> HIDE DEF f, rest
<1>3. /\ f.was = FALSE /\ ~InHandler(rest)
      /\ f.signal = "ERR" => On(rest, "list")
      /\ f.signal = "EXIT" => rest = <<>>
  BY <1>1 DEF Settled
<1>4. /\ CondCount(st) = CondCount(rest) /\ CallCount(st) = CallCount(rest)
      /\ LoopCount(st) = LoopCount(rest)
  BY <1>1, Counted
<1>5. /\ t \in State /\ t.suppressed = s.suppressed /\ t.loop_depth = s.loop_depth
      /\ t.in_function_depth = s.in_function_depth
      /\ t.control_flow = s.control_flow /\ t.in_trap = FALSE
  BY <1>1, <1>3 DEF State
<1> HIDE DEF t
<1>6. Fits(t, rest, l)
  BY <1>1, <1>3, <1>4, <1>5 DEF Fits
<1>7. Fine(t, rest, l)
  BY <1>1, <1>5, <1>6 DEF Fine
<1> QED
  BY <1>1, <1>2, <1>3, <1>7 DEF f, rest, t

LEMMA ErrTrapEndsMoves == ASSUME IInv, ErrTrapEnds PROVE Moves
<1> DEFINE restored == [sh EXCEPT !.in_trap = Top.was]
<1>1. /\ Fine(sh, stack, leaked) /\ On(stack, "trap") /\ leaked \in BOOLEAN
      /\ Top.signal = "ERR" /\ leaked' = leaked /\ ret \in Result /\ ret # Go
  BY DEF IInv, Gives, ErrTrapEnds, On, Top
<1>2. Top \in HandlerFrame /\ On(Rest, "list") /\ Fine(restored, Rest, leaked)
  BY <1>1, HandlerPopped DEF Top, Rest
<1>3. \/ ListContinues(restored, Rest, Top.status)
      \/ sh' = restored /\ stack' = Tail(Rest) /\ ret' = ret
  BY DEF ErrTrapEnds
<1> HIDE DEF restored
<1>4. CASE ListContinues(restored, Rest, Top.status)
  <2>1. Top.status \in Status
    BY <1>2 DEF HandlerFrame
  <2>2. Gives(sh', stack', ret', leaked)
    BY <1>2, <1>4, <2>1, ListContinuesGives
  <2> QED
    BY <1>1, <2>2 DEF Moves
<1>5. CASE sh' = restored /\ stack' = Tail(Rest) /\ ret' = ret
  <2>1. Fine(restored, Tail(Rest), leaked)
    BY <1>2, ListPopped
  <2> QED
    BY <1>1, <1>5, <2>1 DEF Moves, Gives
<1> QED
  BY <1>3, <1>4, <1>5

LEMMA ExitTrapEndsMoves == ASSUME IInv, ExitTrapEnds PROVE Moves
<1>1. /\ Fine(sh, stack, leaked) /\ On(stack, "trap") /\ leaked \in BOOLEAN
      /\ Top.signal = "EXIT" /\ sh' = [sh EXCEPT !.in_trap = Top.was]
      /\ leaked' = leaked /\ stack' = <<>> /\ ret' = Go
  BY DEF IInv, Gives, ExitTrapEnds, On, Top
<1>2. Rest = <<>> /\ Fine([sh EXCEPT !.in_trap = Top.was], Rest, leaked)
  BY <1>1, HandlerPopped DEF Top, Rest
<1>3. Resumable(sh', <<>>)
  BY DEF Resumable, On
<1> QED
  BY <1>1, <1>2, <1>3, Results DEF Moves, Gives

\* exec() stands at the bottom of the stack and counts nothing.
LEMMA ExecFrame ==
  LET f == [at |-> "exec"] IN
  /\ f \in Frame
  /\ \A s, l : Fine(s, Push(f, <<>>), l) <=> Fine(s, <<>>, l)
<1> DEFINE f == [at |-> "exec"]
<1>1. f \in Frame /\ f.at = "exec"
  BY DEF Frame, PlainFrame
<1> HIDE DEF f
<1>2. <<>> \in Stack
  BY CountsEmpty
<1>3. /\ CondCount(Push(f, <<>>)) = CondCount(<<>>)
      /\ CallCount(Push(f, <<>>)) = CallCount(<<>>)
      /\ LoopCount(Push(f, <<>>)) = LoopCount(<<>>)
      /\ InHandler(Push(f, <<>>)) = InHandler(<<>>)
  BY <1>1, <1>2, Counted
<1>4. \A s, l : Fits(s, Push(f, <<>>), l) <=> Fits(s, <<>>, l)
  BY <1>3 DEF Fits
<1>5. \A l : Settled(f, <<>>, l)
  BY <1>1 DEF Settled
<1>6. ASSUME NEW s, NEW l PROVE Fine(s, Push(f, <<>>), l) <=> Fine(s, <<>>, l)
  <2>1. Fine(s, Push(f, <<>>), l) <=>
          /\ s \in State /\ Settled(f, <<>>, l) /\ AllSettled(<<>>, l)
          /\ Fits(s, Push(f, <<>>), l)
    BY <1>1, <1>2, FinePushed
  <2> QED
    BY <1>2, <1>4, <1>5, <2>1 DEF Fine
<1> QED
  BY <1>1, <1>6 DEF f

LEMMA ExecMoves == ASSUME IInv, Exec PROVE Moves
<1> DEFINE s == [sh EXCEPT !.should_exit = FALSE]
           f == [at |-> "exec"]
<1>1. /\ Fine(sh, <<>>, leaked) /\ leaked \in BOOLEAN /\ leaked' = leaked /\ sh' = s
      /\ ret' = Go /\ stack = <<>> /\ (stack' = <<Program, f>> \/ stack' = <<>>)
  BY DEF IInv, Gives, Exec, Idle
<1>2. Fine(s, <<>>, leaked)
  <2>1. Alike(sh, s)
    BY <1>1 DEF Fine, Alike, State
  <2> QED
    BY <1>1, <2>1, AlikeFits
<1>3. f \in Frame /\ Fine(s, Push(f, <<>>), leaked)
  BY <1>2, ExecFrame
<1> HIDE DEF s, f
<1>4. CASE stack' = <<Program, f>>
  <2>1. Push(f, <<>>) \in Stack
    BY <1>3, CountsEmpty, PushProperties
  <2>2. Gives(s, Push(Program, Push(f, <<>>)), Go, leaked)
    BY <1>3, <2>1, ListRuns
  <2>3. <<Program, f>> = Push(Program, Push(f, <<>>))
    <3>1. Program \in Frame /\ <<>> \in Stack
      BY ListFrame, CountsEmpty
    <3> QED
      BY <1>3, <3>1, PushSeveral
  <2> QED
    BY <1>1, <1>4, <2>2, <2>3 DEF Moves
<1>5. CASE stack' = <<>>
  <2>1. Resumable(s, <<>>)
    BY DEF Resumable, On
  <2> QED
    BY <1>1, <1>2, <1>5, <2>1, Results DEF Moves, Gives
<1> QED
  BY <1>1, <1>4, <1>5

LEMMA ExecEndsMoves == ASSUME IInv, ExecEnds PROVE Moves
<1> DEFINE f == TrapFrame("EXIT", ret.status)
<1>1. /\ Fine(sh, stack, leaked) /\ On(stack, "exec") /\ leaked \in BOOLEAN
      /\ ret' = Go /\ sh \in State
  BY DEF IInv, Gives, ExecEnds, On, Top, Fine
<1>2. Fine(sh, <<>>, leaked)
  <2>1. /\ Head(stack) \in Frame /\ Head(stack).at = "exec" /\ Tail(stack) \in Stack
        /\ stack = Push(Head(stack), Tail(stack)) /\ Tail(stack) = <<>>
    <3>1. Fine(sh, stack, leaked) /\ stack # <<>> /\ Head(stack).at = "exec"
      BY <1>1 DEF On
    <3>2. /\ Head(stack) \in Frame /\ Tail(stack) \in Stack
          /\ stack = Push(Head(stack), Tail(stack))
          /\ Settled(Head(stack), Tail(stack), leaked)
      BY <3>1, FinePopped
    <3> QED
      BY <3>1, <3>2 DEF Settled
  <2>2. /\ CondCount(stack) = CondCount(<<>>) /\ CallCount(stack) = CallCount(<<>>)
        /\ LoopCount(stack) = LoopCount(<<>>) /\ InHandler(stack) = InHandler(<<>>)
    <3> DEFINE h == Head(stack)
               b == Tail(stack)
    <3>1. h \in Frame /\ h.at = "exec" /\ b \in Stack /\ stack = Push(h, b) /\ b = <<>>
      BY <2>1
    <3> HIDE DEF h, b
    <3>2. /\ CondCount(Push(h, b)) = CondCount(b) /\ CallCount(Push(h, b)) = CallCount(b)
          /\ LoopCount(Push(h, b)) = LoopCount(b)
          /\ InHandler(Push(h, b)) = InHandler(b)
      BY <3>1, Counted
    <3> QED
      BY <3>1, <3>2, Zenon
  <2>3. Fits(sh, <<>>, leaked)
    BY <1>1, <2>2 DEF Fits, Fine
  <2> QED
    BY <1>1, <2>3, SettledEmpty, CountsEmpty DEF Fine
<1>3. \A t : Resumable(t, <<>>)
  BY DEF Resumable, On
<1>4. CASE /\ ret.is = "ok" /\ ~sh.in_trap /\ sh' = [sh EXCEPT !.in_trap = TRUE]
           /\ stack' = <<Program, f>> /\ leaked' = leaked
  <2>1. ret.status \in Status
    BY <1>4, OkStatus
  <2>2. f \in Frame /\ Gives(sh', Push(Program, Push(f, <<>>)), Go, leaked)
    BY <1>2, <1>4, <2>1, HandlerRuns
  <2> HIDE DEF f
  <2>3. <<Program, f>> = Push(Program, Push(f, <<>>))
    <3>1. Program \in Frame /\ <<>> \in Stack
      BY ListFrame, CountsEmpty
    <3> QED
      BY <2>2, <3>1, PushSeveral
  <2> QED
    BY <1>1, <1>4, <2>2, <2>3 DEF Moves
<1>5. CASE sh' = [sh EXCEPT !.in_trap = TRUE] /\ stack' = <<>> /\ leaked' = TRUE
  <2> DEFINE s == [sh EXCEPT !.in_trap = TRUE]
  <2>1. /\ s \in State /\ s.suppressed = sh.suppressed /\ s.loop_depth = sh.loop_depth
        /\ s.in_function_depth = sh.in_function_depth
        /\ s.control_flow = sh.control_flow /\ s.in_trap = TRUE
    BY <1>1 DEF State
  <2> HIDE DEF s
  <2>2. Fits(s, <<>>, TRUE)
    BY <1>2, <2>1 DEF Fits, Fine
  <2>3. Fine(s, <<>>, TRUE)
    BY <2>1, <2>2, SettledEmpty, CountsEmpty DEF Fine
  <2>4. sh' = s
    BY <1>5 DEF s
  <2> QED
    BY <1>1, <1>3, <1>5, <2>3, <2>4, Results DEF Moves, Gives
<1>6. CASE sh' = sh /\ stack' = <<>> /\ leaked' = leaked
  BY <1>1, <1>2, <1>3, <1>6, Results DEF Moves, Gives
<1> QED
  BY <1>4, <1>5, <1>6 DEF ExecEnds

(***************************************************************************)
(* The invariant is inductive.                                             *)
(***************************************************************************)
LEMMA ShellBegins == Init => IInv
<1> SUFFICES ASSUME Init PROVE IInv
  OBVIOUS
<1>1. /\ stack = <<>> /\ sh = NewShell /\ ret = Go /\ leaked = FALSE /\ script \in Scripts
  BY DEF Init
<1>2. NewShell \in State
  BY Flows DEF NewShell, State, Handler
<1>3. /\ NewShell.suppressed = 0 /\ NewShell.loop_depth = 0 /\ NewShell.in_trap = FALSE
      /\ NewShell.in_function_depth = 0 /\ NewShell.control_flow.to = "none"
  BY Flows DEF NewShell
<1>4. Fits(NewShell, <<>>, FALSE)
  BY <1>3, CountsEmpty DEF Fits
<1>5. Fine(NewShell, <<>>, FALSE)
  BY <1>2, <1>4, SettledEmpty, CountsEmpty DEF Fine
<1>6. Resumable(NewShell, <<>>)
  BY DEF Resumable, On
<1>7. script \in Script
  BY <1>1, ShellAssumption
<1> QED
  BY <1>1, <1>5, <1>6, <1>7, Results DEF IInv, Gives

LEMMA ShellGoesOn == IInv /\ [Next]_vars => IInv'
<1> SUFFICES ASSUME IInv, [Next]_vars PROVE IInv'
  OBVIOUS
<1>1. CASE vars' = vars
  BY <1>1 DEF vars, IInv, Gives, Fine, Resumable
<1>2. CASE Next
  <2>1. script' = script /\ script \in Script
    BY <1>2 DEF Next, Step, IInv
  <2>2. CASE Exec
    BY <2>1, <2>2, ExecMoves DEF Moves, IInv
  <2>3. CASE Step
    <3>1. \/ ListBegins \/ ListReceives \/ ListCatches
          \/ PipelineEnds \/ NextStage \/ PipelineFails \/ ChildEnds
          \/ Run \/ Raise \/ Builtin \/ CommandEnds
          \/ OpenGroup \/ OpenSubshell \/ OpenIf \/ IfDecides \/ IfFails
          \/ OpenLoop \/ LoopTop \/ LoopDecides \/ LoopBodyEnds \/ LoopErr
          \/ OpenFunction \/ FunctionEnds
          \/ ProgramBegins \/ ProgramContinues
          \/ ErrTrapEnds \/ ExecEnds \/ ExitTrapEnds
      BY <2>3 DEF Step
    <3>2. Moves
      BY <3>1, ListBeginsMoves, ListReceivesMoves, ListCatchesMoves, PipelineEndsMoves,
         NextStageMoves, PipelineFailsMoves, ChildEndsMoves, RunMoves, RaiseMoves,
         BuiltinMoves, CommandEndsMoves, OpenGroupMoves, OpenSubshellMoves, OpenIfMoves,
         IfDecidesMoves, IfFailsMoves, OpenLoopMoves, LoopTopMoves, LoopDecidesMoves,
         LoopBodyEndsMoves, LoopErrMoves, OpenFunctionMoves, FunctionEndsMoves,
         ProgramBeginsMoves, ProgramContinuesMoves, ErrTrapEndsMoves, ExecEndsMoves,
         ExitTrapEndsMoves
    <3> QED
      BY <2>1, <3>2 DEF Moves, IInv
  <2> QED
    BY <1>2, <2>2, <2>3 DEF Next
<1> QED
  BY <1>1, <1>2

(***************************************************************************)
(* What it says of the counters and of what runs.                          *)
(***************************************************************************)
LEMMA CountersFollow == IInv => CountersFollowTheStack
<1> SUFFICES ASSUME IInv PROVE CountersFollowTheStack
  OBVIOUS
<1>1. sh \in State /\ stack \in Stack /\ Fits(sh, stack, leaked)
  BY DEF IInv, Gives, Fine
<1>2. /\ Number(Frames, InCondition) = CondCount(stack)
      /\ Number(Frames, IsCall) = CallCount(stack)
      /\ Number(Own, IsLoop) = LoopCount(stack)
      /\ Number(Own, IsTrap) = Cardinality(OwnTraps(stack))
  BY DEF Number, Frames, Own, CondCount, CallCount, LoopCount, Conditions, Calls,
         OwnLoops, OwnTraps, OwnOf
<1>3. (Cardinality(OwnTraps(stack)) > 0) = InHandler(stack)
  <2>1. OwnTraps(stack) \in SUBSET (1..Len(stack)) /\ Len(stack) \in Nat
    BY <1>1, LenProperties DEF OwnTraps, OwnOf, Stack
  <2>2. IsFiniteSet(OwnTraps(stack)) /\ Cardinality(OwnTraps(stack)) \in Nat
    BY <2>1, UpCount
  <2>3. Cardinality(OwnTraps(stack)) = 0 <=> OwnTraps(stack) = {}
    BY <2>2, FS_EmptySet
  <2> QED
    BY <2>2, <2>3 DEF InHandler
<1>4. /\ sh.in_trap \in BOOLEAN /\ InHandler(stack) \in BOOLEAN
  BY <1>1 DEF State, InHandler
<1>5. CountersTrackTheStack
  BY <1>1, <1>2, <1>3, <1>4 DEF CountersTrackTheStack, Fits
<1>6. NeverUndercounted
  BY <1>1, <1>2, <1>3 DEF NeverUndercounted, Fits
<1>7. CallsAreBalanced
  BY <1>1, <1>2 DEF CallsAreBalanced, Fits
<1> QED
  BY <1>5, <1>6, <1>7 DEF CountersFollowTheStack

LEMMA NothingRuns == IInv => NothingRunsWhileLeaving
<1> SUFFICES ASSUME IInv, Ready
             PROVE  /\ ~Leaving(sh)
                    /\ \A i \in Frames : stack[i].at = "child" => ~Leaving(stack[i].parent)
  BY DEF NothingRunsWhileLeaving
<1>1. ~Leaving(sh) /\ AllSettled(stack, leaked)
  BY ReadyState DEF Fine
<1>2. ASSUME NEW i \in Frames, stack[i].at = "child"
      PROVE  ~Leaving(stack[i].parent)
  BY <1>1, <1>2 DEF AllSettled, Settled, Frames
<1> QED
  BY <1>1, <1>2

\* Whatever the script, the counters and flags of InterpreterState never miss
\* a condition, loop, call or handler that is open, and until an error unwinds
\* one they count exactly what is open.
THEOREM CountersAlwaysFollow == Spec => []CountersFollowTheStack
<1>1. Init => IInv
  BY ShellBegins
<1>2. IInv /\ [Next]_vars => IInv'
  BY ShellGoesOn
<1>3. IInv => CountersFollowTheStack
  BY CountersFollow
<1> QED
  BY <1>1, <1>2, <1>3, PTL DEF Spec

\* Whatever the script, no command starts while an exit, break, continue or
\* return is pending, in the running process or in one that waits for it.
THEOREM NothingEverRunsWhileLeaving == Spec => []NothingRunsWhileLeaving
<1>1. Init => IInv
  BY ShellBegins
<1>2. IInv /\ [Next]_vars => IInv'
  BY ShellGoesOn
<1>3. IInv => NothingRunsWhileLeaving
  BY NothingRuns
<1> QED
  BY <1>1, <1>2, <1>3, PTL DEF Spec

(***************************************************************************)
(* set -e.                                                                 *)
(***************************************************************************)
\* What can end a pipeline that has returned.
LEMMA ItemActs ==
  ASSUME Next, ret # Go, stack # <<>>, Top.at = "item"
  PROVE  PipelineEnds \/ NextStage \/ PipelineFails
<1>1. ~Ready
  BY DEF Ready
<1>2. ~Exec /\ ~ListBegins /\ ~ListReceives /\ ~ListCatches /\ ~ChildEnds /\ ~CommandEnds
  BY DEF Exec, Idle, ListBegins, ListReceives, ListCatches, ChildEnds, CommandEnds
<1>3. ~Run /\ ~Raise /\ ~Builtin
  BY <1>1 DEF Run, Raise, Builtin, Simple, SetErrexit, SetTrap, builtin_exit, builtin_break,
              builtin_continue, builtin_return, AssignmentFails, ToLevel
<1>4. ~OpenGroup /\ ~OpenSubshell /\ ~OpenIf /\ ~OpenLoop /\ ~OpenFunction
  BY <1>1 DEF OpenGroup, OpenSubshell, OpenIf, OpenLoop, OpenFunction, Open
<1>5. ~IfDecides /\ ~IfFails /\ ~LoopTop /\ ~LoopDecides /\ ~LoopBodyEnds /\ ~LoopErr
  BY DEF IfDecides, IfFails, LoopTop, LoopDecides, LoopBodyEnds, LoopErr, AtLoop
<1>6. ~FunctionEnds /\ ~ProgramBegins /\ ~ProgramContinues /\ ~ErrTrapEnds /\ ~ExecEnds
      /\ ~ExitTrapEnds
  BY DEF FunctionEnds, ProgramBegins, ProgramContinues, ErrTrapEnds, ExecEnds, ExitTrapEnds
<1> QED
  BY <1>2, <1>3, <1>4, <1>5, <1>6 DEF Next, Step

\* A pipeline that starts leaves should_exit as it was, or starts a child.
LEMMA StartsRunning ==
  ASSUME NEW s \in State, ~s.should_exit, NEW below, NEW role, StartPipeline(s, below, role)
  PROVE  ~sh'.should_exit
<1>1. PICK bang \in BOOLEAN, pipe \in BOOLEAN :
        LET begun == [s EXCEPT !.suppressed = @ + (IF Suppresses(role) THEN 1 ELSE 0),
                               !.bang = @ + (IF bang THEN 1 ELSE 0)]
        IN  sh' = IF pipe THEN Child(begun) ELSE begun
  BY DEF StartPipeline
<1> DEFINE more  == s.suppressed + (IF Suppresses(role) THEN 1 ELSE 0)
           bangs == s.bang + (IF bang THEN 1 ELSE 0)
           begun == [s EXCEPT !.suppressed = more, !.bang = bangs]
<1>2. sh' = IF pipe THEN Child(begun) ELSE begun
  BY <1>1
<1> HIDE DEF more, bangs
<1>3. begun.should_exit = s.should_exit /\ Child(begun).should_exit = FALSE
  BY DEF State, Child
<1> HIDE DEF begun
<1> QED
  BY <1>2, <1>3

\* errexit decides only where nothing is counted.
LEMMA ErrexitDecides ==
  ASSUME NEW s \in State, ~s.should_exit, NEW c, check_errexit(s, c).should_exit
  PROVE  s.suppressed = 0
BY DEF check_errexit, State

LEMMA ErrexitSpares ==
  ASSUME IInv, Next, ret # Go, ~sh.should_exit, sh'.should_exit, stack' = Rest,
         stack # <<>>, Top.at = "item"
  PROVE  CondCount(stack') = 0
<1>1. /\ Fine(sh, stack, leaked) /\ On(stack, "item") /\ leaked \in BOOLEAN
      /\ sh \in State /\ stack \in Stack /\ Fits(sh, stack, leaked)
  BY DEF IInv, Gives, Fine, On, Top
<1>2. /\ Top \in Frame /\ Rest \in Stack /\ stack = Push(Top, Rest)
  BY <1>1, FinePopped DEF Top, Rest
<1>3. Len(stack) = Len(Rest) + 1 /\ Len(Rest) \in Nat
  BY <1>2, PushProperties, LenProperties DEF Stack
<1>4. /\ CondCount(Rest) \in Nat /\ CondCount(stack) \in Nat
      /\ CondCount(stack) >= CondCount(Rest)
  <2>1. CondCount(Rest) \in Nat /\ CondCount(stack) = CondCount(Rest) + One(InCondition(Top))
    BY <1>2, CountsPushed
  <2>2. One(InCondition(Top)) \in Nat
    BY DEF One
  <2> QED
    BY <2>1, <2>2
<1>5. sh.suppressed \in Nat /\ sh.suppressed >= CondCount(stack)
  BY <1>1 DEF Fits, State
<1>6. ~NextStage
  <2>1. ASSUME NextStage PROVE FALSE
    <3>1. CASE stack' = <<ChildFrame("stage", sh)>> \o stack /\ sh' = Child(sh)
      <4>1. Child(sh).should_exit = FALSE
        BY <1>1 DEF Child, State
      <4> QED
        BY <3>1, <4>1
    <3>2. CASE sh' = sh
      BY <3>2
    <3> QED
      BY <2>1, <3>1, <3>2 DEF NextStage
  <2> QED
    BY <2>1
<1>7. ~PipelineFails
  BY DEF PipelineFails
<1>8. PipelineEnds
  BY <1>6, <1>7, ItemActs
<1> DEFINE uncounted == [sh EXCEPT !.bang = IF Top.bang THEN Less(@) ELSE @]
<1>9. \E c : \/ ChainContinues([uncounted EXCEPT !.immune = TRUE], 1 - c)
             \/ ChainContinues(uncounted, c)
  BY <1>8 DEF PipelineEnds
<1>10. PICK s, c : /\ ChainContinues(s, c)
                   /\ s = uncounted \/ s = [uncounted EXCEPT !.immune = TRUE]
  BY <1>9
<1>11. s \in State /\ s.suppressed = sh.suppressed /\ ~s.should_exit
  <2> DEFINE bangs == IF Top.bang THEN Less(sh.bang) ELSE sh.bang
  <2>1. bangs \in Nat
    BY <1>1 DEF State, Less
  <2>2. uncounted = [sh EXCEPT !.bang = bangs]
    OBVIOUS
  <2> HIDE DEF bangs, uncounted
  <2>3. uncounted \in State /\ uncounted.suppressed = sh.suppressed /\ ~uncounted.should_exit
    BY <1>1, <2>1, <2>2 DEF State
  <2>4. LET t == [uncounted EXCEPT !.immune = TRUE]
        IN  t \in State /\ t.suppressed = sh.suppressed /\ ~t.should_exit
    BY <2>3 DEF State
  <2> QED
    BY <1>10, <2>3, <2>4
<1> DEFINE less    == [s EXCEPT !.suppressed = Less(@)]
           checked == check_errexit(s, c)
<1>12. less \in State /\ ~less.should_exit
  <2>1. Less(s.suppressed) \in Nat
    BY <1>11 DEF State, Less
  <2> QED
    BY <1>11, <2>1 DEF State
<1>13. checked \in State
  BY <1>11, CheckedAlike DEF Alike
<1>14. \/ sh' = checked \/ sh' = [checked EXCEPT !.immune = FALSE]
       \/ sh' = [checked EXCEPT !.immune = c # 0 /\ ~checked.should_exit]
       \/ sh' = [less EXCEPT !.immune = c # 0 /\ ~less.should_exit]
       \/ \E role \in {"left", "last"} : StartPipeline(less, Rest, role)
  BY <1>10 DEF ChainContinues
<1> HIDE DEF less, checked
<1>15. ~(\E role \in {"left", "last"} : StartPipeline(less, Rest, role))
  BY <1>12, StartsRunning
<1>16. sh' # [less EXCEPT !.immune = c # 0 /\ ~less.should_exit]
  <2>1. \A b : [less EXCEPT !.immune = b].should_exit = less.should_exit
    BY <1>12 DEF State
  <2> QED
    BY <1>12, <2>1
<1>17. checked.should_exit
  <2>1. \A b : [checked EXCEPT !.immune = b].should_exit = checked.should_exit
    BY <1>13 DEF State
  <2> QED
    BY <1>14, <1>15, <1>16, <2>1
<1>18. sh.suppressed = 0
  BY <1>11, <1>17, ErrexitDecides DEF checked
<1>19. CondCount(Rest) = 0
  BY <1>4, <1>5, <1>18
<1> QED
  BY <1>19

\* Whatever the script, set -e ends a process only where no condition, operand
\* or chain around the failed command spares it.
THEOREM ErrexitAlwaysSpares == Spec => ErrexitSparesConditions
<1>1. Init => IInv
  BY ShellBegins
<1>2. IInv /\ [Next]_vars => IInv'
  BY ShellGoesOn
<1>3. IInv /\ [Next]_vars =>
        [(ret # Go /\ ~sh.should_exit /\ sh'.should_exit /\ stack' = Rest
            /\ stack # <<>> /\ Top.at = "item")
           => Number(Frames, InCondition)' = 0]_vars
  <2>1. Number(Frames, InCondition)' = CondCount(stack')
    BY DEF Number, Frames, CondCount, Conditions
  <2> QED
    BY <2>1, ErrexitSpares
<1> QED
  BY <1>1, <1>2, <1>3, PTL DEF Spec, ErrexitSparesConditions
=============================================================================
