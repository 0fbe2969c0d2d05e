---------------------------- MODULE ShellControl ----------------------------
(***************************************************************************)
(* The control flow of the interpreter: what runs next, and what each way  *)
(* of leaving a construct (a status, break, continue, return, exit, an     *)
(* error) does to the counters and flags of InterpreterState.              *)
(*                                                                         *)
(* The walker is a recursive Rust function; here its call stack is the     *)
(* variable stack, the top frame first.  ret is what the last call gave    *)
(* back: Go when the top frame has yet to act, else the Ok status or the   *)
(* Err that the top frame now receives.  sh is the InterpreterState of the *)
(* running process; a child process (subshell, pipeline stage, background  *)
(* list) works on a copy, and the frame below it keeps the parent's.       *)
(*                                                                         *)
(* The script is not given in advance: wherever the syntax allows another  *)
(* command, operand, item or iteration, a step chooses one.  Statuses are  *)
(* 0 or 1.  Source, eval, command substitution and the option that aborts  *)
(* on unresolved commands are left out; the shell is not interactive and   *)
(* has neither noexec nor posix set.                                       *)
(***************************************************************************)
EXTENDS Naturals, Sequences, FiniteSets

CONSTANTS
  Scripts,   \* what a shell may be given to run
  MaxLevel,  \* bound: the level given to break and continue
  MaxCount   \* bound: what the counters of a process are driven to

Loops    == {"for", "arith-for", "while", "until"}
Compound == Loops \cup {"group", "if", "subshell", "function"}
Syntax   == Compound \cup {"&&", "!", "|", "&"}
Builtins == {"set", "trap", "exit", "break", "continue", "return", "readonly"}
Errors   == {"expansion", "expansion-exit", "redirect",  \* end at the command
             "soft", "unbound", "failglob",              \* end at the list
             "hard"}                                     \* end at exec()
Handler  == {"none", "ok", "unparsable"}

\* The operators, compound commands and builtins the scripts of a shell use
\* ("&&" stands for || too), the errors their commands meet, the handlers they
\* set, and (bound) how many compound commands and handlers are open at once.
Script == [syntax: SUBSET Syntax, builtins: SUBSET Builtins,
           raises: SUBSET Errors, handlers: SUBSET Handler, nest: Nat]

ASSUME ShellAssumption ==
  Scripts \subseteq Script /\ MaxLevel \in Nat /\ MaxCount \in Nat

VARIABLES
  stack,  \* the walker's calls, innermost first
  sh,     \* the InterpreterState of the running process
  ret,    \* what the call above the top frame returned
  leaked, \* whether an Err has passed a frame that had counted something
  script  \* what this shell's scripts are made of

vars == <<stack, sh, ret, leaked, script>>

Go     == [is |-> "go"]
Ok(c)  == [is |-> "ok", status |-> c]
Err(e) == [is |-> "err", error |-> e]
Status == {0, 1}

NoFlow      == [to |-> "none", n |-> 0]
Break(n)    == [to |-> "break", n |-> n]
Continue(n) == [to |-> "continue", n |-> n]
Return(c)   == [to |-> "return", n |-> c]

Top  == Head(stack)
Rest == Tail(stack)

\* A counter taken back with saturating_sub.
Less(n) == IF n = 0 THEN 0 ELSE n - 1

\* A process that skips whatever it has not started.
Leaving(s) == s.should_exit \/ s.control_flow # NoFlow

Nest == Cardinality({i \in DOMAIN stack : stack[i].at \in {"command", "trap"}})

(***************************************************************************)
(* check_errexit, after a command ended with status c.                     *)
(***************************************************************************)
\* Mutant: what runs in a condition or an operand is not spared.
check_errexit_anywhere(s, c) ==
  IF s.immune THEN [s EXCEPT !.immune = FALSE]
  ELSE IF s.errexit /\ c # 0 /\ s.bang = 0 /\ ~s.in_trap
  THEN [s EXCEPT !.should_exit = TRUE]
  ELSE s

check_errexit(s, c) ==
  IF s.immune THEN [s EXCEPT !.immune = FALSE]
  ELSE IF /\ s.errexit /\ c # 0
          /\ s.suppressed = 0 /\ s.bang = 0 /\ ~s.in_trap
  THEN [s EXCEPT !.should_exit = TRUE]
  ELSE s

(***************************************************************************)
(* A child process: traps, options, suppression and function depth are     *)
(* inherited, everything that says where the parent was is cleared.        *)
(***************************************************************************)
\* Mutant: the child forgets that it runs inside a condition.
Child_unsuppressed(s) ==
  [s EXCEPT !.should_exit = FALSE, !.abort = FALSE, !.loop_depth = 0,
            !.control_flow = NoFlow, !.in_trap = FALSE, !.had_error = FALSE,
            !.immune = FALSE, !.suppressed = 0]

Child(s) ==
  [s EXCEPT !.should_exit = FALSE, !.abort = FALSE, !.loop_depth = 0,
            !.control_flow = NoFlow, !.in_trap = FALSE, !.had_error = FALSE,
            !.immune = FALSE]

ChildFrame(how, parent) == [at |-> "child", how |-> how, parent |-> parent]
-----------------------------------------------------------------------------
(***************************************************************************)
(* Lists, and-or lists and pipelines.  An "item" frame is one pipeline of  *)
(* an and-or list: its role there (the "only" one, the "last" of a chain   *)
(* or one to the "left" of it), whether it is negated, and whether the     *)
(* pipeline has several stages, and then whether its last one is running.  *)
(* (What stages did in processes of their own is lost, so the first need   *)
(* not be told apart.)                                                     *)
(***************************************************************************)
Suppresses(role) == role = "left"

StartPipeline(s, below, role) ==
  \E bang \in {b \in BOOLEAN : b => "!" \in script.syntax},
     pipe \in {b \in BOOLEAN : b => "|" \in script.syntax} :
    LET begun == [s EXCEPT !.suppressed = @ + (IF Suppresses(role) THEN 1 ELSE 0),
                           !.bang = @ + (IF bang THEN 1 ELSE 0)]
        item  == [at |-> "item", role |-> role, bang |-> bang,
                  pipe |-> IF pipe THEN "stages" ELSE "none"]
    IN  /\ begun.suppressed <= MaxCount /\ begun.bang <= MaxCount
        /\ stack' = (IF pipe THEN <<ChildFrame("stage", begun)>> ELSE <<>>)
                      \o <<item>> \o below
        /\ sh' = IF pipe THEN Child(begun) ELSE begun
        /\ ret' = Go

StartItem(s, list) ==
  \E role \in {"only"} \cup (IF "&&" \in script.syntax THEN {"left"} ELSE {}) :
    \/ StartPipeline(s, list, role)
    \/ /\ "&" \in script.syntax
       /\ StartPipeline(Child(s), <<ChildFrame("async", s)>> \o list, role)

\* Mutant: the list goes on after break, continue and return.
ListStops_exit(s) == s.should_exit \/ s.abort

ListStops(s) == Leaving(s) \/ s.abort

ListEnds(s, list, c) ==
  /\ sh' = [s EXCEPT !.abort = FALSE]
  /\ stack' = Tail(list) /\ ret' = Ok(c)

\* An item of the list ended with c: another one, or the end.
ListContinues(s, list, c) ==
  \/ ListEnds(s, list, c)
  \/ ~ListStops(s) /\ StartItem(s, list)

ListBegins ==
  /\ ret = Go /\ stack # <<>> /\ Top.at = "list"
  /\ IF ListStops(sh) THEN ListEnds(sh, stack, 0) ELSE StartItem(sh, stack)
  /\ UNCHANGED leaked

ErrTrapFires(c) ==
  /\ c # 0 /\ ~sh.in_trap /\ sh.suppressed = 0 /\ sh.bang = 0
  /\ sh.err_trap # "none"

TrapFrame(signal, c) ==
  [at |-> "trap", signal |-> signal, was |-> sh.in_trap, status |-> c]
Program == [at |-> "program", ran |-> FALSE]

\* An item of the list returned a status.
ListReceives ==
  /\ ret.is = "ok" /\ stack # <<>> /\ Top.at = "list"
  /\ LET c == ret.status IN
     \/ ~ErrTrapFires(c) /\ ListContinues(sh, stack, c) /\ UNCHANGED leaked
     \/ /\ ErrTrapFires(c)
        /\ sh' = [sh EXCEPT !.in_trap = TRUE]
        /\ IF sh.err_trap = "ok"
           THEN /\ stack' = <<Program, TrapFrame("ERR", c)>> \o stack
                /\ ret' = Go /\ UNCHANGED leaked
           ELSE stack' = Rest /\ ret' = Err("hard") /\ leaked' = TRUE

\* An item failed: the list turns some errors into a failed command.
ListCatches ==
  /\ ret.is = "err" /\ stack # <<>> /\ Top.at = "list"
  /\ UNCHANGED leaked
  /\ LET failed == [sh EXCEPT !.had_error = TRUE] IN
     CASE ret.error = "soft" ->
            sh' = failed /\ ret' = Ok(1) /\ UNCHANGED stack
       [] ret.error = "unbound" ->
            /\ sh' = [failed EXCEPT !.should_exit = TRUE]
            /\ ret' = Ok(1) /\ UNCHANGED stack
       [] ret.error = "failglob" ->
            sh' = check_errexit(failed, 1) /\ ret' = Ok(1) /\ UNCHANGED stack
       [] OTHER -> stack' = Rest /\ UNCHANGED <<sh, ret>>
-----------------------------------------------------------------------------
\* The and-or list after the pipeline of its top frame ended with c.
ChainContinues(s, c) ==
  LET uncounted == [s EXCEPT !.suppressed = Less(@)]
      checked   == check_errexit(s, c)
      done(t)   == /\ sh' = [t EXCEPT !.immune = c # 0 /\ ~t.should_exit]
                   /\ stack' = Rest /\ ret' = Ok(c)
  IN  \/ /\ Top.role = "only"
         /\ sh' = IF checked.should_exit THEN checked
                  ELSE [checked EXCEPT !.immune = FALSE]
         /\ stack' = Rest /\ ret' = Ok(c)
      \/ Top.role = "last" /\ done(checked)
      \/ Suppresses(Top.role) /\ done(uncounted)
      \/ /\ Suppresses(Top.role) /\ ~Leaving(uncounted)
         /\ \E role \in {"left", "last"} : StartPipeline(uncounted, Rest, role)

\* The last stage of a pipeline returned a status; with pipefail the status is
\* that of an earlier stage that failed.
PipelineEnds ==
  /\ ret.is = "ok" /\ stack # <<>> /\ Top.at = "item"
  /\ UNCHANGED leaked
  /\ \E c \in {ret.status} \cup (IF Top.pipe # "none" THEN {1} ELSE {}) :
       LET uncounted == [sh EXCEPT !.bang = IF Top.bang THEN Less(@) ELSE @]
       IN  IF Top.bang /\ ~sh.should_exit
           THEN ChainContinues([uncounted EXCEPT !.immune = TRUE], 1 - c)
           ELSE ChainContinues(uncounted, c)

\* The next stage: a child again, or the last one in the shell (lastpipe).
NextStage ==
  /\ ret.is = "ok" /\ stack # <<>> /\ Top.at = "item" /\ Top.pipe = "stages"
  /\ ~Leaving(sh)
  /\ \/ stack' = <<ChildFrame("stage", sh)>> \o stack /\ sh' = Child(sh)
     \/ stack' = <<[Top EXCEPT !.pipe = "last"]>> \o Rest /\ UNCHANGED sh
  /\ ret' = Go /\ UNCHANGED leaked

\* An error passes both: neither takes back what it counted.
PipelineFails ==
  /\ ret.is = "err" /\ stack # <<>> /\ Top.at = "item"
  /\ stack' = Rest /\ UNCHANGED <<sh, ret>>
  /\ leaked' = (leaked \/ Top.bang \/ Suppresses(Top.role))

(***************************************************************************)
(* A child process ended: the parent goes on with its own state.  A        *)
(* background list gives status 0, its errors leave the parent's list.     *)
(***************************************************************************)
ChildEnds ==
  /\ ret # Go /\ stack # <<>> /\ Top.at = "child"
  /\ sh' = Top.parent
  /\ IF Top.how # "async" THEN stack' = Rest /\ UNCHANGED ret
     ELSE IF ret.is = "ok" THEN stack' = Rest /\ ret' = Ok(0)
     ELSE stack' = Tail(Rest) /\ UNCHANGED ret
  /\ UNCHANGED leaked
-----------------------------------------------------------------------------
(***************************************************************************)
(* Commands.  execute_command turns some errors into a status.             *)
(***************************************************************************)
CommandSucceeds(s, c) == sh' = [s EXCEPT !.had_error = FALSE] /\ ret' = Ok(c)

CommandFails(s, e) ==
  CASE e \in {"expansion", "expansion-exit", "redirect"} ->
         /\ sh' = [s EXCEPT !.had_error = TRUE,
                            !.should_exit = @ \/ e = "expansion-exit"]
         /\ ret' = Ok(1)
    [] e = "failglob" -> sh' = s /\ ret' = Err(e)
    [] OTHER -> sh' = [s EXCEPT !.had_error = TRUE] /\ ret' = Err(e)

\* A command is next.
Ready == /\ ret = Go /\ stack # <<>>
         /\ \/ Top.at = "item"
            \/ Top.at = "child" /\ Top.how = "stage"

Simple(s, c) == Ready /\ CommandSucceeds(s, c) /\ UNCHANGED <<stack, leaked>>

Run    == \E c \in Status : Simple(sh, c)
Raise  == \E e \in script.raises :
            Ready /\ CommandFails(sh, e) /\ UNCHANGED <<stack, leaked>>

\* Re-enabling errexit in a function takes one ! back.
SetErrexit ==
  /\ "set" \in script.builtins
  /\ \E on \in BOOLEAN :
       Simple([sh EXCEPT !.errexit = on,
                         !.bang = IF on /\ sh.in_function_depth > 0
                                  THEN Less(@) ELSE @], 0)

SetTrap ==
  /\ "trap" \in script.builtins
  /\ \E h \in script.handlers : \/ Simple([sh EXCEPT !.err_trap = h], 0)
                                \/ Simple([sh EXCEPT !.exit_trap = h], 0)

builtin_exit ==
  "exit" \in script.builtins /\ \E c \in Status : Simple([sh EXCEPT !.should_exit = TRUE], c)

\* break and continue to a level: no loop, no effect; a bad level in a loop
\* ends the script.
ToLevel(flow(_)) ==
  \/ sh.loop_depth = 0 /\ \E c \in Status : Simple(sh, c)
  \/ /\ sh.loop_depth > 0
     /\ \/ Simple([sh EXCEPT !.should_exit = TRUE], 1)
        \/ \E n \in 1..MaxLevel :
             Simple([sh EXCEPT !.control_flow =
                       flow(IF n < sh.loop_depth THEN n ELSE sh.loop_depth)], 0)

builtin_break == "break" \in script.builtins /\ ToLevel(Break)

\* continue with several arguments breaks.
builtin_continue ==
  /\ "continue" \in script.builtins
  /\ \/ ToLevel(Continue)
     \/ sh.loop_depth > 0 /\ Simple([sh EXCEPT !.control_flow = Break(1)], 0)

\* return outside a call, or to a status that is no number, only fails.
builtin_return ==
  /\ "return" \in script.builtins
  /\ \/ Simple(sh, 1)
     \/ /\ sh.in_function_depth > 0
        /\ \E c \in Status : Simple([sh EXCEPT !.control_flow = Return(c)], c)

\* An assignment to a readonly variable: the rest of the list is dropped.
AssignmentFails ==
  "readonly" \in script.builtins /\ Simple([sh EXCEPT !.abort = TRUE], 1)

(***************************************************************************)
(* Compound commands and function calls run in a "command" frame, which    *)
(* receives what they return; a redirection of the command can still fail. *)
(***************************************************************************)
CommandEnds ==
  /\ ret # Go /\ stack # <<>> /\ Top.at = "command"
  /\ stack' = Rest /\ UNCHANGED leaked
  /\ IF ret.is = "ok"
     THEN \/ CommandSucceeds(sh, ret.status)
          \/ "redirect" \in script.raises /\ CommandFails(sh, "redirect")
     ELSE CommandFails(sh, ret.error)

List    == [at |-> "list"]
Command == [at |-> "command"]
Open(kind, s, frames) ==
  /\ Ready /\ kind \in script.syntax /\ Nest < script.nest
  /\ sh' = s /\ stack' = frames \o <<Command>> \o stack
  /\ ret' = Go /\ UNCHANGED leaked

\* Braces, and the arm of a case.
OpenGroup    == Open("group", sh, <<List>>)
OpenSubshell == Open("subshell", Child(sh), <<List, ChildFrame("subshell", sh)>>)
-----------------------------------------------------------------------------
(***************************************************************************)
(* if: an "if" frame while a condition runs; the branch is a list.         *)
(***************************************************************************)
OpenIf ==
  /\ sh.suppressed < MaxCount
  /\ Open("if", [sh EXCEPT !.suppressed = @ + 1], <<List, [at |-> "if"]>>)

IfDecides ==
  /\ ret.is = "ok" /\ stack # <<>> /\ Top.at = "if"
  /\ UNCHANGED leaked
  /\ LET uncounted == [sh EXCEPT !.suppressed = Less(@)]
         done(c)   == sh' = uncounted /\ stack' = Rest /\ ret' = Ok(c)
         branch    == sh' = uncounted /\ stack' = <<List>> \o Rest /\ ret' = Go
         elif      == UNCHANGED sh /\ stack' = <<List>> \o stack /\ ret' = Go
     IN  IF sh.had_error THEN done(ret.status)
         ELSE IF ret.status = 0 THEN branch
         ELSE elif \/ branch \/ done(0)

IfFails ==
  /\ ret.is = "err" /\ stack # <<>> /\ Top.at = "if"
  /\ stack' = Rest /\ leaked' = TRUE /\ UNCHANGED <<sh, ret>>
-----------------------------------------------------------------------------
(***************************************************************************)
(* Loops: a "loop" frame keeps the status of the last body.  Its part says *)
(* what runs above it.                                                     *)
(***************************************************************************)
Loop(kind, c) == [at |-> "loop", kind |-> kind, part |-> "top", status |-> c]

OpenLoop ==
  /\ sh.loop_depth < MaxCount /\ sh.suppressed < MaxCount
  /\ \E kind \in Loops :
       Open(kind, [sh EXCEPT !.loop_depth = @ + 1], <<Loop(kind, 0)>>)

AtLoop == stack # <<>> /\ Top.at = "loop"

LoopEnds(s, c) ==
  sh' = [s EXCEPT !.loop_depth = @ - 1] /\ stack' = Rest /\ ret' = Ok(c)

\* An error the loop does not take back its depth for.
LoopFails(e) == stack' = Rest /\ ret' = Err(e) /\ leaked' = TRUE /\ UNCHANGED sh

LoopRuns(part) ==
  /\ stack' = <<List, [Top EXCEPT !.part = part]>> \o Rest
  /\ ret' = Go

\* The head of an iteration that may start.
Condition ==
  CASE Top.kind \in {"while", "until"} ->
         /\ sh.suppressed < MaxCount
         /\ sh' = [sh EXCEPT !.suppressed = @ + 1]
         /\ LoopRuns("condition") /\ UNCHANGED leaked
    [] Top.kind = "for" ->
         \/ LoopEnds(sh, Top.status) /\ UNCHANGED leaked
         \/ LoopRuns("body") /\ UNCHANGED <<sh, leaked>>
         \/ "hard" \in script.raises /\ LoopFails("hard")  \* a readonly variable
    [] Top.kind = "arith-for" ->
         \/ LoopEnds(sh, Top.status) /\ UNCHANGED leaked
         \/ LoopRuns("body") /\ UNCHANGED <<sh, leaked>>
         \/ \E e \in script.raises \ {"redirect", "failglob"} : LoopFails(e)

\* The limit on iterations is the one error that takes the depth back.
LoopTop ==
  /\ ret = Go /\ AtLoop
  /\ \/ sh.should_exit /\ LoopEnds(sh, Top.status) /\ UNCHANGED leaked
     \/ ~sh.should_exit /\ Condition
     \/ /\ ~sh.should_exit /\ "hard" \in script.raises
        /\ sh' = [sh EXCEPT !.loop_depth = @ - 1]
        /\ stack' = Rest /\ ret' = Err("hard") /\ UNCHANGED leaked

LoopDecides ==
  /\ ret.is = "ok" /\ AtLoop /\ Top.part = "condition"
  /\ UNCHANGED leaked
  /\ LET uncounted == [sh EXCEPT !.suppressed = Less(@)]
         goes_on   == (ret.status = 0) = (Top.kind = "while")
     IN  IF sh.had_error THEN LoopEnds(uncounted, ret.status)
         ELSE IF goes_on THEN sh' = uncounted /\ LoopRuns("body")
         ELSE LoopEnds(uncounted, Top.status)

\* The next iteration, after the updater of for (( )).
LoopAgain(s, c) ==
  \/ /\ sh' = s /\ stack' = <<Loop(Top.kind, c)>> \o Rest /\ ret' = Go
     /\ UNCHANGED leaked
  \/ /\ Top.kind = "arith-for" /\ sh' = s /\ stack' = Rest /\ leaked' = TRUE
     /\ \E e \in script.raises \ {"redirect", "failglob"} : ret' = Err(e)

LoopBodyEnds_deaf ==
  /\ ret.is = "ok" /\ AtLoop /\ Top.part = "body"
  /\ LoopAgain(sh, ret.status)

LoopBodyEnds ==
  /\ ret.is = "ok" /\ AtLoop /\ Top.part = "body"
  /\ LET flow   == sh.control_flow
         taken  == [sh EXCEPT !.control_flow = NoFlow]
         outer  == [sh EXCEPT !.control_flow = [flow EXCEPT !.n = @ - 1]]
         c      == ret.status
     IN  \/ flow.to = "none" /\ LoopAgain(sh, c)
         \/ flow.to = "return" /\ LoopEnds(sh, c) /\ UNCHANGED leaked
         \/ /\ flow.to \in {"break", "continue"} /\ flow.n > 1
            /\ LoopEnds(outer, c) /\ UNCHANGED leaked
         \/ flow.to = "break" /\ flow.n <= 1 /\ LoopEnds(taken, c) /\ UNCHANGED leaked
         \/ flow.to = "continue" /\ flow.n <= 1 /\ LoopAgain(taken, c)

LoopErr == ret.is = "err" /\ AtLoop /\ LoopFails(ret.error)
-----------------------------------------------------------------------------
(***************************************************************************)
(* Function calls: return ends here, on errors too; break and continue     *)
(* pass through.                                                           *)
(***************************************************************************)
OpenFunction ==
  Open("function", [sh EXCEPT !.in_function_depth = @ + 1],
       <<List, [at |-> "function"]>>)

FunctionEnds ==
  /\ ret # Go /\ stack # <<>> /\ Top.at = "function"
  /\ LET returns == sh.control_flow.to = "return" IN
     /\ sh' = [sh EXCEPT !.in_function_depth = @ - 1,
                         !.control_flow = IF returns THEN NoFlow ELSE @]
     /\ ret' = IF ret.is = "ok" /\ returns THEN Ok(sh.control_flow.n) ELSE ret
  /\ stack' = Rest /\ UNCHANGED leaked
-----------------------------------------------------------------------------
(***************************************************************************)
(* Programs (a script, a handler), handlers and exec().                    *)
(***************************************************************************)
ProgramBegins ==
  /\ ret = Go /\ stack # <<>> /\ Top.at = "program"
  /\ IF sh.should_exit THEN stack' = Rest /\ ret' = Ok(0)
     ELSE stack' = <<List, [Top EXCEPT !.ran = TRUE]>> \o Rest /\ ret' = Go
  /\ UNCHANGED <<sh, leaked>>

\* A complete command of the program ended, or exceeded a limit.  The commands
\* after one that left a jump pending are skipped, which gives 0.
ProgramContinues ==
  /\ ret # Go /\ stack # <<>> /\ Top.at = "program"
  /\ \/ stack' = Rest /\ UNCHANGED ret
     \/ ret.is = "ok" /\ "hard" \in script.raises /\ stack' = Rest /\ ret' = Err("hard")
     \/ /\ ret.is = "ok" /\ ~sh.should_exit
        /\ IF Leaving(sh) THEN stack' = Rest /\ ret' = Ok(0)
           ELSE stack' = <<List>> \o stack /\ ret' = Go
  /\ UNCHANGED <<sh, leaked>>

Idle == stack = <<>>

\* The handler of ERR ended: its list goes on where it was, or fails with it.
ErrTrapEnds ==
  /\ ret # Go /\ stack # <<>> /\ Top.at = "trap" /\ Top.signal = "ERR"
  /\ LET restored == [sh EXCEPT !.in_trap = Top.was] IN
     IF ret.is = "ok" THEN ListContinues(restored, Rest, Top.status)
     ELSE sh' = restored /\ stack' = Tail(Rest) /\ UNCHANGED ret
  /\ UNCHANGED leaked

\* A text that does not parse runs nothing, the EXIT trap included.
Exec ==
  /\ Idle
  /\ sh' = [sh EXCEPT !.should_exit = FALSE]
  /\ stack' = <<Program, [at |-> "exec"]>> \/ UNCHANGED stack
  /\ ret' = Go /\ UNCHANGED leaked

\* The script ended: the EXIT trap, unless the script ended with an error.
ExecEnds ==
  /\ ret # Go /\ stack # <<>> /\ Top.at = "exec"
  /\ IF ret.is = "ok" /\ sh.exit_trap # "none" /\ ~sh.in_trap
     THEN /\ sh' = [sh EXCEPT !.in_trap = TRUE]
          /\ IF sh.exit_trap = "ok"
             THEN /\ stack' = <<Program, TrapFrame("EXIT", ret.status)>>
                  /\ UNCHANGED leaked
             ELSE stack' = <<>> /\ leaked' = TRUE
     ELSE stack' = <<>> /\ UNCHANGED <<sh, leaked>>
  /\ ret' = Go

ExitTrapEnds ==
  /\ ret # Go /\ stack # <<>> /\ Top.at = "trap" /\ Top.signal = "EXIT"
  /\ sh' = [sh EXCEPT !.in_trap = Top.was]
  /\ stack' = <<>> /\ ret' = Go /\ UNCHANGED leaked
-----------------------------------------------------------------------------
NewShell ==
  [errexit |-> FALSE, suppressed |-> 0, bang |-> 0, immune |-> FALSE,
   loop_depth |-> 0, in_function_depth |-> 0, control_flow |-> NoFlow,
   should_exit |-> FALSE, abort |-> FALSE, had_error |-> FALSE,
   in_trap |-> FALSE, err_trap |-> "none", exit_trap |-> "none"]

Init == /\ stack = <<>> /\ sh = NewShell /\ ret = Go /\ leaked = FALSE
        /\ script \in Scripts

Builtin == \/ SetErrexit \/ SetTrap \/ builtin_exit \/ builtin_break
           \/ builtin_continue \/ builtin_return \/ AssignmentFails

Step ==
  /\ \/ ListBegins \/ ListReceives \/ ListCatches
     \/ PipelineEnds \/ NextStage \/ PipelineFails \/ ChildEnds
     \/ Run \/ Raise \/ Builtin \/ CommandEnds
     \/ OpenGroup \/ OpenSubshell \/ OpenIf \/ IfDecides \/ IfFails
     \/ OpenLoop \/ LoopTop \/ LoopDecides \/ LoopBodyEnds \/ LoopErr
     \/ OpenFunction \/ FunctionEnds
     \/ ProgramBegins \/ ProgramContinues
     \/ ErrTrapEnds \/ ExecEnds \/ ExitTrapEnds
  /\ UNCHANGED script

Next == (Exec /\ UNCHANGED script) \/ Step

\* The interpreter runs on the caller's thread: a script that can go on does.
Spec == Init /\ [][Next]_vars /\ WF_vars(Step)

(***************************************************************************)
(* What the control flow promises: the counters and flags of               *)
(* InterpreterState describe the walker's stack, whatever mix of statuses, *)
(* jumps, errors and child processes led there.                            *)
(***************************************************************************)
\* The frames, and those of the running process (above the nearest child).
Frames == DOMAIN stack
Own    == {i \in Frames : \A j \in 1..i : stack[j].at # "child"}

Number(S, P(_)) == Cardinality({i \in S : P(stack[i])})

\* The frames that count in errexit_suppressed and errexit_bang_suppressed,
\* in loop_depth, in in_function_depth, and those that set in_trap.
InCondition(f) == \/ f.at = "if"
                  \/ f.at = "loop" /\ f.part = "condition"
                  \/ f.at = "item" /\ Suppresses(f.role)
Negated(f)  == f.at = "item" /\ f.bang
IsLoop(f)   == f.at = "loop"
IsCall(f)   == f.at = "function"
IsTrap(f)   == f.at = "trap"

\* Until an error unwinds, errexit_suppressed, loop_depth, in_function_depth
\* and in_trap are exactly what the open constructs make them (mod.rs, the
\* fields' comments): conditions and operands of the parent count in a child,
\* its loops and handlers do not.
CountersTrackTheStack ==
  ~leaked => /\ sh.suppressed = Number(Frames, InCondition)
             /\ sh.loop_depth = Number(Own, IsLoop)
             /\ sh.in_trap = (Number(Own, IsTrap) > 0)

\* An error may leave a counter too high, never too low: whatever failed
\* before, no condition or operand is taken for an ordinary command, no loop
\* for the top level, no handler for the script.
NeverUndercounted ==
  /\ sh.suppressed >= Number(Frames, InCondition)
  /\ sh.loop_depth >= Number(Own, IsLoop)
  /\ Number(Own, IsTrap) > 0 => sh.in_trap

\* A function call gives its depth back however it ends, and takes the return
\* made in it: no return is pending outside a call, even after an error
\* (execute_function_call restores before it looks at the result).
CallsAreBalanced ==
  /\ sh.in_function_depth = Number(Frames, IsCall)
  /\ sh.control_flow.to = "return" => sh.in_function_depth > 0

\* The counters and flags never miss an open construct, and count exactly what
\* is open as long as no error has unwound any.
CountersFollowTheStack == CountersTrackTheStack /\ NeverUndercounted /\ CallsAreBalanced

\* Once exit, break, continue or return is pending no command starts: not the
\* next item, operand, stage or branch, not the next iteration, not a handler.
NothingRunsWhileLeaving ==
  Ready => /\ ~Leaving(sh)
           /\ \A i \in Frames : stack[i].at = "child" => ~Leaving(stack[i].parent)

\* set -e ends a process only from a command that no condition, operand or
\* chain around it spares, in this process or in those that started it.
ErrexitSparesConditions ==
  [][(ret # Go /\ ~sh.should_exit /\ sh'.should_exit /\ stack' = Rest
        /\ stack # <<>> /\ Top.at = "item")
       => Number(Frames, InCondition)' = 0]_vars

\* exit is not held up: the process that called it (or failed under set -e)
\* ends, through any loop, call, chain or handler it is in.
ExitLeaves == sh.should_exit ~> (~sh.should_exit \/ Idle)

\* break, continue and return are consumed or the script ends: no construct
\* goes on for ever without running anything.
JumpLands == (sh.control_flow # NoFlow) ~> (sh.control_flow = NoFlow \/ Idle)

\* Whatever leaves its place arrives: exit at the end of its process, a jump
\* at what takes it.
LeavingArrives == ExitLeaves /\ JumpLands
=============================================================================
