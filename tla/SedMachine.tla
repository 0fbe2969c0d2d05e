----------------------------- MODULE SedMachine ----------------------------
(***************************************************************************)
(* The sed interpreter (src/commands/sed.rs) as a machine: one step per    *)
(* command of the script.  A machine m is a record with the fields of the  *)
(* code's SedState, the lines that are left, and frames, one per list of   *)
(* commands being executed: the script at the bottom, groups above it.     *)
(*                                                                         *)
(* Text is a sequence of character codes.  A regular expression is         *)
(* abstracted to one character: it matches where that character is.        *)
(***************************************************************************)
EXTENDS Integers, Sequences, FiniteSets

CONSTANTS
  MaxCycles,  \* max_loop_iterations
  MaxOutput   \* max_output_size

NL == 10
Digit(n) == <<48 + n>>   \* bound: line numbers of one digit

Occurs(c, w) == \E i \in DOMAIN w : w[i] = c

(***************************************************************************)
(* Addresses.                                                              *)
(***************************************************************************)
addr_matches(a, m) ==
  CASE a.at = "line"  -> m.line_number = a.n
    [] a.at = "last"  -> m.last_line
    [] a.at = "regex" -> Occurs(a.c, m.pattern_space)
    [] a.at = "step"  -> IF a.step = 0 THEN m.line_number = a.n
                         ELSE /\ m.line_number >= a.n
                              /\ (m.line_number - a.n) % a.step = 0

Active(m, ip) == ip \in m.range_active

\* Whether a command's addresses select the line.
Selects(r, m, ip) ==
  CASE r = <<>>   -> TRUE
    [] Len(r) = 1 -> addr_matches(r[1], m)
    [] Len(r) = 2 -> Active(m, ip) \/ addr_matches(r[1], m)

\* The ranges that are open after it.  They are kept by a command's place in
\* its list, so those of a group share it with those of the script.
address_matches(r, m, ip) ==
  IF Len(r) < 2 \/ ~Selects(r, m, ip) THEN m
  ELSE [m EXCEPT !.range_active =
          IF addr_matches(r[2], m) THEN @ \ {ip} ELSE @ \cup {ip}]

(***************************************************************************)
(* Output.  Nothing is written once the limit is passed.                   *)
(***************************************************************************)
push_output(m, s) ==
  IF Len(m.output) <= MaxOutput THEN [m EXCEPT !.output = @ \o s]
  ELSE [m EXCEPT !.limit = IF @ = "none" THEN "output" ELSE @]

PushLine(m, s) == push_output(push_output(m, s), <<NL>>)

Autoprint(m) == IF m.quiet THEN m ELSE PushLine(m, m.pattern_space)

RECURSIVE PushAll(_, _)
PushAll(m, q) == IF q = <<>> THEN m ELSE PushAll(PushLine(m, Head(q)), Tail(q))

(***************************************************************************)
(* Commands: the machine after one, and where to go on.                    *)
(***************************************************************************)
To(m, flow) == [m |-> m, flow |-> flow]
On(m) == To(m, "continue")

Match(w, c, n) ==
  {i \in DOMAIN w : w[i] = c /\ Cardinality({j \in 1..i : w[j] = c}) = n}
Replaced(w, at, rep) ==
  LET upto[i \in 0..Len(w)] ==
        IF i = 0 THEN <<>>
        ELSE upto[i - 1] \o (IF i \in at THEN rep ELSE <<w[i]>>)
  IN  upto[Len(w)]

Places(w, c) ==
  IF c.g THEN {i \in DOMAIN w : w[i] = c.c}
  ELSE Match(w, c.c, IF c.nth = 0 THEN 1 ELSE c.nth)

\* The flag that t and T test: of a numbered match that it was found, of any
\* other that the pattern space changed.
Substituted(m, c, at, new) ==
  LET done == IF c.nth > 0 /\ ~c.g THEN at # {} ELSE new # m.pattern_space
      n == [m EXCEPT !.pattern_space = new, !.last_sub_success = done]
  IN  IF done /\ c.p THEN PushLine(n, new) ELSE n

Substitute(m, c, at) ==
  Substituted(m, c, at, Replaced(m.pattern_space, at, c.rep))

Transliterate(m, c) ==
  [m EXCEPT !.pattern_space =
     [i \in DOMAIN @ |-> IF @[i] = c.from THEN c.to ELSE @[i]]]

\* The next line replaces the pattern space, or joins it; past the last one
\* the script is over, and the pattern space has been printed.
Advance(m) ==
  [m EXCEPT !.line_idx = @ + 1, !.line_number = @ + 1,
            !.last_line = m.line_idx + 2 >= Len(m.lines)]
NextLine(m) == m.lines[m.line_idx + 2]
NoMore(m) == m.line_idx + 1 >= Len(m.lines)

Next_(m) ==
  IF NoMore(m)
    THEN To([Advance(Autoprint(m)) EXCEPT !.deleted = TRUE,
                                          !.last_line = m.last_line], "break")
    ELSE On([Advance(Autoprint(m)) EXCEPT !.pattern_space = NextLine(m)])

\* Mutant: what was the last line stays it.
NextAppend_stale(m) ==
  IF NoMore(m) THEN To([Advance(Autoprint(m)) EXCEPT !.deleted = TRUE], "break")
  ELSE On([Advance(m) EXCEPT !.pattern_space = @ \o <<NL>> \o NextLine(m),
                             !.last_line = m.last_line])

NextAppend(m) ==
  IF NoMore(m)
    THEN To([Advance(Autoprint(m)) EXCEPT !.deleted = TRUE,
                                          !.last_line = m.last_line], "break")
    ELSE On([Advance(m) EXCEPT !.pattern_space = @ \o <<NL>> \o NextLine(m)])

Branch(m, c) == To(m, IF c.label = "" THEN "end" ELSE c.label)
Tested(m) == [m EXCEPT !.last_sub_success = FALSE]

execute_one(c, m) ==
  CASE c.op = "noop" -> On(m)
    [] c.op = "s" -> On(Substitute(m, c, Places(m.pattern_space, c)))
    [] c.op = "d" -> To([m EXCEPT !.deleted = TRUE], "break")
    [] c.op = "p" -> On(PushLine(m, m.pattern_space))
    [] c.op = "q" -> To([m EXCEPT !.quit = TRUE], "break")
    [] c.op = "a" -> On([m EXCEPT !.append_queue = Append(@, c.text)])
    [] c.op = "i" -> On(PushLine(m, c.text))
    [] c.op = "c" -> To(PushLine([m EXCEPT !.pattern_space = c.text,
                                           !.deleted = TRUE], c.text), "break")
    [] c.op = ":" -> On(m)
    [] c.op = "b" -> Branch(m, c)
    [] c.op = "t" -> IF m.last_sub_success THEN Branch(Tested(m), c) ELSE On(m)
    [] c.op = "T" -> IF m.last_sub_success THEN On(Tested(m)) ELSE Branch(m, c)
    [] c.op = "h" -> On([m EXCEPT !.hold_space = m.pattern_space])
    [] c.op = "H" -> On([m EXCEPT !.hold_space = @ \o <<NL>> \o m.pattern_space])
    [] c.op = "g" -> On([m EXCEPT !.pattern_space = m.hold_space])
    [] c.op = "G" -> On([m EXCEPT !.pattern_space = @ \o <<NL>> \o m.hold_space])
    [] c.op = "x" -> On([m EXCEPT !.pattern_space = m.hold_space,
                                  !.hold_space = m.pattern_space])
    [] c.op = "=" -> On(PushLine(m, Digit(m.line_number)))
    [] c.op = "n" -> Next_(m)
    [] c.op = "N" -> NextAppend(m)
    [] c.op = "y" -> On(Transliterate(m, c))

(***************************************************************************)
(* Lists of commands.                                                      *)
(***************************************************************************)
\* Labels are places in the script; those inside groups are not collected.
Labels(script, l) == {i \in DOMAIN script : script[i].op = ":" /\ script[i].label = l}
Farthest(S) == CHOOSE i \in S : \A j \in S : j <= i

Depth(m) == Len(m.frames)
Goto(m, ip) == [m EXCEPT !.frames[Depth(m)].ip = ip]

\* The list at the top is over: the list around it goes on.
Return(m) ==
  LET n == [m EXCEPT !.frames = SubSeq(@, 1, Len(@) - 1)]
  IN  IF n.frames = <<>> THEN n ELSE Goto(n, n.frames[Depth(n)].ip + 1)

\* A branch out of a group ends the group alone, or goes to the label's place
\* in the script as if it were one in the group.
Follow(r, ip) ==
  LET targets == Labels(r.m.frames[1].script, r.flow)
  IN  CASE r.flow = "continue" -> Goto(r.m, ip + 1)
        [] r.flow = "break"    -> [r.m EXCEPT !.frames = <<>>]
        [] r.flow = "end"      -> Return(r.m)
        [] OTHER -> IF targets = {} THEN Return(r.m) ELSE Goto(r.m, Farthest(targets))

Enter(m, c) == [m EXCEPT !.frames = Append(@, [script |-> c.list, ip |-> 1])]

\* Mutant: only the commands that are run are counted.
Counted_run(m) ==
  IF m.frames[Depth(m)].script[m.frames[Depth(m)].ip].op \in {"b", ":"} THEN m
  ELSE [m EXCEPT !.cycle_count = @ + 1]

Counted(m) == [m EXCEPT !.cycle_count = @ + 1]

Exhausted(m) ==
  [Counted(m) EXCEPT !.limit = IF @ = "none" THEN "loop" ELSE @, !.quit = TRUE,
                     !.frames = <<>>]

RunCommand(m, c, ip) ==
  IF Selects(c.range, m, ip) = c.negated THEN Goto(address_matches(c.range, m, ip), ip + 1)
  ELSE IF c.op = "{" THEN Enter(address_matches(c.range, m, ip), c)
  ELSE Follow(execute_one(c, address_matches(c.range, m, ip)), ip)

\* One turn of the loop over the list at the top.
execute_commands(m) ==
  LET f == m.frames[Depth(m)]
  IN  IF f.ip > Len(f.script) THEN Return(m)
      ELSE IF m.cycle_count + 1 > MaxCycles THEN Exhausted(m)
      ELSE RunCommand(Counted(m), f.script[f.ip], f.ip)

(***************************************************************************)
(* Lines.                                                                  *)
(***************************************************************************)
Machine(script, quiet, lines) ==
  [script |-> script, quiet |-> quiet, lines |-> lines, line_idx |-> -1,
   frames |-> <<>>, pattern_space |-> <<>>, hold_space |-> <<>>,
   line_number |-> 0, last_line |-> FALSE, last_sub_success |-> FALSE,
   output |-> <<>>, quit |-> FALSE, deleted |-> TRUE, range_active |-> {},
   append_queue |-> <<>>, cycle_count |-> 0, limit |-> "none"]

BeginCycle(m) ==
  [Advance(m) EXCEPT !.pattern_space = NextLine(m), !.deleted = FALSE,
                     !.last_sub_success = FALSE,
                     !.frames = <<[script |-> m.script, ip |-> 1]>>]

\* What is left of a line when its commands are over.
EndCycle(m) ==
  [PushAll(IF m.deleted THEN m ELSE Autoprint(m), m.append_queue)
     EXCEPT !.append_queue = <<>>, !.deleted = TRUE]

Busy(m)  == m.frames # <<>>
Owes(m)  == ~m.deleted \/ m.append_queue # <<>>
Over(m)  == ~Busy(m) /\ ~Owes(m) /\ (m.quit \/ m.line_idx + 1 >= Len(m.lines))

execute_sed(m) ==
  IF Busy(m) THEN execute_commands(m)
  ELSE IF Owes(m) THEN EndCycle(m)
  ELSE BeginCycle(m)
=============================================================================
