------------------------------ MODULE MCShell ------------------------------
(***************************************************************************)
(* What the shells of the model are given to run.  A shell uses one of     *)
(* these selections, so that each question meets the constructs that       *)
(* matter to it, nested as deeply as TLC can afford.                       *)
(***************************************************************************)
EXTENDS ShellControl

Using(syntax, builtins, raises, handlers, nest) ==
  [syntax |-> syntax, builtins |-> builtins, raises |-> raises,
   handlers |-> handlers, nest |-> nest]

\* Jumps out of nested loops, calls and subshells.
Jumps ==
  { Using({"for", "while", "function"},
          {"break", "continue", "return", "exit"}, {}, {}, 3),
    Using({"&&", "!", "for", "until", "function", "subshell"},
          {"break", "return"}, {}, {}, 2) }

\* set -e under conditions, operands, negation, in children and calls.
Errexit ==
  { Using({"&&", "!", "|", "if", "while", "subshell", "function"},
          {"set", "exit"}, {}, {}, 1),
    Using({"&&", "if", "subshell", "function"}, {"set"}, {}, {}, 2) }

\* Handlers, in children and calls, and while a jump is pending.
Traps ==
  { Using({"&&", "group", "subshell", "function"}, {"trap", "return"},
          {}, {"ok"}, 2),
    Using({"subshell"}, {"trap", "readonly", "exit"},
          {"hard"}, {"none", "ok", "unparsable"}, 1) }

\* Every kind of error out of every construct, and the scripts that follow.
Failures ==
  { Using({"&&", "!", "if", "for", "arith-for"}, {"set", "break"},
          Errors, {}, 1),
    Using({"|", "&", "group", "while", "function", "subshell"},
          {"return", "readonly"}, Errors, {}, 1),
    Using({"for", "if", "until", "function"}, {"continue", "return"},
          {"expansion", "soft", "hard"}, {}, 2) }

MCScripts == Jumps \cup Errexit \cup Traps \cup Failures
=============================================================================
