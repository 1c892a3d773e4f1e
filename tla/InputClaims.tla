---------------------------- MODULE InputClaims ----------------------------
(***************************************************************************)
(* What the code of the parser says of a line and does not do.  The run    *)
(* that checks it ends with the counterexample.                            *)
(***************************************************************************)
EXTENDS InputParser

(* InputParser.cpp:86-91: a test for an empty message prints "ERR: empty
   message not allowed" and asks for help.  It is never reached by an empty
   line: command.at(0), evaluated before (InputParser.cpp:80), throws. *)
EmptyLineRefused ==
    stage = "done" /\ input = <<>> => command.type = "CMD_HELP"
=============================================================================
