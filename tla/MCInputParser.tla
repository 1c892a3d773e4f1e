--------------------------- MODULE MCInputParser ---------------------------
(***************************************************************************)
(* The lines on which TLC checks the parser: all short ones, and longer    *)
(* ones of three symbols, so that a command with three arguments and       *)
(* blanks to spare is among them.                                          *)
(***************************************************************************)
EXTENDS InputClaims, SequencesExt

ShortAndLong == BoundedSeq(Symbol, 4) \cup BoundedSeq({Blank, "/auth", "x"}, 9)
=============================================================================
