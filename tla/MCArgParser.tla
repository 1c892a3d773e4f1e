---------------------------- MODULE MCArgParser -----------------------------
(***************************************************************************)
(* Numbers that do not fit the members they are assigned to: a negative    *)
(* one, one of more than 8 bits, one of more than 16.                      *)
(***************************************************************************)
EXTENDS ArgParser

SomeNumbers == {-1, 300, 65541}
=============================================================================
