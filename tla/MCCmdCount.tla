----------------------------- MODULE MCCmdCount -----------------------------
(***************************************************************************)
(* Eight bits: decimal counts wrap after 255, hex ones after two digits.   *)
(***************************************************************************)
EXTENDS CmdCount
=============================================================================
