------------------------------ MODULE MCModes -------------------------------
(***************************************************************************)
(* Counts of 8 bits, hex digits of one bit.  The bytes of the command line *)
(* are q, w, ' ' and one character of two bytes; q and wq can quit.  The   *)
(* labels are scaled so that both prompts run out of room.                 *)
(***************************************************************************)
EXTENDS Modes

MCChar == {<<1>>, <<2>>, <<3>>, <<5, 9>>}
MCQuitting == {<<1>>, <<2, 1>>}

=============================================================================
