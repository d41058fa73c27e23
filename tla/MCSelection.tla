---------------------------- MODULE MCSelection -----------------------------
(***************************************************************************)
(* The selection on short data: lines of 2 bytes, counts that step within  *)
(* a line, across lines and past either end, offsets inside the data and   *)
(* past its end.                                                           *)
(***************************************************************************)
EXTENDS Selection

MCCounts == {0, 1, 3}
MCOffsets == {0, 2, 4}
MCWidths == {0, 1, 2}

=============================================================================
