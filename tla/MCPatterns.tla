----------------------------- MODULE MCPatterns -----------------------------
(***************************************************************************)
(* Searching in short texts of a newline and another byte: every           *)
(* selection of up to MaxLen bytes and the cell behind them, every pattern *)
(* of up to MaxPattern pieces.                                             *)
(***************************************************************************)
EXTENDS Patterns

=============================================================================
