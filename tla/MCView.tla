------------------------------- MODULE MCView -------------------------------
(***************************************************************************)
(* Lines of 2 bytes, loads of 2 lines, screens of 2 or 3 lines and one too *)
(* small for the property lines.  In a file of 6 lines scrolling trims     *)
(* after a byte was typed, or when the terminal is smaller than the view   *)
(* knows, and loads again after that.  The second file is empty.           *)
(***************************************************************************)
EXTENDS View

\* From the first edit on nothing depends on the bytes of the data, only on
\* how many there are.
StateView ==
    LET Sized(b) == IF edits = 0 THEN b ELSE [b EXCEPT !.data = Len(@)]
    IN  <<Sized(view), [n \in DOMAIN parked |-> Sized(parked[n])], term, file, edits, unsettled>>

MCFileLens == [path \in {"first", "second"} |-> IF path = "first" THEN 12 ELSE 0]
MCOneFile == [path \in {"first"} |-> 40]

=============================================================================
