------------------------------ MODULE UndoLog -------------------------------
(***************************************************************************)
(* What undo and redo promise: a log of snapshots.  Each finished action   *)
(* leaves the text and selection from before it in past; undo goes back to *)
(* the last of them and keeps what it left in future, for redo.  All keys  *)
(* of one stay in Insert mode (session) are one action.                    *)
(***************************************************************************)
EXTENDS Naturals, Sequences

CONSTANTS Text, Sels

VARIABLES text, sel, session, past, future

vars == <<text, sel, session, past, future>>

Snapshot == [text |-> text, sel |-> sel]

Front(s) == SubSeq(s, 1, Len(s) - 1)
Top(s) == s[Len(s)]

Init ==
    /\ text \in Text
    /\ sel \in Sels
    /\ session = <<>>
    /\ past = <<>>
    /\ future = <<>>

\* A complete edit.
Change(new_text, new_sel) ==
    /\ session = <<>>
    /\ text' = new_text
    /\ sel' = new_sel
    /\ past' = Append(past, Snapshot)
    /\ future' = <<>>
    /\ UNCHANGED session

\* A key of Insert mode.
Key(new_text, new_sel) ==
    /\ session' = IF session = <<>> THEN <<Snapshot>> ELSE session
    /\ text' = new_text
    /\ sel' = new_sel
    /\ UNCHANGED <<past, future>>

\* The end of a stay in Insert mode that had keys.
Close ==
    /\ session # <<>>
    /\ past' = Append(past, session[1])
    /\ future' = <<>>
    /\ session' = <<>>
    /\ UNCHANGED <<text, sel>>

Select(new_sel) ==
    /\ sel' = new_sel
    /\ UNCHANGED <<text, session, past, future>>

\* More of the file is read before anything was done.
Load(new_text) ==
    /\ session = <<>> /\ past = <<>> /\ future = <<>>
    /\ Len(text) <= Len(new_text)
    /\ SubSeq(new_text, 1, Len(text)) = text
    /\ text' = new_text
    /\ UNCHANGED <<sel, session, past, future>>

Undo ==
    /\ session = <<>>
    /\ past # <<>>
    /\ text' = Top(past).text
    /\ sel' = Top(past).sel
    /\ past' = Front(past)
    /\ future' = Append(future, Snapshot)
    /\ UNCHANGED session

Redo ==
    /\ session = <<>>
    /\ future # <<>>
    /\ text' = Top(future).text
    /\ sel' = Top(future).sel
    /\ future' = Front(future)
    /\ past' = Append(past, Snapshot)
    /\ UNCHANGED session

Next ==
    \/ \E new_text \in Text, new_sel \in Sels :
         Change(new_text, new_sel) \/ Key(new_text, new_sel)
    \/ Close
    \/ \E new_sel \in Sels : Select(new_sel)
    \/ \E new_text \in Text : Load(new_text)
    \/ Undo
    \/ Redo

Spec == Init /\ [][Next]_vars

=============================================================================
