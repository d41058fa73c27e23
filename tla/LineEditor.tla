----------------------------- MODULE LineEditor -----------------------------
(***************************************************************************)
(* What a prompt promises: one line of text with a cursor between what is  *)
(* before and what is after it.                                            *)
(***************************************************************************)
EXTENDS Naturals, Sequences

CONSTANT Item       \* what one key can put into the line

VARIABLES open, before, after

vars == <<open, before, after>>

Init ==
    /\ open = FALSE
    /\ before = <<>>
    /\ after = <<>>

Open ==
    /\ ~open
    /\ open' = TRUE
    /\ before' = <<>>
    /\ after' = <<>>

\* Submitted or given up.
Close ==
    /\ open
    /\ open' = FALSE
    /\ before' = <<>>
    /\ after' = <<>>

Type(item) ==
    /\ open
    /\ before' = Append(before, item)
    /\ UNCHANGED <<open, after>>

\* The second digit of a byte completes the item typed last.
Amend(item) ==
    /\ open
    /\ before # <<>>
    /\ before' = Append(SubSeq(before, 1, Len(before) - 1), item)
    /\ UNCHANGED <<open, after>>

DeleteBack ==
    /\ open
    /\ before # <<>>
    /\ before' = SubSeq(before, 1, Len(before) - 1)
    /\ UNCHANGED <<open, after>>

DeleteForward ==
    /\ open
    /\ after # <<>>
    /\ after' = Tail(after)
    /\ UNCHANGED <<open, before>>

Left ==
    /\ open
    /\ before # <<>>
    /\ before' = SubSeq(before, 1, Len(before) - 1)
    /\ after' = <<before[Len(before)]>> \o after
    /\ UNCHANGED open

Right ==
    /\ open
    /\ after # <<>>
    /\ before' = Append(before, Head(after))
    /\ after' = Tail(after)
    /\ UNCHANGED open

Next ==
    \/ Open
    \/ Close
    \/ \E item \in Item : Type(item) \/ Amend(item)
    \/ DeleteBack
    \/ DeleteForward
    \/ Left
    \/ Right

Spec == Init /\ [][Next]_vars

=============================================================================
