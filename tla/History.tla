------------------------------ MODULE History -------------------------------
(***************************************************************************)
(* The history of a buffer (history.rs) as the buffer uses it              *)
(* (current_buffer.rs) and as the modes drive it: final actions in normal  *)
(* mode, a partial action while in Insert mode.  load_next_chunk grows the *)
(* data behind the history's back; a delta recorded before that is shorter *)
(* than the data it is applied to later.  Deltas are abstract: the laws    *)
(* assumed below are what their algebra (module Deltas) has to provide.    *)
(***************************************************************************)
EXTENDS Naturals, Sequences

CONSTANTS
    Byte, Text,          \* texts are sequences of bytes
    Delta,               \* deltas
    Base(_), Target(_),  \* length of the text before and after a delta
    Apply(_, _),         \* Apply(delta, text)
    Invert(_, _),        \* Action::invert(delta, text)
    Chain(_, _, _),      \* Action::chain(delta, text after it, next delta)
    Sels,                \* selections
    Chunks,              \* what load_next_chunk can read, {} at end of file
    MaxUndo              \* bound on the number of actions

Prefix(text, n) == SubSeq(text, 1, n)

ASSUME TextAssumption == Text \subseteq Seq(Byte) /\ Chunks \subseteq Seq(Byte)

\* A delta only looks at the first Base(delta) bytes of a text.
ASSUME ApplyLaw ==
    \A d \in Delta, t \in Text :
        Base(d) <= Len(t) =>
            /\ Prefix(t, Base(d)) \in Text
            /\ Apply(d, t) = Apply(d, Prefix(t, Base(d)))
            /\ Apply(d, t) \in Text
            /\ Len(Apply(d, t)) = Target(d)

ASSUME InvertLaw ==
    \A d \in Delta, t \in Text :
        Base(d) <= Len(t) =>
            /\ Invert(d, t) \in Delta
            /\ Base(Invert(d, t)) = Target(d)
            /\ Target(Invert(d, t)) = Base(d)
            /\ Apply(Invert(d, t), Apply(d, t)) = Prefix(t, Base(d))

ASSUME ChainLaw ==
    \A d, e \in Delta, t \in Text :
        Base(d) = Len(t) /\ Base(e) = Target(d) =>
            LET chained == Chain(d, Apply(d, t), e)
            IN  /\ chained \in Delta
                /\ Base(chained) = Base(d)
                /\ Target(chained) = Target(e)
                /\ Apply(chained, t) = Apply(e, Apply(d, t))

ASSUME LengthAssumption ==
    /\ \A d \in Delta : Base(d) \in Nat /\ Target(d) \in Nat
    /\ MaxUndo \in Nat

VARIABLES
    data,        \* CurrentBuffer.data
    selection,   \* CurrentBuffer.selection
    mode,        \* "insert" in Insert mode, "normal" otherwise
    partial,     \* History.partial, an option
    undo, redo,  \* History.undo and History.redo, the top at the end
    status,      \* "ok", "failed" after a panic
    session,     \* history: text and selection when the partial action began
    past,        \* history: text and selection before each action of undo
    future,      \* history: text and selection after each action of redo
    stale        \* history: a chunk was loaded while there were actions

vars == <<data, selection, mode, partial, undo, redo, status, session, past, future, stale>>

Action == [delta : Delta, sel : Sels]
Snapshots == [text : Text, sel : Sels]

Top(s) == s[Len(s)]
Pop(s) == SubSeq(s, 1, Len(s) - 1)

Init ==
    /\ data \in Text
    /\ selection \in Sels
    /\ mode = "normal"
    /\ partial = <<>>
    /\ undo = <<>>
    /\ redo = <<>>
    /\ status = "ok"
    /\ session = <<>>
    /\ past = <<>>
    /\ future = <<>>
    /\ stale = FALSE

-----------------------------------------------------------------------------

\* apply_delta in normal mode; c goes on to Insert mode.
PerformFinal(delta, new_sel, new_mode) ==
    /\ status = "ok"
    /\ mode = "normal"
    /\ Base(delta) = Len(data)
    /\ Len(undo) < MaxUndo
    /\ undo' = Append(undo, [delta |-> Invert(delta, data), sel |-> selection])
    /\ redo' = <<>>
    /\ data' = Apply(delta, data)
    /\ selection' = new_sel
    /\ mode' = new_mode
    /\ past' = Append(past, [text |-> data, sel |-> selection])
    /\ future' = <<>>
    /\ UNCHANGED <<partial, status, session, stale>>

\* Variant: only the last key of a session is remembered.
ReplacedByLast(delta) == [delta |-> Invert(delta, data), sel |-> selection]

\* What perform_partial leaves in partial.
Replaced(delta) ==
    IF partial = <<>>
    THEN [delta |-> Invert(delta, data), sel |-> selection]
    ELSE [delta |-> Chain(Invert(delta, data), data, partial[1].delta),
          sel |-> partial[1].sel]

(***************************************************************************)
(* apply_incomplete_delta in Insert mode.  chain lines the bytes up one by *)
(* one: when data has been loaded since the partial action was recorded,   *)
(* the lengths differ and xi-rope gives up.                                *)
(***************************************************************************)
PerformPartial(delta, new_sel) ==
    /\ status = "ok"
    /\ mode = "insert"
    /\ Base(delta) = Len(data)
    /\ Len(undo) < MaxUndo
    /\ IF partial # <<>> /\ Base(partial[1].delta) # Len(data)
       THEN /\ status' = "failed"
            /\ UNCHANGED <<partial, data, selection, session>>
       ELSE /\ partial' = <<Replaced(delta)>>
            /\ data' = Apply(delta, data)
            /\ selection' = new_sel
            /\ session' = IF partial = <<>>
                          THEN <<[text |-> data, sel |-> selection]>>
                          ELSE session
            /\ UNCHANGED status
    /\ UNCHANGED <<mode, undo, redo, past, future, stale>>

EnterInsert(new_sel) ==
    /\ status = "ok"
    /\ mode = "normal"
    /\ mode' = "insert"
    /\ selection' = new_sel
    /\ UNCHANGED <<data, partial, undo, redo, status, session, past, future, stale>>

\* Variant: actions undone before can still be redone.
CommitKeepsRedo ==
    /\ IF partial = <<>>
       THEN UNCHANGED <<undo, redo, past, future>>
       ELSE /\ undo' = Append(undo, partial[1])
            /\ UNCHANGED redo
            /\ past' = Append(past, session[1])
            /\ future' = <<>>
    /\ partial' = <<>>
    /\ session' = <<>>

\* History::commit_partial.
CommitPartial ==
    /\ IF partial = <<>>
       THEN UNCHANGED <<undo, redo, past, future>>
       ELSE /\ undo' = Append(undo, partial[1])
            /\ redo' = <<>>
            /\ past' = Append(past, session[1])
            /\ future' = <<>>
    /\ partial' = <<>>
    /\ session' = <<>>

\* Esc in Insert mode: commit_delta, then normal mode.
Exit ==
    /\ status = "ok"
    /\ mode = "insert"
    /\ mode' = "normal"
    /\ CommitPartial
    /\ UNCHANGED <<data, selection, status, stale>>

MoveSelection(new_sel) ==
    /\ status = "ok"
    /\ selection' = new_sel
    /\ UNCHANGED <<data, mode, partial, undo, redo, status, session, past, future, stale>>

-----------------------------------------------------------------------------
(***************************************************************************)
(* Undo and redo.  A delta longer than the data reads past its end: a      *)
(* panic, or a text nobody asked for.  One shorter than the data drops the *)
(* rest of it, or trips xi-rope's debug assertion in a debug build.        *)
(***************************************************************************)
Fits(delta) == Base(delta) <= Len(data)

Misfit(delta) ==
    /\ Base(delta) # Len(data)
    /\ status' = "failed"
    /\ UNCHANGED <<data, selection, mode, partial, undo, redo, session, past, future, stale>>

\* Takes the last action of one stack and pushes its inverse on the other.
Exchange(action) ==
    /\ data' = Apply(action.delta, data)
    /\ selection' = action.sel
    /\ UNCHANGED <<mode, partial, status, session, stale>>

\* Variant: the action itself is pushed.
InvertedNot(action) == [delta |-> action.delta, sel |-> selection]

\* Variant: the selection to restore is not exchanged.
InvertedSameSel(action) == [delta |-> Invert(action.delta, data), sel |-> action.sel]

Inverted(action) == [delta |-> Invert(action.delta, data), sel |-> selection]
Undone(action) == [text |-> Prefix(data, Base(action.delta)), sel |-> selection]

PerformUndo ==
    /\ status = "ok"
    /\ mode = "normal"
    /\ undo # <<>>
    /\ LET action == Top(undo)
       IN  \/ Misfit(action.delta)
           \/ /\ Fits(action.delta)
              /\ undo' = Pop(undo)
              /\ redo' = Append(redo, Inverted(action))
              /\ past' = Pop(past)
              /\ future' = Append(future, Undone(action))
              /\ Exchange(action)

PerformRedo ==
    /\ status = "ok"
    /\ mode = "normal"
    /\ redo # <<>>
    /\ LET action == Top(redo)
       IN  \/ Misfit(action.delta)
           \/ /\ Fits(action.delta)
              /\ redo' = Pop(redo)
              /\ undo' = Append(undo, Inverted(action))
              /\ future' = Pop(future)
              /\ past' = Append(past, Undone(action))
              /\ Exchange(action)

\* Scrolling can load a chunk in any mode; the history is not told.
LoadNextChunk(chunk) ==
    /\ status = "ok"
    /\ chunk # <<>>
    /\ data \o chunk \in Text
    /\ data' = data \o chunk
    /\ stale' = (stale \/ undo # <<>> \/ redo # <<>> \/ partial # <<>>)
    /\ UNCHANGED <<selection, mode, partial, undo, redo, status, session, past, future>>

Failed == status = "failed" /\ UNCHANGED vars

Next ==
    \/ \E new_sel \in Sels :
         \/ \E delta \in Delta : PerformPartial(delta, new_sel)
         \/ \E delta \in Delta, new_mode \in {"normal", "insert"} :
              PerformFinal(delta, new_sel, new_mode)
         \/ EnterInsert(new_sel)
         \/ MoveSelection(new_sel)
    \/ Exit
    \/ PerformUndo
    \/ PerformRedo
    \/ \E chunk \in Chunks : LoadNextChunk(chunk)
    \/ Failed

Spec == Init /\ [][Next]_vars

-----------------------------------------------------------------------------
(***************************************************************************)
(* Properties.                                                             *)
(***************************************************************************)

\* The stacks hold well-formed actions, and there is one snapshot for each
\* action to redo: a commit drops the redo stack (history.rs, commit_partial).
TypeOK ==
    /\ data \in Text
    /\ selection \in Sels
    /\ mode \in {"normal", "insert"}
    /\ partial \in Seq(Action) /\ Len(partial) <= 1
    /\ undo \in Seq(Action)
    /\ redo \in Seq(Action)
    /\ status \in {"ok", "failed"}
    /\ session \in Seq(Snapshots) /\ Len(session) = Len(partial)
    /\ past \in Seq(Snapshots)
    /\ future \in Seq(Snapshots) /\ Len(future) = Len(redo)
    /\ stale \in BOOLEAN

\* No action is left open outside Insert mode, so undo and redo never run on
\* data that a partial action has changed: Exit flushes it.
PartialOnlyInInsert == mode = "normal" => partial = <<>>

\* The text both stacks belong to: the data without the partial action.
Settled == IF session = <<>> THEN data ELSE session[1].text

\* The text action j of a stack applies to, when the top one applies to
\* settled.
From(stack, snaps, settled, j) == IF j = Len(stack) THEN settled ELSE snaps[j + 1].text

\* The actions of a stack lead through the snapshots one by one, and carry
\* the selection to restore.
Leads(stack, snaps, settled) ==
    /\ Len(stack) = Len(snaps)
    /\ \A j \in 1 .. Len(stack) :
         /\ Base(stack[j].delta) <= Len(From(stack, snaps, settled, j))
         /\ Apply(stack[j].delta, From(stack, snaps, settled, j)) = snaps[j].text
         /\ stack[j].sel = snaps[j].sel

\* Undoing goes back, action by action, to the text and the selection from
\* before each action, whatever was typed, undone, redone or loaded; the
\* partial action leads back to the start of its session.
UndoRestores ==
    /\ Leads(undo, past, Settled)
    /\ partial # <<>> =>
         /\ Base(partial[1].delta) <= Len(data)
         /\ Apply(partial[1].delta, data) = session[1].text
         /\ partial[1].sel = session[1].sel

\* Redoing leads, action by action, to what was undone, unless a chunk was
\* loaded while there were actions to undo or redo.
RedoRestores == ~stale => Leads(redo, future, Settled)

\* Nothing but a chunk loaded under existing actions makes the history fail.
FailsOnlyAfterLoad == status = "failed" => stale

\* Undo followed by redo changes nothing ("`u` to undo, `U` to redo",
\* README.md): the action undo would push on the redo stack brings back the
\* very data undo was called on.
UndoRedoIdentity ==
    status = "ok" /\ mode = "normal" /\ undo # <<>> =>
        LET delta == Top(undo).delta
        IN  Apply(Invert(delta, data), Apply(delta, data)) = data

-----------------------------------------------------------------------------

Log == INSTANCE UndoLog WITH text <- data, sel <- selection

\* Every step of the history is a step of the log of snapshots, until
\* load_next_chunk appends to data that there are actions for.
RefinesLog == Log!Init /\ [][~stale' => [Log!Next]_(Log!vars)]_vars

-----------------------------------------------------------------------------
(***************************************************************************)
(* The inductive invariant.  Without loads every action is as long as the  *)
(* text it applies to (Exact).  With loads only inequalities are left: the *)
(* top of undo needs no more bytes than the top of redo, and a redone      *)
(* action leaves no more bytes than the next one needs (Nested).  That is  *)
(* why undo stays sound and redo does not.                                 *)
(***************************************************************************)
Exact(stack, snaps, settled) ==
    \A j \in 1 .. Len(stack) : Base(stack[j].delta) = Len(From(stack, snaps, settled, j))

Nested ==
    /\ undo # <<>> /\ redo # <<>> => Base(Top(undo).delta) <= Base(Top(redo).delta)
    /\ \A j \in 1 .. Len(redo) - 1 : Target(redo[j + 1].delta) <= Base(redo[j].delta)

Unspoilt ==
    /\ Leads(redo, future, Settled)
    /\ Exact(undo, past, Settled)
    /\ Exact(redo, future, Settled)
    /\ partial # <<>> => Base(partial[1].delta) = Len(data)

IndInv ==
    /\ TypeOK
    /\ PartialOnlyInInsert
    /\ UndoRestores
    /\ Nested
    /\ ~stale => Unspoilt
    /\ FailsOnlyAfterLoad

=============================================================================
