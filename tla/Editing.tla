------------------------------- MODULE Editing ------------------------------
(***************************************************************************)
(* The keys that change the data: Insert mode in its three kinds           *)
(* (insert.rs), Replace mode (replace.rs) and the editing commands of      *)
(* Normal mode (normal.rs), on a buffer with its data, its selection, its  *)
(* register and the action being recorded for undo (current_buffer.rs,     *)
(* history.rs).  The deltas are the ones of module Operations.             *)
(*                                                                         *)
(* Moving and extending in Normal mode is module Selection, undo and redo  *)
(* are module History.  Which region is the main one plays no part here.   *)
(* The file is loaded completely, so Ctrl-e loads nothing.                 *)
(***************************************************************************)
EXTENDS Operations

CONSTANTS Texts,      \* what the buffer can hold at first
          Chars,      \* UTF-8 encodings of the characters that are typed
          Counts,     \* counts p and P can be given
          MaxText,    \* bound on the length of the data
          MaxKeys     \* bound on the number of keys

ASSUME EditingAssumption ==
    /\ MaxText \in Nat /\ MaxKeys \in Nat /\ Counts \subseteq Nat
    /\ \A text \in Texts \cup Chars : \A x \in DOMAIN text : text[x] \in 0 .. HexBase * HexBase - 1

VARIABLES
    buffer,     \* the CurrentBuffer: data, selection, the register '"',
                \* History.partial and the top of History.undo (both options)
                \* and whether an operation on it has panicked
    mode,       \* the mode's kind, hex and hex_half (an option)
    keys,       \* history: how many keys were pressed
    original,   \* history: the data before the action that undo would revert
    begun,      \* history: the data and selection before the digit that is in
                \* hex_half, an option; forgotten when Ctrl-e or Ctrl-y moves
                \* the carets away from it
    cut         \* history: the data before d, if d was the last key

vars == <<buffer, mode, keys, original, begun, cut>>

Byte == 0 .. HexBase * HexBase - 1
Digit == 0 .. HexBase - 1

Inserting == {"insert", "append", "overwrite"}
Mode(kind, hex, half) == [kind |-> kind, hex |-> hex, half |-> half]
Normal == Mode("normal", FALSE, <<>>)

-----------------------------------------------------------------------------
(***************************************************************************)
(* The selection.                                                          *)
(***************************************************************************)

\* Selection::map_selections, with a loop round for each new region.
SelectMapped(b, mapped) ==
    LET Push(out, r) ==
            LET last == Last(out.regions)
            IN  IF out.panicked THEN out
                ELSE IF out.regions = <<>> \/ ~Overlaps(last, r)
                THEN [out EXCEPT !.regions = Append(@, r)]
                ELSE IF Mergeable(last, r)
                THEN [out EXCEPT !.regions = Append(Front(@), Merge(last, r))]
                ELSE [out EXCEPT !.panicked = TRUE]
        out == FoldLeft(Push, [regions |-> <<>>, panicked |-> FALSE], mapped)
    IN  IF out.panicked THEN [b EXCEPT !.panicked = TRUE]
                        ELSE [b EXCEPT !.selection = out.regions]

MapSelections(b, f(_)) == SelectMapped(b, Each(b.selection, f))

\* Variant: only an offset at the end of the data is moved.
MovedAtEnd(delta, ix, offset) ==
    IF ix = delta.base THEN Len(delta.els) + offset ELSE ix + offset

\* An offset of the old data moved by a delta and then by offset; a negative
\* result becomes a huge usize, which the length of the new data bounds.
Moved(delta, ix, offset) ==
    LET new_max_len == Len(delta.els)
        to == Transform(delta, ix) + offset
    IN  IF ix = delta.base THEN new_max_len + offset
        ELSE IF to < 0 THEN new_max_len
        ELSE Smaller(new_max_len, to)

\* Selection::apply_delta_offset_carets, and apply_delta when both are 0.
OffsetCarets(b, delta, caret_offset, tail_offset) ==
    IF delta.els = <<>>
    THEN [b EXCEPT !.selection = <<SelRegion(0, 0)>>]
    ELSE MapSelections(b, LAMBDA r : SelRegion(Moved(delta, r.caret, caret_offset),
                                               Moved(delta, r.tail, tail_offset)))

-----------------------------------------------------------------------------
(***************************************************************************)
(* Applying edits.                                                         *)
(***************************************************************************)

\* Variant: only the last key is remembered.
FoldedLast(b, delta) == ActionInvert(delta, b.data)

\* perform_partial: the inverse of this key, chained with the action so far.
Folded(b, delta) ==
    LET this_inversion == ActionInvert(delta, b.data)
    IN  IF b.partial = <<>> THEN this_inversion
        ELSE ActionChain(this_inversion, b.data, b.partial[1])

\* perform_final: the action is on the undo stack at once.
ApplyDelta(b, edits) ==
    LET delta == Build(Len(b.data), edits)
        applied == [b EXCEPT !.data = DeltaApply(delta, @),
                             !.undo = <<ActionInvert(delta, b.data)>>]
    IN  IF Sorted(edits) THEN OffsetCarets(applied, delta, 0, 0)
                         ELSE [b EXCEPT !.panicked = TRUE]

ApplyIncompleteDeltaOffset(b, edits, caret_offset) ==
    LET delta == Build(Len(b.data), edits)
        applied == [b EXCEPT !.data = DeltaApply(delta, @),
                             !.partial = <<Folded(b, delta)>>]
    IN  IF Sorted(edits) THEN OffsetCarets(applied, delta, caret_offset, 0)
                         ELSE [b EXCEPT !.panicked = TRUE]

ApplyIncompleteDelta(b, edits) == ApplyIncompleteDeltaOffset(b, edits, 0)

CommitDelta(b) ==
    IF b.partial = <<>> THEN b ELSE [b EXCEPT !.undo = b.partial, !.partial = <<>>]

\* The bytes of a region that exist: the overflow cell has none.
SliceOf(data, r) == SubSeq(data, MinByte(r) + 1, Smaller(MaxByte(r) + 1, Len(data)))

YankSelections(b) ==
    [b EXCEPT !.register = Each(b.selection, LAMBDA r : SliceOf(b.data, r))]

-----------------------------------------------------------------------------
(***************************************************************************)
(* Insert mode's keys on the buffer.                                       *)
(***************************************************************************)

\* transition_ascii_insertion
CharEdits(b, kind, inserted_bytes) ==
    IF kind = "overwrite" THEN Change(b.data, b.selection, inserted_bytes)
                          ELSE InsertAtCarets(b.data, b.selection, inserted_bytes)

\* transition_hex_insertion: the first digit leaves the caret on the byte ...
FirstDigit(b, kind, to_insert) ==
    ApplyIncompleteDeltaOffset(b, IF kind = "overwrite"
                                  THEN OverwriteHalf(b.data, b.selection, to_insert)
                                  ELSE InsertAtCarets(b.data, b.selection, <<to_insert>>), -1)

\* ... and the second one writes the byte again.
SecondDigitEdits(b, half, digit) == Change(b.data, b.selection, <<half + digit>>)

Finished(b, half) ==
    IF half = <<>> THEN b ELSE ApplyIncompleteDelta(b, SecondDigitEdits(b, half[1], 0))

\* Action::Move, once a half is finished with a 0: since that took the caret
\* behind the byte, a step back follows the step.
Stepped(b, half, direction) ==
    LET Step(r) == SimpleMove(r, direction, Len(b.data), 1)
    IN  IF b.panicked THEN b
        ELSE MapSelections(b, LAMBDA r :
                 IF half = <<>> THEN Step(r) ELSE SimpleMove(Step(r), "Left", Len(b.data), 1))

-----------------------------------------------------------------------------
(***************************************************************************)
(* Keys.                                                                   *)
(***************************************************************************)

\* The selections module Selection leaves on data of this length while no jump
\* went past its end.
Selections(size) ==
    {rs \in UNION {[1 .. count -> {SelRegion(c, t) : c \in 0 .. size, t \in 0 .. size}] :
                      count \in 1 .. size + 1} :
        \A n \in 2 .. Len(rs) : MaxByte(rs[n - 1]) < MinByte(rs[n])}

Init ==
    /\ \E text \in Texts : \E regions \in Selections(Len(text)) :
         /\ buffer = [data |-> text, selection |-> regions, register |-> <<<<>>>>,
                      partial |-> <<>>, undo |-> <<>>, panicked |-> FALSE]
         /\ original = text
    /\ mode = Normal
    /\ keys = 0
    /\ begun = <<>>
    /\ cut = <<>>

\* The key takes the buffer to b and the mode to m.
Key(b, m) ==
    /\ ~buffer.panicked
    /\ keys < MaxKeys
    /\ Len(b.data) <= MaxText
    /\ keys' = keys + 1
    /\ buffer' = b
    /\ mode' = m

\* A key that is part of an insertion.
Partial(b, m) ==
    /\ Key(b, m)
    /\ original' = IF buffer.partial = <<>> THEN buffer.data ELSE original
    /\ cut' = <<>>

\* A key that is an action of its own.
Final(b, m) ==
    /\ Key(b, m)
    /\ original' = buffer.data
    /\ begun' = <<>>

Neutral(b, m) ==
    /\ Key(b, m)
    /\ cut' = <<>>
    /\ UNCHANGED original

In(kinds) == mode.kind \in kinds

TypeChar(char) ==
    /\ In(Inserting) /\ ~mode.hex
    /\ Partial(ApplyIncompleteDelta(buffer, CharEdits(buffer, mode.kind, char)), mode)
    /\ UNCHANGED begun

TypeFirstDigit(digit) ==
    /\ In(Inserting) /\ mode.hex /\ mode.half = <<>>
    /\ Partial(FirstDigit(buffer, mode.kind, digit * HexBase),
               Mode(mode.kind, TRUE, <<digit * HexBase>>))
    /\ begun' = <<[data |-> buffer.data, selection |-> buffer.selection]>>

TypeSecondDigit(digit) ==
    /\ In(Inserting) /\ mode.hex /\ mode.half # <<>>
    /\ Partial(ApplyIncompleteDelta(buffer, SecondDigitEdits(buffer, mode.half[1], digit)),
               Mode(mode.kind, TRUE, <<>>))
    /\ begun' = <<>>

Whole == Mode(mode.kind, mode.hex, <<>>)

InsertNull ==
    /\ In(Inserting)
    /\ Partial(ApplyIncompleteDelta(buffer, InsertAtCarets(buffer.data, buffer.selection, <<0>>)), Whole)
    /\ begun' = <<>>

SwitchInputMode ==
    /\ In(Inserting)
    /\ Neutral(buffer, Mode(mode.kind, ~mode.hex, <<>>))
    /\ begun' = <<>>

\* Backspace and Delete take a half back; with no data they do nothing.
RemoveLast ==
    /\ In(Inserting) /\ buffer.data # <<>>
    /\ Partial(ApplyIncompleteDelta(buffer, IF mode.half = <<>>
                                            THEN Backspace(buffer.data, buffer.selection)
                                            ELSE DeleteCursor(buffer.data, buffer.selection)), Whole)
    /\ begun' = <<>>

RemoveThis ==
    /\ In(Inserting) /\ buffer.data # <<>>
    /\ Partial(ApplyIncompleteDelta(buffer, DeleteCursor(buffer.data, buffer.selection)), Whole)
    /\ begun' = <<>>

Arrow(direction) ==
    LET moved == Stepped(Finished(buffer, mode.half), mode.half, direction)
    IN  /\ In(Inserting)
        /\ IF mode.half = <<>> THEN Neutral(moved, mode) ELSE Partial(moved, Whole)
        /\ begun' = <<>>

Exit ==
    /\ In(Inserting)
    /\ Neutral(CommitDelta(buffer), Normal)
    /\ begun' = <<>>

\* Ctrl-e and Ctrl-y are no keys of these modes: the view moves every region,
\* and a half stays as it is.
Scroll(direction) ==
    /\ In(Inserting \cup {"normal"}) /\ direction \in {"Up", "Down"}
    /\ Neutral(MapSelections(buffer, LAMBDA r : SimpleMove(r, direction, Len(buffer.data), 1)), mode)
    /\ begun' = <<>>
\* Normal mode: i, a and o with their hex forms; r only changes the mode.
EnterInsert(hex) ==
    /\ In({"normal"})
    /\ Neutral(MapSelections(buffer, ToBackward), Mode("insert", hex, <<>>))
    /\ begun' = <<>>

EnterAppend(hex) ==
    /\ In({"normal"})
    /\ Neutral(MapSelections(buffer, LAMBDA r :
                   SimpleExtend(ToForward(r), "Right", Len(buffer.data), 1)),
               Mode("append", hex, <<>>))
    /\ begun' = <<>>

EnterOther(kind, hex) ==
    /\ In({"normal"}) /\ kind \in {"overwrite", "replace"}
    /\ Neutral(buffer, Mode(kind, hex, <<>>))
    /\ begun' = <<>>

\* d, and c with its hex form: the register is set even without data.
DeleteTo(m) ==
    LET yanked == YankSelections(buffer)
    IN  /\ In({"normal"})
        /\ IF buffer.data = <<>>
           THEN Neutral(yanked, m) /\ begun' = <<>>
           ELSE /\ Final(ApplyDelta(yanked, Deletion(yanked.data, yanked.selection)), m)
                /\ cut' = IF m = Normal THEN <<buffer.data>> ELSE <<>>

Yank ==
    /\ In({"normal"})
    /\ Neutral(YankSelections(buffer), mode)
    /\ begun' = <<>>

\* p and P.
PasteKey(after, count) ==
    /\ In({"normal"})
    /\ Final(ApplyDelta(buffer, Paste(buffer.data, buffer.selection, buffer.register, after, count)),
             mode)
    /\ cut' = <<>>

\* Replace mode: every key leaves it but the first digit in hex.
ReplaceWith(ch) ==
    /\ Final(ApplyDelta(buffer, Replace(buffer.data, buffer.selection, ch)), Normal)
    /\ cut' = <<>>

ReplaceNull == In({"replace"}) /\ ReplaceWith(0)

\* A character is cut to its lowest 8 bits.
ReplaceChar(ch) == In({"replace"}) /\ ~mode.hex /\ ReplaceWith(ch)

ReplaceDigit(digit) ==
    /\ In({"replace"}) /\ mode.hex
    /\ IF mode.half = <<>>
       THEN Neutral(buffer, Mode("replace", TRUE, <<digit * HexBase>>)) /\ begun' = <<>>
       ELSE ReplaceWith(mode.half[1] + digit)

ReplaceCancel ==
    /\ In({"replace"})
    /\ Neutral(buffer, Normal)
    /\ begun' = <<>>

InsertKey ==
    \/ \E char \in Chars : TypeChar(char)
    \/ \E digit \in Digit : TypeFirstDigit(digit) \/ TypeSecondDigit(digit)
    \/ InsertNull
    \/ SwitchInputMode
    \/ RemoveLast
    \/ RemoveThis
    \/ \E direction \in Direction : Arrow(direction)
    \/ Exit

NormalKey ==
    \/ \E hex \in BOOLEAN :
         \/ EnterInsert(hex)
         \/ EnterAppend(hex)
         \/ \E kind \in {"overwrite", "replace"} : EnterOther(kind, hex)
         \/ DeleteTo(Mode("insert", hex, <<>>))
    \/ DeleteTo(Normal)
    \/ Yank
    \/ \E after \in BOOLEAN, count \in Counts : PasteKey(after, count)

ReplaceKey ==
    \/ ReplaceNull
    \/ \E char \in Chars : ReplaceChar(Last(char))
    \/ \E digit \in Digit : ReplaceDigit(digit)
    \/ ReplaceCancel

\* A panic ends the program; the bound on the keys ends the run.
Stopped == (buffer.panicked \/ keys = MaxKeys) /\ UNCHANGED vars

Next ==
    \/ InsertKey
    \/ \E direction \in {"Up", "Down"} : Scroll(direction)
    \/ NormalKey
    \/ ReplaceKey
    \/ Stopped

Spec == Init /\ [][Next]_vars

-----------------------------------------------------------------------------
(***************************************************************************)
(* Properties.                                                             *)
(***************************************************************************)

\* The buffer is well formed: whatever keys are pressed, the regions stay in
\* order, apart, and within the data or on the cell past its end, so that the
\* edits of the next key fit the data.
EditingTypeOK ==
    /\ buffer.data \in Seq(Byte)
    /\ buffer.selection # <<>>
    /\ ~buffer.panicked =>
          \A n \in DOMAIN buffer.selection : MaxByte(buffer.selection[n]) <= Len(buffer.data)
    /\ \A n \in 2 .. Len(buffer.selection) :
          MaxByte(buffer.selection[n - 1]) < MinByte(buffer.selection[n])
    /\ buffer.register \in Seq(Seq(Byte)) /\ buffer.register # <<>>
    /\ buffer.partial # <<>> => mode.kind \in Inserting
    /\ mode.kind \in Inserting \cup {"normal", "replace"}

UndoAction == IF buffer.partial # <<>> THEN buffer.partial ELSE buffer.undo

\* However many keys were typed, erased or written over in one insertion, at
\* however many carets, the folded action fits the data and takes it back,
\* byte for byte, to what it was before; so does the action of a key like d, p
\* or r.  The action History::undo then pushes on the redo stack, the inverse
\* of the folded one, brings the result back.
SessionFoldsToOneAction ==
    UndoAction # <<>> =>
        LET action == UndoAction[1]
            redone == ActionInvert(action, buffer.data)
        IN  /\ action.base = Len(buffer.data) /\ DeltaApply(action, buffer.data) = original
            /\ redone.base = Len(original) /\ DeltaApply(redone, original) = buffer.data

Waiting == begun # <<>> /\ ~buffer.panicked

Carets(b) == {b.selection[n].caret : n \in DOMAIN b.selection}

\* While a half is waiting, every caret is on a byte of the data with that
\* digit in front, so the second digit writes over what the first one wrote,
\* unless Ctrl-e or Ctrl-y moved the carets.  The low digit is 0, or the old
\* one where a byte is written over.
HalfUnderCarets ==
    Waiting =>
        \A caret \in Carets(buffer) :
            /\ caret < Len(buffer.data)
            /\ buffer.data[caret + 1] =
                  mode.half[1] + IF mode.kind = "overwrite" /\ caret < Len(begun[1].data)
                                 THEN begun[1].data[caret + 1] % HexBase
                                 ELSE 0

\* The data after these edits.
Written(data, edits) == DeltaApply(Build(Len(data), edits), data)

\* Two digits are one byte: the second digit makes the data what typing the
\* whole byte would have made it, if no two carets have met since.
DigitsMakeByte ==
    Waiting /\ Len(begun[1].selection) = Len(buffer.selection) =>
        \A digit \in Digit :
            Written(buffer.data, SecondDigitEdits(buffer, mode.half[1], digit)) =
                Written(begun[1].data, CharEdits(begun[1], mode.kind, <<mode.half[1] + digit>>))

\* P right after d brings the data back, unless regions have met.
PasteUndoesDelete ==
    cut # <<>> /\ Len(buffer.selection) = Len(buffer.register) =>
        Written(buffer.data, Paste(buffer.data, buffer.selection, buffer.register, FALSE, 1)) = cut[1]

\* Where the edits of one key send the offsets of the data.
Sent(edits) ==
    LET delta == Build(Len(buffer.data), edits)
    IN  [ix \in 0 .. Len(buffer.data) |-> Moved(delta, ix, 0)]

\* Whatever key comes next, its edits are in the order the builder asserts, and
\* they move the selection by one of the maps module Selection allows; a first
\* digit sends no caret to 0, so the step back that follows stays in the data.
EditsFitSelection ==
    LET data == buffer.data
        regions == buffer.selection
        halves == {InsertAtCarets(data, regions, <<0>>), OverwriteHalf(data, regions, 0)}
        all == halves \cup
                 {Deletion(data, regions), Backspace(data, regions), DeleteCursor(data, regions),
                  Replace(data, regions, 0), Change(data, regions, <<0, 0>>),
                  InsertAtCarets(data, regions, <<0, 0>>),
                  Paste(data, regions, buffer.register, TRUE, 1),
                  Paste(data, regions, buffer.register, FALSE, 1)}
    IN  ~buffer.panicked =>
            /\ \A edits \in all :
                  /\ Sorted(edits)
                  /\ Sent(edits) \in Transforms(Len(data), Len(Build(Len(data), edits).els))
            /\ \A edits \in halves : \A caret \in Carets(buffer) : Sent(edits)[caret] >= 1

\* A key panics only in Overwrite mode, which takes the regions as they are,
\* and only when two regions lie side by side of which one alone has its caret
\* behind its tail.
OverwritePanics ==
    buffer.panicked =>
        /\ mode.kind = "overwrite"
        /\ \E n \in 2 .. Len(buffer.selection) :
              LET left == buffer.selection[n - 1]
                  right == buffer.selection[n]
              IN  /\ MaxByte(left) + 1 = MinByte(right)
                  /\ (left.caret > left.tail) # (right.caret > right.tail)

=============================================================================
