----------------------------- MODULE Operations -----------------------------
(***************************************************************************)
(* The edits of operations.rs.  Every operator takes the data and the      *)
(* regions of the selection, in their order, and gives the list of edits   *)
(* the function hands to xi-rope's DeltaBuilder: replace the bytes from    *)
(* start up to and excluding end by text.  end may be one past the data,   *)
(* for a region on the overflow cell.  data[x + 1] is the byte at offset   *)
(* x; a byte has two digits of base HexBase.                               *)
(***************************************************************************)
EXTENDS Deltas, SelRegions

CONSTANT HexBase   \* 16, the base of the two digits of a byte

ASSUME HexBaseAssumption == HexBase \in Nat \ {0, 1}

Edit(start, end, text) == [start |-> start, end |-> end, text |-> text]

\* for region in selection.iter(): one value each.
Each(regions, value(_)) == Strict([n \in DOMAIN regions |-> value(regions[n])])

Deletion(data, regions) ==
    Each(regions, LAMBDA r : Edit(MinByte(r), MaxByte(r) + 1, <<>>))

\* Variant: the caret at the beginning of the data is not skipped.
BackspaceAll(data, regions) ==
    Each(regions, LAMBDA r : Edit(Larger(0, r.caret - 1), Larger(1, r.caret), <<>>))

Backspace(data, regions) ==
    Each(SelectSeq(regions, LAMBDA r : r.caret > 0),
             LAMBDA r : Edit(r.caret - 1, r.caret, <<>>))

DeleteCursor(data, regions) ==
    Each(SelectSeq(regions, LAMBDA r : r.caret < Len(data)),
             LAMBDA r : Edit(r.caret, r.caret + 1, <<>>))

\* operations::insert; Insert is a delta element of module Deltas.
InsertAtCarets(data, regions, text) ==
    Each(regions, LAMBDA r : Edit(r.caret, r.caret, text))

Repeated(text, count) == FlattenSeq([x \in 1 .. count |-> text])

\* Variant: every region gets the first value of the register.
PasteFirst(data, regions, register, after, count) ==
    Strict([n \in DOMAIN regions |->
        LET insert_pos == IF after THEN Smaller(Len(data), MaxByte(regions[n]) + 1)
                                   ELSE MinByte(regions[n])
        IN  Edit(insert_pos, insert_pos, Repeated(register[1], count))])

\* The values of the register go to the regions in order, the last one to all
\* that remain.
Paste(data, regions, register, after, count) ==
    Strict([n \in DOMAIN regions |->
        LET insert_pos == IF after THEN Smaller(Len(data), MaxByte(regions[n]) + 1)
                                   ELSE MinByte(regions[n])
            pasted == register[Smaller(n, Len(register))]
        IN  Edit(insert_pos, insert_pos, Repeated(pasted, count))])

\* Variant: the whole region is written over.
ChangeRegion(data, regions, text) ==
    Each(regions, LAMBDA r : Edit(MinByte(r), MaxByte(r) + 1, text))

Change(data, regions, text) ==
    Each(regions, LAMBDA r : Edit(r.caret, r.caret + 1, text))

\* Variant: the low digit is cleared.
OverwriteHalfClearing(data, regions, top) ==
    Each(regions, LAMBDA r : Edit(r.caret, r.caret + 1, <<top>>))

\* The high digit is written over, the low one stays.
OverwriteHalf(data, regions, top) ==
    Each(regions, LAMBDA r :
        Edit(r.caret, r.caret + 1,
             <<top + IF Len(data) > r.caret THEN data[r.caret + 1] % HexBase ELSE 0>>))

Replace(data, regions, ch) ==
    Each(regions, LAMBDA r :
        Edit(MinByte(r), MaxByte(r) + 1, [x \in 1 .. MaxByte(r) - MinByte(r) + 1 |-> ch]))

-----------------------------------------------------------------------------
(* xi_rope::DeltaBuilder and xi_rope::Transformer                          *)

\* Each edit has to start where the one before it ended, or later: the builder
\* asserts it.
Sorted(edits) == \A n \in 2 .. Len(edits) : edits[n].start >= edits[n - 1].end

Copies(from, to) == [x \in 1 .. to - from |-> Copy(from + x)]

Build(base_len, edits) ==
    LET Add(built, edit) ==
            [last_offset |-> edit.end,
             els |-> built.els \o Copies(built.last_offset, edit.start)
                        \o [x \in DOMAIN edit.text |-> Insert(edit.text[x])]]
        built == FoldLeft(Add, [last_offset |-> 0, els |-> <<>>], edits)
    IN  [base |-> base_len,
         els |-> Strict(built.els \o Copies(built.last_offset, base_len))]

\* transform(ix, true): where the first byte at ix or later that is kept ends
\* up, behind everything inserted in front of it.
Transform(delta, ix) ==
    LET first == SelectInSeq(delta.els, LAMBDA el : el[1] = "copy" /\ el[2] > ix)
    IN  IF first = 0 THEN Len(delta.els) ELSE first - 1

=============================================================================
