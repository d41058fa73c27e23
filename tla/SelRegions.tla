----------------------------- MODULE SelRegions -----------------------------
(***************************************************************************)
(* SelRegion of selection.rs: one selected range of bytes, both ends       *)
(* inclusive, with the caret at one end and the tail at the other.  Every  *)
(* method is a pure operator here.  An Option is a sequence of length 0 or *)
(* 1, a panic is a predicate (Mergeable) that the caller has to test.      *)
(***************************************************************************)
EXTENDS Integers, Sequences

CONSTANT BytesPerLine   \* HexView.bytes_per_line

ASSUME BytesPerLineAssumption == BytesPerLine \in Nat \ {0}

Region == [caret : Nat, tail : Nat, main : BOOLEAN]

Direction == {"Up", "Down", "Left", "Right"}

Larger(a, b) == IF a >= b THEN a ELSE b

Smaller(a, b) == IF a <= b THEN a ELSE b

SelRegion(caret, tail) == [caret |-> caret, tail |-> tail, main |-> FALSE]

\* SelRegion::max and SelRegion::min.
MaxByte(r) == Larger(r.caret, r.tail)
MinByte(r) == Smaller(r.caret, r.tail)

Bytes(r) == MinByte(r) .. MaxByte(r)

Forward(r) == r.caret >= r.tail
Backward(r) == r.caret <= r.tail

\* Variant: regions that share one byte do not overlap.
OverlapsInTwo(r, other) == MaxByte(r) > MinByte(other)

\* SelRegion::overlaps: the caller guarantees that other does not start
\* before r, so comparing one pair of ends is enough.
Overlaps(r, other) == MaxByte(r) >= MinByte(other)

ToBackward(r) == SelRegion(MinByte(r), MaxByte(r))
ToForward(r) == SelRegion(MaxByte(r), MinByte(r))
WithDirection(r, backward) == IF backward THEN ToBackward(r) ELSE ToForward(r)
InheritDirection(r, parent) == IF Forward(parent) THEN ToForward(r) ELSE ToBackward(r)
SwapCaret(r) == SelRegion(r.tail, r.caret)
Collapse(r) == SelRegion(r.caret, r.caret)

\* Variant: no floor at 0.
SteppedCaretFree(caret, direction, max_size, count) ==
    CASE direction = "Up"    -> caret - BytesPerLine * count
      [] direction = "Down"  -> Smaller(max_size, caret + BytesPerLine * count)
      [] direction = "Left"  -> caret - count
      [] direction = "Right" -> Smaller(max_size, caret + count)

\* Variant: no ceiling at the end of the data.
SteppedCaretOpen(caret, direction, max_size, count) ==
    CASE direction = "Up"    -> Larger(0, caret - BytesPerLine * count)
      [] direction = "Down"  -> caret + BytesPerLine * count
      [] direction = "Left"  -> Larger(0, caret - count)
      [] direction = "Right" -> caret + count

\* The caret position both simple_move and simple_extend compute.
SteppedCaret(caret, direction, max_size, count) ==
    CASE direction = "Up"    -> Larger(0, caret - BytesPerLine * count)
      [] direction = "Down"  -> Smaller(max_size, caret + BytesPerLine * count)
      [] direction = "Left"  -> Larger(0, caret - count)
      [] direction = "Right" -> Smaller(max_size, caret + count)

SimpleMove(r, direction, max_size, count) ==
    LET caret == SteppedCaret(r.caret, direction, max_size, count)
    IN  IF max_size = 0 THEN r ELSE SelRegion(caret, caret)

SimpleExtend(r, direction, max_size, count) ==
    IF max_size = 0
    THEN r
    ELSE SelRegion(SteppedCaret(r.caret, direction, max_size, count), r.tail)

\* The caret position both jump_to_boundary and extend_to_boundary compute.
BoundaryCaret(caret, direction, max_size) ==
    LET line_start == caret - (caret % BytesPerLine)
    IN  CASE direction = "Up"    -> 0
          [] direction = "Down"  -> max_size - 1
          [] direction = "Left"  -> line_start
          [] direction = "Right" -> Smaller(line_start + BytesPerLine - 1, max_size - 1)

JumpTo(r, offset) == SelRegion(offset, offset)
ExtendTo(r, offset) == SelRegion(offset, r.tail)

JumpToBoundary(r, direction, max_size) ==
    LET caret == BoundaryCaret(r.caret, direction, max_size)
    IN  IF max_size = 0 THEN r ELSE SelRegion(caret, caret)

ExtendToBoundary(r, direction, max_size) ==
    IF max_size = 0
    THEN r
    ELSE SelRegion(BoundaryCaret(r.caret, direction, max_size), r.tail)

(***************************************************************************)
(* merge: two regions going the same way become their hull; two single     *)
(* bytes go both ways and have to be the same byte.  Anything else panics. *)
(***************************************************************************)
BothForward(r, other) == Forward(r) /\ Forward(other)
BothBackward(r, other) == Backward(r) /\ Backward(other)

\* Variant: two cursors on one byte are not merged.
MergeableOneWay(r, other) == BothForward(r, other) # BothBackward(r, other)

Mergeable(r, other) ==
    \/ BothForward(r, other) /\ BothBackward(r, other) /\ r.caret = other.caret
    \/ BothForward(r, other) # BothBackward(r, other)

\* Variant: the merged region is main if the later one is.
MergeLaterFlag(r, other) ==
    [caret |-> IF BothForward(r, other) THEN Larger(r.caret, other.caret)
                                        ELSE Smaller(r.caret, other.caret),
     tail  |-> IF BothForward(r, other) THEN Smaller(r.tail, other.tail)
                                        ELSE Larger(r.tail, other.tail),
     main  |-> other.main]

\* Variant: the earlier region swallows the later one.
MergeFirst(r, other) == [r EXCEPT !.main = r.main \/ other.main]

\* Variant: the later region swallows the earlier one.
MergeLast(r, other) == [other EXCEPT !.main = r.main \/ other.main]

Merge(r, other) ==
    [caret |-> IF BothForward(r, other) THEN Larger(r.caret, other.caret)
                                        ELSE Smaller(r.caret, other.caret),
     tail  |-> IF BothForward(r, other) THEN Smaller(r.tail, other.tail)
                                        ELSE Larger(r.tail, other.tail),
     main  |-> r.main \/ other.main]

\* Split mode's Action::Width: pieces of width bytes, the last one shorter.
SplitWidth(r, width) ==
    [k \in 1 .. ((MaxByte(r) - MinByte(r)) \div width) + 1 |->
        LET pos == MinByte(r) + (k - 1) * width
        IN  WithDirection(SelRegion(pos, Smaller(MaxByte(r), pos + width - 1)),
                          Backward(r))]

\* Variant: a range at the start of the region leaves a piece before it.
SplitAtRegionEmpty(r, start, end) ==
    LET both == start > MinByte(r) /\ end < MaxByte(r)
        Kept(piece) == IF both THEN piece ELSE InheritDirection(piece, r)
    IN  [left  |-> IF start < MinByte(r) THEN <<>>
                   ELSE <<Kept(SelRegion(MinByte(r), start - 1))>>,
         right |-> IF end >= MaxByte(r) THEN <<>>
                   ELSE <<Kept(SelRegion(end + 1, MaxByte(r)))>>]

\* Variant: the piece before the range is lost when both sides remain.
SplitAtRegionLater(r, start, end) ==
    LET both == start > MinByte(r) /\ end < MaxByte(r)
        Kept(piece) == IF both THEN piece ELSE InheritDirection(piece, r)
    IN  [left  |-> IF start <= MinByte(r) \/ both THEN <<>>
                   ELSE <<Kept(SelRegion(MinByte(r), start - 1))>>,
         right |-> IF end >= MaxByte(r) THEN <<>>
                   ELSE <<Kept(SelRegion(end + 1, MaxByte(r)))>>]

(***************************************************************************)
(* split_at_region: what is left of a region before and after a range that *)
(* is cut out.  When both sides remain they do not inherit its direction:  *)
(* SelRegion::new leaves them backward.                                    *)
(***************************************************************************)
SplitAtRegion(r, start, end) ==
    LET both == start > MinByte(r) /\ end < MaxByte(r)
        Kept(piece) == IF both THEN piece ELSE InheritDirection(piece, r)
    IN  [left  |-> IF start <= MinByte(r) THEN <<>>
                   ELSE <<Kept(SelRegion(MinByte(r), start - 1))>>,
         right |-> IF end >= MaxByte(r) THEN <<>>
                   ELSE <<Kept(SelRegion(end + 1, MaxByte(r)))>>]

(***************************************************************************)
(* xi-rope's Transformer sends an offset of the old data to one of the new *)
(* data; the maps it can produce are the monotone ones that end at the new *)
(* length (a step of 1 is a kept byte, a step of 0 a deleted one, a larger *)
(* step has bytes inserted).                                               *)
(***************************************************************************)
Transforms(max_len, new_max_len) ==
    {t \in [0 .. max_len -> 0 .. new_max_len] :
        /\ t[max_len] = new_max_len
        /\ \A x, y \in 0 .. max_len : x <= y => t[x] <= t[y]}

=============================================================================
