----------------------------- MODULE Selection ------------------------------
(***************************************************************************)
(* The multiple selection of a buffer (selection.rs) and the normal mode   *)
(* operations that change it.  Bytes are not modelled here, only how many  *)
(* are loaded (len).  Every operation that goes through map_selections     *)
(* runs its loop one new region at a time: StartMapping, then PushRegion   *)
(* and CloseRegion until FinishMapping.  A panic of the program leaves     *)
(* status "panicked" for good.                                             *)
(*                                                                         *)
(* Indices are 1-based: main_selection + 1 of the code is main_selection   *)
(* here, and so are the indices of Remove and Retain.                      *)
(***************************************************************************)
EXTENDS SelRegions

CONSTANTS MaxLen,    \* bound on the length of the loaded data
          Counts,    \* counts a command can be given
          Offsets,   \* offsets <count>g and <count>G can be given
          Widths     \* width * count of Split mode

ASSUME SelectionAssumption ==
    /\ MaxLen \in Nat
    /\ Counts \subseteq Nat
    /\ Offsets \subseteq Nat
    /\ Widths \subseteq Nat

VARIABLES
    len,              \* CurrentBuffer.data.len()
    regions,          \* Selection.regions
    main_selection,   \* Selection.main_selection
    status,           \* "idle", "mapping" or "panicked"
    op,               \* the operation whose loop runs, "none" when idle
    mapped,           \* mapped[i] is the vector f(regions[i])
    i, k,             \* the loop looks at mapped[i][k]
    regions_out,      \* regions_out of map_selections
    new_main_sel,     \* new_main_sel of map_selections
    overjump,         \* history: some jump went past the end of the data
    removed_other     \* history: some remove took a region other than main

selection == <<regions, main_selection>>
loop == <<mapped, i, k, regions_out, new_main_sel>>
history == <<overjump, removed_other>>
vars == <<len, selection, status, op, loop, history>>

-----------------------------------------------------------------------------

MainRegion(r) == [r EXCEPT !.main = TRUE]

\* Selection::default and Selection::clear.
Cleared == <<MainRegion(SelRegion(0, 0))>>

Init ==
    /\ len \in 0 .. MaxLen
    /\ regions = Cleared
    /\ main_selection = 1
    /\ status = "idle"
    /\ op = "none"
    /\ mapped = <<>>
    /\ i = 1
    /\ k = 1
    /\ regions_out = <<>>
    /\ new_main_sel = 1
    /\ overjump = FALSE
    /\ removed_other = FALSE

-----------------------------------------------------------------------------
(***************************************************************************)
(* The loop of map_selections.                                             *)
(***************************************************************************)

StartMapping(name, new) ==
    /\ status = "idle"
    /\ status' = "mapping"
    /\ op' = name
    /\ mapped' = new
    /\ i' = 1
    /\ k' = 1
    /\ regions_out' = <<>>
    /\ new_main_sel' = 1
    /\ UNCHANGED selection

LastOut == regions_out[Len(regions_out)]

\* Push the new region, or merge it into the last one if they overlap.
PushRegion ==
    /\ status = "mapping"
    /\ i <= Len(mapped)
    /\ k <= Len(mapped[i])
    /\ LET new_region == mapped[i][k]
           clear_of_last == regions_out = <<>> \/ ~Overlaps(LastOut, new_region)
       IN  IF clear_of_last \/ Mergeable(LastOut, new_region)
           THEN /\ regions_out' =
                     IF clear_of_last
                     THEN Append(regions_out, new_region)
                     ELSE [regions_out EXCEPT ![Len(regions_out)] =
                                                 Merge(LastOut, new_region)]
                /\ k' = k + 1
                /\ UNCHANGED status
           ELSE /\ status' = "panicked"
                /\ UNCHANGED <<regions_out, k>>
    /\ UNCHANGED <<len, selection, op, mapped, i, new_main_sel, history>>

\* All of f(regions[i]) is pushed: the main region's index is taken here, and
\* len() - 1 underflows when nothing has been pushed so far.
CloseRegion ==
    /\ status = "mapping"
    /\ i <= Len(mapped)
    /\ k > Len(mapped[i])
    /\ IF i = main_selection /\ regions_out = <<>>
       THEN /\ status' = "panicked"
            /\ UNCHANGED <<i, k, regions_out, new_main_sel>>
       ELSE /\ i' = i + 1
            /\ k' = 1
            /\ IF i = main_selection
               THEN /\ new_main_sel' = Len(regions_out)
                    /\ regions_out' = [regions_out EXCEPT ![Len(regions_out)] =
                                                             MainRegion(LastOut)]
               ELSE UNCHANGED <<new_main_sel, regions_out>>
            /\ UNCHANGED status
    /\ UNCHANGED <<len, selection, op, mapped, history>>

FinishMapping ==
    /\ status = "mapping"
    /\ i > Len(mapped)
    /\ status' = "idle"
    /\ regions' = regions_out
    /\ main_selection' = new_main_sel
    /\ mapped' = <<>>
    /\ i' = 1
    /\ k' = 1
    /\ regions_out' = <<>>
    /\ new_main_sel' = 1
    /\ op' = "none"
    /\ UNCHANGED <<len, history>>

Looping == PushRegion \/ CloseRegion \/ FinishMapping

\* A panic unwinds out of the event loop: nothing happens any more.
Halted == status = "panicked" /\ UNCHANGED vars

-----------------------------------------------------------------------------
(***************************************************************************)
(* Operations that map every region to exactly one new region.             *)
(***************************************************************************)

Regions1(new(_)) == [n \in DOMAIN regions |-> <<new(regions[n])>>]

Move(direction, count) ==
    /\ StartMapping("move", Regions1(LAMBDA r : SimpleMove(r, direction, len, count)))
    /\ UNCHANGED <<len, history>>

Extend(direction, count) ==
    /\ StartMapping("extend", Regions1(LAMBDA r : SimpleExtend(r, direction, len, count)))
    /\ UNCHANGED <<len, history>>

\* Insert mode's arrow keys with half a hex byte typed: step, then step back.
MoveFromHalf(direction) ==
    /\ StartMapping("move_from_half",
           Regions1(LAMBDA r :
               SimpleMove(SimpleMove(r, direction, len, 1), "Left", len, 1)))
    /\ UNCHANGED <<len, history>>

\* <count>g and <count>G: nothing clamps the offset.
JumpToOffset(offset) ==
    /\ StartMapping("jump_to", Regions1(LAMBDA r : JumpTo(r, offset)))
    /\ overjump' = (overjump \/ offset > len)
    /\ UNCHANGED <<len, removed_other>>

ExtendToOffset(offset) ==
    /\ StartMapping("extend_to", Regions1(LAMBDA r : ExtendTo(r, offset)))
    /\ overjump' = (overjump \/ offset > len)
    /\ UNCHANGED <<len, removed_other>>

JumpBoundary(direction) ==
    /\ StartMapping("jump_boundary",
           Regions1(LAMBDA r : JumpToBoundary(r, direction, len)))
    /\ UNCHANGED <<len, history>>

ExtendBoundary(direction) ==
    /\ StartMapping("extend_boundary",
           Regions1(LAMBDA r : ExtendToBoundary(r, direction, len)))
    /\ UNCHANGED <<len, history>>

SwapCarets ==
    /\ StartMapping("swap_caret", Regions1(SwapCaret))
    /\ UNCHANGED <<len, history>>

CollapseAll ==
    /\ StartMapping("collapse", Regions1(Collapse))
    /\ UNCHANGED <<len, history>>

\* Entering Insert mode with i / I, and with a / A.
EnterInsert ==
    /\ StartMapping("to_backward", Regions1(ToBackward))
    /\ UNCHANGED <<len, history>>

EnterAppend ==
    /\ StartMapping("append",
           Regions1(LAMBDA r : SimpleExtend(ToForward(r), "Right", len, 1)))
    /\ UNCHANGED <<len, history>>

(***************************************************************************)
(* Split mode's fixed widths: the only operation here that makes several   *)
(* regions out of one.  step_by(0) panics.                                 *)
(***************************************************************************)
SplitByWidth(width) ==
    /\ status = "idle"
    /\ IF width = 0
       THEN /\ status' = "panicked"
            /\ op' = "split_width"
            /\ UNCHANGED <<selection, loop>>
       ELSE StartMapping("split_width",
                         [n \in DOMAIN regions |-> SplitWidth(regions[n], width)])
    /\ UNCHANGED <<len, history>>

(***************************************************************************)
(* An edit moves the offsets of the selection by one of Transforms.        *)
(***************************************************************************)
Transformed(t, x, new_max_len) == IF x >= len THEN new_max_len ELSE t[x]

\* Selection::clear, when no data is left.
ClearSelection ==
    /\ status = "idle"
    /\ regions' = Cleared
    /\ main_selection' = 1
    /\ UNCHANGED <<status, op, loop>>

ApplyDelta(t, new_max_len) ==
    /\ IF new_max_len = 0
       THEN ClearSelection
       ELSE StartMapping("delta",
                Regions1(LAMBDA r : SelRegion(Transformed(t, r.caret, new_max_len),
                                              Transformed(t, r.tail, new_max_len))))
    /\ len' = new_max_len
    /\ UNCHANGED history

\* apply_delta_offset_carets(delta, -1, 0): the first digit of a hex byte has
\* been inserted at, or written over, every caret.
ApplyDeltaHalf(t, new_max_len) ==
    /\ \A n \in DOMAIN regions : Transformed(t, regions[n].caret, new_max_len) >= 1
    /\ StartMapping("delta_half",
           Regions1(LAMBDA r : SelRegion(Transformed(t, r.caret, new_max_len) - 1,
                                         Transformed(t, r.tail, new_max_len))))
    /\ len' = new_max_len
    /\ UNCHANGED history

-----------------------------------------------------------------------------
(***************************************************************************)
(* Operations that change the selection in place.                          *)
(***************************************************************************)

InPlace(new_regions, new_main) ==
    /\ status = "idle"
    /\ regions' = new_regions
    /\ main_selection' = new_main
    /\ UNCHANGED <<len, status, op, loop, overjump>>

WithMain(rs, index) == [rs EXCEPT ![index] = MainRegion(@)]

WithoutIndex(rs, index) ==
    [n \in 1 .. Len(rs) - 1 |-> IF n < index THEN rs[n] ELSE rs[n + 1]]

\* index % len of CurrentBuffer::remove_selection and retain_selection.
Wrapped(index) == (index % Len(regions)) + 1

Retain(index) ==
    /\ InPlace(<<MainRegion(regions[index])>>, 1)
    /\ UNCHANGED removed_other

Remove(index) ==
    LET new_main == Smaller(Len(regions) - 1, main_selection)
    IN  /\ IF Len(regions) = 1
           THEN InPlace(regions, main_selection)
           ELSE InPlace(WithMain(WithoutIndex(regions, index), new_main), new_main)
        /\ removed_other' = (removed_other \/ index # main_selection)

\* Variant: the old main region keeps its flag.
SwitchedBoth(new_main) == WithMain(regions, new_main)

Switched(new_main) ==
    WithMain([regions EXCEPT ![main_selection].main = FALSE], new_main)

SelectNext(count) ==
    LET new_main == ((main_selection - 1 + count) % Len(regions)) + 1
    IN  /\ InPlace(Switched(new_main), new_main)
        /\ UNCHANGED removed_other

SelectPrev(count) ==
    LET new_main == ((main_selection - 1 + Len(regions) - (count % Len(regions)))
                        % Len(regions)) + 1
    IN  /\ InPlace(Switched(new_main), new_main)
        /\ UNCHANGED removed_other

SelectAll ==
    /\ InPlace(IF len = 0 THEN Cleared ELSE <<MainRegion(SelRegion(len - 1, 0))>>, 1)
    /\ UNCHANGED removed_other

\* load_next_chunk appends to the data and leaves the selection alone.
LoadNextChunk(new_len) ==
    /\ status = "idle"
    /\ new_len \in len + 1 .. MaxLen
    /\ len' = new_len
    /\ UNCHANGED <<selection, status, op, loop, history>>

-----------------------------------------------------------------------------

Mapping ==
    \/ \E direction \in Direction :
         \/ \E count \in Counts : Move(direction, count) \/ Extend(direction, count)
         \/ MoveFromHalf(direction)
         \/ JumpBoundary(direction)
         \/ ExtendBoundary(direction)
    \/ \E offset \in Offsets : JumpToOffset(offset) \/ ExtendToOffset(offset)
    \/ SwapCarets
    \/ CollapseAll
    \/ EnterInsert
    \/ EnterAppend
    \/ \E width \in Widths : SplitByWidth(width)

Editing ==
    \E new_max_len \in 0 .. MaxLen : \E t \in Transforms(len, new_max_len) :
        ApplyDelta(t, new_max_len) \/ ApplyDeltaHalf(t, new_max_len)

Choosing ==
    \/ Retain(main_selection)
    \/ Remove(main_selection)
    \/ \E count \in Counts \ {0} : Retain(Wrapped(count - 1)) \/ Remove(Wrapped(count - 1))
    \/ \E count \in Counts : SelectNext(count) \/ SelectPrev(count)
    \/ SelectAll

Next ==
    \/ Looping
    \/ Mapping
    \/ Editing
    \/ Choosing
    \/ \E new_len \in 1 .. MaxLen : LoadNextChunk(new_len)
    \/ Halted

Spec == Init /\ [][Next]_vars

-----------------------------------------------------------------------------
(***************************************************************************)
(* Properties.                                                             *)
(***************************************************************************)

\* The state is well formed through every step of map_selections and of the
\* commands: no caret, index or loop counter underflows.
TypeOK ==
    /\ len \in Nat
    /\ regions \in Seq(Region)
    /\ main_selection \in Nat
    /\ status \in {"idle", "mapping", "panicked"}
    /\ mapped \in Seq(Seq(Region))
    /\ i \in Nat
    /\ k \in Nat
    /\ regions_out \in Seq(Region)
    /\ new_main_sel \in Nat
    /\ overjump \in BOOLEAN
    /\ removed_other \in BOOLEAN

Separated(rs) ==
    \A a, b \in DOMAIN rs : a < b => MaxByte(rs[a]) < MinByte(rs[b])

\* "regions should be sorted by starting points", "regions should not
\* overlap" (selection.rs:9-10): whatever operations ran, each region ends
\* before the next one begins.
RegionsSortedDisjoint == Separated(regions)

\* main_selection is an index of regions and the region there carries the
\* flag by which the view finds the main cursor: main() and is_main() agree,
\* however many regions were merged, split or removed.
MainIsFlagged ==
    /\ main_selection \in DOMAIN regions
    /\ regions[main_selection].main

\* No region but the main one is flagged, unless a counted remove took away
\* a region other than the main one: remove leaves main_selection where it
\* was, flags whatever is there now and never unflags the old main region.
OneMainFlag ==
    removed_other \/ \A n \in DOMAIN regions : regions[n].main => n = main_selection

\* The loop of map_selections has been over mapped[a][p].
Seen(a, p) == a < i \/ (a = i /\ p < k)

\* Merging keeps every byte: at each step of map_selections the regions put
\* out so far select exactly the bytes of the new regions seen so far.
MergingKeepsBytes ==
    status = "mapping" =>
        UNION {Bytes(regions_out[n]) : n \in DOMAIN regions_out} =
        UNION {UNION {Bytes(mapped[a][p]) : p \in {q \in DOMAIN mapped[a] : Seen(a, q)}} :
                  a \in DOMAIN mapped}

\* The main region stays with its bytes: once map_selections is past the main
\* region, the region at new_main_sel holds the last region made from it,
\* also after later regions were merged into it.
MainFollowsItsRegion ==
    status = "mapping" /\ i > main_selection =>
        LET made == mapped[main_selection]
        IN  Bytes(made[Len(made)]) \subseteq Bytes(regions_out[new_main_sel])

\* Carets and tails stay within the data, or one past its end (the overflow
\* cursor), as long as no <count>g or <count>G went past the end.
CaretsWithinData ==
    status = "idle" /\ ~overjump =>
        \A n \in DOMAIN regions : MaxByte(regions[n]) <= len

MixedDirections ==
    \E a, b \in DOMAIN regions : ~Forward(regions[a]) /\ ~Backward(regions[b])

\* The last step of an operation panics because merge is given two regions
\* that run in opposite directions, or step_by a width of 0.
PanicCause ==
    \/ op = "split_width" /\ 0 \in Widths
    \/ op \in {"extend", "append"} /\ overjump
    \/ op = "delta" /\ MixedDirections
    \/ op = "delta_half" /\ \E n \in DOMAIN regions : ~Backward(regions[n])
    \/ /\ op \in {"extend_to", "extend_boundary"}
       /\ \E a, b \in DOMAIN regions :
            /\ a < b
            /\ regions[a].tail < mapped[a][1].caret
            /\ mapped[b][1].caret < regions[b].tail

\* What can make the program panic here, and nothing else: a split width of
\* 0; an edit, when some region runs forward and another backward; the first
\* digit of a hex byte, when some region runs forward; and <count>G or G with
\* h or j, when the new caret lies between two regions' tails.  Moving,
\* swapping, collapsing and entering Insert mode never panic, and extending
\* by steps does so only after a jump past the end of the data.
PanicCauses == status = "panicked" => PanicCause

-----------------------------------------------------------------------------
(***************************************************************************)
(* The inductive invariant behind RegionsSortedDisjoint and MainIsFlagged. *)
(* No new region starts before one the loop meets earlier (Ordered), so    *)
(* the last region put out starts no later than any still to come          *)
(* (OpenEnded): merging can only extend it to the right.                   *)
(***************************************************************************)
Before(a, p, b, q) == a < b \/ (a = b /\ p <= q)

Ordered(new) ==
    \A a, b \in DOMAIN new : \A p \in DOMAIN new[a], q \in DOMAIN new[b] :
        Before(a, p, b, q) => MinByte(new[a][p]) <= MinByte(new[b][q])

OpenEnded ==
    regions_out # <<>> =>
        \A a \in DOMAIN mapped : \A p \in DOMAIN mapped[a] :
            ~Seen(a, p) => MinByte(LastOut) <= MinByte(mapped[a][p])

LoopInv ==
    /\ Len(mapped) = Len(regions)
    /\ i \in 1 .. Len(mapped) + 1
    /\ k >= 1
    /\ Ordered(mapped)
    /\ Separated(regions_out)
    /\ OpenEnded
    /\ i > main_selection =>
          new_main_sel \in DOMAIN regions_out /\ regions_out[new_main_sel].main

IndInv ==
    /\ TypeOK
    /\ RegionsSortedDisjoint
    /\ MainIsFlagged
    /\ status = "mapping" => LoopInv

=============================================================================
