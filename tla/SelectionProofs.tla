--------------------------- MODULE SelectionProofs --------------------------
(***************************************************************************)
(* Proofs about the selection, for every line length, data length, count,  *)
(* offset and split width.  The heart of it: every operation maps regions  *)
(* in order to new regions in order, and the loop of map_selections turns  *)
(* such new regions into sorted, disjoint ones.  First come the lemmas on  *)
(* regions, sequences of regions and the loop, which the proofs about      *)
(* searches use too; then one per command.                                 *)
(***************************************************************************)
EXTENDS Selection, SequenceTheorems, TLAPS

-----------------------------------------------------------------------------
(* Regions.                                                                *)

\* The ends of a region are its caret and tail, in order.
LEMMA RegionEnds ==
    ASSUME NEW r \in Region
    PROVE  /\ MinByte(r) \in Nat
           /\ MaxByte(r) \in Nat
           /\ MinByte(r) <= r.caret /\ r.caret <= MaxByte(r)
           /\ MinByte(r) <= r.tail /\ r.tail <= MaxByte(r)
           /\ MinByte(r) = r.caret \/ MinByte(r) = r.tail
           /\ MaxByte(r) = r.caret \/ MaxByte(r) = r.tail
  BY DEF Region, MinByte, MaxByte, Smaller, Larger

\* SelRegion::new.
LEMMA NewRegion ==
    ASSUME NEW c \in Nat, NEW t \in Nat
    PROVE  /\ SelRegion(c, t) \in Region
           /\ MinByte(SelRegion(c, t)) = Smaller(c, t)
           /\ MaxByte(SelRegion(c, t)) = Larger(c, t)
  BY Zenon DEF Region, SelRegion, MinByte, MaxByte

\* Flagging a region main does not move it.
LEMMA MainRegionEnds ==
    ASSUME NEW r \in Region
    PROVE  /\ MainRegion(r) \in Region
           /\ MainRegion(r).main
           /\ MinByte(MainRegion(r)) = MinByte(r)
           /\ MaxByte(MainRegion(r)) = MaxByte(r)
  BY Zenon DEF Region, MainRegion, MinByte, MaxByte

\* merge: if the second region does not start before the first, the result
\* starts where the first one does, and it keeps the main flag.
LEMMA MergeEnds ==
    ASSUME NEW r \in Region, NEW other \in Region,
           Mergeable(r, other), MinByte(r) <= MinByte(other)
    PROVE  /\ Merge(r, other) \in Region
           /\ MinByte(Merge(r, other)) = MinByte(r)
           /\ r.main => Merge(r, other).main
  <1>1. Merge(r, other) \in Region
    BY Zenon DEF Region, Merge, Larger, Smaller
  <1>2. MinByte(Merge(r, other)) = MinByte(r)
    BY DEF Region, Merge, Mergeable, BothForward, BothBackward, Forward, Backward,
           MinByte, Larger, Smaller
  <1>3. r.main => Merge(r, other).main
    BY Zenon DEF Merge
  <1> QED BY <1>1, <1>2, <1>3, Zenon

-----------------------------------------------------------------------------
(* Sequences of regions.                                                   *)

\* A region appended after the last one leaves the regions sorted and
\* disjoint.
LEMMA AppendSeparated ==
    ASSUME NEW rs \in Seq(Region), NEW r \in Region, Separated(rs),
           rs = <<>> \/ MaxByte(rs[Len(rs)]) < MinByte(r)
    PROVE  /\ Append(rs, r) \in Seq(Region)
           /\ Separated(Append(rs, r))
  <1> DEFINE new == Append(rs, r)
  <1>1. /\ new \in Seq(Region)
        /\ Len(new) = Len(rs) + 1
        /\ \A n \in 1 .. Len(rs) : new[n] = rs[n]
        /\ new[Len(rs) + 1] = r
    BY AppendProperties
  <1>2. \A n \in 1 .. Len(rs) : rs[n] \in Region
    BY ElementOfSeq, Zenon
  <1>3. DOMAIN rs = 1 .. Len(rs) /\ DOMAIN new = 1 .. Len(rs) + 1 /\ Len(rs) \in Nat
    BY <1>1, LenProperties, Zenon
  <1>4. ASSUME NEW a \in DOMAIN new, NEW b \in DOMAIN new, a < b
        PROVE  MaxByte(new[a]) < MinByte(new[b])
    <2>1. CASE b <= Len(rs)
      BY <2>1, <1>1, <1>3, <1>4 DEF Separated
    <2>2. CASE b = Len(rs) + 1
      <3>1. a \in 1 .. Len(rs) /\ Len(rs) \in 1 .. Len(rs) /\ rs # <<>>
        BY <2>2, <1>3, <1>4, EmptySeq
      <3>2. a = Len(rs) \/ MaxByte(rs[a]) < MinByte(rs[Len(rs)])
        BY <3>1, <1>3 DEF Separated
      <3>3. MinByte(rs[Len(rs)]) <= MaxByte(rs[Len(rs)])
        BY <3>1, <1>2, RegionEnds, Zenon
      <3>4. /\ MaxByte(rs[a]) \in Nat /\ MinByte(rs[Len(rs)]) \in Nat
            /\ MaxByte(rs[Len(rs)]) \in Nat /\ MinByte(r) \in Nat
        BY <3>1, <1>2, RegionEnds, Zenon
      <3>5. new[a] = rs[a] /\ new[b] = r
        BY <2>2, <3>1, <1>1, Zenon
      <3> HIDE DEF new
      <3> QED BY <3>1, <3>2, <3>3, <3>4, <3>5
    <2> QED BY <2>1, <2>2, <1>3
  <1> QED BY <1>1, <1>4, Zenon DEF Separated

\* So does one put in place of the last one that does not start earlier.
LEMMA ReplaceLastSeparated ==
    ASSUME NEW rs \in Seq(Region), NEW r \in Region, Separated(rs), rs # <<>>,
           MinByte(rs[Len(rs)]) <= MinByte(r)
    PROVE  LET new == [rs EXCEPT ![Len(rs)] = r]
           IN  /\ new \in Seq(Region)
               /\ Len(new) = Len(rs)
               /\ new[Len(rs)] = r
               /\ \A n \in 1 .. Len(rs) : n # Len(rs) => new[n] = rs[n]
               /\ Separated(new)
  <1> DEFINE new == [rs EXCEPT ![Len(rs)] = r]
  <1>1. DOMAIN rs = 1 .. Len(rs) /\ Len(rs) \in 1 .. Len(rs) /\ Len(rs) \in Nat
    BY LenProperties, EmptySeq
  <1>2. /\ new \in Seq(Region)
        /\ Len(new) = Len(rs)
        /\ \A n \in 1 .. Len(rs) : new[n] = IF n = Len(rs) THEN r ELSE rs[n]
    BY <1>1, ExceptSeq, Zenon
  <1>3. \A n \in 1 .. Len(rs) : rs[n] \in Region
    BY ElementOfSeq, Zenon
  <1>4. ASSUME NEW a \in DOMAIN new, NEW b \in DOMAIN new, a < b
        PROVE  MaxByte(new[a]) < MinByte(new[b])
    <2>1. a \in 1 .. Len(rs) /\ b \in 1 .. Len(rs) /\ a # Len(rs)
      BY <1>1, <1>4
    <2>2. MaxByte(rs[a]) < MinByte(rs[b])
      BY <2>1, <1>1, <1>4, Zenon DEF Separated
    <2>3. /\ MaxByte(rs[a]) \in Nat /\ MinByte(rs[b]) \in Nat /\ MinByte(r) \in Nat
      BY <2>1, <1>3, RegionEnds, Zenon
    <2>4. MinByte(rs[b]) <= MinByte(new[b])
      BY <2>1, <2>3, <1>2
    <2>5. new[a] = rs[a] /\ MinByte(new[b]) \in Nat
      BY <2>1, <2>3, <1>2, Zenon
    <2> HIDE DEF new
    <2> QED BY <2>2, <2>3, <2>4, <2>5
  <1> QED BY <1>2, <1>1, <1>4, Zenon DEF Separated

\* Flagging a region main leaves the regions sorted and disjoint.
LEMMA WithMainSeparated ==
    ASSUME NEW rs \in Seq(Region), Separated(rs), NEW index \in DOMAIN rs
    PROVE  /\ WithMain(rs, index) \in Seq(Region)
           /\ Separated(WithMain(rs, index))
           /\ index \in DOMAIN WithMain(rs, index)
           /\ WithMain(rs, index)[index].main
  <1> DEFINE new == WithMain(rs, index)
  <1>1. DOMAIN rs = 1 .. Len(rs) /\ rs[index] \in Region
    BY LenProperties, ElementOfSeq, Zenon
  <1>2. MainRegion(rs[index]) \in Region /\ MainRegion(rs[index]).main
    BY <1>1, MainRegionEnds, Zenon
  <1>3. /\ new = [rs EXCEPT ![index] = MainRegion(rs[index])]
        /\ new \in Seq(Region) /\ DOMAIN new = DOMAIN rs
        /\ \A n \in DOMAIN rs : new[n] = IF n = index THEN MainRegion(rs[index]) ELSE rs[n]
    BY <1>1, <1>2, ExceptSeq, Zenon DEF WithMain
  <1>4. \A n \in DOMAIN rs : MinByte(new[n]) = MinByte(rs[n]) /\ MaxByte(new[n]) = MaxByte(rs[n])
    BY <1>1, <1>3, MainRegionEnds, Zenon
  <1>5. new[index].main
    BY <1>2, <1>3, Zenon
  <1> HIDE DEF new
  <1>6. Separated(new)
    BY <1>3, <1>4 DEF Separated
  <1> QED BY <1>3, <1>5, <1>6, Zenon DEF new

-----------------------------------------------------------------------------
(* The loop of map_selections.                                             *)

\* Whatever new regions an operation comes up with, if they are ordered the
\* loop starts with its invariant.
LEMMA StartMappingInv ==
    ASSUME IndInv, NEW name, NEW new \in Seq(Seq(Region)), StartMapping(name, new),
           Len(new) = Len(regions), Ordered(new),
           len' \in Nat, overjump' \in BOOLEAN, removed_other' \in BOOLEAN
    PROVE  IndInv'
  <1> USE DEF StartMapping, IndInv, selection
  <1>1. TypeOK'
    BY EmptySeq, Zenon DEF TypeOK
  <1>2. RegionsSortedDisjoint' /\ MainIsFlagged'
    BY Zenon DEF RegionsSortedDisjoint, MainIsFlagged, Separated
  <1>3. Len(new) \in Nat /\ Len(regions) \in Nat /\ DOMAIN regions = 1 .. Len(regions)
    BY LenProperties, Zenon DEF TypeOK
  <1>4. LoopInv'
    <2>1. Separated(regions_out') /\ DOMAIN regions_out' = {}
      BY DEF Separated
    <2>2. OpenEnded'
      BY Zenon DEF OpenEnded
    <2>3. ~(i > main_selection)'
      BY <1>3 DEF MainIsFlagged
    <2>4. Ordered(mapped')
      BY DEF Ordered
    <2> QED BY <1>3, <2>1, <2>2, <2>3, <2>4 DEF LoopInv
  <1> QED BY <1>1, <1>2, <1>4, Zenon

\* Pushing or merging one new region.
LEMMA PushRegionInv == IndInv /\ PushRegion => IndInv'
  <1> SUFFICES ASSUME IndInv, PushRegion
               PROVE  IndInv'
    BY Zenon
  <1> USE DEF IndInv
  <1>0. TypeOK /\ LoopInv
    BY Zenon DEF PushRegion
  <1>1. CASE status' = "panicked"
    BY <1>1, <1>0, Zenon DEF PushRegion, TypeOK, RegionsSortedDisjoint, MainIsFlagged, Separated,
                      selection, history
  <1>2. CASE status' # "panicked"
    <2> DEFINE new_region == mapped[i][k]
               clear_of_last == regions_out = <<>> \/ ~Overlaps(LastOut, new_region)
    <2>1. i \in DOMAIN mapped /\ k \in DOMAIN mapped[i] /\ mapped[i] \in Seq(Region)
      BY <1>0, LenProperties, ElementOfSeq DEF PushRegion, TypeOK, LoopInv
    <2>2. new_region \in Region
      BY <2>1, LenProperties, ElementOfSeq, Zenon
    <2>3. /\ clear_of_last \/ Mergeable(LastOut, new_region)
          /\ regions_out' = IF clear_of_last
                            THEN Append(regions_out, new_region)
                            ELSE [regions_out EXCEPT ![Len(regions_out)] =
                                                        Merge(LastOut, new_region)]
          /\ k' = k + 1
          /\ UNCHANGED <<status, len, regions, main_selection, op, mapped, i,
                         new_main_sel, overjump, removed_other>>
      BY <1>2, Zenon DEF PushRegion, selection, history
    <2>4. regions_out \in Seq(Region) /\ Len(regions_out) \in Nat
          /\ DOMAIN regions_out = 1 .. Len(regions_out)
      BY <1>0, LenProperties, Zenon DEF TypeOK
    <2>5. regions_out # <<>> => /\ LastOut \in Region
                                /\ MinByte(LastOut) <= MinByte(new_region)
      <3> SUFFICES ASSUME regions_out # <<>>
                   PROVE  LastOut \in Region /\ MinByte(LastOut) <= MinByte(new_region)
        BY Zenon
      <3>1. ~Seen(i, k)
        BY <1>0 DEF Seen, TypeOK
      <3>2. Len(regions_out) \in 1 .. Len(regions_out)
        BY <2>4, EmptySeq
      <3> QED BY <3>1, <3>2, <2>1, <2>4, <1>0, ElementOfSeq, Zenon DEF LoopInv, OpenEnded, LastOut
    \* What holds of regions_out', whether the region was pushed or merged.
    <2>6. /\ regions_out' \in Seq(Region)
          /\ Separated(regions_out')
          /\ regions_out' # <<>>
          /\ Len(regions_out') >= Len(regions_out)
          /\ MinByte(regions_out'[Len(regions_out')]) <= MinByte(new_region)
          /\ \A n \in 1 .. Len(regions_out) : regions_out[n].main => regions_out'[n].main
      <3>1. CASE clear_of_last
        <4>1. regions_out' = Append(regions_out, new_region)
          BY <3>1, <2>3, Zenon
        <4>2. regions_out = <<>> \/ MaxByte(regions_out[Len(regions_out)]) < MinByte(new_region)
          BY <3>1, <2>2, <2>5, RegionEnds DEF Overlaps, LastOut
        <4>3. Separated(regions_out)
          BY <1>0, Zenon DEF LoopInv
        <4>4. Append(regions_out, new_region) \in Seq(Region)
              /\ Separated(Append(regions_out, new_region))
          BY <4>2, <4>3, <2>2, <2>4, AppendSeparated, Zenon
        <4>5. /\ Len(regions_out') = Len(regions_out) + 1
              /\ regions_out'[Len(regions_out')] = new_region
              /\ \A n \in 1 .. Len(regions_out) : regions_out'[n] = regions_out[n]
              /\ regions_out' # <<>>
          BY <4>1, <2>2, <2>4, AppendProperties
        <4>6. MinByte(new_region) <= MinByte(new_region)
          BY <2>2, RegionEnds, Zenon
        <4> QED BY <4>1, <4>4, <4>5, <4>6, <2>4
      <3>2. CASE ~clear_of_last
        <4> DEFINE merged == Merge(LastOut, new_region)
        <4>1. regions_out' = [regions_out EXCEPT ![Len(regions_out)] = merged]
          BY <3>2, <2>3, Zenon
        <4>2. /\ merged \in Region
              /\ MinByte(merged) = MinByte(LastOut)
              /\ LastOut.main => merged.main
          BY <3>2, <2>2, <2>3, <2>5, MergeEnds, Zenon
        <4>3. MinByte(LastOut) <= MinByte(merged) /\ MinByte(merged) <= MinByte(new_region)
          BY <4>2, <3>2, <2>5, <2>2, RegionEnds, Zenon
        <4>4. Separated(regions_out) /\ regions_out # <<>>
          BY <3>2, <1>0, Zenon DEF LoopInv
        <4> HIDE DEF merged, new_region
        <4>5. /\ regions_out' \in Seq(Region)
              /\ Len(regions_out') = Len(regions_out)
              /\ regions_out'[Len(regions_out)] = merged
              /\ \A n \in 1 .. Len(regions_out) :
                    n # Len(regions_out) => regions_out'[n] = regions_out[n]
              /\ Separated(regions_out')
          BY <4>1, <4>2, <4>3, <4>4, <2>4, ReplaceLastSeparated, Zenon DEF LastOut
        <4>6. regions_out' # <<>>
          BY <4>4, <4>5, <2>4, EmptySeq, Zenon
        <4> QED BY <4>2, <4>3, <4>5, <4>6, <2>4 DEF LastOut
      <3> QED BY <3>1, <3>2, Zenon
    <2> HIDE DEF clear_of_last
    <2>7. OpenEnded'
      <3> SUFFICES ASSUME NEW a \in DOMAIN mapped, NEW p \in DOMAIN mapped[a], ~Seen(a, p)'
                   PROVE  MinByte(LastOut)' <= MinByte(mapped[a][p])
        BY <2>3, Zenon DEF OpenEnded
      <3>1. a \in Nat /\ p \in Nat /\ mapped[a] \in Seq(Region)
        BY <1>0, LenProperties, ElementOfSeq DEF TypeOK
      <3>2. Before(i, k, a, p)
        BY <3>1, <2>3, <1>0 DEF Seen, Before, TypeOK
      <3>3. MinByte(new_region) <= MinByte(mapped[a][p])
        BY <3>2, <2>1, <1>0, Zenon DEF LoopInv, Ordered
      <3>4. mapped[a][p] \in Region /\ regions_out'[Len(regions_out')] \in Region
        BY <3>1, <2>6, LenProperties, ElementOfSeq, EmptySeq
      <3>5. MinByte(LastOut)' <= MinByte(new_region)
        BY <2>6, Zenon DEF LastOut
      <3> QED BY <3>3, <3>4, <3>5, <2>2, RegionEnds DEF LastOut
    <2>8. (i > main_selection =>
             new_main_sel \in DOMAIN regions_out /\ regions_out[new_main_sel].main)'
      <3> SUFFICES ASSUME i > main_selection
                   PROVE  new_main_sel \in DOMAIN regions_out' /\ regions_out'[new_main_sel].main
        BY <2>3, Zenon
      <3>1. DOMAIN regions_out' = 1 .. Len(regions_out') /\ Len(regions_out') \in Nat
        BY <2>6, LenProperties, Zenon
      <3>2. new_main_sel \in 1 .. Len(regions_out) /\ regions_out[new_main_sel].main
        BY <2>4, <1>0, Zenon DEF LoopInv
      <3>3. new_main_sel \in 1 .. Len(regions_out')
        BY <3>1, <3>2, <2>4, <2>6
      <3>4. regions_out'[new_main_sel].main
        BY <3>2, <2>6, Zenon
      <3> QED BY <3>1, <3>3, <3>4, Zenon
    <2>9. TypeOK'
      BY <2>3, <2>6, <1>0 DEF TypeOK
    <2>10. RegionsSortedDisjoint' /\ MainIsFlagged'
      BY <2>3, Zenon DEF RegionsSortedDisjoint, MainIsFlagged, Separated
    <2>11. LoopInv'
      BY <2>3, <2>6, <2>7, <2>8, <1>0 DEF LoopInv, Ordered, TypeOK
    <2> QED BY <2>9, <2>10, <2>11, Zenon
  <1> QED BY <1>1, <1>2, Zenon

\* Taking the main region's new index.
LEMMA CloseRegionInv == IndInv /\ CloseRegion => IndInv'
  <1> SUFFICES ASSUME IndInv, CloseRegion
               PROVE  IndInv'
    BY Zenon
  <1> USE DEF IndInv
  <1>0. TypeOK /\ LoopInv
    BY Zenon DEF CloseRegion
  <1>1. UNCHANGED <<len, regions, main_selection, op, mapped, overjump, removed_other>>
    BY Zenon DEF CloseRegion, selection, history
  <1>2. RegionsSortedDisjoint' /\ MainIsFlagged'
    BY <1>1, Zenon DEF RegionsSortedDisjoint, MainIsFlagged, Separated
  <1>3. CASE status' = "panicked"
    <2>1. TypeOK'
      BY <1>3, <1>0, <1>1, Zenon DEF CloseRegion, TypeOK
    <2> QED BY <2>1, <1>2, <1>3, Zenon
  <1>4. CASE status' # "panicked"
    <2>1. /\ i' = i + 1 /\ k' = 1 /\ status' = status
          /\ i = main_selection =>
               /\ regions_out # <<>>
               /\ new_main_sel' = Len(regions_out)
               /\ regions_out' = [regions_out EXCEPT ![Len(regions_out)] = MainRegion(LastOut)]
          /\ i # main_selection => UNCHANGED <<new_main_sel, regions_out>>
      BY <1>4, Zenon DEF CloseRegion
    <2>2. regions_out \in Seq(Region) /\ Len(regions_out) \in Nat
          /\ DOMAIN regions_out = 1 .. Len(regions_out)
      BY <1>0, LenProperties, Zenon DEF TypeOK
    <2>3. Separated(regions_out)
      BY <1>0, Zenon DEF LoopInv
    \* Setting the main flag moves nothing.
    <2>4. /\ regions_out' \in Seq(Region)
          /\ Separated(regions_out')
          /\ Len(regions_out') = Len(regions_out)
          /\ regions_out' = <<>> => regions_out = <<>>
          /\ regions_out # <<>> => MinByte(LastOut)' = MinByte(LastOut)
          /\ i = main_selection =>
               new_main_sel' \in DOMAIN regions_out' /\ regions_out'[new_main_sel'].main
      <3>1. CASE i # main_selection
        BY <3>1, <2>1, <2>2, <2>3, Zenon DEF LastOut
      <3>2. CASE i = main_selection
        <4> DEFINE flagged == MainRegion(LastOut)
        <4>1. Len(regions_out) \in 1 .. Len(regions_out) /\ LastOut \in Region
          BY <3>2, <2>1, <2>2, EmptySeq, ElementOfSeq DEF LastOut
        <4>2. flagged \in Region /\ flagged.main /\ MinByte(flagged) = MinByte(LastOut)
          BY <4>1, MainRegionEnds, Zenon
        <4>3. MinByte(LastOut) <= MinByte(flagged)
          BY <4>1, <4>2, RegionEnds, Zenon
        <4>4. regions_out' = [regions_out EXCEPT ![Len(regions_out)] = flagged]
              /\ regions_out # <<>>
          BY <3>2, <2>1, Zenon
        <4> HIDE DEF flagged
        <4>5. /\ regions_out' \in Seq(Region)
              /\ Len(regions_out') = Len(regions_out)
              /\ regions_out'[Len(regions_out)] = flagged
              /\ Separated(regions_out')
          BY <4>2, <4>3, <4>4, <2>2, <2>3, ReplaceLastSeparated, Zenon DEF LastOut
        <4>6. regions_out' # <<>> /\ new_main_sel' \in DOMAIN regions_out'
          BY <4>1, <4>5, <3>2, <2>1, <2>2, EmptySeq, LenProperties, Zenon
        <4>7. regions_out'[new_main_sel'].main
          BY <4>2, <4>5, <3>2, <2>1, Zenon
        <4>8. MinByte(LastOut)' = MinByte(LastOut)
          BY <4>2, <4>5, Zenon DEF LastOut
        <4> QED BY <4>5, <4>6, <4>7, <4>8, Zenon
      <3> QED BY <3>1, <3>2, Zenon
    <2>5. TypeOK'
      <3>1. new_main_sel' \in Nat
        BY <2>1, <2>2, <1>0, Zenon DEF TypeOK
      <3> QED BY <3>1, <2>1, <2>4, <1>1, <1>0 DEF TypeOK
    <2>6. OpenEnded'
      <3> SUFFICES ASSUME regions_out' # <<>>,
                          NEW a \in DOMAIN mapped, NEW p \in DOMAIN mapped[a], ~Seen(a, p)'
                   PROVE  MinByte(LastOut)' <= MinByte(mapped[a][p])
        BY <1>1, Zenon DEF OpenEnded
      <3>1. regions_out # <<>>
        BY <2>4, <2>2, EmptySeq, Zenon
      <3>2. a \in Nat /\ p \in Nat
        BY <1>0, LenProperties, ElementOfSeq DEF TypeOK
      <3>3. ~Seen(a, p)
        BY <3>2, <2>1, <1>0, SMTT(30) DEF Seen, TypeOK
      <3> QED BY <3>1, <3>3, <2>4, <1>0, Zenon DEF LoopInv, OpenEnded
    <2>7. (i > main_selection =>
             new_main_sel \in DOMAIN regions_out /\ regions_out[new_main_sel].main)'
      <3> SUFFICES ASSUME i + 1 > main_selection
                   PROVE  new_main_sel' \in DOMAIN regions_out' /\ regions_out'[new_main_sel'].main
        BY <2>1, <1>1, Zenon
      <3>1. CASE i = main_selection
        BY <3>1, <2>4, Zenon
      <3>2. CASE i # main_selection
        <4>1. i > main_selection
          BY <3>2, <1>0 DEF TypeOK
        <4> QED BY <4>1, <3>2, <2>1, <1>0, Zenon DEF LoopInv
      <3> QED BY <3>1, <3>2, Zenon
    <2>8. (i \in 1 .. Len(mapped) + 1)'
      <3>1. Len(mapped) \in Nat
        BY <1>0, LenProperties, Zenon DEF TypeOK
      <3> QED BY <3>1, <2>1, <1>0, <1>1 DEF CloseRegion, LoopInv, TypeOK
    <2>9. LoopInv'
      BY <2>1, <2>4, <2>6, <2>7, <2>8, <1>0, <1>1 DEF LoopInv, Ordered
    <2> QED BY <2>5, <2>9, <1>2, Zenon
  <1> QED BY <1>3, <1>4, Zenon

\* The end of the loop: main_selection is an index of regions, so the loop
\* has been past it.
LEMMA FinishMappingInv == IndInv /\ FinishMapping => IndInv'
  <1> SUFFICES ASSUME IndInv, FinishMapping
               PROVE  IndInv'
    BY Zenon
  <1> USE DEF IndInv, FinishMapping
  <1>1. TypeOK /\ LoopInv
    BY Zenon
  <1>2. TypeOK'
    BY <1>1, EmptySeq, Zenon DEF TypeOK, history
  <1>3. i > main_selection
    <2>1. Len(mapped) \in Nat /\ DOMAIN regions = 1 .. Len(regions) /\ Len(regions) \in Nat
      BY <1>1, LenProperties, Zenon DEF TypeOK
    <2> QED BY <2>1, <1>1 DEF LoopInv, MainIsFlagged, TypeOK
  <1>4. MainIsFlagged'
    BY <1>1, <1>3, Zenon DEF LoopInv, MainIsFlagged
  <1>5. RegionsSortedDisjoint'
    BY <1>1, Zenon DEF LoopInv, RegionsSortedDisjoint, Separated
  <1> QED BY <1>2, <1>4, <1>5, Zenon

\* Every step of the loop keeps the invariant, and so does leaving the
\* selection alone.
LEMMA LoopingInv == IndInv /\ Looping => IndInv'
  BY PushRegionInv, CloseRegionInv, FinishMappingInv, Zenon DEF Looping

\* A step that changes nothing keeps the invariant.
LEMMA UnmovedInv == IndInv /\ UNCHANGED vars => IndInv'
  <1> SUFFICES ASSUME IndInv, UNCHANGED vars
               PROVE  IndInv'
    BY Zenon
  <1>1. UNCHANGED <<len, selection, status, loop, history>>
    BY Zenon DEF vars
  <1>2. TypeOK'
    BY <1>1, Zenon DEF IndInv, TypeOK, selection, loop, history
  <1>3. RegionsSortedDisjoint' /\ MainIsFlagged'
    BY <1>1, Zenon DEF IndInv, RegionsSortedDisjoint, MainIsFlagged, Separated, selection
  <1>4. LoopInv' <=> LoopInv
    BY <1>1 DEF LoopInv, Ordered, Separated, OpenEnded, LastOut, Seen, loop, selection
  <1> QED BY <1>1, <1>2, <1>3, <1>4, Zenon DEF IndInv

\* Regions of the selection are regions; of two, the earlier is disjoint
\* from the later.
LEMMA TypedRegions ==
    ASSUME IndInv
    PROVE  /\ len \in Nat
           /\ overjump \in BOOLEAN /\ removed_other \in BOOLEAN
           /\ \A n \in DOMAIN regions : regions[n] \in Region
  BY ElementOfSeq, LenProperties, Zenon DEF IndInv, TypeOK

-----------------------------------------------------------------------------
(***************************************************************************)
(* What the loop keeps of the new regions.                                 *)
(***************************************************************************)

\* merge panics on these two if the loop meets them one after the other.
Clashes(r, other) ==
    /\ Overlaps(r, other)
    /\ \/ ~Backward(r) /\ ~Forward(other)
       \/ ~Forward(r) /\ ~Backward(other)

Earlier(a, p, b, q) == a < b \/ (a = b /\ p < q)

Clash(new) ==
    \E a, b \in DOMAIN new : \E p \in DOMAIN new[a], q \in DOMAIN new[b] :
        Earlier(a, p, b, q) /\ Clashes(new[a][p], new[b][q])

\* x is a byte of a region put out; of a new region seen so far.
PutOut(x) == \E n \in DOMAIN regions_out : x \in Bytes(regions_out[n])

SeenByte(x) ==
    \E a \in DOMAIN mapped : \E p \in DOMAIN mapped[a] :
        Seen(a, p) /\ x \in Bytes(mapped[a][p])

KeepsBytes == \A x \in Nat : PutOut(x) <=> SeenByte(x)

\* The last region put out has its direction, and its end, from a new region.
KeepsDirection ==
    regions_out # <<>> =>
        /\ ~Backward(LastOut) =>
             \E a \in DOMAIN mapped : \E p \in DOMAIN mapped[a] :
                 /\ Seen(a, p) /\ ~Backward(mapped[a][p])
                 /\ MaxByte(mapped[a][p]) = MaxByte(LastOut)
        /\ ~Forward(LastOut) =>
             \E a \in DOMAIN mapped : \E p \in DOMAIN mapped[a] :
                 /\ Seen(a, p) /\ ~Forward(mapped[a][p])
                 /\ MaxByte(mapped[a][p]) = MaxByte(LastOut)

\* The bytes of a region are the numbers between its ends, both included.
LEMMA RegionBytes ==
    ASSUME NEW r \in Region
    PROVE  /\ \A x \in Nat : x \in Bytes(r) <=> MinByte(r) <= x /\ x <= MaxByte(r)
           /\ Bytes(r) \subseteq Nat
           /\ MinByte(r) \in Bytes(r)
           /\ MaxByte(r) \in Bytes(r)
  BY RegionEnds, SMTT(30) DEF Bytes

\* merge of two overlapping regions selects their bytes and no other, is main
\* if one of them is, and a direction it has is that of one of them that ends
\* where it does.
LEMMA MergeBytes ==
    ASSUME NEW r \in Region, NEW other \in Region,
           Mergeable(r, other), Overlaps(r, other), MinByte(r) <= MinByte(other)
    PROVE  /\ \A x \in Nat : x \in Bytes(Merge(r, other)) <=> x \in Bytes(r) \/ x \in Bytes(other)
           /\ Merge(r, other).main <=> r.main \/ other.main
           /\ ~Backward(Merge(r, other)) =>
                \/ ~Backward(r) /\ MaxByte(Merge(r, other)) = MaxByte(r)
                \/ ~Backward(other) /\ MaxByte(Merge(r, other)) = MaxByte(other)
           /\ ~Forward(Merge(r, other)) =>
                \/ ~Forward(r) /\ MaxByte(Merge(r, other)) = MaxByte(r)
                \/ ~Forward(other) /\ MaxByte(Merge(r, other)) = MaxByte(other)
  <1> USE DEF Region, Merge, Mergeable, Overlaps, BothForward, BothBackward, Forward,
              Backward, MinByte, MaxByte, Larger, Smaller
  <1>1. MaxByte(Merge(r, other)) = Larger(MaxByte(r), MaxByte(other))
    BY SMTT(30)
  <1>2. /\ ~Backward(Merge(r, other)) =>
             \/ ~Backward(r) /\ MaxByte(Merge(r, other)) = MaxByte(r)
             \/ ~Backward(other) /\ MaxByte(Merge(r, other)) = MaxByte(other)
        /\ ~Forward(Merge(r, other)) =>
             \/ ~Forward(r) /\ MaxByte(Merge(r, other)) = MaxByte(r)
             \/ ~Forward(other) /\ MaxByte(Merge(r, other)) = MaxByte(other)
    BY SMTT(30)
  <1>3. Merge(r, other).main <=> r.main \/ other.main
    BY Zenon
  <1>4. Merge(r, other) \in Region /\ MinByte(Merge(r, other)) = MinByte(r)
    BY MergeEnds, ZenonT(30)
  <1>5. ASSUME NEW x \in Nat
        PROVE  x \in Bytes(Merge(r, other)) <=> x \in Bytes(r) \/ x \in Bytes(other)
    <2> DEFINE m == Merge(r, other)
    <2>1. /\ MinByte(r) \in Nat /\ MaxByte(r) \in Nat /\ MinByte(other) \in Nat
          /\ MaxByte(other) \in Nat /\ MinByte(m) = MinByte(r)
          /\ MaxByte(m) = Larger(MaxByte(r), MaxByte(other))
          /\ MaxByte(r) >= MinByte(other)
          /\ MinByte(r) <= MaxByte(r) /\ MinByte(other) <= MaxByte(other)
      BY <1>1, <1>4, RegionEnds, ZenonT(30)
    <2>2. /\ x \in Bytes(m) <=> MinByte(m) <= x /\ x <= MaxByte(m)
          /\ x \in Bytes(r) <=> MinByte(r) <= x /\ x <= MaxByte(r)
          /\ x \in Bytes(other) <=> MinByte(other) <= x /\ x <= MaxByte(other)
      BY <1>4, RegionBytes, ZenonT(30)
    <2> HIDE DEF m, MinByte, MaxByte, Region, Overlaps
    <2> QED BY <2>1, <2>2, SMTT(30) DEF m
  <1> QED BY <1>2, <1>3, <1>5, ZenonT(30)

\* Two overlapping regions that merge refuses run in opposite directions:
\* two single bytes that overlap are one byte.
LEMMA RefusedClashes ==
    ASSUME NEW r \in Region, NEW other \in Region,
           ~Mergeable(r, other), Overlaps(r, other), MinByte(r) <= MinByte(other)
    PROVE  Clashes(r, other)
  BY DEF Clashes, Region, Mergeable, Overlaps, BothForward, BothBackward, Forward,
         Backward, MinByte, MaxByte, Larger, Smaller

\* MainRegion changes only the flag.
LEMMA MainRegionBytes ==
    ASSUME NEW r \in Region
    PROVE  /\ Bytes(MainRegion(r)) = Bytes(r)
           /\ Backward(MainRegion(r)) <=> Backward(r)
           /\ Forward(MainRegion(r)) <=> Forward(r)
  BY MainRegionEnds, Zenon DEF Bytes, Backward, Forward, MainRegion, Region

-----------------------------------------------------------------------------
\* What one pass through the inner loop does: the new region is put after
\* the others or merged into the last one.
LEMMA PushedRegion ==
    ASSUME IndInv, PushRegion, status' # "panicked"
    PROVE  /\ mapped[i][k] \in Region
           /\ i \in DOMAIN mapped /\ k \in DOMAIN mapped[i]
           /\ DOMAIN regions_out = 1 .. Len(regions_out) /\ Len(regions_out) \in Nat
           /\ DOMAIN regions_out' = 1 .. Len(regions_out')
           /\ \A n \in 1 .. Len(regions_out) :
                 n # Len(regions_out) => regions_out'[n] = regions_out[n]
           /\ \/ /\ Len(regions_out') = Len(regions_out) + 1
                 /\ \A n \in 1 .. Len(regions_out) : regions_out'[n] = regions_out[n]
                 /\ regions_out'[Len(regions_out')] = mapped[i][k]
              \/ /\ Len(regions_out') = Len(regions_out)
                 /\ regions_out # <<>> /\ Len(regions_out) \in 1 .. Len(regions_out)
                 /\ LastOut \in Region
                 /\ Overlaps(LastOut, mapped[i][k])
                 /\ Mergeable(LastOut, mapped[i][k])
                 /\ MinByte(LastOut) <= MinByte(mapped[i][k])
                 /\ regions_out'[Len(regions_out')] = Merge(LastOut, mapped[i][k])
           /\ regions_out' # <<>>
           /\ k' = k + 1
           /\ UNCHANGED <<status, len, regions, main_selection, op, mapped, i,
                          new_main_sel, overjump, removed_other>>
  <1>0. TypeOK /\ LoopInv
    BY ZenonT(30) DEF PushRegion, IndInv
  <1> DEFINE new_region == mapped[i][k]
             clear_of_last == regions_out = <<>> \/ ~Overlaps(LastOut, new_region)
  <1>1. i \in DOMAIN mapped /\ k \in DOMAIN mapped[i] /\ mapped[i] \in Seq(Region)
    BY <1>0, LenProperties, ElementOfSeq DEF PushRegion, TypeOK, LoopInv
  <1>2. new_region \in Region
    BY <1>1, LenProperties, ElementOfSeq, Zenon
  <1>3. /\ clear_of_last \/ Mergeable(LastOut, new_region)
        /\ regions_out' = IF clear_of_last
                          THEN Append(regions_out, new_region)
                          ELSE [regions_out EXCEPT ![Len(regions_out)] =
                                                      Merge(LastOut, new_region)]
        /\ k' = k + 1
        /\ UNCHANGED <<status, len, regions, main_selection, op, mapped, i,
                       new_main_sel, overjump, removed_other>>
    BY Zenon DEF PushRegion, selection, history
  <1>4. regions_out \in Seq(Region) /\ Len(regions_out) \in Nat
        /\ DOMAIN regions_out = 1 .. Len(regions_out)
    BY <1>0, LenProperties, Zenon DEF TypeOK
  <1>5. regions_out # <<>> => /\ LastOut \in Region
                              /\ Len(regions_out) \in 1 .. Len(regions_out)
                              /\ MinByte(LastOut) <= MinByte(new_region)
    <2> SUFFICES ASSUME regions_out # <<>>
                 PROVE  /\ LastOut \in Region
                        /\ Len(regions_out) \in 1 .. Len(regions_out)
                        /\ MinByte(LastOut) <= MinByte(new_region)
      BY Zenon
    <2>1. ~Seen(i, k)
      BY <1>0 DEF Seen, TypeOK
    <2>2. Len(regions_out) \in 1 .. Len(regions_out)
      BY <1>4, EmptySeq, SMTT(30)
    <2> QED BY <2>1, <2>2, <1>1, <1>4, <1>0, ElementOfSeq, Zenon DEF LoopInv, OpenEnded, LastOut
  <1>6. CASE clear_of_last
    <2>1. regions_out' = Append(regions_out, new_region)
      BY <1>6, <1>3, Zenon
    <2> HIDE DEF new_region
    <2>2. /\ Len(regions_out') = Len(regions_out) + 1
          /\ regions_out' \in Seq(Region)
          /\ regions_out'[Len(regions_out')] = new_region
          /\ \A n \in 1 .. Len(regions_out) : regions_out'[n] = regions_out[n]
          /\ regions_out' # <<>>
      BY <2>1, <1>2, <1>4, AppendProperties
    <2>3. DOMAIN regions_out' = 1 .. Len(regions_out')
      BY <2>2, LenProperties, Zenon
    <2> HIDE DEF clear_of_last
    <2> QED BY <2>2, <2>3, <1>1, <1>2, <1>3, <1>4, <1>5, ZenonT(30) DEF new_region
  <1>7. CASE ~clear_of_last
    <2> DEFINE merged == Merge(LastOut, new_region)
    <2>1. regions_out' = [regions_out EXCEPT ![Len(regions_out)] = merged]
      BY <1>7, <1>3, ZenonT(30)
    <2>2. merged \in Region
      BY <1>7, <1>2, <1>3, <1>5, MergeEnds, Zenon
    <2>3. /\ Overlaps(LastOut, new_region) /\ Mergeable(LastOut, new_region)
          /\ regions_out # <<>>
      BY <1>7, <1>3, Zenon
    <2> HIDE DEF merged, new_region
    <2>4. /\ regions_out' \in Seq(Region)
          /\ Len(regions_out') = Len(regions_out)
          /\ \A n \in 1 .. Len(regions_out) :
                regions_out'[n] = IF n = Len(regions_out) THEN merged ELSE regions_out[n]
      BY <2>1, <2>2, <2>3, <1>4, <1>5, ExceptSeq, SMTT(30)
    <2>5. DOMAIN regions_out' = 1 .. Len(regions_out')
      BY <2>4, LenProperties, Zenon
    <2>6. Len(regions_out') # 0
      BY <2>3, <2>4, <1>5
    <2>7. regions_out' # <<>>
      BY <2>4, <2>6, EmptySeq, Zenon
    <2> HIDE DEF clear_of_last
    <2> QED BY <2>3, <2>4, <2>5, <2>7, <1>1, <1>2, <1>3, <1>4, <1>5, ZenonT(30) DEF new_region, merged
  <1> QED BY <1>6, <1>7, ZenonT(30)

\* What the end of the inner loop does: it flags at most the last region.
LEMMA ClosedRegion ==
    ASSUME IndInv, CloseRegion, status' # "panicked"
    PROVE  /\ i \in DOMAIN mapped /\ k > Len(mapped[i])
           /\ DOMAIN regions_out = 1 .. Len(regions_out) /\ Len(regions_out) \in Nat
           /\ DOMAIN regions_out' = DOMAIN regions_out /\ Len(regions_out') = Len(regions_out)
           /\ regions_out' # <<>> <=> regions_out # <<>>
           /\ regions_out # <<>> => LastOut \in Region /\ Len(regions_out) \in DOMAIN regions_out
           /\ i # main_selection => UNCHANGED <<new_main_sel, regions_out>>
           /\ i = main_selection =>
                /\ regions_out # <<>>
                /\ new_main_sel' = Len(regions_out)
                /\ regions_out'[Len(regions_out)] = MainRegion(LastOut)
                /\ \A n \in DOMAIN regions_out :
                      n # Len(regions_out) => regions_out'[n] = regions_out[n]
           /\ i' = i + 1 /\ k' = 1
           /\ UNCHANGED <<status, len, regions, main_selection, op, mapped,
                          overjump, removed_other>>
  <1>0. TypeOK /\ LoopInv
    BY Zenon DEF CloseRegion, IndInv
  <1>1. /\ i' = i + 1 /\ k' = 1 /\ status' = status
        /\ i = main_selection =>
             /\ regions_out # <<>>
             /\ new_main_sel' = Len(regions_out)
             /\ regions_out' = [regions_out EXCEPT ![Len(regions_out)] = MainRegion(LastOut)]
        /\ i # main_selection => UNCHANGED <<new_main_sel, regions_out>>
        /\ UNCHANGED <<len, regions, main_selection, op, mapped, overjump, removed_other>>
    BY Zenon DEF CloseRegion, selection, history
  <1>2. i \in DOMAIN mapped /\ k > Len(mapped[i])
    BY <1>0, LenProperties DEF CloseRegion, TypeOK, LoopInv
  <1>3. regions_out \in Seq(Region) /\ Len(regions_out) \in Nat
        /\ DOMAIN regions_out = 1 .. Len(regions_out)
    BY <1>0, LenProperties, Zenon DEF TypeOK
  <1>4. regions_out # <<>> => LastOut \in Region /\ Len(regions_out) \in DOMAIN regions_out
    BY <1>3, EmptySeq, ElementOfSeq DEF LastOut
  <1>5. CASE i # main_selection
    BY <1>1, <1>2, <1>3, <1>4, <1>5, Zenon
  <1>6. CASE i = main_selection
    <2> DEFINE flagged == MainRegion(LastOut)
    <2>1. flagged \in Region
      BY <1>1, <1>4, <1>6, MainRegionEnds, Zenon
    <2>2. regions_out' = [regions_out EXCEPT ![Len(regions_out)] = flagged]
      BY <1>1, <1>6, Zenon
    <2> HIDE DEF flagged
    <2>3. /\ regions_out' \in Seq(Region)
          /\ Len(regions_out') = Len(regions_out)
          /\ \A n \in 1 .. Len(regions_out) :
                regions_out'[n] = IF n = Len(regions_out) THEN flagged ELSE regions_out[n]
      BY <2>1, <2>2, <1>1, <1>3, <1>4, <1>6, ExceptSeq, Zenon
    <2>4. DOMAIN regions_out' = 1 .. Len(regions_out')
      BY <2>3, LenProperties, Zenon
    <2>5. Len(regions_out') # 0
      BY <2>3, <1>1, <1>3, <1>4, <1>6
    <2>6. regions_out' # <<>>
      BY <2>3, <2>5, EmptySeq, Zenon
    <2> QED BY <2>3, <2>4, <2>6, <1>1, <1>2, <1>3, <1>4, <1>6, Zenon DEF flagged
  <1> QED BY <1>5, <1>6, Zenon

\* What the loop has been over grows by the region pushed; at the end of the
\* inner loop it is all of mapped[i].
LEMMA SeenAfterPush ==
    ASSUME IndInv, PushRegion, status' # "panicked",
           NEW a \in DOMAIN mapped, NEW p \in DOMAIN mapped[a]
    PROVE  Seen(a, p)' <=> Seen(a, p) \/ (a = i /\ p = k)
  <1>1. TypeOK /\ i' = i /\ k' = k + 1
    BY PushedRegion, Zenon DEF IndInv
  <1>2. a \in Nat /\ p \in Nat /\ i \in Nat /\ k \in Nat
    BY <1>1, LenProperties, ElementOfSeq DEF TypeOK
  <1> QED BY <1>1, <1>2, SMTT(30) DEF Seen

\* Going on to the next region, the loop of map_selections has seen what it
\* had.
LEMMA SeenAfterClose ==
    ASSUME IndInv, CloseRegion, status' # "panicked",
           NEW a \in DOMAIN mapped, NEW p \in DOMAIN mapped[a]
    PROVE  Seen(a, p)' <=> Seen(a, p)
  <1>1. TypeOK /\ i' = i + 1 /\ k' = 1 /\ i \in DOMAIN mapped /\ k > Len(mapped[i])
    BY ClosedRegion, Zenon DEF IndInv
  <1>2. /\ a \in Nat /\ p \in Nat /\ i \in Nat /\ k \in Nat
        /\ Len(mapped[i]) \in Nat
        /\ p \in 1 .. Len(mapped[a])
    BY <1>1, LenProperties, ElementOfSeq, SMTT(30) DEF TypeOK
  <1> QED BY <1>1, <1>2 DEF Seen

\* The loop starts with nothing seen and nothing put out.
LEMMA StartKeeps ==
    ASSUME NEW name, NEW new \in Seq(Seq(Region)), StartMapping(name, new)
    PROVE  KeepsBytes' /\ KeepsDirection'
  <1>1. mapped' = new /\ i' = 1 /\ k' = 1 /\ regions_out' = <<>>
    BY Zenon DEF StartMapping
  <1>2. ASSUME NEW a \in DOMAIN new, NEW p \in DOMAIN new[a]
        PROVE  ~Seen(a, p)'
    <2>1. a \in Nat /\ p \in Nat /\ a >= 1 /\ p >= 1
      BY LenProperties, ElementOfSeq
    <2> QED BY <2>1, <1>1 DEF Seen
  <1>3. \A x \in Nat : ~PutOut(x)' /\ ~SeenByte(x)'
    BY <1>1, <1>2 DEF PutOut, SeenByte
  <1> QED BY <1>1, <1>3, Zenon DEF KeepsBytes, KeepsDirection


\* Pushing or merging a new region puts out its bytes and no other.
LEMMA PushKeepsBytes ==
    ASSUME IndInv, PushRegion, status' # "panicked", KeepsBytes
    PROVE  KeepsBytes'
  <1> DEFINE new_region == mapped[i][k]
  <1>1. /\ new_region \in Region
        /\ i \in DOMAIN mapped /\ k \in DOMAIN mapped[i]
        /\ mapped' = mapped
    BY PushedRegion, ZenonT(30)
  <1>2. ASSUME NEW x \in Nat
        PROVE  PutOut(x)' <=> PutOut(x) \/ x \in Bytes(new_region)
    <2> DEFINE last == Len(regions_out)
    <2>1. DOMAIN regions_out = 1 .. last /\ last \in Nat /\ DOMAIN regions_out' = 1 .. Len(regions_out')
          /\ \A n \in 1 .. last : n # last => regions_out'[n] = regions_out[n]
      BY PushedRegion, Zenon
    <2>2. CASE /\ Len(regions_out') = last + 1
               /\ \A n \in 1 .. last : regions_out'[n] = regions_out[n]
               /\ regions_out'[Len(regions_out')] = new_region
      <3> HIDE DEF last, new_region
      <3>1. /\ last + 1 \in 1 .. last + 1
            /\ \A n \in 1 .. last + 1 : n \in 1 .. last \/ n = last + 1
            /\ \A n \in 1 .. last : n \in 1 .. last + 1
        BY <2>1
      <3> QED BY <2>1, <2>2, <3>1, Zenon DEF PutOut
    <2>3. CASE /\ Len(regions_out') = last
               /\ last \in 1 .. last
               /\ LastOut \in Region
               /\ Overlaps(LastOut, new_region)
               /\ Mergeable(LastOut, new_region)
               /\ MinByte(LastOut) <= MinByte(new_region)
               /\ regions_out'[Len(regions_out')] = Merge(LastOut, new_region)
      <3>1. x \in Bytes(regions_out'[last]) <=> x \in Bytes(regions_out[last]) \/ x \in Bytes(new_region)
        BY <2>3, <1>1, MergeBytes, Zenon DEF LastOut
      <3> HIDE DEF last, new_region
      <3> QED BY <2>1, <2>3, <3>1, Zenon DEF PutOut
    <2> HIDE DEF last, new_region
    <2> QED BY <2>2, <2>3, PushedRegion, ZenonT(30) DEF last, new_region, LastOut
  <1>3. ASSUME NEW x \in Nat
        PROVE  SeenByte(x)' <=> SeenByte(x) \/ x \in Bytes(new_region)
    BY <1>1, SeenAfterPush, Zenon DEF SeenByte
  <1> HIDE DEF new_region
  <1> QED BY <1>2, <1>3, Zenon DEF KeepsBytes

\* Setting the main flag changes no bytes.
LEMMA CloseKeepsBytes ==
    ASSUME IndInv, CloseRegion, status' # "panicked", KeepsBytes
    PROVE  KeepsBytes'
  <1>1. ASSUME NEW n \in DOMAIN regions_out
        PROVE  Bytes(regions_out'[n]) = Bytes(regions_out[n])
    <2>1. CASE i = main_selection /\ n = Len(regions_out)
      <3>1. regions_out'[n] = MainRegion(LastOut) /\ LastOut \in Region /\ regions_out[n] = LastOut
        BY <2>1, ClosedRegion, Zenon DEF LastOut
      <3> QED BY <3>1, MainRegionBytes, Zenon
    <2>2. CASE ~(i = main_selection /\ n = Len(regions_out))
      BY <2>2, ClosedRegion, Zenon
    <2> QED BY <2>1, <2>2, Zenon
  <1>2. DOMAIN regions_out' = DOMAIN regions_out /\ mapped' = mapped
    BY ClosedRegion, Zenon
  <1>3. \A x \in Nat : PutOut(x)' <=> PutOut(x)
    BY <1>1, <1>2, Zenon DEF PutOut
  <1>4. \A x \in Nat : SeenByte(x)' <=> SeenByte(x)
    BY <1>2, SeenAfterClose, Zenon DEF SeenByte
  <1> QED BY <1>3, <1>4, Zenon DEF KeepsBytes

\* The last region put out keeps its direction, and where it ends, from one
\* of the new regions.
LEMMA PushKeepsDirection ==
    ASSUME IndInv, PushRegion, status' # "panicked", KeepsDirection
    PROVE  KeepsDirection'
  <1> DEFINE new_region == mapped[i][k]
             out == regions_out'[Len(regions_out')]
  <1>1. /\ new_region \in Region
        /\ i \in DOMAIN mapped /\ k \in DOMAIN mapped[i]
        /\ mapped' = mapped
    BY PushedRegion, Zenon
  <1>2. \A a \in DOMAIN mapped : \A p \in DOMAIN mapped[a] :
            Seen(a, p) \/ (a = i /\ p = k) => Seen(a, p)'
    BY SeenAfterPush, Zenon
  <1>3. /\ ~Backward(out) =>
             \/ ~Backward(new_region) /\ MaxByte(new_region) = MaxByte(out)
             \/ /\ regions_out # <<>> /\ ~Backward(LastOut)
                /\ MaxByte(LastOut) = MaxByte(out)
        /\ ~Forward(out) =>
             \/ ~Forward(new_region) /\ MaxByte(new_region) = MaxByte(out)
             \/ /\ regions_out # <<>> /\ ~Forward(LastOut)
                /\ MaxByte(LastOut) = MaxByte(out)
    <2>1. CASE out = new_region
      BY <2>1, ZenonT(30)
    <2>2. CASE /\ regions_out # <<>>
               /\ LastOut \in Region
               /\ Overlaps(LastOut, new_region)
               /\ Mergeable(LastOut, new_region)
               /\ MinByte(LastOut) <= MinByte(new_region)
               /\ out = Merge(LastOut, new_region)
      BY <2>2, <1>1, MergeBytes
    <2> HIDE DEF new_region
    <2> QED BY <2>1, <2>2, PushedRegion, ZenonT(30) DEF new_region
  <1>4. out = LastOut'
    BY Zenon DEF LastOut
  <1> HIDE DEF new_region, out
  <1>5. ASSUME ~Backward(out)
        PROVE  \E a \in DOMAIN mapped : \E p \in DOMAIN mapped[a] :
                   /\ Seen(a, p)' /\ ~Backward(mapped[a][p])
                   /\ MaxByte(mapped[a][p]) = MaxByte(out)
    BY <1>1, <1>2, <1>3, <1>5, Zenon DEF KeepsDirection, new_region
  <1>6. ASSUME ~Forward(out)
        PROVE  \E a \in DOMAIN mapped : \E p \in DOMAIN mapped[a] :
                   /\ Seen(a, p)' /\ ~Forward(mapped[a][p])
                   /\ MaxByte(mapped[a][p]) = MaxByte(out)
    BY <1>1, <1>2, <1>3, <1>6, Zenon DEF KeepsDirection, new_region
  <1> QED BY <1>1, <1>4, <1>5, <1>6, Zenon DEF KeepsDirection

\* Setting the main flag of the region put out last leaves its direction.
LEMMA CloseKeepsDirection ==
    ASSUME IndInv, CloseRegion, status' # "panicked", KeepsDirection
    PROVE  KeepsDirection'
  <1>1. mapped' = mapped /\ (regions_out' # <<>> <=> regions_out # <<>>)
    BY ClosedRegion, Zenon
  <1>2. \A a \in DOMAIN mapped : \A p \in DOMAIN mapped[a] : Seen(a, p)' <=> Seen(a, p)
    BY SeenAfterClose, Zenon
  <1>3. regions_out # <<>> =>
          /\ Backward(LastOut') <=> Backward(LastOut)
          /\ Forward(LastOut') <=> Forward(LastOut)
          /\ MaxByte(LastOut') = MaxByte(LastOut)
    <2>1. CASE i = main_selection
      <3>1. LastOut' = MainRegion(LastOut) /\ LastOut \in Region
        BY <2>1, ClosedRegion, Zenon DEF LastOut
      <3> QED BY <3>1, MainRegionBytes, MainRegionEnds, Zenon
    <2>2. CASE i # main_selection
      BY <2>2, ClosedRegion, Zenon DEF LastOut
    <2> QED BY <2>1, <2>2, Zenon
  <1> QED BY <1>1, <1>2, <1>3, Zenon DEF KeepsDirection

\* merge is never asked for two regions it refuses unless two of the new
\* regions clash.
LEMMA PanicMeansClash ==
    ASSUME IndInv, PushRegion, status' = "panicked", KeepsDirection
    PROVE  Clash(mapped)
  <1> DEFINE new_region == mapped[i][k]
  <1>0. TypeOK /\ LoopInv /\ status = "mapping"
    BY Zenon DEF PushRegion, IndInv
  <1>1. i \in DOMAIN mapped /\ k \in DOMAIN mapped[i] /\ mapped[i] \in Seq(Region)
    BY <1>0, LenProperties, ElementOfSeq DEF PushRegion, TypeOK, LoopInv
  <1>2. new_region \in Region
    BY <1>1, LenProperties, ElementOfSeq, Zenon
  <1>3. regions_out # <<>> /\ Overlaps(LastOut, new_region) /\ ~Mergeable(LastOut, new_region)
    BY <1>0, Zenon DEF PushRegion
  <1>4. LastOut \in Region /\ MinByte(LastOut) <= MinByte(new_region)
    <2>1. ~Seen(i, k)
      BY <1>0 DEF Seen, TypeOK
    <2>2. Len(regions_out) \in 1 .. Len(regions_out) /\ regions_out \in Seq(Region)
      BY <1>0, <1>3, EmptySeq, LenProperties DEF TypeOK
    <2> QED BY <2>1, <2>2, <1>0, <1>1, <1>3, ElementOfSeq, Zenon DEF LoopInv, OpenEnded, LastOut
  <1>5. Clashes(LastOut, new_region)
    BY <1>2, <1>3, <1>4, RefusedClashes, Zenon
  <1>6. ASSUME NEW a \in DOMAIN mapped, NEW p \in DOMAIN mapped[a], Seen(a, p),
               MaxByte(mapped[a][p]) = MaxByte(LastOut),
               \/ ~Backward(mapped[a][p]) /\ ~Forward(new_region)
               \/ ~Forward(mapped[a][p]) /\ ~Backward(new_region)
        PROVE  Clash(mapped)
    <2>1. Earlier(a, p, i, k)
      BY <1>6, Zenon DEF Earlier, Seen
    <2>2. Clashes(mapped[a][p], new_region)
      BY <1>3, <1>6, Zenon DEF Clashes, Overlaps
    <2> QED BY <2>1, <2>2, <1>1, Zenon DEF Clash
  <1> HIDE DEF new_region
  <1> QED BY <1>3, <1>5, <1>6, Zenon DEF KeepsDirection, Clashes

\* A loop that has put out nothing has seen nothing, and the other way round.
LEMMA NothingOutNothingSeen ==
    ASSUME IndInv, status = "mapping", KeepsBytes
    PROVE  regions_out # <<>> <=> \E a \in DOMAIN mapped : \E p \in DOMAIN mapped[a] : Seen(a, p)
  <1>1. TypeOK
    BY Zenon DEF IndInv
  <1>2. \A n \in DOMAIN regions_out : regions_out[n] \in Region
    BY <1>1, LenProperties, ElementOfSeq, Zenon DEF TypeOK
  <1>3. \A a \in DOMAIN mapped : \A p \in DOMAIN mapped[a] : mapped[a][p] \in Region
    BY <1>1, LenProperties, ElementOfSeq, Zenon DEF TypeOK
  <1>4. ASSUME regions_out # <<>>
        PROVE  \E a \in DOMAIN mapped : \E p \in DOMAIN mapped[a] : Seen(a, p)
    <2>1. 1 \in DOMAIN regions_out
      BY <1>1, <1>4, EmptySeq, LenProperties DEF TypeOK
    <2>2. PICK x \in Nat : x \in Bytes(regions_out[1])
      BY <2>1, <1>2, RegionBytes, Zenon
    <2> QED BY <2>1, <2>2, Zenon DEF KeepsBytes, PutOut, SeenByte
  <1>5. ASSUME NEW a \in DOMAIN mapped, NEW p \in DOMAIN mapped[a], Seen(a, p)
        PROVE  regions_out # <<>>
    <2>1. PICK x \in Nat : x \in Bytes(mapped[a][p])
      BY <1>3, RegionBytes, Zenon
    <2>2. PutOut(x)
      BY <1>5, <2>1, Zenon DEF KeepsBytes, SeenByte
    <2> QED BY <2>2 DEF PutOut
  <1> QED BY <1>4, <1>5, Zenon

-----------------------------------------------------------------------------
(* Arithmetic of lines and widths.                                         *)

\* Division with remainder, and products, are monotone.
LEMMA DivMod ==
    ASSUME NEW B \in Nat \ {0}, NEW c \in Nat
    PROVE  /\ c % B \in 0 .. B - 1
           /\ c \div B \in Nat
           /\ c = B * (c \div B) + (c % B)
  OBVIOUS

\* A product grows with its factor.
LEMMA MulMono ==
    ASSUME NEW B \in Nat \ {0}, NEW p \in Nat, NEW q \in Nat
    PROVE  /\ B * p \in Nat
           /\ p <= q => B * p <= B * q
           /\ p < q => B * p + B <= B * q
  OBVIOUS

\* The line a byte is on does not decrease along the data.
LEMMA DivMono ==
    ASSUME NEW B \in Nat \ {0}, NEW c \in Nat, NEW d \in Nat, c <= d
    PROVE  c \div B <= d \div B
  <1> DEFINE p == c \div B
             q == d \div B
  <1>1. p \in Nat /\ q \in Nat
    BY DivMod, Zenon
  <1>2. B * p \in Nat /\ B * q \in Nat /\ (q < p => B * q + B <= B * p)
    BY <1>1, MulMono, Zenon
  <1>3. /\ c = B * p + (c % B) /\ c % B \in 0 .. B - 1
        /\ d = B * q + (d % B) /\ d % B \in 0 .. B - 1
    BY DivMod, Zenon
  <1> HIDE DEF p, q
  <1>4. ~(q < p)
    BY <1>1, <1>2, <1>3
  <1> QED BY <1>1, <1>4 DEF p, q

\* Nor does the first byte of that line.
LEMMA LineStart ==
    ASSUME NEW B \in Nat \ {0}, NEW c \in Nat, NEW d \in Nat, c <= d
    PROVE  /\ c - (c % B) \in Nat /\ d - (d % B) \in Nat
           /\ c - (c % B) <= d - (d % B)
  <1>1. c \div B \in Nat /\ d \div B \in Nat
    BY DivMod, Zenon
  <1>2. B * (c \div B) \in Nat /\ B * (d \div B) \in Nat
    BY <1>1, MulMono, Zenon
  <1>3. B * (c \div B) <= B * (d \div B)
    BY <1>1, DivMono, MulMono, Zenon
  <1> QED BY <1>1, <1>2, <1>3, DivMod

-----------------------------------------------------------------------------
(* Operations that map every region to one new region keep the order.      *)

\* SteppedCaret gives an offset and keeps the order of carets.
LEMMA SteppedCaretMono ==
    ASSUME NEW c \in Nat, NEW d \in Nat, c <= d,
           NEW direction \in Direction, NEW max_size \in Nat, NEW count \in Nat
    PROVE  /\ SteppedCaret(c, direction, max_size, count) \in Nat
           /\ SteppedCaret(d, direction, max_size, count) \in Nat
           /\ SteppedCaret(c, direction, max_size, count)
                <= SteppedCaret(d, direction, max_size, count)
  <1>1. BytesPerLine * count \in Nat
    BY BytesPerLineAssumption, MulMono, Zenon
  <1> QED BY <1>1 DEF SteppedCaret, Direction, Larger, Smaller

\* So does BoundaryCaret, when there is data.
LEMMA BoundaryCaretMono ==
    ASSUME NEW c \in Nat, NEW d \in Nat, c <= d,
           NEW direction \in Direction, NEW max_size \in Nat \ {0}
    PROVE  /\ BoundaryCaret(c, direction, max_size) \in Nat
           /\ BoundaryCaret(d, direction, max_size) \in Nat
           /\ BoundaryCaret(c, direction, max_size)
                <= BoundaryCaret(d, direction, max_size)
  <1>1. /\ c - (c % BytesPerLine) \in Nat /\ d - (d % BytesPerLine) \in Nat
        /\ c - (c % BytesPerLine) <= d - (d % BytesPerLine)
    BY BytesPerLineAssumption, LineStart, Zenon
  <1> QED BY <1>1, BytesPerLineAssumption DEF BoundaryCaret, Direction, Smaller

\* Two regions whose carets and tails are ordered start in order.
LEMMA OrderedEnds ==
    ASSUME NEW c \in Nat, NEW d \in Nat, c <= d,
           NEW t \in Nat, NEW u \in Nat, t <= u
    PROVE  /\ SelRegion(c, t) \in Region /\ SelRegion(d, u) \in Region
           /\ MinByte(SelRegion(c, t)) <= MinByte(SelRegion(d, u))
  BY NewRegion DEF Smaller

\* Of two disjoint regions, the first has the smaller caret and tail.
LEMMA DisjointEnds ==
    ASSUME NEW r \in Region, NEW s \in Region, r = s \/ MaxByte(r) < MinByte(s)
    PROVE  /\ r.caret \in Nat /\ s.caret \in Nat /\ r.caret <= s.caret
           /\ r.tail \in Nat /\ s.tail \in Nat /\ r.tail <= s.tail
           /\ MinByte(r) \in Nat /\ MinByte(s) \in Nat /\ MinByte(r) <= MinByte(s)
           /\ MaxByte(r) \in Nat /\ MaxByte(s) \in Nat /\ MaxByte(r) <= MaxByte(s)
  <1>1. /\ r.caret \in Nat /\ s.caret \in Nat /\ r.tail \in Nat /\ s.tail \in Nat
    BY Zenon DEF Region
  <1> QED BY <1>1, RegionEnds

\* An operation that makes one region of each starts the loop with its
\* invariant, if it keeps the order of the regions.
LEMMA OneToOneInv ==
    ASSUME IndInv, NEW name, NEW new,
           \A n \in DOMAIN regions : new[n] \in Region,
           \A a, b \in DOMAIN regions :
               MaxByte(regions[a]) < MinByte(regions[b]) =>
                   MinByte(new[a]) <= MinByte(new[b]),
           StartMapping(name, [n \in DOMAIN regions |-> <<new[n]>>]),
           len' \in Nat, overjump' \in BOOLEAN, removed_other' \in BOOLEAN
    PROVE  IndInv'
  <1> DEFINE made == [n \in DOMAIN regions |-> <<new[n]>>]
  <1>1. DOMAIN regions = 1 .. Len(regions) /\ Len(regions) \in Nat
    BY LenProperties, Zenon DEF IndInv, TypeOK
  <1>2. \A n \in DOMAIN regions :
            /\ made[n] = <<new[n]>>
            /\ made[n] \in Seq(Region)
            /\ DOMAIN made[n] = {1}
            /\ made[n][1] = new[n]
    OBVIOUS
  <1>3. made \in Seq(Seq(Region)) /\ Len(made) = Len(regions) /\ DOMAIN made = DOMAIN regions
    BY <1>1, <1>2, IsASeq
  <1> HIDE DEF made
  <1>4. Ordered(made)
    <2> SUFFICES ASSUME NEW a \in DOMAIN regions, NEW b \in DOMAIN regions,
                        NEW p \in DOMAIN made[a], NEW q \in DOMAIN made[b],
                        Before(a, p, b, q)
                 PROVE  MinByte(made[a][p]) <= MinByte(made[b][q])
      BY <1>3, Zenon DEF Ordered
    <2> SUFFICES MinByte(new[a]) <= MinByte(new[b])
      BY <1>2, Zenon
    <2>0. a <= b
      BY <1>1 DEF Before
    <2>1. CASE a = b
      BY <2>1, RegionEnds, Zenon
    <2>2. CASE a < b
      <3>1. MaxByte(regions[a]) < MinByte(regions[b])
        BY <2>2, Zenon DEF IndInv, RegionsSortedDisjoint, Separated
      <3> QED BY <3>1, Zenon
    <2> QED BY <2>0, <2>1, <2>2, <1>1
  <1>5. StartMapping(name, made)
    BY Zenon DEF made
  <1> QED BY <1>3, <1>4, <1>5, StartMappingInv, Zenon

-----------------------------------------------------------------------------
(* One lemma per operation: it starts map_selections with its invariant.   *)

\* h, j, k, l and the arrow keys.
LEMMA MoveInv ==
    ASSUME IndInv, NEW direction \in Direction, NEW count \in Nat,
           Move(direction, count)
    PROVE  IndInv'
  <1> DEFINE new == [n \in DOMAIN regions |-> SimpleMove(regions[n], direction, len, count)]
  <1>1. StartMapping("move", [n \in DOMAIN regions |-> <<new[n]>>])
    BY Zenon DEF Move, Regions1
  <1>2. len' \in Nat /\ overjump' \in BOOLEAN /\ removed_other' \in BOOLEAN
    BY TypedRegions, Zenon DEF Move, history
  <1>3. ASSUME NEW r \in Region, NEW s \in Region, r = s \/ MaxByte(r) < MinByte(s)
        PROVE  /\ SimpleMove(r, direction, len, count) \in Region
               /\ MinByte(SimpleMove(r, direction, len, count))
                    <= MinByte(SimpleMove(s, direction, len, count))
    <2>1. CASE len = 0
      BY <2>1, <1>3, DisjointEnds, Zenon DEF SimpleMove
    <2>2. CASE len # 0
      BY <2>2, <1>3, DisjointEnds, SteppedCaretMono, OrderedEnds, TypedRegions, Zenon DEF SimpleMove
    <2> QED BY <2>1, <2>2, Zenon
  <1>4. \A n \in DOMAIN regions : new[n] \in Region
    BY <1>3, TypedRegions, Zenon
  <1>5. \A a, b \in DOMAIN regions :
            MaxByte(regions[a]) < MinByte(regions[b]) => MinByte(new[a]) <= MinByte(new[b])
    BY <1>3, TypedRegions, Zenon
  <1> HIDE DEF new
  <1> QED BY <1>1, <1>2, <1>4, <1>5, OneToOneInv, Zenon

\* H, J, K, L.
LEMMA ExtendInv ==
    ASSUME IndInv, NEW direction \in Direction, NEW count \in Nat,
           Extend(direction, count)
    PROVE  IndInv'
  <1> DEFINE new == [n \in DOMAIN regions |-> SimpleExtend(regions[n], direction, len, count)]
  <1>1. StartMapping("extend", [n \in DOMAIN regions |-> <<new[n]>>])
    BY Zenon DEF Extend, Regions1
  <1>2. len' \in Nat /\ overjump' \in BOOLEAN /\ removed_other' \in BOOLEAN
    BY TypedRegions, Zenon DEF Extend, history
  <1>3. ASSUME NEW r \in Region, NEW s \in Region, r = s \/ MaxByte(r) < MinByte(s)
        PROVE  /\ SimpleExtend(r, direction, len, count) \in Region
               /\ MinByte(SimpleExtend(r, direction, len, count))
                    <= MinByte(SimpleExtend(s, direction, len, count))
    <2>1. CASE len = 0
      BY <2>1, <1>3, DisjointEnds, Zenon DEF SimpleExtend
    <2>2. CASE len # 0
      BY <2>2, <1>3, DisjointEnds, SteppedCaretMono, OrderedEnds, TypedRegions, Zenon DEF SimpleExtend
    <2> QED BY <2>1, <2>2, Zenon
  <1>4. \A n \in DOMAIN regions : new[n] \in Region
    BY <1>3, TypedRegions, Zenon
  <1>5. \A a, b \in DOMAIN regions :
            MaxByte(regions[a]) < MinByte(regions[b]) => MinByte(new[a]) <= MinByte(new[b])
    BY <1>3, TypedRegions, Zenon
  <1> HIDE DEF new
  <1> QED BY <1>1, <1>2, <1>4, <1>5, OneToOneInv, Zenon

\* <count>g.
LEMMA JumpToOffsetInv ==
    ASSUME IndInv, NEW offset \in Nat, JumpToOffset(offset)
    PROVE  IndInv'
  <1> DEFINE new == [n \in DOMAIN regions |-> JumpTo(regions[n], offset)]
  <1>1. StartMapping("jump_to", [n \in DOMAIN regions |-> <<new[n]>>])
    BY Zenon DEF JumpToOffset, Regions1
  <1>2. len' \in Nat /\ overjump' \in BOOLEAN /\ removed_other' \in BOOLEAN
    BY TypedRegions, Zenon DEF JumpToOffset, history
  <1>3. ASSUME NEW r \in Region, NEW s \in Region, r = s \/ MaxByte(r) < MinByte(s)
        PROVE  /\ JumpTo(r, offset) \in Region
               /\ MinByte(JumpTo(r, offset)) <= MinByte(JumpTo(s, offset))
    BY OrderedEnds DEF JumpTo
  <1>4. \A n \in DOMAIN regions : new[n] \in Region
    BY <1>3, TypedRegions, Zenon
  <1>5. \A a, b \in DOMAIN regions :
            MaxByte(regions[a]) < MinByte(regions[b]) => MinByte(new[a]) <= MinByte(new[b])
    BY <1>3, TypedRegions, Zenon
  <1> HIDE DEF new
  <1> QED BY <1>1, <1>2, <1>4, <1>5, OneToOneInv, Zenon

\* <count>G.
LEMMA ExtendToOffsetInv ==
    ASSUME IndInv, NEW offset \in Nat, ExtendToOffset(offset)
    PROVE  IndInv'
  <1> DEFINE new == [n \in DOMAIN regions |-> ExtendTo(regions[n], offset)]
  <1>1. StartMapping("extend_to", [n \in DOMAIN regions |-> <<new[n]>>])
    BY Zenon DEF ExtendToOffset, Regions1
  <1>2. len' \in Nat /\ overjump' \in BOOLEAN /\ removed_other' \in BOOLEAN
    BY TypedRegions, Zenon DEF ExtendToOffset, history
  <1>3. ASSUME NEW r \in Region, NEW s \in Region, r = s \/ MaxByte(r) < MinByte(s)
        PROVE  /\ ExtendTo(r, offset) \in Region
               /\ MinByte(ExtendTo(r, offset)) <= MinByte(ExtendTo(s, offset))
    <2>1. offset <= offset
      OBVIOUS
    <2> QED BY <2>1, <1>3, DisjointEnds, OrderedEnds, Zenon DEF ExtendTo
  <1>4. \A n \in DOMAIN regions : new[n] \in Region
    BY <1>3, TypedRegions, Zenon
  <1>5. \A a, b \in DOMAIN regions :
            MaxByte(regions[a]) < MinByte(regions[b]) => MinByte(new[a]) <= MinByte(new[b])
    BY <1>3, TypedRegions, Zenon
  <1> HIDE DEF new
  <1> QED BY <1>1, <1>2, <1>4, <1>5, OneToOneInv, Zenon

\* g with a direction.
LEMMA JumpBoundaryInv ==
    ASSUME IndInv, NEW direction \in Direction, JumpBoundary(direction)
    PROVE  IndInv'
  <1> DEFINE new == [n \in DOMAIN regions |-> JumpToBoundary(regions[n], direction, len)]
  <1>1. StartMapping("jump_boundary", [n \in DOMAIN regions |-> <<new[n]>>])
    BY Zenon DEF JumpBoundary, Regions1
  <1>2. len' \in Nat /\ overjump' \in BOOLEAN /\ removed_other' \in BOOLEAN
    BY TypedRegions, Zenon DEF JumpBoundary, history
  <1>3. ASSUME NEW r \in Region, NEW s \in Region, r = s \/ MaxByte(r) < MinByte(s)
        PROVE  /\ JumpToBoundary(r, direction, len) \in Region
               /\ MinByte(JumpToBoundary(r, direction, len))
                    <= MinByte(JumpToBoundary(s, direction, len))
    <2>1. CASE len = 0
      BY <2>1, <1>3, DisjointEnds, Zenon DEF JumpToBoundary
    <2>2. CASE len # 0
      BY <2>2, <1>3, DisjointEnds, BoundaryCaretMono, OrderedEnds, TypedRegions, Zenon DEF JumpToBoundary
    <2> QED BY <2>1, <2>2, Zenon
  <1>4. \A n \in DOMAIN regions : new[n] \in Region
    BY <1>3, TypedRegions, Zenon
  <1>5. \A a, b \in DOMAIN regions :
            MaxByte(regions[a]) < MinByte(regions[b]) => MinByte(new[a]) <= MinByte(new[b])
    BY <1>3, TypedRegions, Zenon
  <1> HIDE DEF new
  <1> QED BY <1>1, <1>2, <1>4, <1>5, OneToOneInv, Zenon

\* G with a direction.
LEMMA ExtendBoundaryInv ==
    ASSUME IndInv, NEW direction \in Direction, ExtendBoundary(direction)
    PROVE  IndInv'
  <1> DEFINE new == [n \in DOMAIN regions |-> ExtendToBoundary(regions[n], direction, len)]
  <1>1. StartMapping("extend_boundary", [n \in DOMAIN regions |-> <<new[n]>>])
    BY Zenon DEF ExtendBoundary, Regions1
  <1>2. len' \in Nat /\ overjump' \in BOOLEAN /\ removed_other' \in BOOLEAN
    BY TypedRegions, Zenon DEF ExtendBoundary, history
  <1>3. ASSUME NEW r \in Region, NEW s \in Region, r = s \/ MaxByte(r) < MinByte(s)
        PROVE  /\ ExtendToBoundary(r, direction, len) \in Region
               /\ MinByte(ExtendToBoundary(r, direction, len))
                    <= MinByte(ExtendToBoundary(s, direction, len))
    <2>1. CASE len = 0
      BY <2>1, <1>3, DisjointEnds, Zenon DEF ExtendToBoundary
    <2>2. CASE len # 0
      BY <2>2, <1>3, DisjointEnds, BoundaryCaretMono, OrderedEnds, TypedRegions, Zenon DEF ExtendToBoundary
    <2> QED BY <2>1, <2>2, Zenon
  <1>4. \A n \in DOMAIN regions : new[n] \in Region
    BY <1>3, TypedRegions, Zenon
  <1>5. \A a, b \in DOMAIN regions :
            MaxByte(regions[a]) < MinByte(regions[b]) => MinByte(new[a]) <= MinByte(new[b])
    BY <1>3, TypedRegions, Zenon
  <1> HIDE DEF new
  <1> QED BY <1>1, <1>2, <1>4, <1>5, OneToOneInv, Zenon

\* Swapping carets and tails.
LEMMA SwapCaretsInv ==
    ASSUME IndInv, SwapCarets
    PROVE  IndInv'
  <1> DEFINE new == [n \in DOMAIN regions |-> SwapCaret(regions[n])]
  <1>1. StartMapping("swap_caret", [n \in DOMAIN regions |-> <<new[n]>>])
    BY Zenon DEF SwapCarets, Regions1
  <1>2. len' \in Nat /\ overjump' \in BOOLEAN /\ removed_other' \in BOOLEAN
    BY TypedRegions, Zenon DEF SwapCarets, history
  <1>3. ASSUME NEW r \in Region, NEW s \in Region, r = s \/ MaxByte(r) < MinByte(s)
        PROVE  /\ SwapCaret(r) \in Region
               /\ MinByte(SwapCaret(r)) <= MinByte(SwapCaret(s))
    BY <1>3, DisjointEnds, OrderedEnds, Zenon DEF SwapCaret
  <1>4. \A n \in DOMAIN regions : new[n] \in Region
    BY <1>3, TypedRegions, Zenon
  <1>5. \A a, b \in DOMAIN regions :
            MaxByte(regions[a]) < MinByte(regions[b]) => MinByte(new[a]) <= MinByte(new[b])
    BY <1>3, TypedRegions, Zenon
  <1> HIDE DEF new
  <1> QED BY <1>1, <1>2, <1>4, <1>5, OneToOneInv, Zenon

\* Collapsing to the carets.
LEMMA CollapseAllInv ==
    ASSUME IndInv, CollapseAll
    PROVE  IndInv'
  <1> DEFINE new == [n \in DOMAIN regions |-> Collapse(regions[n])]
  <1>1. StartMapping("collapse", [n \in DOMAIN regions |-> <<new[n]>>])
    BY Zenon DEF CollapseAll, Regions1
  <1>2. len' \in Nat /\ overjump' \in BOOLEAN /\ removed_other' \in BOOLEAN
    BY TypedRegions, Zenon DEF CollapseAll, history
  <1>3. ASSUME NEW r \in Region, NEW s \in Region, r = s \/ MaxByte(r) < MinByte(s)
        PROVE  /\ Collapse(r) \in Region
               /\ MinByte(Collapse(r)) <= MinByte(Collapse(s))
    BY <1>3, DisjointEnds, OrderedEnds, Zenon DEF Collapse
  <1>4. \A n \in DOMAIN regions : new[n] \in Region
    BY <1>3, TypedRegions, Zenon
  <1>5. \A a, b \in DOMAIN regions :
            MaxByte(regions[a]) < MinByte(regions[b]) => MinByte(new[a]) <= MinByte(new[b])
    BY <1>3, TypedRegions, Zenon
  <1> HIDE DEF new
  <1> QED BY <1>1, <1>2, <1>4, <1>5, OneToOneInv, Zenon

\* Entering Insert mode.
LEMMA EnterInsertInv ==
    ASSUME IndInv, EnterInsert
    PROVE  IndInv'
  <1> DEFINE new == [n \in DOMAIN regions |-> ToBackward(regions[n])]
  <1>1. StartMapping("to_backward", [n \in DOMAIN regions |-> <<new[n]>>])
    BY Zenon DEF EnterInsert, Regions1
  <1>2. len' \in Nat /\ overjump' \in BOOLEAN /\ removed_other' \in BOOLEAN
    BY TypedRegions, Zenon DEF EnterInsert, history
  <1>3. ASSUME NEW r \in Region, NEW s \in Region, r = s \/ MaxByte(r) < MinByte(s)
        PROVE  /\ ToBackward(r) \in Region
               /\ MinByte(ToBackward(r)) <= MinByte(ToBackward(s))
    BY <1>3, DisjointEnds, OrderedEnds, Zenon DEF ToBackward
  <1>4. \A n \in DOMAIN regions : new[n] \in Region
    BY <1>3, TypedRegions, Zenon
  <1>5. \A a, b \in DOMAIN regions :
            MaxByte(regions[a]) < MinByte(regions[b]) => MinByte(new[a]) <= MinByte(new[b])
    BY <1>3, TypedRegions, Zenon
  <1> HIDE DEF new
  <1> QED BY <1>1, <1>2, <1>4, <1>5, OneToOneInv, Zenon

\* The arrow keys of Insert mode after half a hex byte.
LEMMA MoveFromHalfInv ==
    ASSUME IndInv, NEW direction \in Direction, MoveFromHalf(direction)
    PROVE  IndInv'
  <1> DEFINE new == [n \in DOMAIN regions |-> SimpleMove(SimpleMove(regions[n], direction, len, 1), "Left", len, 1)]
  <1>1. StartMapping("move_from_half", [n \in DOMAIN regions |-> <<new[n]>>])
    BY Zenon DEF MoveFromHalf, Regions1
  <1>2. len' \in Nat /\ overjump' \in BOOLEAN /\ removed_other' \in BOOLEAN
    BY TypedRegions, Zenon DEF MoveFromHalf, history
  <1>3. ASSUME NEW r \in Region, NEW s \in Region, r = s \/ MaxByte(r) < MinByte(s)
        PROVE  /\ SimpleMove(SimpleMove(r, direction, len, 1), "Left", len, 1) \in Region
               /\ MinByte(SimpleMove(SimpleMove(r, direction, len, 1), "Left", len, 1))
                    <= MinByte(SimpleMove(SimpleMove(s, direction, len, 1), "Left", len, 1))
    <2>1. CASE len = 0
      BY <2>1, <1>3, DisjointEnds, Zenon DEF SimpleMove
    <2>2. CASE len # 0
      <3> DEFINE c == SteppedCaret(r.caret, direction, len, 1)
                 d == SteppedCaret(s.caret, direction, len, 1)
      <3>1. c \in Nat /\ d \in Nat /\ c <= d
        BY <1>3, DisjointEnds, SteppedCaretMono, TypedRegions, Zenon
      <3>2. /\ SteppedCaret(c, "Left", len, 1) \in Nat /\ SteppedCaret(d, "Left", len, 1) \in Nat
            /\ SteppedCaret(c, "Left", len, 1) <= SteppedCaret(d, "Left", len, 1)
        BY <3>1, SteppedCaretMono, TypedRegions, Zenon DEF Direction
      <3>3. /\ SimpleMove(r, direction, len, 1) = SelRegion(c, c)
            /\ SimpleMove(s, direction, len, 1) = SelRegion(d, d)
        BY <2>2, Zenon DEF SimpleMove
      <3> HIDE DEF c, d
      <3>4. /\ SimpleMove(SelRegion(c, c), "Left", len, 1) =
                 SelRegion(SteppedCaret(c, "Left", len, 1), SteppedCaret(c, "Left", len, 1))
            /\ SimpleMove(SelRegion(d, d), "Left", len, 1) =
                 SelRegion(SteppedCaret(d, "Left", len, 1), SteppedCaret(d, "Left", len, 1))
        BY <2>2, Zenon DEF SimpleMove, SelRegion
      <3> QED BY <3>2, <3>3, <3>4, OrderedEnds, Zenon
    <2> QED BY <2>1, <2>2, Zenon
  <1>4. \A n \in DOMAIN regions : new[n] \in Region
    BY <1>3, TypedRegions, Zenon
  <1>5. \A a, b \in DOMAIN regions :
            MaxByte(regions[a]) < MinByte(regions[b]) => MinByte(new[a]) <= MinByte(new[b])
    BY <1>3, TypedRegions, Zenon
  <1> HIDE DEF new
  <1> QED BY <1>1, <1>2, <1>4, <1>5, OneToOneInv, Zenon

\* Entering Insert mode to append.
LEMMA EnterAppendInv ==
    ASSUME IndInv, EnterAppend
    PROVE  IndInv'
  <1> DEFINE new == [n \in DOMAIN regions |-> SimpleExtend(ToForward(regions[n]), "Right", len, 1)]
  <1>1. StartMapping("append", [n \in DOMAIN regions |-> <<new[n]>>])
    BY Zenon DEF EnterAppend, Regions1
  <1>2. len' \in Nat /\ overjump' \in BOOLEAN /\ removed_other' \in BOOLEAN
    BY TypedRegions, Zenon DEF EnterAppend, history
  <1>3. ASSUME NEW r \in Region, NEW s \in Region, r = s \/ MaxByte(r) < MinByte(s)
        PROVE  /\ SimpleExtend(ToForward(r), "Right", len, 1) \in Region
               /\ MinByte(SimpleExtend(ToForward(r), "Right", len, 1))
                    <= MinByte(SimpleExtend(ToForward(s), "Right", len, 1))
    <2>1. CASE len = 0
      BY <2>1, <1>3, DisjointEnds, OrderedEnds, Zenon DEF SimpleExtend, ToForward
    <2>2. CASE len # 0
      <3> DEFINE c == SteppedCaret(MaxByte(r), "Right", len, 1)
                 d == SteppedCaret(MaxByte(s), "Right", len, 1)
      <3>1. c \in Nat /\ d \in Nat /\ c <= d
        BY <1>3, DisjointEnds, SteppedCaretMono, TypedRegions, Zenon DEF Direction
      <3>2. /\ SimpleExtend(ToForward(r), "Right", len, 1) = SelRegion(c, MinByte(r))
            /\ SimpleExtend(ToForward(s), "Right", len, 1) = SelRegion(d, MinByte(s))
        BY <2>2, Zenon DEF SimpleExtend, ToForward, SelRegion
      <3> HIDE DEF c, d
      <3> QED BY <3>1, <3>2, <1>3, DisjointEnds, OrderedEnds
    <2> QED BY <2>1, <2>2, Zenon
  <1>4. \A n \in DOMAIN regions : new[n] \in Region
    BY <1>3, TypedRegions, Zenon
  <1>5. \A a, b \in DOMAIN regions :
            MaxByte(regions[a]) < MinByte(regions[b]) => MinByte(new[a]) <= MinByte(new[b])
    BY <1>3, TypedRegions, Zenon
  <1> HIDE DEF new
  <1> QED BY <1>1, <1>2, <1>4, <1>5, OneToOneInv, Zenon

-----------------------------------------------------------------------------
(* Operations that change the selection in place.                          *)

\* A new selection that satisfies the invariants, outside map_selections.
LEMMA InPlaceInv ==
    ASSUME IndInv, NEW new \in Seq(Region), Separated(new),
           NEW m \in DOMAIN new, new[m].main,
           status = "idle", regions' = new, main_selection' = m,
           UNCHANGED <<status, loop>>,
           len' \in Nat, overjump' \in BOOLEAN, removed_other' \in BOOLEAN
    PROVE  IndInv'
  <1>1. m \in Nat
    BY LenProperties
  <1>2. TypeOK'
    BY <1>1, Zenon DEF IndInv, TypeOK, loop
  <1> QED BY <1>2, Zenon DEF IndInv, RegionsSortedDisjoint, MainIsFlagged, Separated

\* A single flagged region is a selection.
LEMMA SingleRegion ==
    ASSUME NEW r \in Region
    PROVE  /\ <<MainRegion(r)>> \in Seq(Region)
           /\ Separated(<<MainRegion(r)>>)
           /\ 1 \in DOMAIN <<MainRegion(r)>>
           /\ <<MainRegion(r)>>[1].main
  <1>1. MainRegion(r) \in Region /\ MainRegion(r).main
    BY MainRegionEnds, Zenon
  <1> HIDE DEF MainRegion
  <1>2. <<MainRegion(r)>>[1].main
    BY <1>1, Zenon
  <1> QED BY <1>1, <1>2 DEF Separated

\* Unflagging a region leaves the regions sorted and disjoint, as flagging one.
LEMMA UnflaggedSeparated ==
    ASSUME NEW rs \in Seq(Region), Separated(rs), NEW index \in DOMAIN rs
    PROVE  LET new == [rs EXCEPT ![index].main = FALSE]
           IN  new \in Seq(Region) /\ Separated(new) /\ DOMAIN new = DOMAIN rs
  <1> DEFINE new == [rs EXCEPT ![index].main = FALSE]
             plain == [rs[index] EXCEPT !.main = FALSE]
  <1>1. DOMAIN rs = 1 .. Len(rs) /\ rs[index] \in Region
    BY LenProperties, ElementOfSeq, Zenon
  <1>2. /\ plain \in Region
        /\ MinByte(plain) = MinByte(rs[index]) /\ MaxByte(plain) = MaxByte(rs[index])
    BY <1>1, Zenon DEF Region, MinByte, MaxByte
  <1>3. new = [rs EXCEPT ![index] = plain]
    BY Zenon
  <1> HIDE DEF plain
  <1>4. /\ new \in Seq(Region) /\ DOMAIN new = DOMAIN rs
        /\ \A n \in DOMAIN rs : new[n] = IF n = index THEN plain ELSE rs[n]
    BY <1>1, <1>2, <1>3, ExceptSeq, Zenon
  <1> HIDE DEF new
  <1>5. \A n \in DOMAIN rs : MinByte(new[n]) = MinByte(rs[n]) /\ MaxByte(new[n]) = MaxByte(rs[n])
    BY <1>2, <1>4, Zenon
  <1> QED BY <1>4, <1>5, Zenon DEF Separated, new

\* Leaving one region out does, too.
LEMMA WithoutIndexSeparated ==
    ASSUME NEW rs \in Seq(Region), Separated(rs), Len(rs) > 1, NEW index \in DOMAIN rs
    PROVE  /\ WithoutIndex(rs, index) \in Seq(Region)
           /\ Separated(WithoutIndex(rs, index))
           /\ DOMAIN WithoutIndex(rs, index) = 1 .. Len(rs) - 1
  <1> DEFINE new == WithoutIndex(rs, index)
  <1>1. DOMAIN rs = 1 .. Len(rs) /\ Len(rs) \in Nat /\ \A n \in DOMAIN rs : rs[n] \in Region
    BY LenProperties, ElementOfSeq, Zenon
  <1>2. /\ DOMAIN new = 1 .. Len(rs) - 1
        /\ \A n \in 1 .. Len(rs) - 1 : new[n] = IF n < index THEN rs[n] ELSE rs[n + 1]
    BY Zenon DEF WithoutIndex
  <1>3. \A n \in 1 .. Len(rs) - 1 : new[n] \in Region
    BY <1>1, <1>2
  <1>4. new \in Seq(Region)
    BY <1>1, <1>3, IsASeq DEF WithoutIndex
  <1> HIDE DEF new
  <1>5. ASSUME NEW a \in DOMAIN new, NEW b \in DOMAIN new, a < b
        PROVE  MaxByte(new[a]) < MinByte(new[b])
    <2> DEFINE a1 == IF a < index THEN a ELSE a + 1
               b1 == IF b < index THEN b ELSE b + 1
    <2>1. a1 \in DOMAIN rs /\ b1 \in DOMAIN rs /\ a1 < b1
      BY <1>1, <1>2, <1>5
    <2>2. new[a] = rs[a1] /\ new[b] = rs[b1]
      BY <1>2, Zenon
    <2> QED BY <2>1, <2>2, Zenon DEF Separated
  <1>6. Separated(new)
    BY <1>5, Zenon DEF Separated
  <1> QED BY <1>2, <1>4, <1>6, Zenon DEF new

\* % keeps an index within the regions.
LEMMA WrapsIntoDomain ==
    ASSUME NEW n \in Nat \ {0}, NEW x \in Nat
    PROVE  (x % n) + 1 \in 1 .. n
  OBVIOUS

\* ' ' and <count>' '.
LEMMA RetainInv ==
    ASSUME IndInv, NEW index \in DOMAIN regions, Retain(index)
    PROVE  IndInv'
  <1>1. regions[index] \in Region
    BY TypedRegions, Zenon
  <1> QED BY <1>1, SingleRegion, InPlaceInv, TypedRegions, Zenon DEF Retain, InPlace

\* Alt-' ' and <count>Alt-' '.
LEMMA RemoveInv ==
    ASSUME IndInv, NEW index \in DOMAIN regions, Remove(index)
    PROVE  IndInv'
  <1> DEFINE m == Smaller(Len(regions) - 1, main_selection)
             new == WithMain(WithoutIndex(regions, index), m)
  <1>1. /\ regions \in Seq(Region) /\ Separated(regions)
        /\ main_selection \in DOMAIN regions /\ regions[main_selection].main
        /\ DOMAIN regions = 1 .. Len(regions) /\ Len(regions) \in Nat
    BY LenProperties, Zenon DEF IndInv, TypeOK, RegionsSortedDisjoint, MainIsFlagged
  <1>2. removed_other' \in BOOLEAN
    BY TypedRegions, Zenon DEF Remove
  <1>3. CASE Len(regions) = 1
    <2>1. InPlace(regions, main_selection)
      BY <1>3, Zenon DEF Remove
    <2> QED BY <2>1, <1>1, <1>2, InPlaceInv, TypedRegions, Zenon DEF InPlace
  <1>4. CASE Len(regions) # 1
    <2>1. InPlace(new, m)
      BY <1>4, Zenon DEF Remove
    <2>2. Len(regions) > 1 /\ m \in 1 .. Len(regions) - 1
      BY <1>1, <1>4 DEF Smaller
    <2>3. new \in Seq(Region) /\ Separated(new) /\ m \in DOMAIN new /\ new[m].main
      BY <1>1, <2>2, WithoutIndexSeparated, WithMainSeparated, Zenon
    <2> HIDE DEF new, m
    <2> QED BY <2>1, <2>3, <1>2, InPlaceInv, TypedRegions, Zenon DEF InPlace
  <1> QED BY <1>3, <1>4, Zenon

\* Making another region the main one.
LEMMA SwitchedInv ==
    ASSUME IndInv, NEW m \in DOMAIN regions, InPlace(Switched(m), m), UNCHANGED removed_other
    PROVE  IndInv'
  <1> DEFINE plain == [regions EXCEPT ![main_selection].main = FALSE]
  <1>1. /\ regions \in Seq(Region) /\ Separated(regions) /\ main_selection \in DOMAIN regions
    BY Zenon DEF IndInv, TypeOK, RegionsSortedDisjoint, MainIsFlagged
  <1>2. plain \in Seq(Region) /\ Separated(plain) /\ DOMAIN plain = DOMAIN regions
    BY <1>1, UnflaggedSeparated, Zenon
  <1>3. Switched(m) = WithMain(plain, m)
    BY Zenon DEF Switched
  <1> HIDE DEF plain
  <1>4. /\ Switched(m) \in Seq(Region) /\ Separated(Switched(m))
        /\ m \in DOMAIN Switched(m) /\ Switched(m)[m].main
    BY <1>2, <1>3, WithMainSeparated, Zenon
  <1> QED BY <1>4, InPlaceInv, TypedRegions, Zenon DEF InPlace

\* ( and ) choose an index of the regions.
LEMMA ChosenIndex ==
    ASSUME IndInv, NEW count \in Nat, SelectNext(count) \/ SelectPrev(count)
    PROVE  \E m \in DOMAIN regions : InPlace(Switched(m), m) /\ UNCHANGED removed_other
  <1>1. /\ DOMAIN regions = 1 .. Len(regions) /\ Len(regions) \in Nat \ {0}
        /\ main_selection \in 1 .. Len(regions)
    BY LenProperties DEF IndInv, TypeOK, MainIsFlagged
  <1>2. CASE SelectNext(count)
    <2> DEFINE m == ((main_selection - 1 + count) % Len(regions)) + 1
    <2>1. m \in DOMAIN regions
      BY <1>1, WrapsIntoDomain
    <2>2. InPlace(Switched(m), m) /\ UNCHANGED removed_other
      BY <1>2, Zenon DEF SelectNext
    <2> HIDE DEF m
    <2> QED BY <2>1, <2>2, Zenon
  <1>3. CASE SelectPrev(count)
    <2> DEFINE x == main_selection - 1 + Len(regions) - (count % Len(regions))
               m == (x % Len(regions)) + 1
    <2>0. count % Len(regions) \in 0 .. Len(regions) - 1
      BY <1>1, DivMod, Zenon
    <2>1. x \in Nat
      BY <1>1, <2>0
    <2>2. InPlace(Switched(m), m) /\ UNCHANGED removed_other
      BY <1>3, Zenon DEF SelectPrev
    <2> HIDE DEF x
    <2>3. m \in DOMAIN regions
      BY <2>1, <1>1, WrapsIntoDomain, Zenon
    <2> HIDE DEF m
    <2> QED BY <2>2, <2>3, Zenon
  <1> QED BY <1>2, <1>3, Zenon

\* select_next and select_prev cycle the main region.
LEMMA SelectNextPrevInv ==
    ASSUME IndInv, NEW count \in Nat, SelectNext(count) \/ SelectPrev(count)
    PROVE  IndInv'
  BY ChosenIndex, SwitchedInv, Zenon

\* %.
LEMMA SelectAllInv == IndInv /\ SelectAll => IndInv'
  <1> SUFFICES ASSUME IndInv, SelectAll
               PROVE  IndInv'
    BY Zenon
  <1> DEFINE r == IF len = 0 THEN SelRegion(0, 0) ELSE SelRegion(len - 1, 0)
  <1>1. r \in Region
    BY TypedRegions, NewRegion
  <1>2. InPlace(<<MainRegion(r)>>, 1)
    BY Zenon DEF SelectAll, Cleared
  <1> HIDE DEF r
  <1> QED BY <1>1, <1>2, SingleRegion, InPlaceInv, TypedRegions, Zenon DEF InPlace, SelectAll

-----------------------------------------------------------------------------
(* Edits, splits and the rest.                                             *)

\* xi-rope's Transformer keeps the order of offsets.
LEMMA TransformedMono ==
    ASSUME len \in Nat, NEW new_max_len \in Nat, NEW t \in Transforms(len, new_max_len),
           NEW c \in Nat, NEW d \in Nat, c <= d
    PROVE  /\ Transformed(t, c, new_max_len) \in Nat
           /\ Transformed(t, d, new_max_len) \in Nat
           /\ Transformed(t, c, new_max_len) <= Transformed(t, d, new_max_len)
  <1>1. /\ \A x \in 0 .. len : t[x] \in 0 .. new_max_len
        /\ \A x, y \in 0 .. len : x <= y => t[x] <= t[y]
    BY Zenon DEF Transforms
  <1> QED BY <1>1 DEF Transformed

\* An edit, or the clearing of the selection when it leaves no data.
LEMMA ApplyDeltaInv ==
    ASSUME IndInv, NEW new_max_len \in Nat, NEW t \in Transforms(len, new_max_len),
           ApplyDelta(t, new_max_len)
    PROVE  IndInv'
  <1>1. CASE new_max_len = 0
    <2>1. SelRegion(0, 0) \in Region
      BY NewRegion, Zenon
    <2>2. /\ status = "idle" /\ regions' = <<MainRegion(SelRegion(0, 0))>>
          /\ main_selection' = 1 /\ UNCHANGED <<status, loop>>
          /\ len' \in Nat /\ UNCHANGED <<overjump, removed_other>>
      BY <1>1, Zenon DEF ApplyDelta, ClearSelection, Cleared, history
    <2> QED BY <2>1, <2>2, SingleRegion, InPlaceInv, TypedRegions, Zenon
  <1>2. CASE new_max_len # 0
    <2> DEFINE new == [n \in DOMAIN regions |->
                          SelRegion(Transformed(t, regions[n].caret, new_max_len),
                                    Transformed(t, regions[n].tail, new_max_len))]
    <2>1. StartMapping("delta", [n \in DOMAIN regions |-> <<new[n]>>])
      BY <1>2, Zenon DEF ApplyDelta, Regions1
    <2>2. len' \in Nat /\ overjump' \in BOOLEAN /\ removed_other' \in BOOLEAN
      BY TypedRegions, Zenon DEF ApplyDelta, history
    <2>3. ASSUME NEW r \in Region, NEW s \in Region, r = s \/ MaxByte(r) < MinByte(s)
          PROVE  /\ SelRegion(Transformed(t, r.caret, new_max_len),
                              Transformed(t, r.tail, new_max_len)) \in Region
                 /\ MinByte(SelRegion(Transformed(t, r.caret, new_max_len),
                                      Transformed(t, r.tail, new_max_len)))
                      <= MinByte(SelRegion(Transformed(t, s.caret, new_max_len),
                                           Transformed(t, s.tail, new_max_len)))
      BY <2>3, DisjointEnds, TransformedMono, OrderedEnds, TypedRegions, Zenon
    <2>4. \A n \in DOMAIN regions : new[n] \in Region
      BY <2>3, TypedRegions, Zenon
    <2>5. \A a, b \in DOMAIN regions :
              MaxByte(regions[a]) < MinByte(regions[b]) => MinByte(new[a]) <= MinByte(new[b])
      BY <2>3, TypedRegions, Zenon
    <2> HIDE DEF new
    <2> QED BY <2>1, <2>2, <2>4, <2>5, OneToOneInv, Zenon
  <1> QED BY <1>1, <1>2, Zenon

\* The first digit of a hex byte.
LEMMA ApplyDeltaHalfInv ==
    ASSUME IndInv, NEW new_max_len \in Nat, NEW t \in Transforms(len, new_max_len),
           ApplyDeltaHalf(t, new_max_len)
    PROVE  IndInv'
  <1> DEFINE c(n) == Transformed(t, regions[n].caret, new_max_len)
             u(n) == Transformed(t, regions[n].tail, new_max_len)
             new == [n \in DOMAIN regions |-> SelRegion(c(n) - 1, u(n))]
  <1>1. StartMapping("delta_half", [n \in DOMAIN regions |-> <<new[n]>>])
    BY Zenon DEF ApplyDeltaHalf, Regions1
  <1>2. len' \in Nat /\ overjump' \in BOOLEAN /\ removed_other' \in BOOLEAN
    BY TypedRegions, Zenon DEF ApplyDeltaHalf, history
  <1>3. \A n \in DOMAIN regions : c(n) >= 1
    BY Zenon DEF ApplyDeltaHalf
  <1>4. ASSUME NEW a \in DOMAIN regions, NEW b \in DOMAIN regions,
               regions[a] = regions[b] \/ MaxByte(regions[a]) < MinByte(regions[b])
        PROVE  new[a] \in Region /\ MinByte(new[a]) <= MinByte(new[b])
    <2>1. /\ c(a) \in Nat /\ c(b) \in Nat /\ c(a) <= c(b)
          /\ u(a) \in Nat /\ u(b) \in Nat /\ u(a) <= u(b)
      BY <1>4, TypedRegions, DisjointEnds, TransformedMono, Zenon
    <2>2. c(a) - 1 \in Nat /\ c(b) - 1 \in Nat /\ c(a) - 1 <= c(b) - 1
      BY <2>1, <1>3
    <2>3. new[a] = SelRegion(c(a) - 1, u(a)) /\ new[b] = SelRegion(c(b) - 1, u(b))
      BY Zenon
    <2> HIDE DEF new, c, u
    <2> QED BY <2>1, <2>2, <2>3, OrderedEnds, Zenon
  <1> HIDE DEF new
  <1>5. \A n \in DOMAIN regions : new[n] \in Region
    BY <1>4, Zenon
  <1> QED BY <1>1, <1>2, <1>4, <1>5, OneToOneInv, Zenon

\* One piece of a split: it starts k - 1 widths into the region.
LEMMA SplitWidthPieces ==
    ASSUME NEW r \in Region, NEW width \in Nat \ {0}
    PROVE  /\ SplitWidth(r, width) \in Seq(Region)
           /\ SplitWidth(r, width) # <<>>
           /\ \A k1 \in DOMAIN SplitWidth(r, width) :
                /\ k1 \in Nat
                /\ ~SplitWidth(r, width)[k1].main
                /\ MinByte(r) <= MinByte(SplitWidth(r, width)[k1])
                /\ MinByte(SplitWidth(r, width)[k1]) <= MaxByte(r)
                /\ MaxByte(SplitWidth(r, width)[k1]) <= MaxByte(r)
           /\ \A k1, k2 \in DOMAIN SplitWidth(r, width) :
                /\ k1 <= k2 => MinByte(SplitWidth(r, width)[k1])
                                  <= MinByte(SplitWidth(r, width)[k2])
                /\ k1 < k2 => MaxByte(SplitWidth(r, width)[k1])
                                 < MinByte(SplitWidth(r, width)[k2])
  <1> DEFINE lo == MinByte(r)
             hi == MaxByte(r)
             pieces == ((hi - lo) \div width) + 1
             pos(n) == lo + (n - 1) * width
             piece(n) == SelRegion(pos(n), Smaller(hi, pos(n) + width - 1))
  <1>1. lo \in Nat /\ hi \in Nat /\ lo <= hi
    BY RegionEnds, Zenon
  <1>2. pieces \in Nat /\ (hi - lo) \div width \in Nat
    BY <1>1, DivMod
  <1>3. width * ((hi - lo) \div width) <= hi - lo
    <2> DEFINE d == hi - lo
    <2>1. d \in Nat
      BY <1>1
    <2> HIDE DEF d
    <2>2. /\ d = width * (d \div width) + (d % width)
          /\ d % width \in Nat /\ d \div width \in Nat
      BY <2>1, DivMod
    <2>3. width * (d \div width) \in Nat
      BY <2>2, MulMono, Zenon
    <2>4. width * (d \div width) <= d
      BY <2>1, <2>2, <2>3
    <2> QED BY <2>4, Zenon DEF d
  <1>4. /\ SplitWidth(r, width) = [n \in 1 .. pieces |-> WithDirection(piece(n), Backward(r))]
    BY Zenon DEF SplitWidth
  <1>5. ASSUME NEW n \in 1 .. pieces
        PROVE  pos(n) \in Nat /\ lo <= pos(n) /\ pos(n) <= hi
    <2> DEFINE q == (hi - lo) \div width
    <2>1. n - 1 \in Nat /\ n - 1 <= q /\ q \in Nat
      BY <1>2
    <2>2. width * q <= hi - lo
      BY <1>3, Zenon
    <2> HIDE DEF q
    <2>3. width * (n - 1) <= width * q /\ width * (n - 1) \in Nat /\ width * q \in Nat
      BY <2>1, MulMono, Zenon
    <2>4. (n - 1) * width = width * (n - 1)
      BY <2>1
    <2> HIDE DEF lo, hi
    <2> QED BY <2>2, <2>3, <2>4, <1>1
  <1> HIDE DEF lo, hi, pieces
  <1>6. ASSUME NEW n \in 1 .. pieces
        PROVE  /\ WithDirection(piece(n), Backward(r)) \in Region
               /\ MinByte(WithDirection(piece(n), Backward(r))) = pos(n)
               /\ MaxByte(WithDirection(piece(n), Backward(r))) <= hi
               /\ MaxByte(WithDirection(piece(n), Backward(r))) < pos(n) + width
               /\ ~WithDirection(piece(n), Backward(r)).main
    <2> DEFINE p == pos(n)
               e == Smaller(hi, p + width - 1)
    <2>1. p \in Nat /\ p <= hi
      BY <1>5, Zenon
    <2>2. e \in Nat /\ p <= e /\ e <= hi /\ e < p + width
      BY <2>1, <1>1 DEF Smaller
    <2>3. piece(n) = SelRegion(p, e)
      BY Zenon
    <2> HIDE DEF p, e
    <2>4. piece(n) \in Region /\ MinByte(piece(n)) = p /\ MaxByte(piece(n)) = e
      BY <2>1, <2>2, <2>3, NewRegion DEF Smaller, Larger
    <2> HIDE DEF piece
    <2>5. WithDirection(piece(n), Backward(r)) \in {SelRegion(p, e), SelRegion(e, p)}
      BY <2>4, Zenon DEF WithDirection, ToBackward, ToForward
    <2>6. WithDirection(piece(n), Backward(r)) \in Region
          /\ MinByte(WithDirection(piece(n), Backward(r))) = p
          /\ MaxByte(WithDirection(piece(n), Backward(r))) = e
      BY <2>1, <2>2, <2>5, NewRegion DEF Smaller, Larger
    <2>7. ~WithDirection(piece(n), Backward(r)).main
      BY <2>5 DEF SelRegion
    <2> QED BY <2>2, <2>6, <2>7, Zenon DEF p
  <1> HIDE DEF piece
  <1>7. SplitWidth(r, width) \in Seq(Region) /\ DOMAIN SplitWidth(r, width) = 1 .. pieces
    BY <1>2, <1>4, <1>6, IsASeq
  <1>8. \A n \in 1 .. pieces :
            /\ MinByte(SplitWidth(r, width)[n]) = pos(n)
            /\ MaxByte(SplitWidth(r, width)[n]) <= hi
            /\ MaxByte(SplitWidth(r, width)[n]) < pos(n) + width
            /\ MaxByte(SplitWidth(r, width)[n]) \in Nat
            /\ ~SplitWidth(r, width)[n].main
    BY <1>4, <1>6, RegionEnds, Zenon
  <1>9. ASSUME NEW m \in 1 .. pieces, NEW n \in 1 .. pieces, m <= n
        PROVE  pos(m) <= pos(n) /\ (m < n => pos(m) + width <= pos(n))
    <2>1. m - 1 \in Nat /\ n - 1 \in Nat /\ m - 1 <= n - 1
      BY <1>2, <1>9
    <2>2. /\ width * (m - 1) <= width * (n - 1) /\ width * (m - 1) \in Nat /\ width * (n - 1) \in Nat
          /\ m - 1 < n - 1 => width * (m - 1) + width <= width * (n - 1)
      BY <2>1, MulMono, Zenon
    <2>3. (m - 1) * width = width * (m - 1) /\ (n - 1) * width = width * (n - 1)
      BY <2>1
    <2> QED BY <2>1, <2>2, <2>3, <1>1
  <1> HIDE DEF pos
  <1>10. ASSUME NEW m \in 1 .. pieces, NEW n \in 1 .. pieces, m < n
         PROVE  MaxByte(SplitWidth(r, width)[m]) < MinByte(SplitWidth(r, width)[n])
    <2>1. pos(m) \in Nat /\ pos(n) \in Nat /\ pos(m) + width <= pos(n)
      BY <1>2, <1>5, <1>9, <1>10
    <2> QED BY <2>1, <1>8
  <1>11. SplitWidth(r, width) # <<>>
    <2>1. 1 \in 1 .. pieces
      BY <1>2 DEF pieces
    <2>2. DOMAIN <<>> = {}
      OBVIOUS
    <2> QED BY <2>1, <2>2, <1>7, Zenon
  <1>12. 1 .. pieces \subseteq Nat
    BY <1>2
  <1> QED BY <1>5, <1>7, <1>8, <1>9, <1>10, <1>11, <1>12, Zenon DEF lo, hi

\* Split mode's fixed widths.
LEMMA SplitByWidthInv ==
    ASSUME IndInv, NEW width \in Nat, SplitByWidth(width)
    PROVE  IndInv'
  <1>1. CASE width = 0
    <2>1. status' = "panicked" /\ UNCHANGED <<selection, loop, len, history>>
      BY <1>1, Zenon DEF SplitByWidth
    <2>2. TypeOK'
      BY <2>1, Zenon DEF IndInv, TypeOK, selection, loop, history
    <2> QED BY <2>1, <2>2, Zenon DEF IndInv, RegionsSortedDisjoint, MainIsFlagged, Separated, selection
  <1>2. CASE width # 0
    <2> DEFINE new == [n \in DOMAIN regions |-> SplitWidth(regions[n], width)]
    <2>1. StartMapping("split_width", new)
      BY <1>2, Zenon DEF SplitByWidth
    <2>2. len' \in Nat /\ overjump' \in BOOLEAN /\ removed_other' \in BOOLEAN
      BY TypedRegions, Zenon DEF SplitByWidth, history
    <2>3. DOMAIN regions = 1 .. Len(regions) /\ Len(regions) \in Nat
      BY LenProperties, Zenon DEF IndInv, TypeOK
    <2>4. \A n \in DOMAIN regions : new[n] \in Seq(Region)
      BY <1>2, TypedRegions, SplitWidthPieces, Zenon
    <2>5. new \in Seq(Seq(Region)) /\ Len(new) = Len(regions) /\ DOMAIN new = DOMAIN regions
      BY <2>3, <2>4, IsASeq
    <2>6. Ordered(new)
      <3> SUFFICES ASSUME NEW a \in DOMAIN regions, NEW b \in DOMAIN regions,
                          NEW p \in DOMAIN new[a], NEW q \in DOMAIN new[b],
                          Before(a, p, b, q)
                   PROVE  MinByte(new[a][p]) <= MinByte(new[b][q])
        BY <2>5, Zenon DEF Ordered
      <3>1. new[a] = SplitWidth(regions[a], width) /\ new[b] = SplitWidth(regions[b], width)
        BY Zenon
      <3>2. regions[a] \in Region /\ regions[b] \in Region
        BY TypedRegions, Zenon
      <3> HIDE DEF new
      <3>3. CASE a = b /\ p <= q
        BY <3>1, <3>2, <3>3, <1>2, SplitWidthPieces, Zenon
      <3>4. CASE a < b
        <4>1. MaxByte(regions[a]) < MinByte(regions[b])
          BY <3>4, Zenon DEF IndInv, RegionsSortedDisjoint, Separated
        <4>2. /\ MinByte(new[a][p]) <= MaxByte(regions[a])
              /\ MinByte(regions[b]) <= MinByte(new[b][q])
          BY <3>1, <3>2, <1>2, SplitWidthPieces, Zenon
        <4>3. /\ MinByte(new[a][p]) \in Nat /\ MinByte(new[b][q]) \in Nat
              /\ MaxByte(regions[a]) \in Nat /\ MinByte(regions[b]) \in Nat
          BY <3>2, <2>4, RegionEnds, ElementOfSeq, LenProperties, Zenon
        <4> QED BY <4>1, <4>2, <4>3
      <3> QED BY <3>3, <3>4, Zenon DEF Before
    <2> HIDE DEF new
    <2> QED BY <2>1, <2>2, <2>5, <2>6, StartMappingInv, Zenon
  <1> QED BY <1>1, <1>2, Zenon

-----------------------------------------------------------------------------

\* Every step of the program keeps the inductive invariant.
LEMMA NextInv == IndInv /\ [Next]_vars => IndInv'
  <1> SUFFICES ASSUME IndInv, [Next]_vars
               PROVE  IndInv'
    BY Zenon
  <1> USE SelectionAssumption
  <1>1. CASE Looping
    BY <1>1, LoopingInv, Zenon
  <1>2. CASE Mapping
    <2>1. ASSUME NEW direction \in Direction, NEW count \in Counts,
                 Move(direction, count) \/ Extend(direction, count)
          PROVE  IndInv'
      BY <2>1, MoveInv, ExtendInv, Zenon
    <2>2. ASSUME NEW direction \in Direction,
                 \/ MoveFromHalf(direction)
                 \/ JumpBoundary(direction)
                 \/ ExtendBoundary(direction)
          PROVE  IndInv'
      BY <2>2, MoveFromHalfInv, JumpBoundaryInv, ExtendBoundaryInv, Zenon
    <2>3. ASSUME NEW offset \in Offsets, JumpToOffset(offset) \/ ExtendToOffset(offset)
          PROVE  IndInv'
      BY <2>3, JumpToOffsetInv, ExtendToOffsetInv, Zenon
    <2>4. ASSUME NEW width \in Widths, SplitByWidth(width)
          PROVE  IndInv'
      BY <2>4, SplitByWidthInv, Zenon
    <2> QED BY <1>2, <2>1, <2>2, <2>3, <2>4, SwapCaretsInv, CollapseAllInv,
               EnterInsertInv, EnterAppendInv, Zenon DEF Mapping
  <1>3. CASE Editing
    <2>1. PICK new_max_len \in 0 .. MaxLen : \E t \in Transforms(len, new_max_len) :
              ApplyDelta(t, new_max_len) \/ ApplyDeltaHalf(t, new_max_len)
      BY <1>3, Zenon DEF Editing
    <2>2. PICK t \in Transforms(len, new_max_len) :
              ApplyDelta(t, new_max_len) \/ ApplyDeltaHalf(t, new_max_len)
      BY <2>1, Zenon
    <2>3. new_max_len \in Nat
      OBVIOUS
    <2> QED BY <2>2, <2>3, ApplyDeltaInv, ApplyDeltaHalfInv, Zenon
  <1>4. CASE Choosing
    <2>1. /\ DOMAIN regions = 1 .. Len(regions) /\ Len(regions) \in Nat \ {0}
          /\ main_selection \in DOMAIN regions
      BY LenProperties DEF IndInv, TypeOK, MainIsFlagged
    <2>2. ASSUME NEW count \in Counts \ {0}
          PROVE  Wrapped(count - 1) \in DOMAIN regions
      <3>1. count - 1 \in Nat
        OBVIOUS
      <3> QED BY <3>1, <2>1, WrapsIntoDomain, Zenon DEF Wrapped
    <2>3. ASSUME NEW count \in Counts, SelectNext(count) \/ SelectPrev(count)
          PROVE  IndInv'
      BY <2>3, SelectNextPrevInv, Zenon
    <2> QED BY <1>4, <2>1, <2>2, <2>3, RetainInv, RemoveInv, SelectAllInv, Zenon DEF Choosing
  <1>5. ASSUME NEW new_len \in 1 .. MaxLen, LoadNextChunk(new_len)
        PROVE  IndInv'
    <2>1. len' \in Nat /\ UNCHANGED <<selection, status, loop, history>>
      BY <1>5 DEF LoadNextChunk
    <2>2. TypeOK'
      BY <2>1, Zenon DEF IndInv, TypeOK, selection, loop, history
    <2> QED BY <2>2, <1>5, Zenon DEF LoadNextChunk, IndInv, RegionsSortedDisjoint, MainIsFlagged,
                               Separated, selection
  <1>6. CASE Halted \/ UNCHANGED vars
    BY <1>6, UnmovedInv, Zenon DEF Halted
  <1> QED BY <1>1, <1>2, <1>3, <1>4, <1>5, <1>6, Zenon DEF Next

\* The default selection satisfies it.
LEMMA InitInv == Init => IndInv
  <1> SUFFICES ASSUME Init
               PROVE  IndInv
    BY Zenon
  <1>1. /\ Cleared \in Seq(Region) /\ Separated(Cleared)
        /\ 1 \in DOMAIN Cleared /\ Cleared[1].main
    BY NewRegion, SingleRegion, Zenon DEF Cleared
  <1> HIDE DEF Cleared
  <1>2. TypeOK
    <2>1. <<>> \in Seq(Region) /\ <<>> \in Seq(Seq(Region))
      BY EmptySeq, Zenon
    <2>2. len \in Nat
      BY SelectionAssumption DEF Init
    <2> QED BY <1>1, <2>1, <2>2, Zenon DEF Init, TypeOK
  <1> QED BY <1>1, <1>2, Zenon DEF Init, IndInv, RegionsSortedDisjoint, MainIsFlagged

\* The inductive invariant holds in every reachable state.
THEOREM Inductive == Spec => []IndInv
  <1>1. Init => IndInv
    BY InitInv, Zenon
  <1>2. IndInv /\ [Next]_vars => IndInv'
    BY NextInv, Zenon
  <1> QED BY <1>1, <1>2, PTL DEF Spec

\* The state keeps its types: no index or offset of selection.rs underflows.
THEOREM TypeCorrect == Spec => []TypeOK
  <1>1. IndInv => TypeOK
    BY Zenon DEF IndInv
  <1> QED BY <1>1, Inductive, PTL

\* The two invariants selection.rs:9-10 states of Selection.regions.
THEOREM SortedDisjoint == Spec => []RegionsSortedDisjoint
  <1>1. IndInv => RegionsSortedDisjoint
    BY Zenon DEF IndInv
  <1> QED BY <1>1, Inductive, PTL

\* main_selection is always a valid index and its region is flagged.
THEOREM MainFlagged == Spec => []MainIsFlagged
  <1>1. IndInv => MainIsFlagged
    BY Zenon DEF IndInv
  <1> QED BY <1>1, Inductive, PTL
=============================================================================
