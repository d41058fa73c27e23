--------------------------- MODULE TrackingProofs ---------------------------
(***************************************************************************)
(* Proofs about the selection: what map_selections keeps of the regions it *)
(* is given (bytes, the main flag, the bounds of the data) and what makes  *)
(* it panic, for every line length, data length, count, offset and width.  *)
(***************************************************************************)
EXTENDS SelectionProofs
-----------------------------------------------------------------------------
(***************************************************************************)
(* The invariant behind the other properties of the selection.  MadeInv is *)
(* about the new regions an operation hands to map_selections, FlagsFollow *)
(* and LastMadeOut about where the loop keeps the main flag and the region *)
(* it is for.                                                              *)
(***************************************************************************)

MadeInv ==
    /\ \A a \in DOMAIN mapped : mapped[a] # <<>>
    /\ removed_other \/
         \A a \in DOMAIN mapped : \A p \in DOMAIN mapped[a] :
             mapped[a][p].main => a = main_selection /\ p = Len(mapped[a])
    /\ overjump \/
         \A a \in DOMAIN mapped : \A p \in DOMAIN mapped[a] : MaxByte(mapped[a][p]) <= len
    /\ Clash(mapped) => PanicCause

FlagsFollow ==
    removed_other \/
        \A n \in DOMAIN regions_out : regions_out[n].main =>
            /\ i >= main_selection
            /\ i = main_selection => n = Len(regions_out) /\ k > Len(mapped[i])
            /\ i > main_selection => n = new_main_sel

LastMadeOut ==
    /\ i <= Len(mapped) => k <= Len(mapped[i]) + 1
    /\ k > 1 => Bytes(mapped[i][k - 1]) \subseteq Bytes(LastOut)

TrackInv ==
    /\ OneMainFlag
    /\ CaretsWithinData
    /\ PanicCauses
    /\ MainFollowsItsRegion
    /\ status = "mapping" =>
         KeepsBytes /\ KeepsDirection /\ MadeInv /\ FlagsFollow /\ LastMadeOut

\* Pushing a region: only the last new region of the main one is flagged.
LEMMA PushFlagsFollow ==
    ASSUME IndInv, PushRegion, status' # "panicked", MadeInv, FlagsFollow
    PROVE  FlagsFollow'
  <1> SUFFICES ASSUME ~removed_other, NEW n \in DOMAIN regions_out', regions_out'[n].main
               PROVE  /\ i >= main_selection
                      /\ i = main_selection => n = Len(regions_out') /\ k + 1 > Len(mapped[i])
                      /\ i > main_selection => n = new_main_sel
    BY PushedRegion, ZenonT(30) DEF FlagsFollow
  <1> DEFINE new_region == mapped[i][k]
             last == Len(regions_out)
  <1>1. /\ i \in DOMAIN mapped /\ k \in DOMAIN mapped[i] /\ new_region \in Region
        /\ DOMAIN regions_out = 1 .. last /\ last \in Nat
        /\ DOMAIN regions_out' = 1 .. Len(regions_out')
    BY PushedRegion, Zenon
  <1>2. /\ i \in Nat /\ k \in Nat /\ main_selection \in Nat /\ Len(mapped[i]) \in Nat
        /\ k <= Len(mapped[i])
    BY <1>1, LenProperties, ElementOfSeq DEF IndInv, TypeOK
  <1>3. new_region.main => i = main_selection /\ k = Len(mapped[i])
    BY <1>1, Zenon DEF MadeInv
  <1>4. \A m \in 1 .. last : regions_out[m].main =>
            /\ i >= main_selection
            /\ i = main_selection => m = last /\ k > Len(mapped[i])
            /\ i > main_selection => m = new_main_sel
    BY <1>1, Zenon DEF FlagsFollow
  <1>5. \A m \in 1 .. last : regions_out[m].main => i > main_selection /\ m = new_main_sel
    BY <1>2, <1>4
  <1>6. CASE /\ Len(regions_out') = last + 1
             /\ \A m \in 1 .. last : regions_out'[m] = regions_out[m]
             /\ regions_out'[Len(regions_out')] = new_region
    <2> HIDE DEF new_region, last
    <2> QED BY <1>1, <1>2, <1>3, <1>5, <1>6
  <1>7. CASE /\ Len(regions_out') = last
             /\ last \in 1 .. last
             /\ LastOut \in Region
             /\ Overlaps(LastOut, new_region)
             /\ Mergeable(LastOut, new_region)
             /\ MinByte(LastOut) <= MinByte(new_region)
             /\ regions_out'[Len(regions_out')] = Merge(LastOut, new_region)
             /\ \A m \in 1 .. last : m # last => regions_out'[m] = regions_out[m]
    <2>0. regions_out'[last] = Merge(LastOut, new_region) /\ LastOut = regions_out[last]
      BY <1>7, Zenon DEF LastOut
    <2>1. regions_out'[last].main <=> regions_out[last].main \/ new_region.main
      <3> HIDE DEF new_region, last
      <3>1. Merge(LastOut, new_region).main <=> LastOut.main \/ new_region.main
        BY <1>1, <1>7, MergeBytes, Zenon
      <3> QED BY <2>0, <3>1, Zenon
    <2> HIDE DEF new_region, last
    <2>2. CASE n = last
      BY <2>1, <2>2, <1>1, <1>2, <1>3, <1>5, <1>7
    <2>3. CASE n # last
      BY <2>3, <1>1, <1>2, <1>5, <1>7
    <2> QED BY <2>2, <2>3, Zenon
  <1> HIDE DEF new_region, last
  <1> QED BY <1>6, <1>7, PushedRegion, ZenonT(30) DEF new_region, last

\* Closing the main region: its flag is on the last region put out.
LEMMA CloseFlagsFollow ==
    ASSUME IndInv, CloseRegion, status' # "panicked", FlagsFollow
    PROVE  FlagsFollow'
  <1> SUFFICES ASSUME ~removed_other, NEW n \in DOMAIN regions_out', regions_out'[n].main
               PROVE  /\ i + 1 >= main_selection
                      /\ i + 1 # main_selection
                      /\ i + 1 > main_selection => n = new_main_sel'
    BY ClosedRegion, Zenon DEF FlagsFollow
  <1>1. i \in Nat /\ main_selection \in Nat
    BY Zenon DEF IndInv, TypeOK
  <1>2. /\ DOMAIN regions_out' = DOMAIN regions_out
        /\ i # main_selection => UNCHANGED <<new_main_sel, regions_out>>
        /\ i = main_selection =>
             /\ new_main_sel' = Len(regions_out)
             /\ \A m \in DOMAIN regions_out :
                   m # Len(regions_out) => regions_out'[m] = regions_out[m]
    BY ClosedRegion, Zenon
  <1>3. \A m \in DOMAIN regions_out : regions_out[m].main =>
            /\ i >= main_selection
            /\ i = main_selection => m = Len(regions_out)
            /\ i > main_selection => m = new_main_sel
    BY Zenon DEF FlagsFollow
  <1> QED BY <1>1, <1>2, <1>3

\* Regions put out only grow: pushing keeps the bytes of the region at any
\* index, and the last one holds those of the region pushed.
LEMMA PushGrows ==
    ASSUME IndInv, PushRegion, status' # "panicked"
    PROVE  /\ Bytes(mapped[i][k]) \subseteq Bytes(LastOut')
           /\ \A n \in DOMAIN regions_out : Bytes(regions_out[n]) \subseteq Bytes(regions_out'[n])
  <1> DEFINE new_region == mapped[i][k]
             last == Len(regions_out)
  <1>1. /\ new_region \in Region
        /\ DOMAIN regions_out = 1 .. last /\ last \in Nat
    BY PushedRegion, Zenon
  <1>2. \A n \in DOMAIN regions_out : regions_out[n] \in Region
    BY LenProperties, ElementOfSeq, Zenon DEF IndInv, TypeOK
  <1>3. CASE /\ \A m \in 1 .. last : regions_out'[m] = regions_out[m]
             /\ regions_out'[Len(regions_out')] = new_region
    <2> HIDE DEF last
    <2> QED BY <1>1, <1>3, Zenon DEF LastOut
  <1>4. CASE /\ Len(regions_out') = last
             /\ last \in 1 .. last
             /\ LastOut \in Region
             /\ Overlaps(LastOut, new_region)
             /\ Mergeable(LastOut, new_region)
             /\ MinByte(LastOut) <= MinByte(new_region)
             /\ regions_out'[Len(regions_out')] = Merge(LastOut, new_region)
             /\ \A m \in 1 .. last : m # last => regions_out'[m] = regions_out[m]
    <2>0. regions_out'[last] = Merge(LastOut, new_region) /\ LastOut = regions_out[last]
      BY <1>4, Zenon DEF LastOut
    <2>1. \A x \in Nat : x \in Bytes(regions_out[last]) \/ x \in Bytes(new_region)
                            => x \in Bytes(regions_out'[last])
      <3> HIDE DEF new_region, last
      <3>1. \A x \in Nat : x \in Bytes(LastOut) \/ x \in Bytes(new_region)
                              => x \in Bytes(Merge(LastOut, new_region))
        BY <1>1, <1>4, MergeBytes, Zenon
      <3> QED BY <2>0, <3>1, Zenon
    <2>2. Bytes(regions_out[last]) \subseteq Nat /\ Bytes(new_region) \subseteq Nat
      BY <1>1, <1>2, <1>4, RegionBytes, Zenon
    <2>3. LastOut' = regions_out'[last]
      BY <1>4, Zenon DEF LastOut
    <2> HIDE DEF last, new_region
    <2>4. Bytes(new_region) \subseteq Bytes(LastOut')
      BY <2>1, <2>2, <2>3, Zenon
    <2>5. \A n \in DOMAIN regions_out : Bytes(regions_out[n]) \subseteq Bytes(regions_out'[n])
      BY <2>1, <2>2, <1>1, <1>4, Zenon
    <2> QED BY <2>4, <2>5, Zenon DEF new_region
  <1> HIDE DEF new_region, last
  <1> QED BY <1>3, <1>4, PushedRegion, ZenonT(30) DEF new_region, last

\* The loop changes nothing the new regions or the causes of a panic depend
\* on, except that the end of the loop discards them.
LEMMA MadeUnmoved ==
    ASSUME UNCHANGED <<len, regions, main_selection, op, mapped, overjump, removed_other>>
    PROVE  /\ MadeInv' <=> MadeInv
           /\ PanicCause' <=> PanicCause
           /\ OneMainFlag' <=> OneMainFlag
  <1>1. PanicCause' <=> PanicCause
    BY Zenon DEF PanicCause, MixedDirections
  <1>2. MadeInv' <=> MadeInv
    BY <1>1 DEF MadeInv, Clash
  <1> QED BY <1>1, <1>2, Zenon DEF OneMainFlag

\* A region is put out, or merged into the last one, or the merge panics.
LEMMA PushTrack ==
    ASSUME IndInv, TrackInv, PushRegion
    PROVE  TrackInv'
  <1>1. /\ status = "mapping" /\ KeepsBytes /\ KeepsDirection /\ MadeInv
        /\ FlagsFollow /\ LastMadeOut /\ OneMainFlag
        /\ UNCHANGED <<len, regions, main_selection, op, mapped, overjump, removed_other>>
    BY Zenon DEF TrackInv, PushRegion, selection, history
  <1>2. OneMainFlag'
    BY <1>1, MadeUnmoved, Zenon
  <1>3. CASE status' = "panicked"
    <2>1. PanicCause'
      BY <1>1, <1>3, PanicMeansClash, MadeUnmoved, Zenon DEF MadeInv
    <2> QED BY <1>2, <1>3, <2>1, Zenon DEF TrackInv, CaretsWithinData, PanicCauses, MainFollowsItsRegion
  <1>4. CASE status' # "panicked"
    <2>1. /\ i \in DOMAIN mapped /\ k \in DOMAIN mapped[i] /\ k' = k + 1
          /\ UNCHANGED <<status, i, new_main_sel>>
      BY <1>4, PushedRegion, Zenon
    <2>2. LastMadeOut'
      <3>1. k \in Nat /\ k \in 1 .. Len(mapped[i]) /\ Len(mapped[i]) \in Nat
        BY <2>1, LenProperties, ElementOfSeq, Zenon DEF IndInv, TypeOK
      <3>2. k' - 1 = k /\ k' <= Len(mapped[i]) + 1
        BY <2>1, <3>1
      <3> QED BY <3>2, <2>1, <1>1, <1>4, PushGrows, Zenon DEF LastMadeOut
    <2>3. MainFollowsItsRegion'
      <3> SUFFICES ASSUME i > main_selection
                   PROVE  Bytes(mapped[main_selection][Len(mapped[main_selection])])
                              \subseteq Bytes(regions_out'[new_main_sel])
        BY <2>1, <1>1, Zenon DEF MainFollowsItsRegion
      <3>1. new_main_sel \in DOMAIN regions_out
        BY <1>1, Zenon DEF IndInv, LoopInv
      <3>2. Bytes(mapped[main_selection][Len(mapped[main_selection])])
                \subseteq Bytes(regions_out[new_main_sel])
        BY <1>1, Zenon DEF TrackInv, MainFollowsItsRegion
      <3> QED BY <3>1, <3>2, <1>4, PushGrows, Zenon
    <2>4. KeepsBytes' /\ KeepsDirection' /\ FlagsFollow' /\ MadeInv'
      BY <1>1, <1>4, PushKeepsBytes, PushKeepsDirection, PushFlagsFollow, MadeUnmoved, Zenon
    <2> QED BY <1>1, <1>2, <2>1, <2>2, <2>3, <2>4, Zenon
               DEF TrackInv, CaretsWithinData, PanicCauses
  <1> QED BY <1>3, <1>4, Zenon

\* Something has been made of the main region, and so put out, when the loop
\* takes its index: len() - 1 does not underflow.
LEMMA CloseTrack ==
    ASSUME IndInv, TrackInv, CloseRegion
    PROVE  TrackInv'
  <1>1. /\ status = "mapping" /\ KeepsBytes /\ KeepsDirection /\ MadeInv
        /\ FlagsFollow /\ LastMadeOut /\ OneMainFlag
        /\ UNCHANGED <<len, regions, main_selection, op, mapped, overjump, removed_other>>
    BY Zenon DEF TrackInv, CloseRegion, selection, history
  <1>2. OneMainFlag' /\ MadeInv'
    BY <1>1, MadeUnmoved, Zenon
  <1>3. /\ i \in DOMAIN mapped /\ i \in Nat /\ k \in Nat /\ i <= Len(mapped)
        /\ k > Len(mapped[i]) /\ Len(mapped[i]) \in Nat
        /\ mapped[i] # <<>> /\ mapped[i] \in Seq(Region)
        /\ DOMAIN mapped[i] = 1 .. Len(mapped[i])
    BY <1>1, LenProperties, ElementOfSeq DEF CloseRegion, IndInv, TypeOK, LoopInv, MadeInv
  <1>4. Len(mapped[i]) >= 1
    BY <1>3, EmptySeq
  <1>5. regions_out # <<>>
    <2>1. 1 \in DOMAIN mapped[i] /\ Seen(i, 1)
      BY <1>3, <1>4 DEF Seen
    <2> QED BY <2>1, <1>1, <1>3, NothingOutNothingSeen, Zenon
  <1>6. status' # "panicked"
    BY <1>1, <1>5, Zenon DEF CloseRegion
  <1>7. /\ i' = i + 1 /\ k' = 1 /\ status' = status
        /\ LastOut \in Region
        /\ i # main_selection => UNCHANGED <<new_main_sel, regions_out>>
        /\ i = main_selection =>
             /\ new_main_sel' = Len(regions_out)
             /\ regions_out'[Len(regions_out)] = MainRegion(LastOut)
    BY <1>5, <1>6, ClosedRegion, Zenon
  <1>8. LastMadeOut'
    <2>1. ASSUME i + 1 <= Len(mapped)
          PROVE  1 <= Len(mapped[i + 1]) + 1
      <3>1. i + 1 \in DOMAIN mapped
        BY <2>1, <1>3, LenProperties DEF IndInv, TypeOK
      <3>2. Len(mapped[i + 1]) \in Nat
        BY <3>1, LenProperties, ElementOfSeq, Zenon DEF IndInv, TypeOK
      <3> QED BY <3>2
    <2> QED BY <2>1, <1>1, <1>7 DEF LastMadeOut
  <1>9. MainFollowsItsRegion'
    <2> SUFFICES ASSUME i + 1 > main_selection
                 PROVE  Bytes(mapped[main_selection][Len(mapped[main_selection])])
                            \subseteq Bytes(regions_out'[new_main_sel'])
      BY <1>1, <1>7, Zenon DEF MainFollowsItsRegion
    <2>1. CASE i = main_selection
      <3>1. k > 1 /\ k - 1 = Len(mapped[i])
        BY <1>1, <1>3, <1>4 DEF LastMadeOut
      <3>2. Bytes(mapped[i][Len(mapped[i])]) \subseteq Bytes(LastOut)
        BY <1>1, <3>1, Zenon DEF LastMadeOut
      <3>3. Bytes(regions_out'[new_main_sel']) = Bytes(LastOut)
        BY <1>7, <2>1, MainRegionBytes, Zenon
      <3> QED BY <2>1, <3>2, <3>3, Zenon
    <2>2. CASE i # main_selection
      <3>1. i > main_selection
        BY <2>2, <1>3 DEF IndInv, TypeOK
      <3> QED BY <3>1, <2>2, <1>1, <1>7, Zenon DEF TrackInv, MainFollowsItsRegion
    <2> QED BY <2>1, <2>2, Zenon
  <1>10. KeepsBytes' /\ KeepsDirection' /\ FlagsFollow'
    BY <1>1, <1>6, CloseKeepsBytes, CloseKeepsDirection, CloseFlagsFollow, Zenon
  <1> QED BY <1>1, <1>2, <1>6, <1>7, <1>8, <1>9, <1>10, Zenon
             DEF TrackInv, CaretsWithinData, PanicCauses

\* The regions put out become the selection: they lie where the new regions
\* lie, and the flag is where main_selection points.
LEMMA FinishTrack ==
    ASSUME IndInv, TrackInv, FinishMapping
    PROVE  TrackInv'
  <1>1. /\ status = "mapping" /\ KeepsBytes /\ MadeInv /\ FlagsFollow
        /\ status' = "idle" /\ regions' = regions_out /\ main_selection' = new_main_sel
        /\ UNCHANGED <<len, overjump, removed_other>>
    BY Zenon DEF TrackInv, FinishMapping, history
  <1>2. i > main_selection /\ i \in Nat /\ main_selection \in Nat
    <2>1. Len(mapped) \in Nat /\ DOMAIN regions = 1 .. Len(regions) /\ Len(regions) \in Nat
      BY LenProperties, Zenon DEF IndInv, TypeOK
    <2> QED BY <2>1, <1>1 DEF FinishMapping, IndInv, LoopInv, MainIsFlagged, TypeOK
  <1>3. OneMainFlag'
    BY <1>1, <1>2, Zenon DEF FlagsFollow, OneMainFlag
  <1>4. ASSUME ~overjump, NEW n \in DOMAIN regions_out
        PROVE  MaxByte(regions_out[n]) <= len
    <2>1. regions_out[n] \in Region /\ len \in Nat
      BY LenProperties, ElementOfSeq, Zenon DEF IndInv, TypeOK
    <2> DEFINE x == MaxByte(regions_out[n])
    <2>2. x \in Nat /\ x \in Bytes(regions_out[n])
      BY <2>1, RegionEnds, RegionBytes, Zenon
    <2> HIDE DEF x
    <2>3. SeenByte(x)
      BY <2>2, <1>1, Zenon DEF KeepsBytes, PutOut
    <2>4. PICK a \in DOMAIN mapped : \E p \in DOMAIN mapped[a] : x \in Bytes(mapped[a][p])
      BY <2>3, Zenon DEF SeenByte
    <2>5. PICK p \in DOMAIN mapped[a] : x \in Bytes(mapped[a][p])
      BY <2>4, Zenon
    <2>6. mapped[a][p] \in Region
      BY LenProperties, ElementOfSeq, Zenon DEF IndInv, TypeOK
    <2>7. x <= MaxByte(mapped[a][p]) /\ MaxByte(mapped[a][p]) \in Nat
      BY <2>2, <2>5, <2>6, RegionBytes, RegionEnds, Zenon
    <2>8. MaxByte(mapped[a][p]) <= len
      BY <1>1, <1>4, Zenon DEF MadeInv
    <2>9. x <= len
      BY <2>1, <2>2, <2>7, <2>8
    <2> QED BY <2>9, Zenon DEF x
  <1>5. CaretsWithinData'
    BY <1>1, <1>4, Zenon DEF CaretsWithinData
  <1> QED BY <1>1, <1>3, <1>5, Zenon DEF TrackInv, PanicCauses, MainFollowsItsRegion


-----------------------------------------------------------------------------
(* One lemma per operation: what it hands to map_selections.               *)

\* map_selections starts with nothing seen and nothing put out.
LEMMA StartTrack ==
    ASSUME IndInv, TrackInv, NEW name, NEW new \in Seq(Seq(Region)), StartMapping(name, new),
           UNCHANGED removed_other, MadeInv'
    PROVE  TrackInv'
  <1>1. /\ status' = "mapping" /\ mapped' = new /\ i' = 1 /\ k' = 1 /\ regions_out' = <<>>
        /\ UNCHANGED <<regions, main_selection>>
    BY Zenon DEF StartMapping, selection
  <1>2. OneMainFlag'
    BY <1>1, Zenon DEF TrackInv, OneMainFlag
  <1>3. MainFollowsItsRegion'
    <2>1. main_selection \in Nat /\ main_selection >= 1
      BY LenProperties DEF IndInv, TypeOK, MainIsFlagged
    <2> QED BY <2>1, <1>1 DEF MainFollowsItsRegion
  <1>4. KeepsBytes' /\ KeepsDirection'
    BY StartKeeps, Zenon
  <1>5. FlagsFollow'
    <2>1. DOMAIN regions_out' = {}
      BY <1>1
    <2> QED BY <2>1, Zenon DEF FlagsFollow
  <1>6. LastMadeOut'
    <2>1. ASSUME 1 <= Len(new)
          PROVE  1 <= Len(new[1]) + 1
      <3>1. Len(new[1]) \in Nat
        BY <2>1, LenProperties, ElementOfSeq
      <3> QED BY <3>1
    <2> QED BY <2>1, <1>1 DEF LastMadeOut
  <1> QED BY <1>1, <1>2, <1>3, <1>4, <1>5, <1>6, Zenon DEF TrackInv, CaretsWithinData, PanicCauses

\* For an operation that makes one region of each.
LEMMA OneToOneTrack ==
    ASSUME IndInv, TrackInv, NEW name, NEW new,
           \A n \in DOMAIN regions :
               new[n] \in Region /\ (new[n].main => regions[n].main),
           overjump' \/ \A n \in DOMAIN regions : MaxByte(new[n]) <= len',
           \A a, b \in DOMAIN regions :
               a < b /\ MaxByte(regions[a]) < MinByte(regions[b]) /\ Clashes(new[a], new[b])
                   => PanicCause',
           StartMapping(name, [n \in DOMAIN regions |-> <<new[n]>>]),
           UNCHANGED removed_other
    PROVE  TrackInv'
  <1> DEFINE made == [n \in DOMAIN regions |-> <<new[n]>>]
  <1>1. DOMAIN regions = 1 .. Len(regions) /\ Len(regions) \in Nat
    BY LenProperties, Zenon DEF IndInv, TypeOK
  <1>2. \A n \in DOMAIN regions :
            /\ made[n] = <<new[n]>>
            /\ made[n] \in Seq(Region)
            /\ DOMAIN made[n] = {1} /\ Len(made[n]) = 1 /\ made[n] # <<>>
            /\ made[n][1] = new[n]
    OBVIOUS
  <1>3. made \in Seq(Seq(Region)) /\ DOMAIN made = DOMAIN regions
    BY <1>1, <1>2, IsASeq
  <1>4. StartMapping(name, made)
    BY Zenon
  <1> HIDE DEF made
  <1>5. mapped' = made /\ UNCHANGED <<regions, main_selection>>
    BY <1>4, Zenon DEF StartMapping, selection
  <1>6. removed_other \/ \A n \in DOMAIN regions : new[n].main => n = main_selection
    BY Zenon DEF TrackInv, OneMainFlag
  <1>7. ASSUME Clash(made)
        PROVE  PanicCause'
    <2>1. PICK a \in DOMAIN made, b \in DOMAIN made :
              \E p \in DOMAIN made[a], q \in DOMAIN made[b] :
                  Earlier(a, p, b, q) /\ Clashes(made[a][p], made[b][q])
      BY <1>7, Zenon DEF Clash
    <2>2. a < b /\ Clashes(new[a], new[b])
      BY <2>1, <1>2, <1>3 DEF Earlier
    <2>3. MaxByte(regions[a]) < MinByte(regions[b])
      BY <2>2, <1>3, Zenon DEF IndInv, RegionsSortedDisjoint, Separated
    <2> QED BY <2>2, <2>3, <1>3, Zenon
  <1>8. MadeInv'
    <2>1. \A a \in DOMAIN made : made[a] # <<>>
      BY <1>2, <1>3, Zenon
    <2>2. \/ removed_other
          \/ \A a \in DOMAIN made : \A p \in DOMAIN made[a] :
                 made[a][p].main => a = main_selection /\ p = Len(made[a])
      <3>1. ASSUME NEW a \in DOMAIN made, NEW p \in DOMAIN made[a]
            PROVE  a \in DOMAIN regions /\ p = Len(made[a]) /\ made[a][p] = new[a]
        <4>1. a \in DOMAIN regions
          BY <1>3, Zenon
        <4>2. DOMAIN made[a] = {1} /\ Len(made[a]) = 1 /\ made[a][1] = new[a]
          BY <4>1, <1>2, Zenon
        <4>3. p = 1
          BY <4>2, Zenon
        <4> QED BY <4>1, <4>2, <4>3, Zenon
      <3> QED BY <3>1, <1>6, Zenon
    <2>3. overjump' \/ \A a \in DOMAIN made : \A p \in DOMAIN made[a] : MaxByte(made[a][p]) <= len'
      BY <1>2, <1>3
    <2> QED BY <2>1, <2>2, <2>3, <1>5, <1>7, Zenon DEF MadeInv
  <1> QED BY <1>3, <1>4, <1>8, StartTrack, Zenon

\* Regions of one byte run both ways; regions going the same way, or apart,
\* do not clash.
LEMMA NoClash ==
    ASSUME NEW r \in Region, NEW s \in Region,
           \/ Forward(r) /\ Forward(s)
           \/ Backward(r) /\ Backward(s)
           \/ MaxByte(r) < MinByte(s)
    PROVE  ~Clashes(r, s)
  BY RegionEnds DEF Clashes, Overlaps

\* Where a region moved or extended by one end has its ends.
LEMMA NewRegionFields ==
    ASSUME NEW c \in Nat, NEW t \in Nat
    PROVE  /\ SelRegion(c, t) \in Region
           /\ SelRegion(c, t).caret = c /\ SelRegion(c, t).tail = t
           /\ ~SelRegion(c, t).main
           /\ Forward(SelRegion(c, t)) <=> c >= t
           /\ Backward(SelRegion(c, t)) <=> c <= t
           /\ \A l \in Nat : c <= l /\ t <= l => MaxByte(SelRegion(c, t)) <= l
  BY Zenon DEF Region, SelRegion, Forward, Backward, MaxByte, Larger

\* The carets and tails of the regions, when no jump went past the end.
LEMMA EndsWithinData ==
    ASSUME IndInv, TrackInv, status = "idle", ~overjump, NEW n \in DOMAIN regions
    PROVE  /\ regions[n].caret \in Nat /\ regions[n].tail \in Nat
           /\ regions[n].caret <= len /\ regions[n].tail <= len
           /\ MaxByte(regions[n]) <= len
  <1>1. regions[n] \in Region /\ len \in Nat
    BY TypedRegions, Zenon
  <1>2. MaxByte(regions[n]) <= len
    BY Zenon DEF TrackInv, CaretsWithinData
  <1>3. regions[n].caret \in Nat /\ regions[n].tail \in Nat
    BY <1>1, Zenon DEF Region
  <1> QED BY <1>1, <1>2, <1>3, RegionEnds

\* A step keeps a caret within the data.
LEMMA SteppedCaretWithin ==
    ASSUME NEW c \in Nat, NEW direction \in Direction, NEW max_size \in Nat, NEW count \in Nat,
           c <= max_size
    PROVE  SteppedCaret(c, direction, max_size, count) <= max_size
  <1>1. BytesPerLine * count \in Nat
    BY BytesPerLineAssumption, MulMono, Zenon
  <1> QED BY <1>1 DEF SteppedCaret, Direction, Larger, Smaller

\* Two carets that a step brings together are at 0 or at the end.
LEMMA SteppedCaretMeets ==
    ASSUME NEW c \in Nat, NEW d \in Nat, c < d,
           NEW direction \in Direction, NEW max_size \in Nat, NEW count \in Nat,
           SteppedCaret(c, direction, max_size, count) = SteppedCaret(d, direction, max_size, count)
    PROVE  SteppedCaret(d, direction, max_size, count) \in {0, max_size}
  <1>1. BytesPerLine * count \in Nat
    BY BytesPerLineAssumption, MulMono, Zenon
  <1> QED BY <1>1 DEF SteppedCaret, Direction, Larger, Smaller

\* The boundary a jump goes to lies within the data.
LEMMA BoundaryCaretWithin ==
    ASSUME NEW c \in Nat, NEW direction \in Direction, NEW max_size \in Nat \ {0},
           c <= max_size
    PROVE  BoundaryCaret(c, direction, max_size) <= max_size
  <1>1. c - (c % BytesPerLine) \in Nat /\ c - (c % BytesPerLine) <= c
    BY BytesPerLineAssumption, DivMod
  <1> QED BY <1>1, BytesPerLineAssumption DEF BoundaryCaret, Direction, Smaller


\* Moving makes single bytes, which run both ways: no two of them clash.
LEMMA MoveTrack ==
    ASSUME IndInv, TrackInv, NEW direction \in Direction, NEW count \in Nat,
           Move(direction, count)
    PROVE  TrackInv'
  <1> DEFINE new == [n \in DOMAIN regions |-> SimpleMove(regions[n], direction, len, count)]
  <1>1. StartMapping("move", [n \in DOMAIN regions |-> <<new[n]>>])
    BY Zenon DEF Move, Regions1
  <1>2. status = "idle" /\ op' = "move" /\ UNCHANGED <<regions, len, overjump, removed_other>>
    BY Zenon DEF Move, StartMapping, selection, history
  <1>3. ASSUME NEW n \in DOMAIN regions
        PROVE  /\ new[n] \in Region
               /\ new[n].main => regions[n].main
               /\ overjump \/ MaxByte(new[n]) <= len
               /\ len # 0 => Forward(new[n]) /\ Backward(new[n])
               /\ len = 0 => new[n] = regions[n]
    <2>1. regions[n] \in Region /\ len \in Nat
      BY TypedRegions, Zenon
    <2>0. regions[n].caret \in Nat /\ regions[n].caret <= regions[n].caret
      BY <2>1, SMTT(30) DEF Region
    <2>2. CASE len = 0
      BY <2>1, <2>2, <1>2, EndsWithinData, Zenon DEF SimpleMove
    <2>3. CASE len # 0
      <3> DEFINE c == SteppedCaret(regions[n].caret, direction, len, count)
      <3>1. new[n] = SelRegion(c, c)
        BY <2>3, Zenon DEF SimpleMove
      <3>2. c \in Nat
        BY <2>0, <2>1, SteppedCaretMono, Zenon
      <3>3. overjump \/ c <= len
        BY <2>1, <1>2, EndsWithinData, SteppedCaretWithin, Zenon
      <3> HIDE DEF c, new
      <3> QED BY <3>1, <3>2, <3>3, <2>1, <2>3, NewRegionFields
    <2> QED BY <2>2, <2>3, Zenon
  <1> HIDE DEF new
  <1>4. \A a, b \in DOMAIN regions :
            MaxByte(regions[a]) < MinByte(regions[b]) => ~Clashes(new[a], new[b])
    BY <1>3, NoClash, Zenon
  <1> QED BY <1>1, <1>2, <1>3, <1>4, OneToOneTrack, Zenon

\* So does moving from half a byte.
LEMMA MoveFromHalfTrack ==
    ASSUME IndInv, TrackInv, NEW direction \in Direction, MoveFromHalf(direction)
    PROVE  TrackInv'
  <1> DEFINE new == [n \in DOMAIN regions |-> SimpleMove(SimpleMove(regions[n], direction, len, 1), "Left", len, 1)]
  <1>1. StartMapping("move_from_half", [n \in DOMAIN regions |-> <<new[n]>>])
    BY Zenon DEF MoveFromHalf, Regions1
  <1>2. status = "idle" /\ op' = "move_from_half" /\ UNCHANGED <<regions, len, overjump, removed_other>>
    BY Zenon DEF MoveFromHalf, StartMapping, selection, history
  <1>3. ASSUME NEW n \in DOMAIN regions
        PROVE  /\ new[n] \in Region
               /\ new[n].main => regions[n].main
               /\ overjump \/ MaxByte(new[n]) <= len
               /\ len # 0 => Forward(new[n]) /\ Backward(new[n])
               /\ len = 0 => new[n] = regions[n]
    <2>1. regions[n] \in Region /\ len \in Nat
      BY TypedRegions, Zenon
    <2>0. regions[n].caret \in Nat /\ regions[n].caret <= regions[n].caret
      BY <2>1, SMTT(30) DEF Region
    <2>2. CASE len = 0
      BY <2>1, <2>2, <1>2, EndsWithinData, ZenonT(30) DEF SimpleMove
    <2>3. CASE len # 0
      <3> DEFINE b == SteppedCaret(regions[n].caret, direction, len, 1)
                 c == SteppedCaret(b, "Left", len, 1)
      <3>0. SimpleMove(regions[n], direction, len, 1) = SelRegion(b, b)
        BY <2>3, Zenon DEF SimpleMove
      <3>1. SimpleMove(SelRegion(b, b), "Left", len, 1) = SelRegion(c, c)
        <4> HIDE DEF b
        <4> QED BY <2>3, Zenon DEF SimpleMove, SelRegion
      <3>2. b \in Nat /\ (overjump \/ b <= len)
        BY <2>0, <2>1, <1>2, SteppedCaretMono, EndsWithinData, SteppedCaretWithin, Zenon
      <3>3. new[n] = SelRegion(c, c)
        BY <3>0, <3>1, Zenon
      <3> HIDE DEF b
      <3>4. c \in Nat /\ (overjump \/ c <= len)
        BY <2>1, <3>2, SteppedCaretMono, SteppedCaretWithin DEF Direction
      <3> HIDE DEF c, new
      <3> QED BY <3>3, <3>4, <2>1, <2>3, NewRegionFields
    <2> QED BY <2>2, <2>3, Zenon
  <1> HIDE DEF new
  <1>4. \A a, b \in DOMAIN regions :
            MaxByte(regions[a]) < MinByte(regions[b]) => ~Clashes(new[a], new[b])
    BY <1>3, NoClash, Zenon
  <1> QED BY <1>1, <1>2, <1>3, <1>4, OneToOneTrack, Zenon

\* And g with a direction.
LEMMA JumpBoundaryTrack ==
    ASSUME IndInv, TrackInv, NEW direction \in Direction, JumpBoundary(direction)
    PROVE  TrackInv'
  <1> DEFINE new == [n \in DOMAIN regions |-> JumpToBoundary(regions[n], direction, len)]
  <1>1. StartMapping("jump_boundary", [n \in DOMAIN regions |-> <<new[n]>>])
    BY Zenon DEF JumpBoundary, Regions1
  <1>2. status = "idle" /\ op' = "jump_boundary" /\ UNCHANGED <<regions, len, overjump, removed_other>>
    BY Zenon DEF JumpBoundary, StartMapping, selection, history
  <1>3. ASSUME NEW n \in DOMAIN regions
        PROVE  /\ new[n] \in Region
               /\ new[n].main => regions[n].main
               /\ overjump \/ MaxByte(new[n]) <= len
               /\ len # 0 => Forward(new[n]) /\ Backward(new[n])
               /\ len = 0 => new[n] = regions[n]
    <2>1. regions[n] \in Region /\ len \in Nat
      BY TypedRegions, Zenon
    <2>0. regions[n].caret \in Nat /\ regions[n].caret <= regions[n].caret
      BY <2>1 DEF Region
    <2>2. CASE len = 0
      BY <2>1, <2>2, <1>2, EndsWithinData, Zenon DEF JumpToBoundary
    <2>3. CASE len # 0
      <3> DEFINE c == BoundaryCaret(regions[n].caret, direction, len)
      <3>1. new[n] = SelRegion(c, c)
        BY <2>3, Zenon DEF JumpToBoundary
      <3>2. c \in Nat
        BY <2>0, <2>1, <2>3, BoundaryCaretMono, Zenon
      <3>3. overjump \/ c <= len
        BY <2>1, <2>3, <1>2, EndsWithinData, BoundaryCaretWithin, SMTT(30)
      <3> HIDE DEF c, new
      <3> QED BY <3>1, <3>2, <3>3, <2>1, <2>3, NewRegionFields
    <2> QED BY <2>2, <2>3, SMTT(30)
  <1> HIDE DEF new
  <1>4. \A a, b \in DOMAIN regions :
            MaxByte(regions[a]) < MinByte(regions[b]) => ~Clashes(new[a], new[b])
    BY <1>3, NoClash, Zenon
  <1> QED BY <1>1, <1>2, <1>3, <1>4, OneToOneTrack, Zenon

\* Collapsing makes single bytes.
LEMMA CollapseAllTrack ==
    ASSUME IndInv, TrackInv, CollapseAll
    PROVE  TrackInv'
  <1> DEFINE new == [n \in DOMAIN regions |-> Collapse(regions[n])]
  <1>1. StartMapping("collapse", [n \in DOMAIN regions |-> <<new[n]>>])
    BY Zenon DEF CollapseAll, Regions1
  <1>2. /\ status = "idle" /\ op' = "collapse" /\ mapped' = [n \in DOMAIN regions |-> <<new[n]>>]
        /\ UNCHANGED <<regions, len, overjump, removed_other>>
    BY <1>1, Zenon DEF CollapseAll, StartMapping, selection, history
  <1>3. ASSUME NEW n \in DOMAIN regions
        PROVE  /\ new[n] \in Region
               /\ ~new[n].main
               /\ overjump \/ MaxByte(new[n]) <= len
               /\ Forward(new[n]) /\ Backward(new[n])
    <2>1. /\ regions[n] \in Region /\ len \in Nat
          /\ regions[n].caret \in Nat /\ regions[n].tail \in Nat
      BY TypedRegions, Zenon DEF Region
    <2>2. overjump \/ (regions[n].caret <= len /\ regions[n].tail <= len)
      BY <1>2, EndsWithinData, Zenon
    <2> QED BY <2>1, <2>2, NewRegionFields DEF Collapse
  <1> HIDE DEF new
  <1>4. \A a, b \in DOMAIN regions :
            MaxByte(regions[a]) < MinByte(regions[b]) => ~Clashes(new[a], new[b])
    BY <1>3, NoClash, Zenon
  <1> QED BY <1>1, <1>2, <1>3, <1>4, OneToOneTrack, Zenon

\* Swapping carets and tails leaves the regions apart.
LEMMA SwapCaretsTrack ==
    ASSUME IndInv, TrackInv, SwapCarets
    PROVE  TrackInv'
  <1> DEFINE new == [n \in DOMAIN regions |-> SwapCaret(regions[n])]
  <1>1. StartMapping("swap_caret", [n \in DOMAIN regions |-> <<new[n]>>])
    BY Zenon DEF SwapCarets, Regions1
  <1>2. /\ status = "idle" /\ op' = "swap_caret" /\ mapped' = [n \in DOMAIN regions |-> <<new[n]>>]
        /\ UNCHANGED <<regions, len, overjump, removed_other>>
    BY <1>1, Zenon DEF SwapCarets, StartMapping, selection, history
  <1>3. ASSUME NEW n \in DOMAIN regions
        PROVE  /\ new[n] \in Region
               /\ ~new[n].main
               /\ overjump \/ MaxByte(new[n]) <= len
               /\ MinByte(new[n]) = MinByte(regions[n]) /\ MaxByte(new[n]) = MaxByte(regions[n])
    <2>1. /\ regions[n] \in Region /\ len \in Nat
          /\ regions[n].caret \in Nat /\ regions[n].tail \in Nat
      BY TypedRegions, Zenon DEF Region
    <2>2. overjump \/ (regions[n].caret <= len /\ regions[n].tail <= len)
      BY <1>2, EndsWithinData, Zenon
    <2>3. new[n] = SelRegion(regions[n].tail, regions[n].caret)
      BY Zenon DEF SwapCaret
    <2> HIDE DEF new
    <2>4. MinByte(new[n]) = MinByte(regions[n]) /\ MaxByte(new[n]) = MaxByte(regions[n])
      <3>1. /\ MinByte(new[n]) = Smaller(regions[n].tail, regions[n].caret)
            /\ MaxByte(new[n]) = Larger(regions[n].tail, regions[n].caret)
        BY <2>1, <2>3, NewRegion, Zenon
      <3>2. \A c, t \in Nat : Smaller(t, c) = Smaller(c, t) /\ Larger(t, c) = Larger(c, t)
        BY DEF Smaller, Larger
      <3> QED BY <2>1, <3>1, <3>2, Zenon DEF MinByte, MaxByte
    <2> QED BY <2>1, <2>2, <2>3, <2>4, NewRegionFields
  <1> HIDE DEF new
  <1>4. \A a, b \in DOMAIN regions :
            MaxByte(regions[a]) < MinByte(regions[b]) => ~Clashes(new[a], new[b])
    BY <1>3, NoClash, Zenon
  <1> QED BY <1>1, <1>2, <1>3, <1>4, OneToOneTrack, Zenon

\* So does turning them backward.
LEMMA EnterInsertTrack ==
    ASSUME IndInv, TrackInv, EnterInsert
    PROVE  TrackInv'
  <1> DEFINE new == [n \in DOMAIN regions |-> ToBackward(regions[n])]
  <1>1. StartMapping("to_backward", [n \in DOMAIN regions |-> <<new[n]>>])
    BY Zenon DEF EnterInsert, Regions1
  <1>2. /\ status = "idle" /\ op' = "to_backward" /\ mapped' = [n \in DOMAIN regions |-> <<new[n]>>]
        /\ UNCHANGED <<regions, len, overjump, removed_other>>
    BY <1>1, Zenon DEF EnterInsert, StartMapping, selection, history
  <1>3. ASSUME NEW n \in DOMAIN regions
        PROVE  /\ new[n] \in Region
               /\ ~new[n].main
               /\ overjump \/ MaxByte(new[n]) <= len
               /\ Backward(new[n])
    <2>1. /\ regions[n] \in Region /\ len \in Nat
          /\ regions[n].caret \in Nat /\ regions[n].tail \in Nat
      BY TypedRegions, Zenon DEF Region
    <2>2. overjump \/ (regions[n].caret <= len /\ regions[n].tail <= len)
      BY <1>2, EndsWithinData, Zenon
    <2> DEFINE first == MinByte(regions[n])
               last == MaxByte(regions[n])
               s == SelRegion(first, last)
    <2>3. first \in Nat /\ last \in Nat /\ first <= last
      BY <2>1, RegionEnds, Zenon
    <2>4. overjump \/ last <= len
      BY <2>1, <2>2, Zenon DEF MaxByte, Larger
    <2>5. new[n] = s
      BY Zenon DEF ToBackward
    <2> HIDE DEF first, last
    <2>6. s \in Region /\ ~s.main /\ Backward(s) /\ (overjump \/ MaxByte(s) <= len)
      <3>1. overjump \/ (first <= len /\ last <= len)
        BY <2>1, <2>3, <2>4
      <3> QED BY <2>1, <2>3, <3>1, NewRegionFields, SMTT(30)
    <2> HIDE DEF s
    <2> QED BY <2>5, <2>6, Zenon
  <1> HIDE DEF new
  <1>4. \A a, b \in DOMAIN regions :
            MaxByte(regions[a]) < MinByte(regions[b]) => ~Clashes(new[a], new[b])
    BY <1>3, NoClash, Zenon
  <1> QED BY <1>1, <1>2, <1>3, <1>4, OneToOneTrack, Zenon

\* <count>g makes single bytes, within the data unless the offset is not.
LEMMA JumpToOffsetTrack ==
    ASSUME IndInv, TrackInv, NEW offset \in Nat, JumpToOffset(offset)
    PROVE  TrackInv'
  <1> DEFINE new == [n \in DOMAIN regions |-> JumpTo(regions[n], offset)]
  <1>1. StartMapping("jump_to", [n \in DOMAIN regions |-> <<new[n]>>])
    BY Zenon DEF JumpToOffset, Regions1
  <1>2. /\ status = "idle" /\ op' = "jump_to" /\ mapped' = [n \in DOMAIN regions |-> <<new[n]>>]
        /\ UNCHANGED <<regions, len, removed_other>>
    BY <1>1, Zenon DEF JumpToOffset, StartMapping, selection, history
  <1>3. overjump' \/ offset <= len
    <2>1. overjump' \/ ~(offset > len)
      BY Zenon DEF JumpToOffset
    <2> QED BY <2>1, TypedRegions
  <1>4. ASSUME NEW n \in DOMAIN regions
        PROVE  /\ new[n] \in Region
               /\ ~new[n].main
               /\ overjump' \/ MaxByte(new[n]) <= len'
               /\ Forward(new[n]) /\ Backward(new[n])
    <2>1. new[n] = SelRegion(offset, offset)
      BY Zenon DEF JumpTo
    <2> HIDE DEF new
    <2> QED BY <2>1, <1>2, <1>3, TypedRegions, NewRegionFields
  <1> HIDE DEF new
  <1>5. \A a, b \in DOMAIN regions : ~Clashes(new[a], new[b])
    BY <1>4, NoClash, Zenon
  <1> QED BY <1>1, <1>2, <1>4, <1>5, OneToOneTrack, Zenon

\* Two regions extended to carets in order clash only if the carets meet
\* between their tails.
LEMMA ExtendedClash ==
    ASSUME NEW r \in Region, NEW s \in Region, MaxByte(r) < MinByte(s),
           NEW c \in Nat, NEW d \in Nat, c <= d,
           Clashes(SelRegion(c, r.tail), SelRegion(d, s.tail))
    PROVE  c = d /\ r.tail < c /\ d < s.tail
  <1>1. r.tail \in Nat /\ s.tail \in Nat /\ r.tail < s.tail
    <2>1. r.tail \in Nat /\ s.tail \in Nat
      BY Zenon DEF Region
    <2> QED BY <2>1, RegionEnds
  <1> QED BY <1>1, NewRegionFields, NewRegion DEF Clashes, Overlaps, Smaller, Larger


\* <count>G panics only if the offset lies between two tails.
LEMMA ExtendToOffsetTrack ==
    ASSUME IndInv, TrackInv, NEW offset \in Nat, ExtendToOffset(offset)
    PROVE  TrackInv'
  <1> DEFINE new == [n \in DOMAIN regions |-> ExtendTo(regions[n], offset)]
  <1>1. StartMapping("extend_to", [n \in DOMAIN regions |-> <<new[n]>>])
    BY Zenon DEF ExtendToOffset, Regions1
  <1>2. /\ status = "idle" /\ op' = "extend_to" /\ mapped' = [n \in DOMAIN regions |-> <<new[n]>>]
        /\ UNCHANGED <<regions, len, removed_other>>
    BY <1>1, Zenon DEF ExtendToOffset, StartMapping, selection, history
  <1>3. overjump' \/ offset <= len
    <2>1. overjump' \/ ~(offset > len)
      BY Zenon DEF ExtendToOffset
    <2> QED BY <2>1, TypedRegions
  <1>4. ASSUME NEW n \in DOMAIN regions
        PROVE  /\ new[n] = SelRegion(offset, regions[n].tail) /\ new[n].caret = offset
               /\ new[n] \in Region
               /\ ~new[n].main
               /\ overjump' \/ MaxByte(new[n]) <= len'
    <2>1. regions[n] \in Region /\ regions[n].tail \in Nat /\ len \in Nat
      BY TypedRegions, Zenon DEF Region
    <2>2. overjump' \/ regions[n].tail <= len
      <3>1. overjump' \/ ~overjump
        BY Zenon DEF ExtendToOffset
      <3> QED BY <3>1, <1>2, EndsWithinData, Zenon
    <2>3. new[n] = SelRegion(offset, regions[n].tail)
      BY Zenon DEF ExtendTo
    <2> HIDE DEF new
    <2> QED BY <2>1, <2>2, <2>3, <1>2, <1>3, NewRegionFields
  <1>5. ASSUME NEW a \in DOMAIN regions, NEW b \in DOMAIN regions, a < b,
               MaxByte(regions[a]) < MinByte(regions[b]), Clashes(new[a], new[b])
        PROVE  PanicCause'
    <2>1. regions[a].tail < new[a].caret /\ new[b].caret < regions[b].tail
      BY <1>4, <1>5, TypedRegions, ExtendedClash
    <2>2. mapped'[a][1] = new[a] /\ mapped'[b][1] = new[b]
      BY <1>2, Zenon
    <2> HIDE DEF new
    <2> QED BY <2>1, <2>2, <1>5, <1>2, Zenon DEF PanicCause
  <1> HIDE DEF new
  <1> QED BY <1>1, <1>2, <1>4, <1>5, OneToOneTrack, Zenon

\* So does G with a direction.
LEMMA ExtendBoundaryTrack ==
    ASSUME IndInv, TrackInv, NEW direction \in Direction, ExtendBoundary(direction)
    PROVE  TrackInv'
  <1> DEFINE new == [n \in DOMAIN regions |-> ExtendToBoundary(regions[n], direction, len)]
  <1>1. StartMapping("extend_boundary", [n \in DOMAIN regions |-> <<new[n]>>])
    BY Zenon DEF ExtendBoundary, Regions1
  <1>2. /\ status = "idle" /\ op' = "extend_boundary" /\ mapped' = [n \in DOMAIN regions |-> <<new[n]>>]
        /\ UNCHANGED <<regions, len, overjump, removed_other>>
    BY <1>1, ZenonT(30) DEF ExtendBoundary, StartMapping, selection, history
  <1> DEFINE c(n) == BoundaryCaret(regions[n].caret, direction, len)
  <1>3. ASSUME NEW n \in DOMAIN regions
        PROVE  /\ len = 0 => new[n] = regions[n]
               /\ len # 0 => /\ c(n) \in Nat
                             /\ new[n] = SelRegion(c(n), regions[n].tail) /\ new[n].caret = c(n)
               /\ new[n] \in Region
               /\ new[n].main => regions[n].main
               /\ overjump \/ MaxByte(new[n]) <= len
    <2>1. /\ regions[n] \in Region /\ regions[n].tail \in Nat /\ len \in Nat
          /\ regions[n].caret \in Nat /\ regions[n].caret <= regions[n].caret
      BY TypedRegions DEF Region
    <2>2. CASE len = 0
      BY <2>1, <2>2, <1>2, EndsWithinData, ZenonT(30) DEF ExtendToBoundary
    <2>3. CASE len # 0
      <3>1. c(n) \in Nat
        BY <2>1, <2>3, BoundaryCaretMono, Zenon
      <3>2. overjump \/ (c(n) <= len /\ regions[n].tail <= len)
        BY <2>1, <2>3, <1>2, EndsWithinData, BoundaryCaretWithin
      <3>3. new[n] = SelRegion(c(n), regions[n].tail)
        BY <2>3, Zenon DEF ExtendToBoundary
      <3> HIDE DEF new, c
      <3>4. /\ new[n] \in Region /\ new[n].caret = c(n) /\ ~new[n].main
            /\ \A l \in Nat : c(n) <= l /\ regions[n].tail <= l => MaxByte(new[n]) <= l
        <4> DEFINE s == SelRegion(c(n), regions[n].tail)
        <4>1. /\ s \in Region /\ s.caret = c(n) /\ ~s.main
              /\ \A l \in Nat : c(n) <= l /\ regions[n].tail <= l => MaxByte(s) <= l
          <5>1. regions[n].tail \in Nat
            BY <2>1, Zenon
          <5> QED BY <3>1, <5>1, NewRegionFields
        <4> HIDE DEF s
        <4>2. new[n] = s
          BY <3>3, Zenon DEF s
        <4> QED BY <4>1, <4>2, Zenon
      <3> QED BY <2>1, <2>3, <3>1, <3>2, <3>3, <3>4, Zenon
    <2> QED BY <2>2, <2>3, Zenon
  <1>4. ASSUME NEW a \in DOMAIN regions, NEW b \in DOMAIN regions,
               MaxByte(regions[a]) < MinByte(regions[b]), Clashes(new[a], new[b])
        PROVE  /\ len # 0
               /\ c(a) = c(b) /\ regions[a].tail < c(a) /\ c(b) < regions[b].tail
    <2>1. regions[a] \in Region /\ regions[b] \in Region /\ len \in Nat
      BY TypedRegions, Zenon
    <2>2. len # 0
      BY <2>1, <1>3, <1>4, NoClash, Zenon
    <2>3. c(a) \in Nat /\ c(b) \in Nat /\ c(a) <= c(b)
      BY <2>1, <2>2, <1>4, DisjointEnds, BoundaryCaretMono, Zenon
    <2> HIDE DEF c
    <2> QED BY <2>1, <2>2, <2>3, <1>3, <1>4, ExtendedClash
  <1> HIDE DEF c
  <1>5. ASSUME NEW a \in DOMAIN regions, NEW b \in DOMAIN regions, a < b,
               MaxByte(regions[a]) < MinByte(regions[b]), Clashes(new[a], new[b])
        PROVE  PanicCause'
    <2>1. regions[a].tail < new[a].caret /\ new[b].caret < regions[b].tail
      BY <1>3, <1>4, <1>5, Zenon
    <2>2. mapped'[a][1] = new[a] /\ mapped'[b][1] = new[b]
      BY <1>2, Zenon
    <2> HIDE DEF new
    <2> QED BY <2>1, <2>2, <1>5, <1>2, Zenon DEF PanicCause
  <1> HIDE DEF new
  <1> QED BY <1>1, <1>2, <1>3, <1>5, OneToOneTrack, Zenon

\* Extending by steps brings two carets together only at 0 or at the end of
\* the data, and no tail lies beyond these unless a jump went there.
LEMMA ExtendTrack ==
    ASSUME IndInv, TrackInv, NEW direction \in Direction, NEW count \in Nat,
           Extend(direction, count)
    PROVE  TrackInv'
  <1> DEFINE new == [n \in DOMAIN regions |-> SimpleExtend(regions[n], direction, len, count)]
  <1>1. StartMapping("extend", [n \in DOMAIN regions |-> <<new[n]>>])
    BY Zenon DEF Extend, Regions1
  <1>2. /\ status = "idle" /\ op' = "extend" /\ mapped' = [n \in DOMAIN regions |-> <<new[n]>>]
        /\ UNCHANGED <<regions, len, overjump, removed_other>>
    BY <1>1, ZenonT(30) DEF Extend, StartMapping, selection, history
  <1> DEFINE c(n) == SteppedCaret(regions[n].caret, direction, len, count)
  <1>3. ASSUME NEW n \in DOMAIN regions
        PROVE  /\ len = 0 => new[n] = regions[n]
               /\ len # 0 => /\ c(n) \in Nat
                             /\ new[n] = SelRegion(c(n), regions[n].tail) /\ new[n].caret = c(n)
               /\ new[n] \in Region
               /\ new[n].main => regions[n].main
               /\ overjump \/ MaxByte(new[n]) <= len
    <2>1. /\ regions[n] \in Region /\ regions[n].tail \in Nat /\ len \in Nat
          /\ regions[n].caret \in Nat /\ regions[n].caret <= regions[n].caret
      BY TypedRegions, SMTT(30) DEF Region
    <2>2. CASE len = 0
      BY <2>1, <2>2, <1>2, EndsWithinData, ZenonT(30) DEF SimpleExtend
    <2>3. CASE len # 0
      <3>1. c(n) \in Nat
        BY <2>1, <2>3, SteppedCaretMono, Zenon
      <3>2. overjump \/ (c(n) <= len /\ regions[n].tail <= len)
        BY <2>1, <2>3, <1>2, EndsWithinData, SteppedCaretWithin, Zenon
      <3>3. new[n] = SelRegion(c(n), regions[n].tail)
        BY <2>3, Zenon DEF SimpleExtend
      <3> HIDE DEF new, c
      <3>4. /\ new[n] \in Region /\ new[n].caret = c(n) /\ ~new[n].main
            /\ \A l \in Nat : c(n) <= l /\ regions[n].tail <= l => MaxByte(new[n]) <= l
        <4> DEFINE s == SelRegion(c(n), regions[n].tail)
        <4>1. /\ s \in Region /\ s.caret = c(n) /\ ~s.main
              /\ \A l \in Nat : c(n) <= l /\ regions[n].tail <= l => MaxByte(s) <= l
          <5>1. regions[n].tail \in Nat
            BY <2>1, Zenon
          <5> QED BY <3>1, <5>1, NewRegionFields
        <4> HIDE DEF s
        <4>2. new[n] = s
          BY <3>3, Zenon DEF s
        <4> QED BY <4>1, <4>2, Zenon
      <3> QED BY <2>1, <2>3, <3>1, <3>2, <3>3, <3>4, Zenon
    <2> QED BY <2>2, <2>3, Zenon
  <1>4. ASSUME NEW a \in DOMAIN regions, NEW b \in DOMAIN regions,
               MaxByte(regions[a]) < MinByte(regions[b]), Clashes(new[a], new[b])
        PROVE  /\ len # 0
               /\ c(a) = c(b) /\ regions[a].tail < c(a) /\ c(b) < regions[b].tail
    <2>1. regions[a] \in Region /\ regions[b] \in Region /\ len \in Nat
      BY TypedRegions, Zenon
    <2>2. len # 0
      BY <2>1, <1>3, <1>4, NoClash, Zenon
    <2>3. c(a) \in Nat /\ c(b) \in Nat /\ c(a) <= c(b)
      BY <2>1, <2>2, <1>4, DisjointEnds, SteppedCaretMono, ZenonT(30)
    <2> HIDE DEF c
    <2> QED BY <2>1, <2>2, <2>3, <1>3, <1>4, ExtendedClash
  <1>5. ASSUME NEW a \in DOMAIN regions, NEW b \in DOMAIN regions, a < b,
               MaxByte(regions[a]) < MinByte(regions[b]), Clashes(new[a], new[b])
        PROVE  PanicCause'
    <2>1. CASE overjump
      BY <2>1, <1>2, Zenon DEF PanicCause
    <2>2. CASE ~overjump
      <3>1. /\ regions[a] \in Region /\ regions[b] \in Region /\ len \in Nat
            /\ regions[a].caret \in Nat /\ regions[b].caret \in Nat
            /\ regions[a].tail \in Nat /\ regions[b].tail \in Nat
        BY TypedRegions, Zenon DEF Region
      <3>2. regions[a].caret < regions[b].caret
        BY <3>1, <1>5, RegionEnds, SMTT(30)
      <3>3. len # 0 /\ c(a) = c(b) /\ regions[a].tail < c(a) /\ c(b) < regions[b].tail
        BY <1>4, <1>5, Zenon
      <3>4. c(b) \in {0, len}
        BY <3>1, <3>2, <3>3, SteppedCaretMeets, Zenon
      <3>5. regions[b].tail <= len
        BY <2>2, <1>2, EndsWithinData, Zenon
      <3> HIDE DEF c
      <3> QED BY <3>1, <3>3, <3>4, <3>5, SMTT(30)
    <2> QED BY <2>1, <2>2, Zenon
  <1> HIDE DEF new
  <1> QED BY <1>1, <1>2, <1>3, <1>5, OneToOneTrack, Zenon

\* Appending turns all regions forward.
LEMMA EnterAppendTrack ==
    ASSUME IndInv, TrackInv, EnterAppend
    PROVE  TrackInv'
  <1> DEFINE new == [n \in DOMAIN regions |-> SimpleExtend(ToForward(regions[n]), "Right", len, 1)]
  <1>1. StartMapping("append", [n \in DOMAIN regions |-> <<new[n]>>])
    BY Zenon DEF EnterAppend, Regions1
  <1>2. /\ status = "idle" /\ op' = "append" /\ mapped' = [n \in DOMAIN regions |-> <<new[n]>>]
        /\ UNCHANGED <<regions, len, overjump, removed_other>>
    BY <1>1, Zenon DEF EnterAppend, StartMapping, selection, history
  <1>3. ASSUME NEW n \in DOMAIN regions
        PROVE  /\ new[n] \in Region
               /\ ~new[n].main
               /\ overjump \/ (MaxByte(new[n]) <= len /\ Forward(new[n]))
    <2>1. /\ regions[n] \in Region /\ len \in Nat
          /\ MinByte(regions[n]) \in Nat /\ MaxByte(regions[n]) \in Nat
          /\ MinByte(regions[n]) <= MaxByte(regions[n])
      BY TypedRegions, RegionEnds, Zenon
    <2>2. overjump \/ MaxByte(regions[n]) <= len
      BY <1>2, EndsWithinData, Zenon
    <2> DEFINE c == Smaller(len, MaxByte(regions[n]) + 1)
    <2>3. new[n] = IF len = 0 THEN SelRegion(MaxByte(regions[n]), MinByte(regions[n]))
                              ELSE SelRegion(c, MinByte(regions[n]))
      BY Zenon DEF SimpleExtend, ToForward, SelRegion, SteppedCaret
    <2>4. c \in Nat /\ c <= len /\ (overjump \/ MinByte(regions[n]) <= c)
      BY <2>1, <2>2 DEF Smaller
    <2>5. overjump \/ MinByte(regions[n]) <= len
      BY <2>1, <2>2
    <2> HIDE DEF new, c
    <2> QED BY <2>1, <2>2, <2>3, <2>4, <2>5, NewRegionFields
  <1> HIDE DEF new
  <1>4. ASSUME NEW a \in DOMAIN regions, NEW b \in DOMAIN regions, Clashes(new[a], new[b])
        PROVE  PanicCause'
    <2>1. overjump
      BY <1>3, <1>4, NoClash, Zenon
    <2> QED BY <2>1, <1>2, Zenon DEF PanicCause
  <1> QED BY <1>1, <1>2, <1>3, <1>4, OneToOneTrack, Zenon

\* The Transformer's offsets lie within the new data.
LEMMA TransformedWithin ==
    ASSUME len \in Nat, NEW new_max_len \in Nat, NEW t \in Transforms(len, new_max_len),
           NEW c \in Nat
    PROVE  Transformed(t, c, new_max_len) <= new_max_len
  <1>1. \A x \in 0 .. len : t[x] \in 0 .. new_max_len
    BY Zenon DEF Transforms
  <1> QED BY <1>1 DEF Transformed

\* An edit keeps the direction of a region or makes it a single byte, so two
\* regions that clash ran in opposite directions before.
LEMMA ApplyDeltaTrack ==
    ASSUME IndInv, TrackInv, NEW new_max_len \in Nat, NEW t \in Transforms(len, new_max_len),
           ApplyDelta(t, new_max_len), new_max_len # 0
    PROVE  TrackInv'
  <1> DEFINE c(n) == Transformed(t, regions[n].caret, new_max_len)
             u(n) == Transformed(t, regions[n].tail, new_max_len)
             new == [n \in DOMAIN regions |-> SelRegion(c(n), u(n))]
  <1>1. StartMapping("delta", [n \in DOMAIN regions |-> <<new[n]>>])
    BY Zenon DEF ApplyDelta, Regions1
  <1>2. /\ op' = "delta" /\ len' = new_max_len
        /\ UNCHANGED <<regions, overjump, removed_other>>
    BY <1>1, Zenon DEF ApplyDelta, StartMapping, selection, history
  <1>3. ASSUME NEW n \in DOMAIN regions
        PROVE  /\ new[n] \in Region /\ ~new[n].main
               /\ MaxByte(new[n]) <= new_max_len
               /\ Backward(regions[n]) => Backward(new[n])
               /\ Forward(regions[n]) => Forward(new[n])
    <2>1. /\ regions[n].caret \in Nat /\ regions[n].tail \in Nat /\ len \in Nat
      BY TypedRegions, Zenon DEF Region
    <2>2. /\ c(n) \in Nat /\ u(n) \in Nat /\ c(n) <= new_max_len /\ u(n) <= new_max_len
          /\ regions[n].caret <= regions[n].tail => c(n) <= u(n)
          /\ regions[n].tail <= regions[n].caret => u(n) <= c(n)
      BY <2>1, TransformedMono, TransformedWithin, SMTT(30)
    <2>3. new[n] = SelRegion(c(n), u(n))
      BY Zenon
    <2> HIDE DEF new, c, u
    <2> QED BY <2>1, <2>2, <2>3, NewRegionFields DEF Backward, Forward
  <1> HIDE DEF new
  <1>4. ASSUME NEW a \in DOMAIN regions, NEW b \in DOMAIN regions, Clashes(new[a], new[b])
        PROVE  PanicCause'
    <2>1. MixedDirections
      BY <1>3, <1>4, Zenon DEF Clashes, MixedDirections
    <2>2. MixedDirections'
      BY <2>1, <1>2, Zenon DEF MixedDirections
    <2> QED BY <2>2, <1>2, Zenon DEF PanicCause
  <1> QED BY <1>1, <1>2, <1>3, <1>4, OneToOneTrack, Zenon

\* With the caret one to the left, only a region that ran forward still does.
LEMMA ApplyDeltaHalfTrack ==
    ASSUME IndInv, TrackInv, NEW new_max_len \in Nat, NEW t \in Transforms(len, new_max_len),
           ApplyDeltaHalf(t, new_max_len)
    PROVE  TrackInv'
  <1> DEFINE c(n) == Transformed(t, regions[n].caret, new_max_len)
             u(n) == Transformed(t, regions[n].tail, new_max_len)
             new == [n \in DOMAIN regions |-> SelRegion(c(n) - 1, u(n))]
  <1>1. StartMapping("delta_half", [n \in DOMAIN regions |-> <<new[n]>>])
    BY Zenon DEF ApplyDeltaHalf, Regions1
  <1>2. /\ op' = "delta_half" /\ len' = new_max_len
        /\ UNCHANGED <<regions, overjump, removed_other>>
    BY <1>1, Zenon DEF ApplyDeltaHalf, StartMapping, selection, history
  <1>3. ASSUME NEW n \in DOMAIN regions
        PROVE  /\ new[n] \in Region /\ ~new[n].main
               /\ MaxByte(new[n]) <= new_max_len
               /\ Backward(regions[n]) => Backward(new[n])
    <2>1. /\ regions[n].caret \in Nat /\ regions[n].tail \in Nat /\ len \in Nat
      BY TypedRegions, Zenon DEF Region
    <2>2. /\ c(n) \in Nat /\ u(n) \in Nat /\ c(n) <= new_max_len /\ u(n) <= new_max_len
          /\ regions[n].caret <= regions[n].tail => c(n) <= u(n)
      BY <2>1, TransformedMono, TransformedWithin
    <2>3. c(n) >= 1
      BY Zenon DEF ApplyDeltaHalf
    <2>4. new[n] = SelRegion(c(n) - 1, u(n))
      BY Zenon
    <2> HIDE DEF new, c, u
    <2>5. c(n) - 1 \in Nat /\ c(n) - 1 <= new_max_len /\ (c(n) <= u(n) => c(n) - 1 <= u(n))
      BY <2>2, <2>3
    <2> QED BY <2>1, <2>2, <2>4, <2>5, NewRegionFields DEF Backward
  <1> HIDE DEF new
  <1>4. ASSUME NEW a \in DOMAIN regions, NEW b \in DOMAIN regions, Clashes(new[a], new[b])
        PROVE  PanicCause'
    <2>1. ~Backward(regions[a]) \/ ~Backward(regions[b])
      BY <1>3, <1>4, Zenon DEF Clashes
    <2> QED BY <2>1, <1>2, Zenon DEF PanicCause
  <1> QED BY <1>1, <1>2, <1>3, <1>4, OneToOneTrack, Zenon


\* The pieces of a split are apart and within the region, and step_by(0)
\* panics.
LEMMA SplitByWidthTrack ==
    ASSUME IndInv, TrackInv, NEW width \in Widths, SplitByWidth(width)
    PROVE  TrackInv'
  <1>0. width \in Nat
    BY SelectionAssumption, Zenon
  <1>1. CASE width = 0
    <2>1. /\ status' = "panicked" /\ op' = "split_width"
          /\ UNCHANGED <<regions, main_selection, removed_other>>
      BY <1>1, Zenon DEF SplitByWidth, selection, history
    <2>2. PanicCause'
      BY <2>1, <1>1, Zenon DEF PanicCause
    <2>3. OneMainFlag'
      BY <2>1, Zenon DEF TrackInv, OneMainFlag
    <2> QED BY <2>1, <2>2, <2>3, Zenon
               DEF TrackInv, CaretsWithinData, PanicCauses, MainFollowsItsRegion
  <1>2. CASE width # 0
    <2> DEFINE new == [n \in DOMAIN regions |-> SplitWidth(regions[n], width)]
    <2>1. StartMapping("split_width", new)
      BY <1>2, Zenon DEF SplitByWidth
    <2>2. /\ status = "idle" /\ mapped' = new
          /\ UNCHANGED <<regions, main_selection, len, overjump, removed_other>>
      BY <2>1, Zenon DEF SplitByWidth, StartMapping, selection, history
    <2>3. DOMAIN regions = 1 .. Len(regions) /\ Len(regions) \in Nat
      BY LenProperties, Zenon DEF IndInv, TypeOK
    <2>4. ASSUME NEW n \in DOMAIN regions
          PROVE  /\ new[n] = SplitWidth(regions[n], width)
                 /\ regions[n] \in Region
                 /\ new[n] \in Seq(Region) /\ new[n] # <<>>
      BY <1>0, <1>2, TypedRegions, SplitWidthPieces, Zenon
    <2>5. new \in Seq(Seq(Region)) /\ DOMAIN new = DOMAIN regions
      BY <2>3, <2>4, IsASeq, SMTT(30)
    <2> HIDE DEF new
    <2>6. ASSUME NEW n \in DOMAIN regions, NEW p \in DOMAIN new[n]
          PROVE  /\ new[n][p] \in Region
                 /\ ~new[n][p].main
                 /\ MinByte(regions[n]) <= MinByte(new[n][p])
                 /\ MaxByte(new[n][p]) <= MaxByte(regions[n])
      BY <1>0, <1>2, <2>4, <2>6, SplitWidthPieces, ElementOfSeq, LenProperties, ZenonT(30)
    <2>7. overjump \/ \A n \in DOMAIN new : \A p \in DOMAIN new[n] : MaxByte(new[n][p]) <= len
      <3> SUFFICES ASSUME ~overjump, NEW n \in DOMAIN new, NEW p \in DOMAIN new[n]
                   PROVE  MaxByte(new[n][p]) <= len
        BY Zenon
      <3>1. MaxByte(regions[n]) <= len /\ MaxByte(new[n][p]) <= MaxByte(regions[n])
        BY <2>2, <2>5, <2>6, EndsWithinData, Zenon
      <3>2. MaxByte(regions[n]) \in Nat /\ MaxByte(new[n][p]) \in Nat /\ len \in Nat
        BY <2>4, <2>5, <2>6, RegionEnds, TypedRegions, SMTT(30)
      <3> QED BY <3>1, <3>2
    <2>8. ~Clash(new)
      <3> SUFFICES ASSUME NEW a \in DOMAIN regions, NEW b \in DOMAIN regions,
                          NEW p \in DOMAIN new[a], NEW q \in DOMAIN new[b],
                          Earlier(a, p, b, q)
                   PROVE  ~Clashes(new[a][p], new[b][q])
        BY <2>5, Zenon DEF Clash
      <3>1. MaxByte(new[a][p]) < MinByte(new[b][q])
        <4>1. CASE a = b /\ p < q
          BY <4>1, <1>0, <1>2, <2>4, SplitWidthPieces, Zenon
        <4>2. CASE a < b
          <5>1. MaxByte(regions[a]) < MinByte(regions[b])
            BY <4>2, Zenon DEF IndInv, RegionsSortedDisjoint, Separated
          <5>2. /\ MaxByte(regions[a]) \in Nat /\ MinByte(regions[b]) \in Nat
                /\ MaxByte(new[a][p]) \in Nat /\ MinByte(new[b][q]) \in Nat
            BY <2>4, <2>6, RegionEnds, Zenon
          <5> QED BY <5>1, <5>2, <2>6
        <4> QED BY <4>1, <4>2, Zenon DEF Earlier
      <3> QED BY <3>1, <2>6, NoClash, Zenon
    <2>9. MadeInv'
      <3>1. \A a \in DOMAIN new : new[a] # <<>>
        BY <2>4, <2>5, Zenon
      <3>2. \A a \in DOMAIN new : \A p \in DOMAIN new[a] : ~new[a][p].main
        BY <2>5, <2>6, Zenon
      <3> QED BY <3>1, <3>2, <2>2, <2>7, <2>8, Zenon DEF MadeInv
    <2> QED BY <2>1, <2>2, <2>5, <2>9, StartTrack
  <1> QED BY <1>1, <1>2, Zenon

-----------------------------------------------------------------------------
(* Operations that change the selection in place.                          *)

\* A command that changes the selection without map_selections.
LEMMA InPlaceTrack ==
    ASSUME IndInv, TrackInv, status = "idle", UNCHANGED status,
           removed_other' \/ \A n \in DOMAIN regions' : regions'[n].main => n = main_selection',
           overjump' \/ \A n \in DOMAIN regions' : MaxByte(regions'[n]) <= len'
    PROVE  TrackInv'
  BY Zenon DEF TrackInv, OneMainFlag, CaretsWithinData, PanicCauses, MainFollowsItsRegion

\* The selection becomes one flagged region within the data.
LEMMA SingleTrack ==
    ASSUME IndInv, TrackInv, status = "idle", UNCHANGED status,
           NEW r \in Region, regions' = <<MainRegion(r)>>, main_selection' = 1,
           overjump' \/ MaxByte(r) <= len'
    PROVE  TrackInv'
  <1>1. MaxByte(MainRegion(r)) = MaxByte(r)
    BY MainRegionEnds, Zenon
  <1> DEFINE m == MainRegion(r)
  <1> HIDE DEF m
  <1>2. regions' = <<m>>
    BY Zenon DEF m
  <1>3. DOMAIN regions' = {1} /\ regions'[1] = m
    BY <1>2
  <1> QED BY <1>1, <1>3, InPlaceTrack, Zenon DEF m

\* retain leaves the one region it is told to keep.
LEMMA RetainTrack ==
    ASSUME IndInv, TrackInv, NEW index \in DOMAIN regions, Retain(index)
    PROVE  TrackInv'
  <1>1. /\ status = "idle" /\ UNCHANGED <<status, len, overjump>>
        /\ regions' = <<MainRegion(regions[index])>> /\ main_selection' = 1
    BY Zenon DEF Retain, InPlace
  <1>2. overjump \/ MaxByte(regions[index]) <= len
    BY <1>1, EndsWithinData, Zenon
  <1> QED BY <1>1, <1>2, TypedRegions, SingleTrack, Zenon

\* select_all leaves one region over all of the data.
LEMMA SelectAllTrack ==
    ASSUME IndInv, TrackInv, SelectAll
    PROVE  TrackInv'
  <1> DEFINE r == IF len = 0 THEN SelRegion(0, 0) ELSE SelRegion(len - 1, 0)
  <1>1. r \in Region /\ MaxByte(r) <= len
    BY TypedRegions, NewRegionFields
  <1>2. /\ status = "idle" /\ UNCHANGED <<status, len, overjump>>
        /\ regions' = <<MainRegion(r)>> /\ main_selection' = 1
    BY Zenon DEF SelectAll, InPlace, Cleared
  <1> HIDE DEF r
  <1> QED BY <1>1, <1>2, SingleTrack, Zenon

\* An emptied buffer has one region at its start.
LEMMA ClearTrack ==
    ASSUME IndInv, TrackInv, NEW t, ApplyDelta(t, 0)
    PROVE  TrackInv'
  <1>1. /\ status = "idle" /\ UNCHANGED status /\ len' = 0
        /\ regions' = <<MainRegion(SelRegion(0, 0))>> /\ main_selection' = 1
    BY Zenon DEF ApplyDelta, ClearSelection, Cleared
  <1>2. SelRegion(0, 0) \in Region /\ MaxByte(SelRegion(0, 0)) <= 0
    BY NewRegionFields
  <1> QED BY <1>1, <1>2, SingleTrack, Zenon

\* What WithMain does to each region.
LEMMA WithMainFields ==
    ASSUME NEW rs \in Seq(Region), NEW index \in DOMAIN rs
    PROVE  /\ DOMAIN WithMain(rs, index) = DOMAIN rs
           /\ \A n \in DOMAIN rs :
                /\ MaxByte(WithMain(rs, index)[n]) = MaxByte(rs[n])
                /\ n # index => WithMain(rs, index)[n] = rs[n]
  <1>1. rs[index] \in Region
    BY LenProperties, ElementOfSeq, Zenon
  <1>2. MaxByte(MainRegion(rs[index])) = MaxByte(rs[index])
    BY <1>1, MainRegionEnds, Zenon
  <1>3. WithMain(rs, index) = [rs EXCEPT ![index] = MainRegion(rs[index])]
    BY Zenon DEF WithMain
  <1> QED BY <1>2, <1>3, Zenon

\* Removing the main region takes its flag away; removing another may leave
\* two, which removed_other records.
LEMMA RemoveTrack ==
    ASSUME IndInv, TrackInv, NEW index \in DOMAIN regions, Remove(index)
    PROVE  TrackInv'
  <1> DEFINE m == Smaller(Len(regions) - 1, main_selection)
             rest == WithoutIndex(regions, index)
  <1>1. /\ regions \in Seq(Region) /\ Separated(regions)
        /\ main_selection \in DOMAIN regions
        /\ DOMAIN regions = 1 .. Len(regions) /\ Len(regions) \in Nat
    BY LenProperties, Zenon DEF IndInv, TypeOK, RegionsSortedDisjoint, MainIsFlagged
  <1>2. /\ status = "idle" /\ UNCHANGED <<status, len, overjump>>
    BY Zenon DEF Remove, InPlace
  <1>3. removed_other' \/ (~removed_other /\ index = main_selection)
    BY Zenon DEF Remove
  <1>4. /\ removed_other' \/ \A n \in DOMAIN regions : regions[n].main => n = index
        /\ overjump \/ \A n \in DOMAIN regions : MaxByte(regions[n]) <= len
    BY <1>2, <1>3, Zenon DEF TrackInv, OneMainFlag, CaretsWithinData
  <1>5. CASE Len(regions) = 1
    <2>1. regions' = regions /\ main_selection' = main_selection
      BY <1>5, Zenon DEF Remove, InPlace
    <2>2. index = main_selection
      BY <1>1, <1>5
    <2> QED BY <2>1, <2>2, <1>2, <1>4, InPlaceTrack, Zenon
  <1>6. CASE Len(regions) # 1
    <2>1. regions' = WithMain(rest, m) /\ main_selection' = m
      BY <1>6, Zenon DEF Remove, InPlace
    <2>2. Len(regions) > 1 /\ m \in 1 .. Len(regions) - 1
      BY <1>1, <1>6 DEF Smaller
    <2>3. rest \in Seq(Region) /\ DOMAIN rest = 1 .. Len(regions) - 1
      BY <1>1, <2>2, WithoutIndexSeparated, Zenon
    <2>4. ASSUME NEW n \in DOMAIN rest
          PROVE  \E j \in DOMAIN regions : j # index /\ rest[n] = regions[j]
      <3>1. n \in 1 .. Len(regions) - 1
        BY <2>3, Zenon
      <3>2. rest[n] = IF n < index THEN regions[n] ELSE regions[n + 1]
        BY <3>1, Zenon DEF WithoutIndex
      <3> HIDE DEF rest
      <3>3. CASE n < index
        BY <3>1, <3>2, <3>3, <1>1
      <3>4. CASE ~(n < index)
        <4>1. n + 1 \in DOMAIN regions /\ n + 1 # index
          BY <3>1, <3>4, <1>1
        <4> QED BY <4>1, <3>2, <3>4, Zenon
      <3> QED BY <3>3, <3>4, Zenon
    <2> HIDE DEF rest, m
    <2>5. /\ DOMAIN regions' = DOMAIN rest
          /\ \A n \in DOMAIN rest :
               /\ MaxByte(regions'[n]) = MaxByte(rest[n])
               /\ n # m => regions'[n] = rest[n]
      BY <2>1, <2>2, <2>3, WithMainFields, Zenon
    <2>6. removed_other' \/ \A n \in DOMAIN regions' : regions'[n].main => n = m
      BY <2>4, <2>5, <1>4, Zenon
    <2>7. overjump \/ \A n \in DOMAIN regions' : MaxByte(regions'[n]) <= len
      BY <2>4, <2>5, <1>4, Zenon
    <2> QED BY <2>1, <2>6, <2>7, <1>2, InPlaceTrack, Zenon
  <1> QED BY <1>5, <1>6, Zenon

\* ( and ) move the flag.
LEMMA SwitchedTrack ==
    ASSUME IndInv, TrackInv, NEW m \in DOMAIN regions, InPlace(Switched(m), m),
           UNCHANGED removed_other
    PROVE  TrackInv'
  <1> DEFINE plain == [regions EXCEPT ![main_selection].main = FALSE]
  <1>1. /\ regions \in Seq(Region) /\ Separated(regions) /\ main_selection \in DOMAIN regions
        /\ regions[main_selection] \in Region
    BY TypedRegions, Zenon DEF IndInv, TypeOK, RegionsSortedDisjoint, MainIsFlagged
  <1>2. plain \in Seq(Region) /\ DOMAIN plain = DOMAIN regions
    BY <1>1, UnflaggedSeparated, Zenon
  <1>3. /\ \A n \in DOMAIN regions : n # main_selection => plain[n] = regions[n]
        /\ ~plain[main_selection].main
        /\ MaxByte(plain[main_selection]) = MaxByte(regions[main_selection])
    BY <1>1, Zenon DEF MaxByte, Region
  <1>4. /\ status = "idle" /\ UNCHANGED <<status, len, overjump>>
        /\ regions' = WithMain(plain, m) /\ main_selection' = m
    BY Zenon DEF InPlace, Switched
  <1> HIDE DEF plain
  <1>5. /\ DOMAIN regions' = DOMAIN regions
        /\ \A n \in DOMAIN regions :
             /\ MaxByte(regions'[n]) = MaxByte(plain[n])
             /\ n # m => regions'[n] = plain[n]
    BY <1>2, <1>4, WithMainFields, Zenon
  <1>6. removed_other \/ \A n \in DOMAIN regions' : regions'[n].main => n = m
    <2>1. removed_other \/ \A n \in DOMAIN regions : ~plain[n].main
      BY <1>3, Zenon DEF TrackInv, OneMainFlag
    <2> QED BY <2>1, <1>5, Zenon
  <1>7. overjump \/ \A n \in DOMAIN regions' : MaxByte(regions'[n]) <= len
    <2>1. overjump \/ \A n \in DOMAIN regions : MaxByte(regions[n]) <= len
      BY <1>4, Zenon DEF TrackInv, CaretsWithinData
    <2> QED BY <2>1, <1>3, <1>5, Zenon
  <1> QED BY <1>4, <1>6, <1>7, InPlaceTrack, Zenon


-----------------------------------------------------------------------------

\* Every step of the program keeps it.
LEMMA NextTrack == IndInv /\ TrackInv /\ [Next]_vars => TrackInv'
  <1> SUFFICES ASSUME IndInv, TrackInv, [Next]_vars
               PROVE  TrackInv'
    BY Zenon
  <1> USE SelectionAssumption
  <1>1. CASE Looping
    BY <1>1, PushTrack, CloseTrack, FinishTrack, Zenon DEF Looping
  <1>2. CASE Mapping
    <2>1. ASSUME NEW direction \in Direction, NEW count \in Counts,
                 Move(direction, count) \/ Extend(direction, count)
          PROVE  TrackInv'
      BY <2>1, MoveTrack, ExtendTrack, Zenon
    <2>2. ASSUME NEW direction \in Direction,
                 \/ MoveFromHalf(direction)
                 \/ JumpBoundary(direction)
                 \/ ExtendBoundary(direction)
          PROVE  TrackInv'
      BY <2>2, MoveFromHalfTrack, JumpBoundaryTrack, ExtendBoundaryTrack, Zenon
    <2>3. ASSUME NEW offset \in Offsets, JumpToOffset(offset) \/ ExtendToOffset(offset)
          PROVE  TrackInv'
      BY <2>3, JumpToOffsetTrack, ExtendToOffsetTrack, Zenon
    <2>4. ASSUME NEW width \in Widths, SplitByWidth(width)
          PROVE  TrackInv'
      BY <2>4, SplitByWidthTrack, Zenon
    <2> QED BY <1>2, <2>1, <2>2, <2>3, <2>4, SwapCaretsTrack, CollapseAllTrack,
               EnterInsertTrack, EnterAppendTrack, SMTT(30) DEF Mapping
  <1>3. CASE Editing
    <2>1. PICK new_max_len \in 0 .. MaxLen : \E t \in Transforms(len, new_max_len) :
              ApplyDelta(t, new_max_len) \/ ApplyDeltaHalf(t, new_max_len)
      BY <1>3, Zenon DEF Editing
    <2>2. PICK t \in Transforms(len, new_max_len) :
              ApplyDelta(t, new_max_len) \/ ApplyDeltaHalf(t, new_max_len)
      BY <2>1, Zenon
    <2>3. new_max_len \in Nat
      OBVIOUS
    <2>4. CASE new_max_len = 0 /\ ApplyDelta(t, new_max_len)
      BY <2>4, ClearTrack, Zenon
    <2>5. CASE ~(new_max_len = 0 /\ ApplyDelta(t, new_max_len))
      BY <2>2, <2>3, <2>5, ApplyDeltaTrack, ApplyDeltaHalfTrack, Zenon
    <2> QED BY <2>4, <2>5, Zenon
  <1>4. CASE Choosing
    <2>1. /\ DOMAIN regions = 1 .. Len(regions) /\ Len(regions) \in Nat \ {0}
          /\ main_selection \in DOMAIN regions
      BY LenProperties DEF IndInv, TypeOK, MainIsFlagged
    <2>2. ASSUME NEW count \in Counts \ {0}
          PROVE  Wrapped(count - 1) \in DOMAIN regions
      <3>1. count - 1 \in Nat
        OBVIOUS
      <3> QED BY <3>1, <2>1, WrapsIntoDomain, Zenon DEF Wrapped
    <2>3. ASSUME NEW count \in Counts, SelectNext(count) \/ SelectPrev(count)
          PROVE  TrackInv'
      <3>1. PICK m \in DOMAIN regions : InPlace(Switched(m), m) /\ UNCHANGED removed_other
        BY <2>3, ChosenIndex, Zenon
      <3> QED BY <3>1, SwitchedTrack, Zenon
    <2> QED BY <1>4, <2>1, <2>2, <2>3, RetainTrack, RemoveTrack, SelectAllTrack, SMTT(30) DEF Choosing
  <1>5. ASSUME NEW new_len \in 1 .. MaxLen, LoadNextChunk(new_len)
        PROVE  TrackInv'
    <2>1. /\ status = "idle" /\ len' \in Nat /\ len' >= len
          /\ UNCHANGED <<regions, main_selection, status, overjump, removed_other>>
      BY <1>5, TypedRegions, SMTT(30) DEF LoadNextChunk, selection, history
    <2>2. overjump \/ \A n \in DOMAIN regions : MaxByte(regions[n]) <= len'
      BY <2>1, TypedRegions, EndsWithinData, RegionEnds
    <2> QED BY <2>1, <2>2, InPlaceTrack, Zenon DEF TrackInv, OneMainFlag
  <1>6. CASE Halted \/ UNCHANGED vars
    <2>1. /\ UNCHANGED <<len, regions, main_selection, op, mapped, overjump, removed_other>>
          /\ UNCHANGED <<status, i, k, regions_out, new_main_sel>>
      BY <1>6, Zenon DEF Halted, vars, selection, loop, history
    <2>2. /\ MadeInv' <=> MadeInv
          /\ PanicCause' <=> PanicCause
          /\ OneMainFlag' <=> OneMainFlag
      BY <2>1, MadeUnmoved, Zenon
    <2>3. KeepsBytes' <=> KeepsBytes
      BY <2>1, SMTT(30) DEF KeepsBytes, PutOut, SeenByte, Seen
    <2>4. KeepsDirection' <=> KeepsDirection
      BY <2>1, Zenon DEF KeepsDirection, Seen, LastOut
    <2>5. (FlagsFollow' <=> FlagsFollow) /\ (LastMadeOut' <=> LastMadeOut)
      BY <2>1, Zenon DEF FlagsFollow, LastMadeOut, LastOut
    <2>6. (CaretsWithinData' <=> CaretsWithinData) /\ (MainFollowsItsRegion' <=> MainFollowsItsRegion)
      BY <2>1, Zenon DEF CaretsWithinData, MainFollowsItsRegion
    <2> QED BY <2>1, <2>2, <2>3, <2>4, <2>5, <2>6, Zenon DEF TrackInv, PanicCauses
  <1> QED BY <1>1, <1>2, <1>3, <1>4, <1>5, <1>6 DEF Next

\* The first selection is one region at the start of the data.
LEMMA InitTrack == Init => TrackInv
  <1> SUFFICES ASSUME Init
               PROVE  TrackInv
    BY Zenon
  <1> DEFINE m == MainRegion(SelRegion(0, 0))
  <1>1. m \in Region /\ MaxByte(m) <= len
    BY NewRegion, MainRegionEnds, SelectionAssumption DEF Init, Larger
  <1>2. regions = <<m>> /\ main_selection = 1 /\ status = "idle"
    BY Zenon DEF Init, Cleared
  <1> HIDE DEF m
  <1>3. DOMAIN regions = {1} /\ regions[1] = m
    BY <1>2
  <1> QED BY <1>1, <1>2, <1>3, Zenon
             DEF TrackInv, OneMainFlag, CaretsWithinData, PanicCauses, MainFollowsItsRegion

\* The stronger invariant of the selection holds, through every operation and
\* every step of the loop of map_selections.
THEOREM Tracked == Spec => []TrackInv
  <1>1. Init => TrackInv
    BY InitTrack, Zenon
  <1>2. IndInv /\ TrackInv /\ [Next]_vars => TrackInv'
    BY NextTrack, Zenon
  <1> QED BY <1>1, <1>2, Inductive, PTL DEF Spec

\* The flag by which the view finds the main cursor is on one region only,
\* unless a counted remove took a region other than the main one.
THEOREM OnlyMainFlagged == Spec => []OneMainFlag
  <1>1. TrackInv => OneMainFlag
    BY Zenon DEF TrackInv
  <1> QED BY <1>1, Tracked, PTL

\* At each step of map_selections the regions put out select exactly the
\* bytes of the new regions seen so far.
THEOREM BytesKept == Spec => []MergingKeepsBytes
  <1>1. IndInv /\ TrackInv => MergingKeepsBytes
    <2> SUFFICES ASSUME IndInv, TrackInv, status = "mapping"
                 PROVE  UNION {Bytes(regions_out[n]) : n \in DOMAIN regions_out} =
                        UNION {UNION {Bytes(mapped[a][p]) :
                                          p \in {q \in DOMAIN mapped[a] : Seen(a, q)}} :
                                   a \in DOMAIN mapped}
      BY Zenon DEF MergingKeepsBytes
    <2> DEFINE out == UNION {Bytes(regions_out[n]) : n \in DOMAIN regions_out}
               of(a) == UNION {Bytes(mapped[a][p]) : p \in {q \in DOMAIN mapped[a] : Seen(a, q)}}
               seen == UNION {of(a) : a \in DOMAIN mapped}
    <2>1. \A x : x \in out <=> PutOut(x)
      BY Zenon DEF PutOut
    <2>2. \A x : x \in seen <=> SeenByte(x)
      <3>1. \A a, x : x \in of(a) <=> \E p \in DOMAIN mapped[a] : Seen(a, p) /\ x \in Bytes(mapped[a][p])
        BY Zenon
      <3> HIDE DEF of
      <3> QED BY <3>1, Zenon DEF SeenByte
    <2>3. /\ \A n \in DOMAIN regions_out : regions_out[n] \in Region
          /\ \A a \in DOMAIN mapped : \A p \in DOMAIN mapped[a] : mapped[a][p] \in Region
      BY LenProperties, ElementOfSeq, SMTT(30) DEF IndInv, TypeOK
    <2>4. \A x : PutOut(x) \/ SeenByte(x) => x \in Nat
      BY <2>3, RegionBytes, Zenon DEF PutOut, SeenByte
    <2>5. \A x \in Nat : PutOut(x) <=> SeenByte(x)
      BY Zenon DEF TrackInv, KeepsBytes
    <2> HIDE DEF out, seen
    <2>6. out = seen
      BY <2>1, <2>2, <2>4, <2>5, Zenon
    <2> QED BY <2>6, Zenon DEF out, seen
  <1> QED BY <1>1, Inductive, Tracked, PTL

\* The region at new_main_sel holds the last region made from the main one.
THEOREM MainFollowed == Spec => []MainFollowsItsRegion
  <1>1. TrackInv => MainFollowsItsRegion
    BY Zenon DEF TrackInv
  <1> QED BY <1>1, Tracked, PTL

\* Without a jump past the end, every caret and tail is an offset of the data
\* or the one after it.
THEOREM CaretsStayWithinData == Spec => []CaretsWithinData
  <1>1. TrackInv => CaretsWithinData
    BY Zenon DEF TrackInv
  <1> QED BY <1>1, Tracked, PTL

\* merge panics, and len() - 1 underflows, only for the causes PanicCause
\* lists: for every selection, count, offset and edit.
THEOREM PanicsOnlyForCause == Spec => []PanicCauses
  <1>1. TrackInv => PanicCauses
    BY Zenon DEF TrackInv
  <1> QED BY <1>1, Tracked, PTL


=============================================================================
