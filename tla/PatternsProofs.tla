--------------------------- MODULE PatternsProofs ---------------------------
(***************************************************************************)
(* Proofs about pattern searches, for every text, selection and pattern:   *)
(* the matches found are the leftmost ones, and splitting at them or       *)
(* collapsing to them leaves the selection sorted, disjoint and with a     *)
(* main region, and the pieces are the runs between the matches.           *)
(***************************************************************************)
EXTENDS FindingProofs

-----------------------------------------------------------------------------
(* Cutting and mapping.                                                    *)

\* The step that hands the new regions to map_selections.
LEMMA ToMappingInv ==
    ASSUME SearchInv, NEW name, NEW new \in Seq(Seq(Region)), PiecesInRegions(new),
           StartMapping(name, new), phase' = "mapping",
           UNCHANGED <<len, history, text, acceptor, pattern, at, base, matched_ranges, cut,
                       base_region, made>>,
           RangesInRegions, acceptor \in {"split", "collapse"},
           acceptor = "split" => \A x \in DOMAIN regions : CutUp(x, new[x]),
           acceptor = "collapse" =>
               \A x \in DOMAIN regions : DOMAIN new[x] = DOMAIN matched_ranges[x]
    PROVE  SearchInv' /\ MappedInv'
  <1>1. Ordered(new) /\ Len(new) = Len(regions)
    BY PiecesOrdered, Zenon DEF SearchInv, PiecesInRegions
  <1>2. len' \in Nat /\ overjump' \in BOOLEAN /\ removed_other' \in BOOLEAN
    BY TypedRegions, Zenon DEF SearchInv, history
  <1>3. IndInv'
    BY <1>1, <1>2, StartMappingInv DEF SearchInv
  <1>4. SearchTypeOK'
    BY <1>3, Zenon DEF SearchInv, SearchTypeOK, IndInv
  <1>5. SearchInv'
    BY <1>3, <1>4, Zenon DEF SearchInv
  <1>6. /\ status' = "mapping" /\ mapped' = new /\ i' = 1
        /\ UNCHANGED <<regions, main_selection>>
    BY Zenon DEF StartMapping, selection
  <1>7. RangesInRegions' /\ PiecesInRegions(mapped)'
    BY <1>6 DEF RangesInRegions, PiecesInRegions
  <1>8. KeepsBytes' /\ KeepsDirection'
    BY StartKeeps, Zenon
  <1>9. ~(i' > main_selection')
    BY <1>6, LenProperties DEF SearchInv, IndInv, TypeOK, MainIsFlagged
  <1>10. \A x \in DOMAIN regions : CutUp(x, new[x]) => CutUp(x, mapped[x])'
    BY <1>6, Zenon DEF CutUp
  <1>11. MappedInv'
    BY <1>6, <1>7, <1>8, <1>9, <1>10, Zenon DEF MappedInv
  <1> QED BY <1>5, <1>11, Zenon

\* Every region becomes its matches.
LEMMA CollapseToMatchesInv ==
    ASSUME SearchInv, CollapseToMatches
    PROVE  SearchInv' /\ MappedInv'
  <1> DEFINE piece(x, j) ==
               InheritDirection(SelRegion(matched_ranges[x][j].start,
                                          matched_ranges[x][j].end - 1), regions[x])
             new == [x \in DOMAIN regions |-> [j \in DOMAIN matched_ranges[x] |-> piece(x, j)]]
  <1>1. RangesInRegions
    BY Zenon DEF CollapseToMatches, SearchInv, FindingInv
  <1>2. ASSUME NEW x \in DOMAIN regions, NEW j \in DOMAIN matched_ranges[x]
        PROVE  /\ piece(x, j) \in Region
               /\ MinByte(piece(x, j)) = matched_ranges[x][j].start
               /\ MaxByte(piece(x, j)) = matched_ranges[x][j].end - 1
    <2> DEFINE s == matched_ranges[x][j].start
               e == matched_ranges[x][j].end - 1
    <2>1. s \in Nat /\ e \in Nat /\ s <= e
      BY <1>1, RangeFacts DEF RangesInRegions
    <2>2. regions[x] \in Region
      BY SelectionFacts, Zenon DEF SearchInv
    <2> HIDE DEF s, e
    <2>3. /\ SelRegion(s, e) \in Region
          /\ MinByte(SelRegion(s, e)) = s /\ MaxByte(SelRegion(s, e)) = e
      BY <2>1, NewRegion DEF Smaller, Larger
    <2> QED BY <2>2, <2>3, InheritEnds, Zenon DEF s, e
  <1>3. \A x \in DOMAIN regions :
            /\ new[x] \in Seq(Region)
            /\ DOMAIN new[x] = DOMAIN matched_ranges[x]
            /\ \A j \in DOMAIN new[x] : new[x][j] = piece(x, j)
    <2> SUFFICES ASSUME NEW x \in DOMAIN regions
                 PROVE  /\ new[x] \in Seq(Region)
                        /\ DOMAIN new[x] = DOMAIN matched_ranges[x]
                        /\ \A j \in DOMAIN new[x] : new[x][j] = piece(x, j)
      BY Zenon
    <2>1. DOMAIN matched_ranges[x] = 1 .. Len(matched_ranges[x]) /\ Len(matched_ranges[x]) \in Nat
      BY <1>1, RangeFacts, Zenon
    <2>2. \A j \in 1 .. Len(matched_ranges[x]) : piece(x, j) \in Region
      BY <1>2, <2>1, Zenon
    <2> HIDE DEF piece
    <2>3. [j \in 1 .. Len(matched_ranges[x]) |-> piece(x, j)] \in Seq(Region)
      BY <2>1, <2>2, IsASeq
    <2> QED BY <2>1, <2>3, Zenon
  <1>4. DOMAIN regions = 1 .. Len(regions) /\ Len(regions) \in Nat
    BY SelectionFacts, Zenon DEF SearchInv
  <1>5. new \in Seq(Seq(Region)) /\ Len(new) = Len(regions)
    <2> DEFINE vector(x) == [j \in DOMAIN matched_ranges[x] |-> piece(x, j)]
    <2>1. \A x \in 1 .. Len(regions) : vector(x) \in Seq(Region)
      BY <1>3, <1>4, Zenon
    <2> HIDE DEF vector, piece
    <2>2. /\ [x \in 1 .. Len(regions) |-> vector(x)] \in Seq(Seq(Region))
          /\ Len([x \in 1 .. Len(regions) |-> vector(x)]) = Len(regions)
      BY <2>1, <1>4, IsASeq
    <2> QED BY <2>2, <1>4, Zenon DEF vector
  <1>6. StartMapping("collapse_matches", new)
    BY Zenon DEF CollapseToMatches
  <1> HIDE DEF new, piece
  <1>7. PiecesInRegions(new)
    <2> SUFFICES ASSUME NEW x \in DOMAIN regions
                 PROVE  /\ Separated(new[x])
                        /\ \A p \in DOMAIN new[x] :
                              /\ MinByte(regions[x]) <= MinByte(new[x][p])
                              /\ MaxByte(new[x][p]) <= MaxByte(regions[x])
      BY <1>5, Zenon DEF PiecesInRegions
    <2>1. \A j \in DOMAIN matched_ranges[x] :
              /\ matched_ranges[x][j].start \in Nat /\ matched_ranges[x][j].end \in Nat
              /\ MinByte(regions[x]) <= matched_ranges[x][j].start
              /\ matched_ranges[x][j].end <= MaxByte(regions[x]) + 1
              /\ \A l \in DOMAIN matched_ranges[x] :
                    j < l => matched_ranges[x][j].end <= matched_ranges[x][l].start
      BY <1>1, RangeFacts, Zenon DEF RangesInRegions
    <2>2. MinByte(regions[x]) \in Nat /\ MaxByte(regions[x]) \in Nat
      BY SelectionFacts, Zenon DEF SearchInv
    <2>3. ASSUME NEW p \in DOMAIN new[x], NEW q \in DOMAIN new[x], p < q
          PROVE  MaxByte(new[x][p]) < MinByte(new[x][q])
      BY <2>1, <2>3, <1>2, <1>3
    <2>4. ASSUME NEW p \in DOMAIN new[x]
          PROVE  /\ MinByte(regions[x]) <= MinByte(new[x][p])
                 /\ MaxByte(new[x][p]) <= MaxByte(regions[x])
      BY <2>1, <2>2, <1>2, <1>3
    <2> QED BY <2>3, <2>4, Zenon DEF Separated
  <1>8. acceptor = "collapse" /\ \A x \in DOMAIN regions : DOMAIN new[x] = DOMAIN matched_ranges[x]
    BY <1>3, Zenon DEF CollapseToMatches
  <1> QED BY <1>1, <1>5, <1>6, <1>7, <1>8, ToMappingInv DEF CollapseToMatches

\* The first region is still whole and nothing is made yet.
LEMMA StartCuttingInv ==
    ASSUME SearchInv, StartCutting
    PROVE  SearchInv' /\ CutInv'
  <1>1. /\ IndInv' /\ UNCHANGED <<vars, text, acceptor, pattern, base, matched_ranges>>
        /\ UNCHANGED <<regions, len, status>> /\ status = "idle"
        /\ phase' = "cutting" /\ at' = 1 /\ cut' = 1 /\ base_region' = <<regions[1]>>
        /\ made' = [x \in DOMAIN regions |-> <<>>]
        /\ RangesInRegions
    BY UnmovedInv, Zenon DEF StartCutting, SearchInv, FindingInv, vars, selection
  <1>2. /\ 1 \in DOMAIN regions /\ regions[1] \in Region
        /\ DOMAIN regions = 1 .. Len(regions) /\ Len(regions) \in Nat
        /\ MinByte(regions[1]) \in Nat
    BY SelectionFacts DEF SearchInv
  <1>3. /\ made' \in Seq(Seq(Region)) /\ Len(made') = Len(regions)
        /\ \A x \in DOMAIN regions : made'[x] = <<>> /\ DOMAIN made'[x] = {}
    <2>1. <<>> \in Seq(Region)
      BY EmptySeq, Zenon
    <2>2. [x \in 1 .. Len(regions) |-> <<>>] \in Seq(Seq(Region))
      BY <2>1, <1>2, IsASeq
    <2> QED BY <2>2, <1>1, <1>2
  <1>4. base_region' \in Seq(Region) /\ Len(base_region') = 1 /\ base_region'[1] = regions[1]
    BY <1>1, <1>2
  <1>5. SearchTypeOK'
    BY <1>1, <1>3, <1>4, Zenon DEF SearchInv, SearchTypeOK, IndInv
  <1>6. PiecesInRegions(made)'
    BY <1>1, <1>3, Zenon DEF PiecesInRegions, Separated
  <1>7. RestOfRegion'
    <2>1. \A j \in DOMAIN matched_ranges[1] : MinByte(regions[1]) <= matched_ranges[1][j].start
      BY <1>1, <1>2, Zenon DEF RangesInRegions
    <2> QED BY <2>1, <1>1, <1>2, <1>3, <1>4 DEF RestOfRegion
  <1>8. CuttingInv'
    BY <1>1, <1>3, <1>6, <1>7 DEF CuttingInv, RangesInRegions
  <1>9. SearchInv'
    BY <1>1, <1>5, <1>8, Zenon DEF SearchInv
  <1>10. PartlyCut(MinByte(base_region[1]))'
    <2>1. CutUpTo(regions[1], matched_ranges[1], <<>>, MinByte(regions[1]))
      BY <1>2, NothingCut, Zenon
    <2>2. \A j \in DOMAIN matched_ranges[1] : ~(j < 1)
      BY <1>1, <1>2, RangeFacts
    <2> QED BY <2>1, <2>2, <1>1, <1>2, <1>3, <1>4, Zenon DEF PartlyCut
  <1>11. /\ base_region' # <<>> /\ acceptor' = "split"
         /\ \A x \in DOMAIN regions : ~(x < 1)
    BY <1>1, <1>2 DEF StartCutting
  <1>12. CutInv'
    BY <1>1, <1>10, <1>11, Zenon DEF CutInv
  <1> QED BY <1>9, <1>12, Zenon

\* A range is cut out: the piece before it is behind all others, the rest is
\* behind the range.
LEMMA CutRangeInv ==
    ASSUME SearchInv, CutRange
    PROVE  SearchInv' /\ (CutInv => CutInv')
  <1> DEFINE range == matched_ranges[at][cut]
             rest == base_region[1]
             pieces == SplitAtRegion(rest, range.start, range.end - 1)
  <1>0. /\ UNCHANGED <<vars, text, phase, acceptor, pattern, at, base, matched_ranges>>
        /\ cut' = cut + 1
    BY Zenon DEF CutRange
  <1>1. /\ IndInv'
        /\ UNCHANGED <<text, phase, acceptor, pattern, at, base, matched_ranges>>
        /\ UNCHANGED <<regions, len, status>>
        /\ cut' = cut + 1
    BY <1>0, UnmovedInv, Zenon DEF SearchInv, vars, selection
  <1>a. made' = [made EXCEPT ![at] = @ \o pieces.left]
    BY Zenon DEF CutRange
  <1>b. base_region' = pieces.right
    BY Zenon DEF CutRange
  <1>2. /\ phase = "cutting" /\ status = "idle" /\ CuttingInv /\ RangesInRegions
        /\ PiecesInRegions(made) /\ RestOfRegion
        /\ at \in Nat /\ at > 0 /\ at <= Len(regions)
        /\ cut \in Nat /\ cut > 0 /\ cut <= Len(matched_ranges[at])
    BY Zenon DEF CutRange, SearchInv, CuttingInv, SearchTypeOK
  <1>3. /\ at \in DOMAIN regions /\ regions[at] \in Region
        /\ MinByte(regions[at]) \in Nat /\ MaxByte(regions[at]) \in Nat
    BY <1>2, SelectionFacts DEF SearchInv
  <1>4. /\ cut \in DOMAIN matched_ranges[at]
        /\ DOMAIN matched_ranges[at] = 1 .. Len(matched_ranges[at])
        /\ Len(matched_ranges[at]) \in Nat
        /\ range.start \in Nat /\ range.end \in Nat
        /\ range.start < range.end /\ range.end <= MaxByte(regions[at]) + 1
        /\ \A l \in DOMAIN matched_ranges[at] : cut < l => range.end <= matched_ranges[at][l].start
        /\ \A l \in DOMAIN matched_ranges[at] : matched_ranges[at][l].start \in Nat
    <2>1. /\ DOMAIN matched_ranges[at] = 1 .. Len(matched_ranges[at])
          /\ Len(matched_ranges[at]) \in Nat
          /\ \A j \in DOMAIN matched_ranges[at] :
                matched_ranges[at][j].start \in Nat /\ matched_ranges[at][j].end \in Nat
      BY <1>2, <1>3, RangeFacts, Zenon
    <2>2. cut \in DOMAIN matched_ranges[at]
      BY <2>1, <1>2, SMTT(30)
    <2> QED BY <2>1, <2>2, <1>2, <1>3, Zenon DEF RangesInRegions
  <1>5. /\ base_region \in Seq(Region) /\ rest \in Region
        /\ MinByte(regions[at]) <= MinByte(rest) /\ MaxByte(rest) = MaxByte(regions[at])
        /\ MinByte(rest) <= range.start
        /\ \A p \in DOMAIN made[at] : MaxByte(made[at][p]) < MinByte(rest)
        /\ MinByte(rest) \in Nat
    <2>1. base_region \in Seq(Region) /\ Len(base_region) = 1
      BY <1>2, Zenon DEF SearchInv, SearchTypeOK, RestOfRegion
    <2>2. rest \in Region
      <3>1. 1 \in 1 .. Len(base_region)
        BY <2>1
      <3> QED BY <2>1, <3>1, ElementOfSeq, Zenon
    <2> HIDE DEF rest
    <2> QED BY <2>1, <2>2, <1>2, <1>4, RegionEnds, SMTT(30) DEF RestOfRegion, rest
  <1> HIDE DEF range, rest
  <1>6. range.end - 1 \in Nat /\ range.start <= range.end - 1 /\ range.end - 1 <= MaxByte(rest)
    BY <1>3, <1>4, <1>5, SMTT(30)
  <1>7. /\ \/ pieces.left = <<>> /\ range.start = MinByte(rest)
           \/ \E left \in Region :
                 /\ pieces.left = <<left>>
                 /\ MinByte(left) = MinByte(rest)
                 /\ MaxByte(left) = range.start - 1
        /\ \/ pieces.right = <<>> /\ range.end - 1 = MaxByte(rest)
           \/ \E right \in Region :
                 /\ pieces.right = <<right>>
                 /\ MinByte(right) = range.end - 1 + 1
                 /\ MaxByte(right) = MaxByte(rest)
    BY <1>4, <1>5, <1>6, SplitAtRegionEnds, SMTT(30)
  <1> HIDE DEF pieces
  <1>8. made \in Seq(Seq(Region)) /\ DOMAIN made = DOMAIN regions
    BY <1>2, SelectionFacts, LenProperties, Zenon DEF SearchInv, SearchTypeOK, PiecesInRegions
  <1>9. /\ made' \in Seq(Seq(Region)) /\ PiecesInRegions(made')
        /\ \A x \in DOMAIN regions : x # at => made'[x] = made[x]
        /\ \A p \in DOMAIN made'[at] : MaxByte(made'[at][p]) < range.end
    <2>1. CASE pieces.left = <<>>
      <3>1. made[at] \in Seq(Region)
        BY <1>3, <1>8, ElementOfSeq, LenProperties, Zenon
      <3>2. made[at] \o <<>> = made[at]
        BY <3>1, ConcatEmptySeq, Zenon
      <3>3. made' = made
        BY <2>1, <3>2, <1>a, <1>8
      <3>4. \A p \in DOMAIN made[at] : MaxByte(made[at][p]) \in Nat
        BY <3>1, ElementOfSeq, LenProperties, RegionEnds, Zenon
      <3> QED BY <3>3, <3>4, <1>2, <1>4, <1>5, <1>8
    <2>2. ASSUME NEW left \in Region, pieces.left = <<left>>,
                 MinByte(left) = MinByte(rest), MaxByte(left) = range.start - 1
          PROVE  /\ made' \in Seq(Seq(Region)) /\ PiecesInRegions(made')
                 /\ \A x \in DOMAIN regions : x # at => made'[x] = made[x]
                 /\ \A p \in DOMAIN made'[at] : MaxByte(made'[at][p]) < range.end
      <3>1. made' = [made EXCEPT ![at] = @ \o <<left>>]
        BY <2>2, <1>a, Zenon
      <3>2. /\ MinByte(regions[at]) <= MinByte(left) /\ MaxByte(left) <= MaxByte(regions[at])
            /\ \A p \in DOMAIN made[at] : MaxByte(made[at][p]) < MinByte(left)
        BY <2>2, <1>3, <1>4, <1>5
      <3>3. /\ made' \in Seq(Seq(Region)) /\ PiecesInRegions(made')
            /\ \A x \in DOMAIN regions : x # at => made'[x] = made[x]
            /\ \A p \in DOMAIN made'[at] : MaxByte(made'[at][p]) <= MaxByte(left)
        BY <3>1, <3>2, <1>2, <1>3, PushPiece, Zenon
      <3>4. \A p \in DOMAIN made'[at] : MaxByte(made'[at][p]) \in Nat
        <4>1. made'[at] \in Seq(Region)
          BY <3>3, <1>3, SelectionFacts, ElementOfSeq DEF PiecesInRegions, SearchInv
        <4> QED BY <4>1, ElementOfSeq, LenProperties, RegionEnds, Zenon
      <3> QED BY <3>3, <3>4, <2>2, <1>4
    <2> QED BY <2>1, <2>2, <1>7, Zenon
  <1>10. /\ base_region' \in Seq(Region)
         /\ base_region' # <<>> => RestOfRegion'
    <2>1. CASE pieces.right = <<>>
      BY <2>1, <1>b, EmptySeq, Zenon
    <2>2. ASSUME NEW right \in Region, pieces.right = <<right>>,
                 MinByte(right) = range.end - 1 + 1, MaxByte(right) = MaxByte(rest)
          PROVE  base_region' \in Seq(Region) /\ RestOfRegion'
      <3>1. /\ base_region' \in Seq(Region) /\ Len(base_region') = 1 /\ base_region'[1] = right
        BY <2>2, <1>b
      <3>2. MinByte(right) = range.end
        BY <2>2, <1>4
      <3>3. MinByte(regions[at]) <= range.end /\ MaxByte(right) = MaxByte(regions[at])
        BY <2>2, <1>3, <1>4, <1>5, SMTT(30)
      <3>4. \A j \in DOMAIN matched_ranges[at] : j >= cut + 1 => range.end <= matched_ranges[at][j].start
        BY <1>2, <1>4, SMTT(30)
      <3> QED BY <3>1, <3>2, <3>3, <3>4, <1>1, <1>9, SMTT(30) DEF RestOfRegion
    <2> QED BY <2>1, <2>2, <1>7, Zenon
  <1>11. SearchTypeOK'
    <2>1. cut' \in Nat
      BY <1>1, <1>2
    <2> QED BY <2>1, <1>1, <1>9, <1>10, Zenon DEF SearchInv, SearchTypeOK, IndInv
  <1>12. CuttingInv'
    <2>1. RangesInRegions'
      BY <1>1, <1>2, Zenon DEF RangesInRegions
    <2>2. PiecesInRegions(made)'
      BY <1>1, <1>9, Zenon DEF PiecesInRegions
    <2>3. \A x \in DOMAIN regions : x > at => made'[x] = <<>>
      BY <1>2, <1>9 DEF CuttingInv
    <2> QED BY <2>1, <2>2, <2>3, <1>1, <1>2, <1>10, SMTT(30) DEF CuttingInv
  <1>13. SearchInv'
    BY <1>1, <1>2, <1>11, <1>12, Zenon DEF SearchInv
  <1>14. ASSUME CutInv
         PROVE  CutInv'
    <2>1. base_region # <<>>
      BY Zenon DEF CutRange
    <2>2. PartlyCut(MinByte(rest))
      BY <1>14, <2>1, <1>2, Zenon DEF CutInv, rest
    <2>3. /\ made[at] \in Seq(Region) /\ made'[at] \in Seq(Region)
          /\ matched_ranges[at] \in Seq(MatchRange)
      <3>1. /\ at \in 1 .. Len(made) /\ at \in 1 .. Len(made')
        BY <1>3, <1>8, <1>9, SelectionFacts, LenProperties DEF PiecesInRegions, SearchInv
      <3> QED BY <3>1, <1>2, <1>3, <1>8, <1>9, RangeFacts, ElementOfSeq
    <2>4. \/ MinByte(rest) = range.start /\ made'[at] = made[at]
          \/ \E left \in Region : /\ made'[at] = Append(made[at], left)
                                  /\ MinByte(left) = MinByte(rest)
                                  /\ MaxByte(left) = range.start - 1
      <3>1. made'[at] = made[at] \o pieces.left
        BY <1>a, <1>3, <1>8, Zenon
      <3>2. CASE pieces.left = <<>> /\ range.start = MinByte(rest)
        BY <3>1, <3>2, <2>3, ConcatEmptySeq
      <3>3. ASSUME NEW left \in Region, pieces.left = <<left>>,
                   MinByte(left) = MinByte(rest), MaxByte(left) = range.start - 1
            PROVE  /\ made'[at] = Append(made[at], left)
                   /\ MinByte(left) = MinByte(rest) /\ MaxByte(left) = range.start - 1
        BY <3>1, <3>3, <2>3, AppendIsConcat
      <3> QED BY <3>2, <3>3, <1>7, Zenon
    <2>5. /\ CutUpTo(regions[at], matched_ranges[at], made'[at], range.end)
          /\ \A p \in DOMAIN made'[at] : MaxByte(made'[at][p]) + 1 < range.end
          /\ \A j \in DOMAIN matched_ranges[at] :
                j < cut + 1 => matched_ranges[at][j].end <= range.end
      BY <2>2, <2>3, <2>4, <1>3, <1>4, <1>5, CutOneRange DEF PartlyCut, range
    <2>6. \A x \in DOMAIN regions : x < at => CutUp(x, made[x])'
      <3>1. \A x \in DOMAIN regions : x < at => x # at /\ made'[x] = made[x]
        BY <1>2, <1>3, <1>9, SelectionFacts DEF SearchInv
      <3> QED BY <3>1, <1>1, <1>14, Zenon DEF CutInv, CutUp
    <2>7. CASE pieces.right = <<>> /\ range.end - 1 = MaxByte(rest)
      <3>1. range.end = MaxByte(regions[at]) + 1
        BY <2>7, <1>4, <1>5
      <3>2. CutUp(at, made[at])'
        BY <3>1, <2>5, <1>1, Zenon DEF CutUp
      <3> QED BY <3>2, <2>6, <2>7, <1>1, <1>b, <1>14 DEF CutInv
    <2>8. ASSUME NEW right \in Region, pieces.right = <<right>>,
                 MinByte(right) = range.end - 1 + 1
          PROVE  CutInv'
      <3>1. base_region' # <<>> /\ MinByte(base_region'[1]) = range.end
        <4>1. base_region' = <<right>> /\ range.end - 1 + 1 = range.end
          BY <2>8, <1>b, <1>4
        <4> QED BY <4>1, <2>8, Zenon
      <3>2. PartlyCut(MinByte(base_region[1]))'
        BY <3>1, <2>5, <1>1 DEF PartlyCut
      <3> QED BY <3>1, <3>2, <2>6, <1>1, <1>14 DEF CutInv
    <2> QED BY <2>7, <2>8, <1>7, Zenon
  <1> QED BY <1>13, <1>14, Zenon

\* What is left of a region becomes its last piece; the next one is whole.
LEMMA CloseCutInv ==
    ASSUME SearchInv, CloseCut
    PROVE  SearchInv' /\ (CutInv => CutInv')
  <1>1. /\ IndInv' /\ UNCHANGED <<vars, text, phase, acceptor, pattern, base, matched_ranges>>
        /\ UNCHANGED <<regions, len, status>>
        /\ at' = at + 1 /\ cut' = 1
        /\ made' = [made EXCEPT ![at] = @ \o base_region]
        /\ base_region' = IF at < Len(regions) THEN <<regions[at + 1]>> ELSE <<>>
    BY UnmovedInv, Zenon DEF CloseCut, SearchInv, vars, selection
  <1>2. /\ phase = "cutting" /\ status = "idle" /\ CuttingInv /\ RangesInRegions
        /\ PiecesInRegions(made) /\ at \in Nat /\ at > 0 /\ at <= Len(regions)
    BY Zenon DEF CloseCut, SearchInv, CuttingInv, SearchTypeOK
  <1>3. /\ at \in DOMAIN regions /\ DOMAIN regions = 1 .. Len(regions) /\ Len(regions) \in Nat
        /\ \A x \in DOMAIN regions :
              /\ regions[x] \in Region /\ MinByte(regions[x]) \in Nat
              /\ MaxByte(regions[x]) \in Nat
    BY <1>2, SelectionFacts DEF SearchInv
  <1>4. /\ made \in Seq(Seq(Region)) /\ DOMAIN made = DOMAIN regions
        /\ base_region \in Seq(Region)
    BY <1>2, <1>3, LenProperties, Zenon DEF SearchInv, SearchTypeOK, PiecesInRegions
  <1>5. /\ made' \in Seq(Seq(Region)) /\ PiecesInRegions(made')
        /\ \A x \in DOMAIN regions : x # at => made'[x] = made[x]
    <2>1. CASE base_region = <<>>
      <3>1. made[at] \in Seq(Region)
        BY <1>3, <1>4, ElementOfSeq, LenProperties
      <3>2. made[at] \o <<>> = made[at]
        BY <3>1, ConcatEmptySeq, Zenon
      <3>3. made' = made
        BY <2>1, <3>2, <1>1, <1>4
      <3> QED BY <3>3, <1>2, <1>4, Zenon
    <2>2. CASE base_region # <<>>
      <3>1. RestOfRegion
        BY <2>2, <1>2, Zenon DEF CuttingInv
      <3>2. PICK piece \in Region : base_region = <<piece>>
        <4>1. Len(base_region) = 1 /\ 1 \in 1 .. Len(base_region)
          BY <3>1 DEF RestOfRegion
        <4>2. base_region[1] \in Region
          BY <4>1, <1>4, ElementOfSeq, Zenon
        <4>3. base_region = <<base_region[1]>>
          BY <4>1, <1>4
        <4> QED BY <4>2, <4>3, Zenon
      <3>3. base_region[1] = piece
        BY <3>2, Zenon
      <3>4. /\ MinByte(regions[at]) <= MinByte(piece) /\ MaxByte(piece) = MaxByte(regions[at])
            /\ \A p \in DOMAIN made[at] : MaxByte(made[at][p]) < MinByte(piece)
        BY <3>1, <3>3, Zenon DEF RestOfRegion
      <3>5. MaxByte(piece) <= MaxByte(regions[at])
        BY <3>4, <1>3
      <3>6. made' = [made EXCEPT ![at] = @ \o <<piece>>]
        BY <3>2, <1>1, Zenon
      <3> QED BY <3>4, <3>5, <3>6, <1>2, <1>3, PushPiece, Zenon
    <2> QED BY <2>1, <2>2, Zenon
  <1>6. \A x \in DOMAIN regions : x > at => made'[x] = <<>>
    <2>1. \A x \in DOMAIN regions : x > at => made[x] = <<>> /\ x # at
      BY <1>2, <1>3 DEF CuttingInv
    <2> QED BY <2>1, <1>5, Zenon
  <1>7. /\ base_region' \in Seq(Region)
        /\ at + 1 <= Len(regions) /\ base_region' # <<>> => RestOfRegion'
    <2>1. CASE at < Len(regions)
      <3>1. at + 1 \in DOMAIN regions /\ made'[at + 1] = <<>> /\ DOMAIN made'[at + 1] = {}
        BY <2>1, <1>2, <1>3, <1>6
      <3>2. /\ base_region' \in Seq(Region) /\ Len(base_region') = 1
            /\ base_region'[1] = regions[at + 1]
        BY <2>1, <3>1, <1>1, <1>3
      <3>3. MinByte(regions[at + 1]) <= MinByte(regions[at + 1])
        BY <3>1, <1>3
      <3>4. \A j \in DOMAIN matched_ranges[at + 1] :
                MinByte(regions[at + 1]) <= matched_ranges[at + 1][j].start
        BY <3>1, <1>2, Zenon DEF RangesInRegions
      <3> QED BY <3>1, <3>2, <3>3, <3>4, <1>1, Zenon DEF RestOfRegion
    <2>2. CASE ~(at < Len(regions))
      BY <2>2, <1>1, <1>2, <1>3, EmptySeq
    <2> QED BY <2>1, <2>2, Zenon
  <1>8. SearchTypeOK'
    <2>1. cut' \in Nat /\ at' \in Nat
      BY <1>1, <1>2
    <2> QED BY <2>1, <1>1, <1>5, <1>7, Zenon DEF SearchInv, SearchTypeOK, IndInv
  <1>9. CuttingInv'
    <2>1. RangesInRegions'
      BY <1>1, <1>2, Zenon DEF RangesInRegions
    <2>2. PiecesInRegions(made)'
      BY <1>1, <1>5, Zenon DEF PiecesInRegions
    <2>3. \A x \in DOMAIN regions : x > at + 1 => made'[x] = <<>>
      BY <1>2, <1>3, <1>6
    <2> QED BY <2>1, <2>2, <2>3, <1>1, <1>2, <1>7, SMTT(30) DEF CuttingInv
  <1>10. SearchInv'
    BY <1>1, <1>2, <1>8, <1>9, Zenon DEF SearchInv
  <1>11. ASSUME CutInv
         PROVE  CutInv'
    <2>1. /\ made[at] \in Seq(Region) /\ matched_ranges[at] \in Seq(MatchRange)
          /\ DOMAIN matched_ranges[at] = 1 .. Len(matched_ranges[at])
          /\ Len(matched_ranges[at]) \in Nat
      <3>1. at \in 1 .. Len(made)
        BY <1>3, <1>4, LenProperties, Zenon
      <3> QED BY <3>1, <1>2, <1>3, <1>4, RangeFacts, ElementOfSeq
    <2>2. made'[at] = made[at] \o base_region
      BY <1>1, <1>3, <1>4, Zenon
    <2>3. CutUp(at, made'[at])
      <3>1. CASE base_region = <<>>
        <4>1. made'[at] = made[at]
          BY <3>1, <2>1, <2>2, ConcatEmptySeq, Zenon
        <4> QED BY <4>1, <3>1, <1>2, <1>11, Zenon DEF CutInv
      <3>2. CASE base_region # <<>>
        <4>1. PartlyCut(MinByte(base_region[1])) /\ RestOfRegion
          BY <3>2, <1>2, <1>11, Zenon DEF CutInv, CuttingInv
        <4>2. PICK rest \in Region : base_region = <<rest>> /\ base_region[1] = rest
          <5>1. Len(base_region) = 1 /\ 1 \in 1 .. Len(base_region)
            BY <4>1 DEF RestOfRegion
          <5>2. base_region[1] \in Region
            BY <5>1, <1>4, ElementOfSeq, Zenon
          <5>3. base_region = <<base_region[1]>>
            BY <5>1, <1>4
          <5> QED BY <5>2, <5>3, Zenon
        <4>3. made'[at] = Append(made[at], rest)
          BY <4>2, <2>1, <2>2, AppendIsConcat, Zenon
        <4>4. \A j \in DOMAIN matched_ranges[at] : j < cut
          BY <3>2, <2>1 DEF CloseCut, SearchInv, SearchTypeOK
        <4>5. /\ CutUpTo(regions[at], matched_ranges[at], made[at], MinByte(rest))
              /\ \A p \in DOMAIN made[at] : MaxByte(made[at][p]) + 1 < MinByte(rest)
              /\ \A j \in DOMAIN matched_ranges[at] : matched_ranges[at][j].end <= MinByte(rest)
          BY <4>1, <4>2, <4>4, Zenon DEF PartlyCut
        <4>6. MinByte(regions[at]) <= MinByte(rest) /\ MaxByte(rest) = MaxByte(regions[at])
          BY <4>1, <4>2, Zenon DEF RestOfRegion
        <4>7. regions[at] \in Region
          BY <1>3, Zenon
        <4> QED BY <4>3, <4>5, <4>6, <4>7, <2>1, CutLast, Zenon DEF CutUp
      <3> QED BY <3>1, <3>2, Zenon
    <2>4. ASSUME NEW x \in DOMAIN regions, x < at + 1
          PROVE  CutUp(x, made[x])'
      <3>1. CASE x = at
        BY <3>1, <2>3, <1>1, Zenon DEF CutUp
      <3>2. CASE x # at
        <4>1. x < at /\ made'[x] = made[x]
          BY <3>2, <2>4, <1>2, <1>3, <1>5
        <4> QED BY <4>1, <1>1, <1>11, Zenon DEF CutInv, CutUp
      <3> QED BY <3>1, <3>2, Zenon
    <2>5. CASE at < Len(regions)
      <3>1. at + 1 \in DOMAIN regions /\ made'[at + 1] = <<>> /\ regions[at + 1] \in Region
        BY <2>5, <1>2, <1>3, <1>6
      <3>2. CutUpTo(regions[at + 1], matched_ranges[at + 1], <<>>, MinByte(regions[at + 1]))
        BY <3>1, NothingCut, Zenon
      <3>3. \A j \in DOMAIN matched_ranges[at + 1] : ~(j < 1)
        BY <3>1, <1>2, RangeFacts
      <3>4. base_region' # <<>> /\ base_region'[1] = regions[at + 1] /\ DOMAIN made'[at + 1] = {}
        BY <3>1, <2>5, <1>1
      <3>5. PartlyCut(MinByte(base_region[1]))'
        BY <3>1, <3>2, <3>3, <3>4, <1>1, Zenon DEF PartlyCut
      <3> QED BY <3>4, <3>5, <2>4, <1>1, <1>11, Zenon DEF CutInv
    <2>6. CASE ~(at < Len(regions))
      <3>1. ~(at' <= Len(regions'))
        BY <2>6, <1>1, <1>2, <1>3
      <3> QED BY <3>1, <2>4, <1>1, <1>11, Zenon DEF CutInv
    <2> QED BY <2>5, <2>6, Zenon
  <1> QED BY <1>10, <1>11, Zenon

\* All regions are cut up.
LEMMA SplitAtMatchesInv ==
    ASSUME SearchInv, CutInv, SplitAtMatches
    PROVE  SearchInv' /\ MappedInv'
  <1>1. made \in Seq(Seq(Region)) /\ PiecesInRegions(made) /\ RangesInRegions
    BY Zenon DEF SplitAtMatches, SearchInv, SearchTypeOK, CuttingInv
  <1>2. acceptor = "split" /\ \A x \in DOMAIN regions : CutUp(x, made[x])
    <2>1. \A x \in DOMAIN regions : x < at
      BY SelectionFacts DEF SplitAtMatches, SearchInv, SearchTypeOK
    <2> QED BY <2>1, Zenon DEF CutInv
  <1> QED BY <1>1, <1>2, ToMappingInv, Zenon DEF SplitAtMatches

\* The loop of map_selections: it panics only at the end of the main region,
\* and only when nothing has been put out by then.
LEMMA MapLoopInv ==
    ASSUME SearchInv, MappedInv, MapLoop
    PROVE  /\ SearchInv'
           /\ \/ status' = "idle" /\ phase' = "none"
              \/ phase' = phase /\ MappedInv'
  <1>1. IndInv' /\ status = "mapping" /\ UNCHANGED <<text, len>> /\ IndInv
    <2>1. IndInv'
      BY LoopingInv, Zenon DEF SearchInv, MapLoop
    <2>2. status = "mapping" /\ UNCHANGED <<text, len>>
      BY Zenon DEF MapLoop, Looping, PushRegion, CloseRegion, FinishMapping
    <2> QED BY <2>1, <2>2, Zenon DEF SearchInv
  <1>2. CASE status' = "idle"
    BY <1>1, <1>2, EndSearchInv, Zenon DEF MapLoop, EndSearch
  <1>3. CASE status' # "idle"
    <2>1. UNCHANGED search /\ phase \notin {"finding", "cutting"}
      BY <1>1, <1>3, Zenon DEF MapLoop, SearchInv
    <2>2. SearchTypeOK'
      BY <2>1, <1>1, Zenon DEF SearchInv, SearchTypeOK, IndInv, search
    <2>3. SearchInv'
      BY <2>1, <2>2, <1>1, Zenon DEF SearchInv, search
    <2>4. PushRegion \/ CloseRegion
      BY <1>3, Zenon DEF MapLoop, Looping, FinishMapping
    <2>5. UNCHANGED <<regions, main_selection, mapped, matched_ranges, acceptor, phase>>
      BY <2>1, <2>4, Zenon DEF PushRegion, CloseRegion, search, selection
    <2>6. /\ acceptor' \in {"split", "collapse"} /\ RangesInRegions' /\ PiecesInRegions(mapped)'
          /\ acceptor' = "split" => \A x \in DOMAIN regions' : CutUp(x, mapped[x])'
          /\ acceptor' = "collapse" =>
                 \A x \in DOMAIN regions' : DOMAIN mapped'[x] = DOMAIN matched_ranges'[x]
          /\ LeftUpToMain' <=> LeftUpToMain
      <3>1. RangesInRegions'
        BY <2>5, Zenon DEF MappedInv, RangesInRegions
      <3>2. PiecesInRegions(mapped)'
        BY <2>5, Zenon DEF MappedInv, PiecesInRegions
      <3>3. /\ acceptor' \in {"split", "collapse"}
            /\ acceptor' = "split" => \A x \in DOMAIN regions' : CutUp(x, mapped[x])'
            /\ acceptor' = "collapse" =>
                   \A x \in DOMAIN regions' : DOMAIN mapped'[x] = DOMAIN matched_ranges'[x]
        BY <2>5, Zenon DEF MappedInv, CutUp
      <3>4. LeftUpToMain' <=> LeftUpToMain
        BY <2>5, Zenon DEF LeftUpToMain
      <3> QED BY <3>1, <3>2, <3>3, <3>4, Zenon
    <2>7. KeepsBytes /\ KeepsDirection /\ (i > main_selection => LeftUpToMain)
      BY <1>1, Zenon DEF MappedInv
    <2>8. /\ mapped \in Seq(Seq(Region)) /\ DOMAIN mapped = 1 .. Len(mapped) /\ Len(mapped) \in Nat
          /\ main_selection \in DOMAIN regions /\ DOMAIN regions = 1 .. Len(regions)
          /\ Len(mapped) = Len(regions) /\ i \in Nat /\ k \in Nat
      <3>1. mapped \in Seq(Seq(Region)) /\ Len(mapped) = Len(regions) /\ i \in Nat /\ k \in Nat
        BY <1>1, Zenon DEF IndInv, TypeOK, MappedInv, PiecesInRegions
      <3>2. main_selection \in DOMAIN regions /\ DOMAIN regions = 1 .. Len(regions)
        BY <1>1, SelectionFacts, Zenon DEF IndInv, MainIsFlagged
      <3> QED BY <3>1, <3>2, LenProperties, Zenon
    <2>9. \A a \in DOMAIN mapped : /\ mapped[a] \in Seq(Region)
                                  /\ DOMAIN mapped[a] = 1 .. Len(mapped[a])
                                  /\ Len(mapped[a]) \in Nat
      BY <2>8, ElementOfSeq, LenProperties, Zenon
    <2>10. CASE PushRegion /\ status' # "panicked"
      <3>1. KeepsBytes' /\ KeepsDirection'
        BY <2>7, <2>10, <1>1, PushKeepsBytes, PushKeepsDirection
      <3>2. i' = i /\ status' = "mapping"
        BY <2>10, <1>1, Zenon DEF PushRegion
      <3>3. MappedInv'
        BY <3>1, <3>2, <2>5, <2>6, <2>7, Zenon DEF MappedInv
      <3> QED BY <3>3, <2>3, <2>5, Zenon
    <2>11. CASE PushRegion /\ status' = "panicked"
      <3>1. Clash(mapped)
        BY <2>7, <2>11, <1>1, PanicMeansClash, Zenon
      <3>2. PiecesInRegions(mapped)
        BY DEF MappedInv
      <3> QED BY <3>1, <3>2, <2>8, <1>1, PiecesDoNotClash
    <2>12. CASE CloseRegion /\ status' # "panicked"
      <3>1. KeepsBytes' /\ KeepsDirection'
        BY <2>7, <2>12, <1>1, CloseKeepsBytes, CloseKeepsDirection, Zenon
      <3>2. i' = i + 1 /\ status' = "mapping" /\ (i = main_selection => regions_out # <<>>)
        BY <2>12, <1>1, ClosedRegion
      <3>3. i' > main_selection' => LeftUpToMain
        <4>1. CASE i = main_selection
          <5>1. PICK a \in DOMAIN mapped : \E p \in DOMAIN mapped[a] : Seen(a, p)
            BY <4>1, <3>2, <2>7, <1>1, NothingOutNothingSeen
          <5>2. a \in 1 .. main_selection
            BY <5>1, <4>1, <2>8 DEF Seen
          <5>3. mapped[a] # <<>>
            <6>1. DOMAIN <<>> = {}
              OBVIOUS
            <6> QED BY <6>1, <5>1, Zenon
          <5> QED BY <5>2, <5>3, Zenon DEF LeftUpToMain
        <4>2. CASE i # main_selection
          BY <4>2, <3>2, <2>5, <2>7, <2>8
        <4> QED BY <4>1, <4>2, Zenon
      <3>4. MappedInv'
        BY <3>1, <3>2, <3>3, <2>5, <2>6, Zenon DEF MappedInv
      <3> QED BY <3>4, <2>3, <2>5, Zenon
    <2>13. CASE CloseRegion /\ status' = "panicked"
      <3>1. i = main_selection /\ regions_out = <<>> /\ k > Len(mapped[i])
        BY <2>13, <1>1, Zenon DEF CloseRegion
      <3>2. \A a \in DOMAIN mapped : \A p \in DOMAIN mapped[a] : ~Seen(a, p)
        BY <3>1, <2>7, <1>1, NothingOutNothingSeen
      <3>3. ASSUME NEW a \in 1 .. main_selection
            PROVE  mapped[a] = <<>>
        <4>1. a \in DOMAIN mapped /\ (a < i \/ a = i)
          BY <3>1, <2>8
        <4>2. \A p \in DOMAIN mapped[a] : Seen(a, p)
          BY <4>1, <3>1, <2>8, <2>9 DEF Seen
        <4>3. DOMAIN mapped[a] = {}
          BY <4>1, <4>2, <3>2, Zenon
        <4> QED BY <4>1, <4>3, <2>9, EmptySeq
      <3>4. ~LeftUpToMain
        BY <3>3, Zenon DEF LeftUpToMain
      <3>5. MappedInv'
        BY <3>4, <2>6, <2>13, Zenon DEF MappedInv
      <3> QED BY <3>5, <2>3, <2>5, Zenon
    <2> QED BY <2>4, <2>10, <2>11, <2>12, <2>13
  <1> QED BY <1>2, <1>3, Zenon

-----------------------------------------------------------------------------

\* Any sorted selection with a main region is a place to start from.
LEMMA SearchInitInv == SearchInit => SearchInv
  <1> SUFFICES ASSUME SearchInit
               PROVE  SearchInv
    BY Zenon
  <1>1. PICK size \in 0 .. MaxLen : text \in [1 .. size -> Byte]
    BY Zenon DEF SearchInit
  <1>2. size \in Nat /\ text \in Seq(Byte) /\ Len(text) \in Nat
    BY <1>1, SelectionAssumption, SeqDef, LenProperties
  <1>3. PICK rs \in Selections(len) :
            main_selection \in DOMAIN rs /\ regions = WithMain(rs, main_selection)
    BY Zenon DEF SearchInit
  <1>4. rs \in Seq(Region) /\ Separated(rs)
    <2>1. PICK count \in 1 .. len + 1 :
              rs \in [1 .. count -> [caret : 0 .. len, tail : 0 .. len, main : {FALSE}]]
      BY Zenon DEF Selections
    <2>0. len \in Nat /\ count \in Nat
      BY <1>2 DEF SearchInit
    <2>2. \A x \in 1 .. count : rs[x] \in Region
      <3>1. [caret : 0 .. len, tail : 0 .. len, main : {FALSE}] \subseteq Region
        <4>1. \A c \in 0 .. len : c \in Nat
          BY <2>0
        <4>2. \A b \in {FALSE} : b \in BOOLEAN
          BY Zenon
        <4> QED BY <4>1, <4>2, Zenon DEF Region
      <3> QED BY <2>1, <3>1, Zenon
    <2>3. rs = [x \in 1 .. count |-> rs[x]]
      BY <2>1, Zenon
    <2>4. [x \in 1 .. count |-> rs[x]] \in Seq(Region)
      BY <2>0, <2>2, IsASeq
    <2> QED BY <2>3, <2>4, Zenon DEF Selections
  <1>5. /\ regions \in Seq(Region) /\ Separated(regions)
        /\ main_selection \in DOMAIN regions /\ regions[main_selection].main
    BY <1>3, <1>4, WithMainSeparated, Zenon
  <1>6. main_selection \in Nat
    BY <1>5, LenProperties
  <1>7. /\ <<>> \in Seq(Region) /\ <<>> \in Seq(Seq(Region))
        /\ <<>> \in Seq(Seq(MatchRange)) /\ <<>> \in Seq(Byte \cup {Wildcard})
    BY EmptySeq, Zenon
  <1>8. TypeOK
    BY <1>2, <1>5, <1>6, <1>7, Zenon DEF SearchInit, TypeOK
  <1>9. IndInv
    BY <1>5, <1>8, Zenon DEF SearchInit, IndInv, RegionsSortedDisjoint, MainIsFlagged
  <1>10. SearchTypeOK
    BY <1>2, <1>7, <1>8, Zenon DEF SearchInit, SearchTypeOK, NoSearch
  <1> QED BY <1>9, <1>10, Zenon DEF SearchInv, SearchInit, NoSearch

\* What is known of a search stays so while nothing changes.
LEMMA SearchUnmoved ==
    ASSUME ResultInv, UNCHANGED allvars
    PROVE  ResultInv'
  <1>1. UNCHANGED <<vars, text, search>> /\ UNCHANGED <<regions, len, status>>
    BY Zenon DEF allvars, vars, selection
  <1>2. IndInv' /\ SearchInv
    BY <1>1, UnmovedInv, Zenon DEF SearchInv, ResultInv
  <1>3. SearchTypeOK'
    <2>1. UNCHANGED <<len, text, phase, acceptor, pattern, at, base, matched_ranges, cut,
                      base_region, made>>
      BY <1>1, Zenon DEF search
    <2>2. TypeOK' /\ SearchTypeOK
      BY <1>2, Zenon DEF SearchInv, IndInv
    <2> QED BY <2>1, <2>2, Zenon DEF SearchTypeOK
  <1>4. FindingInv => FindingInv'
    <2>1. \A r, from : Occurrences(r, from)' = Occurrences(r, from)
      BY <1>1, Zenon DEF Occurrences, SliceEnd, Occurs, search
    <2>2. \A x : SearchedTo(x)' = SearchedTo(x)
      BY <1>1, Zenon DEF SearchedTo, SliceEnd, search
    <2>3. MatchesAreLeftmost => MatchesAreLeftmost'
      BY <1>1, <2>1, <2>2, SMTT(30) DEF MatchesAreLeftmost, search
    <2>4. RangesInRegions => RangesInRegions'
      BY <1>1, Zenon DEF RangesInRegions, search
    <2> QED BY <1>1, <2>3, <2>4, Zenon DEF FindingInv, search
  <1>5. CuttingInv => CuttingInv'
    BY <1>1, Zenon DEF CuttingInv, RangesInRegions, PiecesInRegions, RestOfRegion, Separated, search
  <1>6. SearchInv'
    BY <1>1, <1>2, <1>3, <1>4, <1>5, Zenon DEF SearchInv, search
  <1>7. CutInv => CutInv'
    BY <1>1, Zenon DEF CutInv, CutUp, PartlyCut, search
  <1>8. MappedInv => MappedInv'
    <2>1. /\ UNCHANGED <<mapped, i, k, regions_out, main_selection, matched_ranges, acceptor>>
          /\ UNCHANGED <<regions, status>>
      BY <1>1, Zenon DEF vars, selection, loop, search
    <2>2. /\ KeepsBytes => KeepsBytes'
          /\ KeepsDirection => KeepsDirection'
      BY <2>1, Zenon DEF KeepsBytes, PutOut, SeenByte, Seen, KeepsDirection, LastOut
    <2>3. /\ RangesInRegions => RangesInRegions'
          /\ PiecesInRegions(mapped) => PiecesInRegions(mapped)'
          /\ LeftUpToMain' <=> LeftUpToMain
          /\ \A x : CutUp(x, mapped[x]) => CutUp(x, mapped[x])'
      <3>1. RangesInRegions => RangesInRegions'
        BY <2>1, Zenon DEF RangesInRegions
      <3>2. PiecesInRegions(mapped) => PiecesInRegions(mapped)'
        BY <2>1, Zenon DEF PiecesInRegions
      <3>3. LeftUpToMain' <=> LeftUpToMain
        BY <2>1, Zenon DEF LeftUpToMain
      <3>4. \A x : CutUp(x, mapped[x]) => CutUp(x, mapped[x])'
        BY <2>1, Zenon DEF CutUp
      <3> QED BY <3>1, <3>2, <3>3, <3>4, Zenon
    <2> QED BY <2>1, <2>2, <2>3, Zenon DEF MappedInv
  <1> QED BY <1>1, <1>6, <1>7, <1>8, Zenon DEF ResultInv, search

\* Every step of a search keeps its invariant.
LEMMA SearchNextInv == ResultInv /\ [SearchNext]_allvars => ResultInv'
  <1> SUFFICES ASSUME ResultInv, [SearchNext]_allvars
               PROVE  ResultInv'
    BY Zenon
  <1>0. SearchInv
    BY Zenon DEF ResultInv
  <1>1. ASSUME NEW next \in {"split", "collapse"}, NEW pieces \in Pattern,
               StartSearch(next, pieces)
        PROVE  ResultInv'
    <2>1. SearchInv'
      BY <1>0, <1>1, StartSearchInv, Zenon
    <2>2. status' = "idle"
      BY <1>1, Zenon DEF StartSearch, vars
    <2>3. phase' = "none" \/ (phase' = "finding" /\ acceptor' = next)
      BY <1>1, Zenon DEF StartSearch, search
    <2> QED BY <2>1, <2>2, <2>3, Zenon DEF ResultInv
  <1>2. CASE FindMatch \/ NextRegion
    <2>1. SearchInv'
      BY <1>0, <1>2, FindMatchInv, NextRegionInv
    <2>2. phase' = "finding" /\ phase = "finding" /\ UNCHANGED <<status, acceptor>>
      BY <1>2, Zenon DEF FindMatch, NextRegion, vars
    <2> QED BY <2>1, <2>2, Zenon DEF ResultInv
  <1>3. CASE RefuseMatches
    <2>1. SearchInv'
      BY <1>0, <1>3, RefuseMatchesInv, Zenon
    <2>2. phase' = "none" /\ phase = "finding" /\ UNCHANGED status
      BY <1>3, Zenon DEF RefuseMatches, EndSearch, vars
    <2> QED BY <2>1, <2>2, Zenon DEF ResultInv
  <1>4. CASE CollapseToMatches
    <2>1. SearchInv' /\ MappedInv'
      BY <1>0, <1>4, CollapseToMatchesInv, Zenon
    <2>2. phase' = "mapping"
      BY <1>4, Zenon DEF CollapseToMatches
    <2> QED BY <2>1, <2>2, Zenon DEF ResultInv
  <1>5. CASE StartCutting
    <2>1. SearchInv' /\ CutInv'
      BY <1>0, <1>5, StartCuttingInv, Zenon
    <2>2. phase' = "cutting" /\ phase = "finding" /\ UNCHANGED status
      BY <1>5, Zenon DEF StartCutting, vars
    <2> QED BY <2>1, <2>2 DEF ResultInv
  <1>6. CASE CutRange \/ CloseCut
    <2>1. phase' = "cutting" /\ phase = "cutting" /\ UNCHANGED status
      BY <1>6, Zenon DEF CutRange, CloseCut, vars
    <2>2. SearchInv' /\ CutInv'
      BY <2>1, <1>0, <1>6, CutRangeInv, CloseCutInv DEF ResultInv
    <2> QED BY <2>1, <2>2, Zenon DEF ResultInv
  <1>7. CASE SplitAtMatches
    <2>1. phase' = "mapping" /\ phase = "cutting"
      BY <1>7, Zenon DEF SplitAtMatches
    <2>2. SearchInv' /\ MappedInv'
      BY <2>1, <1>0, <1>7, SplitAtMatchesInv DEF ResultInv
    <2> QED BY <2>1, <2>2, Zenon DEF ResultInv
  <1>8. CASE MapLoop
    <2>1. status = "mapping"
      BY <1>8, Zenon DEF MapLoop, Looping, PushRegion, CloseRegion, FinishMapping
    <2>2. phase = "mapping" /\ MappedInv
      BY <2>1, Zenon DEF ResultInv
    <2> QED BY <2>2, <1>0, <1>8, MapLoopInv, Zenon DEF ResultInv
  <1>9. CASE SearchHalted \/ UNCHANGED allvars
    BY <1>9, SearchUnmoved, Zenon DEF SearchHalted
  <1> QED BY <1>1, <1>2, <1>3, <1>4, <1>5, <1>6, <1>7, <1>8, <1>9, Zenon
          DEF SearchNext, SearchStep

\* The inductive invariant of a search.
THEOREM SearchInductive == SearchSpec => []ResultInv
  <1>1. SearchInit => ResultInv
    BY SearchInitInv, Zenon DEF SearchInit, NoSearch, ResultInv
  <1>2. ResultInv /\ [SearchNext]_allvars => ResultInv'
    BY SearchNextInv, Zenon
  <1> QED BY <1>1, <1>2, PTL DEF SearchSpec

\* The loops of search.rs and split.rs keep their indices and ranges well
\* formed.
THEOREM SearchTypeCorrect == SearchSpec => []SearchTypeOK
  <1>1. ResultInv => SearchTypeOK
    BY Zenon DEF ResultInv, SearchInv
  <1> QED BY <1>1, SearchInductive, PTL

\* map_selections_to_matches reports the leftmost matches that do not overlap,
\* for every text, selection and pattern.
THEOREM LeftmostMatches == SearchSpec => []MatchesAreLeftmost
  <1>1. ResultInv => MatchesAreLeftmost
    BY Zenon DEF ResultInv, SearchInv, FindingInv, MatchesAreLeftmost
  <1> QED BY <1>1, SearchInductive, PTL

\* Splitting at matches and collapsing to matches keep the selection sorted
\* and disjoint (selection.rs:9-10).
THEOREM SearchKeepsSorted == SearchSpec => []RegionsSortedDisjoint
  <1>1. ResultInv => RegionsSortedDisjoint
    BY Zenon DEF ResultInv, SearchInv, IndInv
  <1> QED BY <1>1, SearchInductive, PTL

\* split.rs cuts every region into exactly the runs of bytes that no match
\* covers, for every text, selection and pattern.
THEOREM SplitLeavesRuns == SearchSpec => []SplitsIntoRuns
  <1>1. ResultInv => SplitsIntoRuns
    <2> SUFFICES ASSUME ResultInv, phase = "mapping", acceptor = "split",
                        NEW x \in DOMAIN regions
                 PROVE  {Bytes(mapped[x][p]) : p \in DOMAIN mapped[x]} =
                        Runs(Bytes(regions[x]) \ Matched) \ {{}}
      BY Zenon DEF SplitsIntoRuns
    <2>1. /\ SearchInv /\ RangesInRegions /\ PiecesInRegions(mapped)
          /\ CutUp(x, mapped[x])
      BY Zenon DEF ResultInv, MappedInv
    <2>2. mapped[x] \in Seq(Region) /\ regions[x] \in Region
      <3>1. /\ mapped \in Seq(Seq(Region)) /\ DOMAIN mapped = 1 .. Len(mapped)
            /\ x \in 1 .. Len(mapped) /\ regions[x] \in Region
        <4>1. mapped \in Seq(Seq(Region)) /\ Len(mapped) = Len(regions)
          BY <2>1, Zenon DEF SearchInv, IndInv, TypeOK, PiecesInRegions
        <4>2. regions[x] \in Region /\ x \in 1 .. Len(regions)
          BY <2>1, SelectionFacts, Zenon DEF SearchInv
        <4> QED BY <4>1, <4>2, LenProperties, Zenon
      <3> QED BY <3>1, ElementOfSeq, Zenon
    <2>3. \A p \in DOMAIN mapped[x] :
              /\ mapped[x][p] \in Region
              /\ MinByte(regions[x]) <= MinByte(mapped[x][p])
              /\ MaxByte(mapped[x][p]) <= MaxByte(regions[x])
      BY <2>1, <2>2, ElementOfSeq, LenProperties, Zenon DEF PiecesInRegions
    <2>4. \A p \in DOMAIN mapped[x] : Bytes(mapped[x][p]) \subseteq Bytes(regions[x])
      BY <2>2, <2>3, RegionEnds DEF Bytes
    <2>5. \A o \in Bytes(regions[x]) : o \in Nat /\ o < MaxByte(regions[x]) + 1
      BY <2>2, RegionBytes, RegionEnds
    <2>6. \A o \in Bytes(regions[x]) : o \in Matched <=> CoveredBy(matched_ranges[x], o)
      BY <2>1, MatchedInRegion, Zenon
    <2> DEFINE S == Bytes(regions[x]) \ Matched
    <2>7. S \in SUBSET Nat
      BY <2>5, Zenon
    <2>8. \A o \in Nat : o \in S <=> \E p \in DOMAIN mapped[x] : o \in Bytes(mapped[x][p])
      <3>1. \A o \in Bytes(regions[x]) :
                (\E p \in DOMAIN mapped[x] : o \in Bytes(mapped[x][p]))
                <=> o < MaxByte(regions[x]) + 1 /\ ~CoveredBy(matched_ranges[x], o)
        BY <2>1, Zenon DEF CutUp, CutUpTo
      <3> QED BY <3>1, <2>4, <2>5, <2>6, Zenon
    <2>9. Apart(mapped[x])
      BY <2>1, Zenon DEF CutUp, CutUpTo
    <2> HIDE DEF S
    <2>10. {Bytes(mapped[x][p]) : p \in DOMAIN mapped[x]} = Runs(S) \ {{}}
      BY <2>2, <2>7, <2>8, <2>9, PiecesAreRuns
    <2> QED BY <2>10, Zenon DEF S
  <1> QED BY <1>1, SearchInductive, PTL

\* A finished search panics in map_selections exactly when nothing is left of
\* the main region and of the regions before it, for every text, selection
\* and pattern; two of the pieces or matches never make merge panic.
THEOREM PanicsOnlyWithoutMain == SearchSpec => []PanicsWithoutMain
  <1>1. ASSUME ResultInv, status \in {"mapping", "panicked"}
        PROVE  NothingUpToMain <=> ~LeftUpToMain
    <2>1. /\ SearchInv /\ MappedInv /\ RangesInRegions /\ PiecesInRegions(mapped)
          /\ acceptor \in {"split", "collapse"}
      <3>1. phase = "mapping"
        BY <1>1, Zenon DEF ResultInv
      <3> QED BY <3>1, <1>1, Zenon DEF ResultInv, MappedInv
    <2>2. 1 .. main_selection \subseteq DOMAIN regions
      BY <2>1, SelectionFacts DEF SearchInv, IndInv, MainIsFlagged
    <2>3. DOMAIN <<>> = {}
      OBVIOUS
    <2>4. ASSUME NEW x \in 1 .. main_selection
          PROVE  mapped[x] = <<>> <=>
                     IF acceptor = "split" THEN Bytes(regions[x]) \subseteq Matched
                                           ELSE matched_ranges[x] = <<>>
      <3>1. x \in DOMAIN regions
        BY <2>2, Zenon
      <3>2. mapped[x] \in Seq(Region) /\ regions[x] \in Region
        <4>1. /\ mapped \in Seq(Seq(Region)) /\ DOMAIN mapped = 1 .. Len(mapped)
              /\ x \in 1 .. Len(mapped) /\ regions[x] \in Region
          <5>1. mapped \in Seq(Seq(Region)) /\ Len(mapped) = Len(regions)
            BY <2>1, Zenon DEF SearchInv, IndInv, TypeOK, PiecesInRegions
          <5>2. regions[x] \in Region /\ x \in 1 .. Len(regions)
            BY <2>1, <3>1, SelectionFacts, Zenon DEF SearchInv
          <5> QED BY <5>1, <5>2, LenProperties, Zenon
        <4> QED BY <4>1, ElementOfSeq, Zenon
      <3>3. mapped[x] = <<>> <=> DOMAIN mapped[x] = {}
        <4>1. DOMAIN mapped[x] = 1 .. Len(mapped[x]) /\ Len(mapped[x]) \in Nat
          BY <3>2, LenProperties, Zenon
        <4>2. mapped[x] # <<>> => Len(mapped[x]) \in Nat \ {0}
          BY <3>2, EmptySeq, Zenon
        <4>3. mapped[x] # <<>> => 1 \in DOMAIN mapped[x]
          BY <4>1, <4>2
        <4> QED BY <4>3, <2>3, Zenon
      <3>4. CASE acceptor = "split"
        <4>1. CutUp(x, mapped[x])
          BY <3>1, <3>4, <2>1, Zenon DEF MappedInv
        <4>2. \A o \in Bytes(regions[x]) :
                  (\E p \in DOMAIN mapped[x] : o \in Bytes(mapped[x][p]))
                  <=> o < MaxByte(regions[x]) + 1 /\ ~CoveredBy(matched_ranges[x], o)
          BY <4>1, Zenon DEF CutUp, CutUpTo
        <4>3. \A o \in Bytes(regions[x]) : o < MaxByte(regions[x]) + 1
          BY <3>2, RegionBytes, RegionEnds
        <4>4. \A o \in Bytes(regions[x]) : o \in Matched <=> CoveredBy(matched_ranges[x], o)
          BY <3>1, <2>1, MatchedInRegion, Zenon
        <4>5. ASSUME NEW p \in DOMAIN mapped[x]
              PROVE  \E o \in Bytes(regions[x]) : o \in Bytes(mapped[x][p])
          <5>1. /\ mapped[x][p] \in Region
                /\ MinByte(regions[x]) <= MinByte(mapped[x][p])
                /\ MaxByte(mapped[x][p]) <= MaxByte(regions[x])
            BY <3>1, <3>2, <2>1, ElementOfSeq, LenProperties DEF PiecesInRegions
          <5>2. Bytes(mapped[x][p]) \subseteq Bytes(regions[x])
            BY <5>1, <3>2, RegionEnds DEF Bytes
          <5>3. MinByte(mapped[x][p]) \in Bytes(mapped[x][p])
            BY <5>1, RegionBytes, Zenon
          <5> QED BY <5>2, <5>3, Zenon
        <4> QED BY <4>2, <4>3, <4>4, <4>5, <3>3, <3>4, Zenon
      <3>5. CASE acceptor = "collapse"
        <4>1. DOMAIN mapped[x] = DOMAIN matched_ranges[x]
          BY <3>1, <3>5, <2>1, Zenon DEF MappedInv
        <4>2. matched_ranges[x] \in Seq(MatchRange)
          BY <3>1, <2>1, RangeFacts
        <4>3. matched_ranges[x] = <<>> <=> DOMAIN matched_ranges[x] = {}
          <5>1. /\ DOMAIN matched_ranges[x] = 1 .. Len(matched_ranges[x])
                /\ Len(matched_ranges[x]) \in Nat
            BY <4>2, LenProperties, Zenon
          <5>2. matched_ranges[x] # <<>> => Len(matched_ranges[x]) \in Nat \ {0}
            BY <4>2, EmptySeq, Zenon
          <5>3. matched_ranges[x] # <<>> => 1 \in DOMAIN matched_ranges[x]
            BY <5>1, <5>2
          <5> QED BY <5>3, <2>3, Zenon
        <4> QED BY <4>1, <4>3, <3>3, <3>5, Zenon
      <3> QED BY <3>4, <3>5, <2>1, Zenon
    <2> QED BY <2>4, Zenon DEF NothingUpToMain, LeftUpToMain
  <1>2. ResultInv => PanicsWithoutMain
    <2> SUFFICES ASSUME ResultInv
                 PROVE  PanicsWithoutMain
      BY Zenon
    <2>1. status \in {"mapping", "panicked"} => MappedInv
      BY Zenon DEF ResultInv
    <2> QED BY <2>1, <1>1, Zenon DEF PanicsWithoutMain, MappedInv
  <1> QED BY <1>2, SearchInductive, PTL

=============================================================================
