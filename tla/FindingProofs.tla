---------------------------- MODULE FindingProofs ---------------------------
(***************************************************************************)
(* The first half of the proofs about pattern searches: the loop of        *)
(* map_selections_to_matches keeps the search's inductive invariant, which *)
(* says that the matches found so far are the leftmost ones; what cutting  *)
(* ranges out of a region leaves; and the invariant for the second half.   *)
(***************************************************************************)
EXTENDS Patterns, SelectionProofs

-----------------------------------------------------------------------------
(* Facts used in every step.                                               *)

\* There is a first region, and regions have ends.
LEMMA SelectionFacts ==
    ASSUME IndInv
    PROVE  /\ regions \in Seq(Region)
           /\ DOMAIN regions = 1 .. Len(regions)
           /\ Len(regions) \in Nat /\ Len(regions) >= 1
           /\ \A x \in DOMAIN regions :
                 /\ regions[x] \in Region
                 /\ MinByte(regions[x]) \in Nat
                 /\ MaxByte(regions[x]) \in Nat
                 /\ MinByte(regions[x]) <= MaxByte(regions[x])
  <1>1. /\ regions \in Seq(Region) /\ main_selection \in DOMAIN regions
        /\ DOMAIN regions = 1 .. Len(regions) /\ Len(regions) \in Nat
    BY LenProperties, Zenon DEF IndInv, TypeOK, MainIsFlagged
  <1>2. \A x \in DOMAIN regions : regions[x] \in Region
    BY <1>1, ElementOfSeq, Zenon
  <1>3. \A x \in DOMAIN regions :
            /\ MinByte(regions[x]) \in Nat
            /\ MaxByte(regions[x]) \in Nat
            /\ MinByte(regions[x]) <= MaxByte(regions[x])
    BY <1>2, RegionEnds, Zenon
  <1> QED BY <1>1, <1>2, <1>3

\* Ranges found so far, typed.
LEMMA RangeFacts ==
    ASSUME SearchInv, RangesInRegions, NEW x \in DOMAIN regions
    PROVE  /\ x \in DOMAIN matched_ranges
           /\ matched_ranges[x] \in Seq(MatchRange)
           /\ DOMAIN matched_ranges[x] = 1 .. Len(matched_ranges[x])
           /\ Len(matched_ranges[x]) \in Nat
           /\ \A j \in DOMAIN matched_ranges[x] :
                 /\ matched_ranges[x][j] \in MatchRange
                 /\ matched_ranges[x][j].start \in Nat
                 /\ matched_ranges[x][j].end \in Nat
  <1>1. /\ matched_ranges \in Seq(Seq(MatchRange)) /\ Len(matched_ranges) = Len(regions)
        /\ DOMAIN regions = 1 .. Len(regions)
    BY SelectionFacts, Zenon DEF SearchInv, SearchTypeOK, RangesInRegions
  <1>2. x \in DOMAIN matched_ranges /\ matched_ranges[x] \in Seq(MatchRange)
    BY <1>1, ElementOfSeq, LenProperties, Zenon
  <1>3. /\ DOMAIN matched_ranges[x] = 1 .. Len(matched_ranges[x])
        /\ Len(matched_ranges[x]) \in Nat
        /\ \A j \in DOMAIN matched_ranges[x] : matched_ranges[x][j] \in MatchRange
    BY <1>2, ElementOfSeq, LenProperties, Zenon
  <1> QED BY <1>2, <1>3, Zenon DEF MatchRange

\* No search is going on after EndSearch.
LEMMA EndSearchInv ==
    ASSUME SearchInv, EndSearch, IndInv', UNCHANGED <<text, len>>
    PROVE  SearchInv'
  <1>1. /\ <<>> \in Seq(Region) /\ <<>> \in Seq(Seq(Region))
        /\ <<>> \in Seq(Seq(MatchRange)) /\ <<>> \in Seq(Byte \cup {Wildcard})
    BY EmptySeq, Zenon
  <1>2. SearchTypeOK'
    BY <1>1, Zenon DEF EndSearch, SearchInv, SearchTypeOK, IndInv
  <1> QED BY <1>2, Zenon DEF EndSearch, SearchInv

-----------------------------------------------------------------------------
(* Finding the matches.                                                    *)

\* The search begins at the start of the first region.
LEMMA StartSearchInv ==
    ASSUME SearchInv, NEW next \in {"split", "collapse"}, NEW pieces \in Pattern,
           StartSearch(next, pieces)
    PROVE  SearchInv'
  <1>1. IndInv' /\ UNCHANGED <<vars, text>>
    BY UnmovedInv, Zenon DEF StartSearch, SearchInv
  <1>2. CASE pieces = <<>>
    <2>1. UNCHANGED <<vars, text, search>>
      BY <1>1, <1>2, Zenon DEF StartSearch
    <2>2. phase = "none"
      BY Zenon DEF StartSearch
    <2> QED BY <2>1, <2>2, <1>1, Zenon DEF SearchInv, SearchTypeOK, search, vars, IndInv
  <1>3. CASE pieces # <<>>
    <2>1. /\ phase' = "finding" /\ acceptor' = next /\ pattern' = pieces /\ at' = 1
          /\ base' = MinByte(regions[1]) /\ matched_ranges' = [x \in DOMAIN regions |-> <<>>]
          /\ UNCHANGED <<cut, base_region, made>> /\ status = "idle"
      BY <1>3, Zenon DEF StartSearch
    <2>2. pieces \in Seq(Byte \cup {Wildcard}) /\ Len(pieces) \in Nat /\ Len(pieces) > 0
      <3>1. PICK size \in 0 .. MaxPattern : pieces \in [1 .. size -> Byte \cup {Wildcard}]
        BY Zenon DEF Pattern
      <3>2. size \in Nat
        BY <3>1, PatternsAssumption
      <3>3. pieces \in Seq(Byte \cup {Wildcard})
        BY <3>1, <3>2, SeqDef
      <3> QED BY <3>3, <1>3, EmptySeq, LenProperties
    <2>3. /\ matched_ranges' \in Seq(Seq(MatchRange)) /\ Len(matched_ranges') = Len(regions)
          /\ \A x \in DOMAIN regions : matched_ranges'[x] = <<>> /\ DOMAIN matched_ranges'[x] = {}
      <3>1. <<>> \in Seq(MatchRange)
        BY EmptySeq, Zenon
      <3>2. DOMAIN regions = 1 .. Len(regions) /\ Len(regions) \in Nat
        BY SelectionFacts, Zenon DEF SearchInv
      <3>3. [x \in 1 .. Len(regions) |-> <<>>] \in Seq(Seq(MatchRange))
        BY <3>1, <3>2, IsASeq
      <3> QED BY <3>2, <3>3, <2>1
    <2>4. MinByte(regions[1]) \in Nat /\ 1 \in DOMAIN regions /\ UNCHANGED regions
      BY <1>1, SelectionFacts DEF SearchInv, vars, selection
    <2>5. SearchTypeOK'
      BY <2>1, <2>2, <2>3, <2>4, <1>1, Zenon DEF SearchInv, SearchTypeOK, IndInv, vars
    <2>6. RangesInRegions'
      BY <2>3, <2>4, Zenon DEF RangesInRegions
    <2>7. MatchesAreLeftmost'
      <3> SUFFICES ASSUME NEW x \in DOMAIN regions, x <= 1,
                          NEW start \in Occurrences(regions[x], MinByte(regions[x]))',
                          start < SearchedTo(x)'
                   PROVE  FALSE
        BY <2>1, <2>3, <2>4, Zenon DEF MatchesAreLeftmost
      <3>1. x = 1 /\ MinByte(regions[1]) <= start /\ start \in Int
        BY <2>4, SelectionFacts DEF Occurrences, SearchInv
      <3>2. start < MinByte(regions[1])
        BY <3>1, <2>1 DEF SearchedTo
      <3> QED BY <3>1, <3>2, <2>4
    <2>8. FindingInv'
      BY <2>1, <2>2, <2>3, <2>4, <2>6, <2>7 DEF FindingInv
    <2> QED BY <2>1, <2>5, <2>8, <1>1, Zenon DEF SearchInv, vars
  <1> QED BY <1>2, <1>3, Zenon

\* The leftmost occurrence from base on is reported: an occurrence that begins
\* before its end either was covered before or begins inside it.
LEMMA FindMatchInv == SearchInv /\ FindMatch => SearchInv'
  <1> SUFFICES ASSUME SearchInv, FindMatch
               PROVE  SearchInv'
    BY Zenon
  <1>1. /\ IndInv' /\ UNCHANGED <<vars, text, phase, acceptor, pattern, at, cut, base_region, made>>
        /\ UNCHANGED <<regions, len>>
    BY UnmovedInv, Zenon DEF FindMatch, SearchInv, vars, selection
  <1>2. /\ phase = "finding" /\ FindingInv /\ RangesInRegions /\ MatchesAreLeftmost
        /\ at \in Nat /\ at > 0 /\ at <= Len(regions) /\ base \in Nat
        /\ Len(pattern) \in Nat /\ Len(pattern) > 0
        /\ len \in Nat
    BY LenProperties, Zenon DEF FindMatch, SearchInv, FindingInv, SearchTypeOK, TypeOK
  <1>3. at \in DOMAIN regions /\ regions[at] \in Region /\ MaxByte(regions[at]) \in Nat
        /\ MinByte(regions[at]) \in Nat
    BY <1>2, SelectionFacts DEF SearchInv
  <1> DEFINE found == matched_ranges[at]
  <1>4. PICK start \in Occurrences(regions[at], base) :
            /\ \A other \in Occurrences(regions[at], base) : start <= other
            /\ matched_ranges' = [matched_ranges EXCEPT ![at] =
                   Append(@, [start |-> start, end |-> start + Len(pattern)])]
            /\ base' = start + Len(pattern)
    BY Zenon DEF FindMatch
  <1> DEFINE range == [start |-> start, end |-> start + Len(pattern)]
  <1>5. /\ start \in Nat /\ base <= start /\ start + Len(pattern) <= MaxByte(regions[at]) + 1
        /\ Occurs(start) /\ start <= SliceEnd(regions[at]) - Len(pattern)
        /\ SliceEnd(regions[at]) \in Nat
    BY <1>2, <1>3 DEF Occurrences, SliceEnd, Smaller
  <1>6. range \in MatchRange
    BY <1>2, <1>5 DEF MatchRange
  <1>7. /\ found \in Seq(MatchRange) /\ Len(found) \in Nat /\ DOMAIN found = 1 .. Len(found)
        /\ \A j \in DOMAIN found : found[j].start \in Nat /\ found[j].end \in Nat
        /\ at \in DOMAIN matched_ranges
        /\ matched_ranges \in Seq(Seq(MatchRange)) /\ Len(matched_ranges) = Len(regions)
        /\ DOMAIN matched_ranges = DOMAIN regions
    BY <1>2, <1>3, RangeFacts, SelectionFacts, LenProperties, Zenon
       DEF SearchInv, SearchTypeOK, RangesInRegions
  <1>8. /\ Append(found, range) \in Seq(MatchRange)
        /\ DOMAIN Append(found, range) = 1 .. Len(found) + 1
        /\ \A j \in 1 .. Len(found) : Append(found, range)[j] = found[j]
        /\ Append(found, range)[Len(found) + 1] = range
    <2> HIDE DEF found, range
    <2> QED BY <1>6, <1>7, AppendProperties, LenProperties
  <1>9. /\ matched_ranges' \in Seq(Seq(MatchRange)) /\ Len(matched_ranges') = Len(regions)
        /\ \A x \in DOMAIN regions : x # at => matched_ranges'[x] = matched_ranges[x]
        /\ matched_ranges'[at] = Append(found, range)
    BY <1>4, <1>7, <1>8, ExceptSeq
  <1>10. range.start = start /\ range.end = start + Len(pattern)
    BY Zenon
  <1>a. /\ DOMAIN matched_ranges'[at] = 1 .. Len(found) + 1
        /\ \A j \in 1 .. Len(found) : matched_ranges'[at][j] = found[j]
        /\ matched_ranges'[at][Len(found) + 1] = range
    BY <1>8, <1>9, Zenon
  <1> HIDE DEF range
  <1>11. SearchTypeOK'
    BY <1>1, <1>2, <1>4, <1>5, <1>9 DEF SearchInv, SearchTypeOK, IndInv
  <1>12. \A j \in DOMAIN found : found[j].end <= base /\ found[j].end \in Nat
    BY <1>2, <1>7, Zenon DEF FindingInv
  <1>13. RangesInRegions'
    <2> SUFFICES ASSUME NEW x \in DOMAIN regions, NEW j \in DOMAIN matched_ranges'[x]
                 PROVE  /\ MinByte(regions[x]) <= matched_ranges'[x][j].start
                        /\ matched_ranges'[x][j].start < matched_ranges'[x][j].end
                        /\ matched_ranges'[x][j].end <= MaxByte(regions[x]) + 1
                        /\ \A l \in DOMAIN matched_ranges'[x] :
                              j < l => matched_ranges'[x][j].end <= matched_ranges'[x][l].start
      BY <1>1, <1>9, Zenon DEF RangesInRegions
    <2>1. CASE x # at
      BY <2>1, <1>2, <1>9, Zenon DEF RangesInRegions
    <2>2. CASE x = at /\ j \in DOMAIN found
      <3>1. matched_ranges'[x][j] = found[j]
        BY <2>2, <1>7, <1>8, <1>9, Zenon
      <3>2. ASSUME NEW l \in DOMAIN matched_ranges'[x], j < l
            PROVE  found[j].end <= matched_ranges'[x][l].start
        <4>1. CASE l \in DOMAIN found
          BY <4>1, <3>2, <2>2, <1>2, <1>7, <1>8, <1>9, Zenon DEF RangesInRegions
        <4>2. CASE l = Len(found) + 1
          <5>1. matched_ranges'[x][l].start = start
            BY <4>2, <2>2, <1>a, <1>10, Zenon
          <5>2. found[j].end <= base /\ found[j].end \in Nat
            BY <2>2, <1>12, Zenon
          <5> QED BY <5>1, <5>2, <1>2, <1>5, SMTT(30)
        <4> QED BY <4>1, <4>2, <1>7, <1>8, <1>9, <2>2, SMTT(30)
      <3> QED BY <3>1, <3>2, <2>2, <1>2, Zenon DEF RangesInRegions
    <2>3. CASE x = at /\ j = Len(found) + 1
      <3>1. matched_ranges'[x][j] = range /\ DOMAIN matched_ranges'[x] = 1 .. Len(found) + 1
        BY <2>3, <1>8, <1>9, Zenon
      <3>2. MinByte(regions[at]) <= start
        BY <1>2, <1>3, <1>5, SMTT(30) DEF FindingInv
      <3> QED BY <3>1, <3>2, <2>3, <1>2, <1>3, <1>5, <1>7, <1>10, SMTT(30)
    <2> QED BY <2>1, <2>2, <2>3, <1>7, <1>8, <1>9, SMTT(30)
  <1>14. MatchesAreLeftmost'
    <2>0. \A r, from : Occurrences(r, from)' = Occurrences(r, from)
      BY <1>1, Zenon DEF Occurrences, SliceEnd, Occurs
    <2> SUFFICES ASSUME NEW x \in DOMAIN regions
                 PROVE  /\ x > at => matched_ranges'[x] = <<>>
                        /\ \A j \in DOMAIN matched_ranges'[x] :
                              /\ matched_ranges'[x][j].start \in Occurrences(regions[x], MinByte(regions[x]))
                              /\ matched_ranges'[x][j].end = matched_ranges'[x][j].start + Len(pattern)
                              /\ j > 1 => matched_ranges'[x][j - 1].end <= matched_ranges'[x][j].start
                        /\ x <= at =>
                              \A s \in Occurrences(regions[x], MinByte(regions[x])) :
                                 s < SearchedTo(x)' =>
                                   \E j \in DOMAIN matched_ranges'[x] :
                                     s \in matched_ranges'[x][j].start .. matched_ranges'[x][j].end - 1
      BY <1>1, <2>0, Zenon DEF MatchesAreLeftmost
    <2>1. CASE x # at
      <3>1. x <= at => SearchedTo(x)' = SearchedTo(x)
        BY <2>1, <1>1, <1>2, SelectionFacts DEF SearchedTo, SliceEnd, SearchInv
      <3>2. matched_ranges'[x] = matched_ranges[x]
        BY <2>1, <1>9, Zenon
      <3> QED BY <3>1, <3>2, <1>2 DEF MatchesAreLeftmost
    <2>2. CASE x = at
      <3>1. SearchedTo(x)' = start + Len(pattern) /\ SearchedTo(x) = base
        BY <2>2, <1>1, <1>2, <1>4 DEF SearchedTo
      <3>2. start \in Occurrences(regions[at], MinByte(regions[at]))
        BY <1>2, <1>3, <1>5 DEF FindingInv, Occurrences
      <3>3. ASSUME NEW j \in DOMAIN matched_ranges'[at]
            PROVE  /\ matched_ranges'[at][j].start \in Occurrences(regions[at], MinByte(regions[at]))
                   /\ matched_ranges'[at][j].end = matched_ranges'[at][j].start + Len(pattern)
                   /\ j > 1 => matched_ranges'[at][j - 1].end <= matched_ranges'[at][j].start
        <4>1. CASE j \in DOMAIN found
          <5>1. matched_ranges'[at][j] = found[j]
            BY <4>1, <1>7, <1>8, <1>9, Zenon
          <5>2. j > 1 => matched_ranges'[at][j - 1] = found[j - 1]
            BY <4>1, <1>7, <1>8, <1>9, SMTT(30)
          <5> QED BY <5>1, <5>2, <4>1, <1>2, <1>3, Zenon DEF MatchesAreLeftmost
        <4>2. CASE j = Len(found) + 1
          <5>1. matched_ranges'[at][j] = range
            BY <4>2, <1>a, Zenon
          <5>2. j > 1 => j - 1 = Len(found) /\ Len(found) \in DOMAIN found
            BY <4>2, <1>7
          <5>3. j > 1 => matched_ranges'[at][j - 1] = found[Len(found)]
            BY <5>2, <1>7, <1>a, Zenon
          <5>4. j > 1 => found[Len(found)].end <= start
            BY <5>2, <1>2, <1>5, <1>12, SMTT(30)
          <5>5. /\ matched_ranges'[at][j].start = start
                /\ matched_ranges'[at][j].end = start + Len(pattern)
            BY <5>1, <1>10, Zenon
          <5>6. j > 1 => matched_ranges'[at][j - 1].end <= start
            BY <5>3, <5>4, Zenon
          <5> QED BY <5>5, <5>6, <3>2, Zenon
        <4>3. j \in DOMAIN found \/ j = Len(found) + 1
          BY <1>7, <1>a
        <4> QED BY <4>1, <4>2, <4>3, Zenon
      <3>4. ASSUME NEW s \in Occurrences(regions[at], MinByte(regions[at])), s < start + Len(pattern)
            PROVE  \E j \in DOMAIN matched_ranges'[at] :
                     s \in matched_ranges'[at][j].start .. matched_ranges'[at][j].end - 1
        <4>0. s \in Int
          BY <1>2, <1>3, <1>5, SMTT(30) DEF Occurrences
        <4>1. CASE s < base
          <5>1. PICK j \in DOMAIN found : s \in found[j].start .. found[j].end - 1
            BY <4>1, <3>1, <2>2, <1>2, <1>3, SMTT(30) DEF MatchesAreLeftmost
          <5>2. matched_ranges'[at][j] = found[j] /\ j \in DOMAIN matched_ranges'[at]
            BY <1>7, <1>8, <1>9
          <5> QED BY <5>1, <5>2, Zenon
        <4>2. CASE s >= base
          <5>1. s \in Occurrences(regions[at], base)
            BY <4>0, <4>2, <1>2, <1>3, <1>5, <3>4 DEF Occurrences
          <5>2. start <= s
            BY <5>1, <1>4, Zenon
          <5>3. /\ matched_ranges'[at][Len(found) + 1] = range
                /\ Len(found) + 1 \in DOMAIN matched_ranges'[at]
            BY <1>7, <1>8, <1>9
          <5> QED BY <5>2, <5>3, <4>0, <3>4, <1>2, <1>5, <1>10, SMTT(30)
        <4> QED BY <4>0, <4>1, <4>2, <1>2
      <3> QED BY <2>2, <3>1, <3>3, <3>4, <1>2
    <2> QED BY <2>1, <2>2, Zenon
  <1>15. FindingInv'
    <2>1. MinByte(regions[at]) <= base'
      BY <1>2, <1>3, <1>4, <1>5, SMTT(30) DEF FindingInv
    <2>2. \A j \in DOMAIN matched_ranges'[at] : matched_ranges'[at][j].end <= base'
      BY <1>2, <1>4, <1>5, <1>7, <1>8, <1>9, <1>10, <1>12, SMTT(30)
    <2> QED BY <1>1, <1>2, <1>13, <1>14, <2>1, <2>2, Zenon DEF FindingInv
  <1> QED BY <1>1, <1>2, <1>11, <1>15, Zenon DEF SearchInv, vars

\* A region without an occurrence from base on has been searched to its end.
LEMMA NextRegionInv == SearchInv /\ NextRegion => SearchInv'
  <1> SUFFICES ASSUME SearchInv, NextRegion
               PROVE  SearchInv'
    BY Zenon
  <1>1. /\ IndInv' /\ UNCHANGED <<vars, text, phase, acceptor, pattern, matched_ranges, cut,
                                  base_region, made>>
        /\ UNCHANGED <<regions, len>>
        /\ at' = at + 1
        /\ base' = IF at < Len(regions) THEN MinByte(regions[at + 1]) ELSE 0
    BY UnmovedInv, Zenon DEF NextRegion, SearchInv, vars, selection
  <1>2. /\ phase = "finding" /\ FindingInv /\ RangesInRegions /\ MatchesAreLeftmost
        /\ at \in Nat /\ at > 0 /\ at <= Len(regions) /\ base \in Nat
        /\ Len(pattern) \in Nat /\ Len(pattern) > 0 /\ len \in Nat
    BY LenProperties, Zenon DEF NextRegion, SearchInv, FindingInv, SearchTypeOK, TypeOK
  <1>3. /\ at \in DOMAIN regions /\ MaxByte(regions[at]) \in Nat
        /\ Len(regions) \in Nat /\ DOMAIN regions = 1 .. Len(regions)
        /\ at < Len(regions) => MinByte(regions[at + 1]) \in Nat /\ at + 1 \in DOMAIN regions
    <2>1. /\ Len(regions) \in Nat /\ DOMAIN regions = 1 .. Len(regions)
          /\ \A x \in DOMAIN regions : MinByte(regions[x]) \in Nat /\ MaxByte(regions[x]) \in Nat
      BY SelectionFacts, Zenon DEF SearchInv
    <2>2. at \in DOMAIN regions /\ (at < Len(regions) => at + 1 \in DOMAIN regions)
      BY <2>1, <1>2
    <2> QED BY <2>1, <2>2, Zenon
  <1>4. SearchTypeOK'
    BY <1>1, <1>2, <1>3 DEF SearchInv, SearchTypeOK, IndInv
  <1>5. RangesInRegions'
    BY <1>1, <1>2, Zenon DEF RangesInRegions
  <1>6. at < Len(regions) => matched_ranges[at + 1] = <<>>
    BY <1>2, <1>3, SMTT(30) DEF MatchesAreLeftmost
  <1>7. MatchesAreLeftmost'
    <2>0. \A r, from : Occurrences(r, from)' = Occurrences(r, from)
      BY <1>1, Zenon DEF Occurrences, SliceEnd, Occurs
    <2> SUFFICES ASSUME NEW x \in DOMAIN regions, x <= at + 1,
                        NEW s \in Occurrences(regions[x], MinByte(regions[x])),
                        s < SearchedTo(x)'
                 PROVE  \E j \in DOMAIN matched_ranges[x] :
                            s \in matched_ranges[x][j].start .. matched_ranges[x][j].end - 1
      <3>1. \A x \in DOMAIN regions : x > at + 1 => matched_ranges[x] = <<>>
        BY <1>2, <1>3, SMTT(30) DEF MatchesAreLeftmost
      <3>2. \A x \in DOMAIN regions : \A j \in DOMAIN matched_ranges[x] :
                /\ matched_ranges[x][j].start \in Occurrences(regions[x], MinByte(regions[x]))
                /\ matched_ranges[x][j].end = matched_ranges[x][j].start + Len(pattern)
                /\ j > 1 => matched_ranges[x][j - 1].end <= matched_ranges[x][j].start
        BY <1>2, Zenon DEF MatchesAreLeftmost
      <3> QED BY <1>1, <2>0, <3>1, <3>2, Zenon DEF MatchesAreLeftmost
    <2>1. CASE x < at
      <3>1. SearchedTo(x)' = SearchedTo(x)
        BY <2>1, <1>1, <1>2, <1>3, SMTT(30) DEF SearchedTo, SliceEnd
      <3> QED BY <3>1, <2>1, <1>2 DEF MatchesAreLeftmost
    <2>2. CASE x = at
      <3>0. s \in Int /\ s <= SliceEnd(regions[at]) - Len(pattern)
        BY <2>2, <1>2, <1>3, SelectionFacts DEF Occurrences, SliceEnd, Smaller, SearchInv
      <3>1. s < base
        <4> SUFFICES ASSUME s >= base PROVE FALSE
          BY <3>0, <1>2
        <4>1. s \in Occurrences(regions[at], base)
          BY <2>2, <3>0, <1>2, <1>3 DEF Occurrences, SliceEnd, Smaller
        <4> QED BY <4>1, Zenon DEF NextRegion
      <3>2. SearchedTo(x) = base
        BY <2>2, <1>2 DEF SearchedTo
      <3> QED BY <3>1, <3>2, <2>2, <1>2 DEF MatchesAreLeftmost
    <2>3. CASE x = at + 1
      <3>1. at < Len(regions) /\ base' = MinByte(regions[x])
        BY <2>3, <1>1, <1>3
      <3>2. SearchedTo(x)' = MinByte(regions[x])
        BY <2>3, <3>1, <1>1, <1>2 DEF SearchedTo
      <3>3. s >= MinByte(regions[x]) /\ s \in Int /\ MinByte(regions[x]) \in Nat
        BY <2>3, <3>1, <1>2, <1>3, SelectionFacts DEF Occurrences, SearchInv
      <3> QED BY <3>2, <3>3
    <2> QED BY <2>1, <2>2, <2>3, <1>2, <1>3
  <1>8. FindingInv'
    <2>1. at' <= Len(regions) => DOMAIN matched_ranges'[at'] = {} /\ MinByte(regions[at']) <= base'
      BY <1>1, <1>2, <1>3, <1>6
    <2> QED BY <2>1, <1>1, <1>2, <1>5, <1>7 DEF FindingInv
  <1> QED BY <1>1, <1>2, <1>4, <1>8, Zenon DEF SearchInv, vars

\* Nothing to split at, or nothing to collapse to.
LEMMA RefuseMatchesInv == SearchInv /\ RefuseMatches => SearchInv'
  <1> SUFFICES ASSUME SearchInv, RefuseMatches
               PROVE  SearchInv'
    BY Zenon
  <1>1. IndInv' /\ EndSearch /\ UNCHANGED <<text, len>>
    BY UnmovedInv, Zenon DEF RefuseMatches, SearchInv, vars
  <1> QED BY <1>1, EndSearchInv, Zenon

-----------------------------------------------------------------------------
(* Pieces of regions.                                                      *)

\* New regions that lie in their old ones, in order, are in order.
LEMMA PiecesOrdered ==
    ASSUME IndInv, NEW new \in Seq(Seq(Region)), PiecesInRegions(new)
    PROVE  Ordered(new)
  <1>1. /\ regions \in Seq(Region) /\ Separated(regions) /\ Len(new) = Len(regions)
        /\ DOMAIN regions = 1 .. Len(regions) /\ DOMAIN new = 1 .. Len(regions)
    BY LenProperties, Zenon DEF IndInv, TypeOK, RegionsSortedDisjoint, PiecesInRegions
  <1> SUFFICES ASSUME NEW a \in DOMAIN regions, NEW b \in DOMAIN regions,
                      NEW p \in DOMAIN new[a], NEW q \in DOMAIN new[b],
                      Before(a, p, b, q)
               PROVE  MinByte(new[a][p]) <= MinByte(new[b][q])
    BY <1>1, Zenon DEF Ordered
  <1>2. new[a] \in Seq(Region) /\ new[b] \in Seq(Region)
    BY <1>1, ElementOfSeq, Zenon
  <1>3. /\ new[a][p] \in Region /\ new[b][q] \in Region
        /\ regions[a] \in Region /\ regions[b] \in Region
        /\ DOMAIN new[a] = 1 .. Len(new[a]) /\ Len(new[a]) \in Nat
    BY <1>1, <1>2, ElementOfSeq, LenProperties, Zenon
  <1>4. /\ MinByte(new[a][p]) \in Nat /\ MinByte(new[b][q]) \in Nat
        /\ MaxByte(new[a][p]) \in Nat /\ MinByte(new[a][p]) <= MaxByte(new[a][p])
        /\ MaxByte(regions[a]) \in Nat /\ MinByte(regions[b]) \in Nat
    BY <1>3, RegionEnds, Zenon
  <1>5. CASE a = b /\ p <= q
    <2>1. p = q \/ MaxByte(new[a][p]) < MinByte(new[a][q])
      BY <1>5, <1>3 DEF PiecesInRegions, Separated
    <2> QED BY <2>1, <1>4, <1>5
  <1>6. CASE a < b
    <2>1. MaxByte(regions[a]) < MinByte(regions[b])
      BY <1>6, <1>1, Zenon DEF Separated
    <2>2. /\ MaxByte(new[a][p]) <= MaxByte(regions[a])
          /\ MinByte(regions[b]) <= MinByte(new[b][q])
      BY Zenon DEF PiecesInRegions
    <2> QED BY <2>1, <2>2, <1>4
  <1> QED BY <1>5, <1>6, Zenon DEF Before

\* inherit_direction keeps the bytes.
LEMMA InheritEnds ==
    ASSUME NEW r \in Region, NEW parent \in Region
    PROVE  /\ InheritDirection(r, parent) \in Region
           /\ MinByte(InheritDirection(r, parent)) = MinByte(r)
           /\ MaxByte(InheritDirection(r, parent)) = MaxByte(r)
  BY RegionEnds, Zenon DEF InheritDirection, ToForward, ToBackward, SelRegion, Region,
                    MinByte, MaxByte, Smaller, Larger

\* split_at_region, for a range inside the region: the piece before it and
\* the piece behind it.
LEMMA SplitAtRegionEnds ==
    ASSUME NEW r \in Region, NEW start \in Nat, NEW end \in Nat,
           MinByte(r) <= start, start <= end, end <= MaxByte(r)
    PROVE  LET pieces == SplitAtRegion(r, start, end)
           IN  /\ \/ pieces.left = <<>> /\ start = MinByte(r)
                  \/ \E left \in Region :
                        /\ pieces.left = <<left>>
                        /\ MinByte(left) = MinByte(r)
                        /\ MaxByte(left) = start - 1
               /\ \/ pieces.right = <<>> /\ end = MaxByte(r)
                  \/ \E right \in Region :
                        /\ pieces.right = <<right>>
                        /\ MinByte(right) = end + 1
                        /\ MaxByte(right) = MaxByte(r)
  <1> DEFINE both == start > MinByte(r) /\ end < MaxByte(r)
             before == SelRegion(MinByte(r), start - 1)
             after == SelRegion(end + 1, MaxByte(r))
             left == IF both THEN before ELSE InheritDirection(before, r)
             right == IF both THEN after ELSE InheritDirection(after, r)
  <1>1. MinByte(r) \in Nat /\ MaxByte(r) \in Nat
    BY RegionEnds, Zenon
  <1>2. ASSUME start > MinByte(r)
        PROVE  left \in Region /\ MinByte(left) = MinByte(r) /\ MaxByte(left) = start - 1
    <2>1. /\ before \in Region
          /\ MinByte(before) = MinByte(r) /\ MaxByte(before) = start - 1
      BY <1>1, <1>2, NewRegion DEF Smaller, Larger
    <2> HIDE DEF before, both
    <2> QED BY <2>1, InheritEnds, Zenon
  <1>3. ASSUME end < MaxByte(r)
        PROVE  right \in Region /\ MinByte(right) = end + 1 /\ MaxByte(right) = MaxByte(r)
    <2>1. /\ after \in Region
          /\ MinByte(after) = end + 1 /\ MaxByte(after) = MaxByte(r)
      BY <1>1, <1>3, NewRegion DEF Smaller, Larger
    <2> HIDE DEF after, both
    <2> QED BY <2>1, InheritEnds, Zenon
  <1>4. /\ SplitAtRegion(r, start, end).left =
             IF start <= MinByte(r) THEN <<>> ELSE <<left>>
        /\ SplitAtRegion(r, start, end).right =
             IF end >= MaxByte(r) THEN <<>> ELSE <<right>>
    BY Zenon DEF SplitAtRegion
  <1> HIDE DEF left, right
  <1>5. \/ SplitAtRegion(r, start, end).left = <<>> /\ start = MinByte(r)
        \/ /\ SplitAtRegion(r, start, end).left = <<left>>
            /\ left \in Region /\ MinByte(left) = MinByte(r) /\ MaxByte(left) = start - 1
    BY <1>1, <1>2, <1>4
  <1>6. \/ SplitAtRegion(r, start, end).right = <<>> /\ end = MaxByte(r)
        \/ /\ SplitAtRegion(r, start, end).right = <<right>>
            /\ right \in Region /\ MinByte(right) = end + 1 /\ MaxByte(right) = MaxByte(r)
    BY <1>1, <1>3, <1>4
  <1> QED BY <1>5, <1>6, Zenon

-----------------------------------------------------------------------------
(* What is left of the regions.                                            *)

\* o is in one of the ranges.
CoveredBy(ranges, o) == \E j \in DOMAIN ranges : o \in RangeBytes(ranges[j])

\* No two pieces overlap or touch.
Apart(pieces) ==
    \A p, q \in DOMAIN pieces : p < q => MaxByte(pieces[p]) + 1 < MinByte(pieces[q])

\* The pieces are apart and select what the ranges leave of region r before
\* offset upto.
CutUpTo(r, ranges, pieces, upto) ==
    /\ Apart(pieces)
    /\ \A o \in Bytes(r) :
          (\E p \in DOMAIN pieces : o \in Bytes(pieces[p])) <=> o < upto /\ ~CoveredBy(ranges, o)

CutUp(x, pieces) == CutUpTo(regions[x], matched_ranges[x], pieces, MaxByte(regions[x]) + 1)

\* What is left of region `at' begins behind the ranges cut out so far and
\* touches none of its pieces.
PartlyCut(first) ==
    /\ CutUpTo(regions[at], matched_ranges[at], made[at], first)
    /\ \A p \in DOMAIN made[at] : MaxByte(made[at][p]) + 1 < first
    /\ \A j \in DOMAIN matched_ranges[at] : j < cut => matched_ranges[at][j].end <= first

CutInv ==
    /\ acceptor = "split"
    /\ \A x \in DOMAIN regions : x < at => CutUp(x, made[x])
    /\ at <= Len(regions) =>
          IF base_region = <<>> THEN CutUp(at, made[at]) ELSE PartlyCut(MinByte(base_region[1]))

LeftUpToMain == \E x \in 1 .. main_selection : mapped[x] # <<>>

MappedInv ==
    /\ status \in {"mapping", "panicked"}
    /\ acceptor \in {"split", "collapse"}
    /\ RangesInRegions
    /\ PiecesInRegions(mapped)
    /\ acceptor = "split" => \A x \in DOMAIN regions : CutUp(x, mapped[x])
    /\ acceptor = "collapse" =>
          \A x \in DOMAIN regions : DOMAIN mapped[x] = DOMAIN matched_ranges[x]
    /\ status = "mapping" => KeepsBytes /\ KeepsDirection
    /\ status = "mapping" /\ i > main_selection => LeftUpToMain
    /\ status = "panicked" => ~LeftUpToMain

ResultInv ==
    /\ SearchInv
    /\ phase # "mapping" => status = "idle"
    /\ phase = "finding" => acceptor \in {"split", "collapse"}
    /\ phase = "cutting" => CutInv
    /\ phase = "mapping" => MappedInv

\* A piece pushed behind pieces it does not touch adds its bytes.
LEMMA PushApart ==
    ASSUME NEW rs \in Seq(Region), NEW piece \in Region, Apart(rs),
           \A p \in DOMAIN rs : MaxByte(rs[p]) + 1 < MinByte(piece)
    PROVE  /\ Apart(Append(rs, piece))
           /\ \A o : (\E p \in DOMAIN Append(rs, piece) : o \in Bytes(Append(rs, piece)[p]))
                     <=> (\E p \in DOMAIN rs : o \in Bytes(rs[p])) \/ o \in Bytes(piece)
           /\ \A p \in DOMAIN Append(rs, piece) : MaxByte(Append(rs, piece)[p]) <= MaxByte(piece)
  <1> DEFINE new == Append(rs, piece)
             last == Len(rs) + 1
  <1>1. /\ DOMAIN rs = 1 .. Len(rs) /\ Len(rs) \in Nat
        /\ DOMAIN new = 1 .. last /\ last \in Nat
        /\ \A p \in 1 .. Len(rs) : new[p] = rs[p]
        /\ new[last] = piece
    BY AppendProperties, LenProperties
  <1>2. \A p \in DOMAIN rs : MaxByte(rs[p]) \in Nat
    BY <1>1, ElementOfSeq, RegionEnds, Zenon
  <1>3. MinByte(piece) \in Nat /\ MaxByte(piece) \in Nat /\ MinByte(piece) <= MaxByte(piece)
    BY RegionEnds, Zenon
  <1> HIDE DEF new
  <1>4. \A p \in DOMAIN new : p = last \/ (p \in DOMAIN rs /\ new[p] = rs[p])
    BY <1>1
  <1>5. /\ \A p \in DOMAIN rs : p \in DOMAIN new /\ new[p] = rs[p] /\ p < last
        /\ last \in DOMAIN new
    BY <1>1
  <1>6. Apart(new)
    <2> SUFFICES ASSUME NEW p \in DOMAIN new, NEW q \in DOMAIN new, p < q
                 PROVE  MaxByte(new[p]) + 1 < MinByte(new[q])
      BY Zenon DEF Apart
    <2>1. p \in DOMAIN rs /\ new[p] = rs[p]
      BY <1>1, <1>4
    <2>2. CASE q = last
      BY <2>1, <2>2, <1>1, Zenon
    <2>3. CASE q \in DOMAIN rs /\ new[q] = rs[q]
      BY <2>1, <2>3, Zenon DEF Apart
    <2> QED BY <2>2, <2>3, <1>4, Zenon
  <1>7. \A o : (\E p \in DOMAIN new : o \in Bytes(new[p]))
                 <=> (\E p \in DOMAIN rs : o \in Bytes(rs[p])) \/ o \in Bytes(piece)
    BY <1>1, <1>4, <1>5, Zenon
  <1>8. \A p \in DOMAIN new : MaxByte(new[p]) <= MaxByte(piece)
    BY <1>1, <1>2, <1>3, <1>4
  <1> QED BY <1>6, <1>7, <1>8, Zenon DEF new

\* Cutting the next range out of what is left of a region: the piece before
\* the range is uncovered, what comes behind it is still to be looked at.
LEMMA CutOneRange ==
    ASSUME NEW r \in Region, NEW ranges \in Seq(MatchRange), NEW pieces \in Seq(Region),
           NEW c \in DOMAIN ranges, NEW m \in Nat, MinByte(r) <= m,
           CutUpTo(r, ranges, pieces, m),
           \A p \in DOMAIN pieces : MaxByte(pieces[p]) + 1 < m,
           \A j \in DOMAIN ranges : j < c => ranges[j].end <= m,
           m <= ranges[c].start, ranges[c].start < ranges[c].end,
           \A j \in DOMAIN ranges : c < j => ranges[c].end <= ranges[j].start,
           NEW new \in Seq(Region),
           \/ m = ranges[c].start /\ new = pieces
           \/ \E left \in Region : /\ new = Append(pieces, left)
                                   /\ MinByte(left) = m
                                   /\ MaxByte(left) = ranges[c].start - 1
    PROVE  /\ CutUpTo(r, ranges, new, ranges[c].end)
           /\ \A p \in DOMAIN new : MaxByte(new[p]) + 1 < ranges[c].end
           /\ \A j \in DOMAIN ranges : j < c + 1 => ranges[j].end <= ranges[c].end
  <1> DEFINE s == ranges[c].start
             e == ranges[c].end
             covered(o) == CoveredBy(ranges, o)
             of(rs, o) == \E p \in DOMAIN rs : o \in Bytes(rs[p])
  <1>1. /\ \A j \in DOMAIN ranges : ranges[j].start \in Nat /\ ranges[j].end \in Nat
        /\ DOMAIN ranges \subseteq Nat
    <2>1. \A j \in DOMAIN ranges : ranges[j] \in MatchRange
      BY ElementOfSeq, LenProperties, Zenon
    <2> QED BY <2>1, LenProperties DEF MatchRange
  <1>2. \A o \in Nat : m <= o /\ o < s => ~covered(o)
    <2> SUFFICES ASSUME NEW o \in Nat, m <= o, o < s, NEW j \in DOMAIN ranges,
                        o \in ranges[j].start .. ranges[j].end - 1
                 PROVE  FALSE
      BY Zenon DEF CoveredBy, RangeBytes
    <2>1. ranges[j].start <= o /\ o < ranges[j].end
      BY <1>1
    <2>2. CASE j < c
      BY <2>1, <2>2, <1>1
    <2>3. CASE j = c
      BY <2>1, <2>3, <1>1
    <2>4. CASE c < j
      BY <2>1, <2>4, <1>1
    <2>5. j < c \/ j = c \/ c < j
      BY <1>1
    <2> QED BY <2>2, <2>3, <2>4, <2>5, Zenon
  <1>3. \A o \in Nat : s <= o /\ o < e => covered(o)
    BY <1>1 DEF CoveredBy, RangeBytes
  <1>4. \A o \in Bytes(r) : o \in Nat
    BY RegionBytes, Zenon
  <1>5. /\ Apart(pieces)
        /\ \A o \in Bytes(r) : of(pieces, o) <=> o < m /\ ~covered(o)
    BY Zenon DEF CutUpTo
  <1>6. \A p \in DOMAIN pieces : MaxByte(pieces[p]) \in Nat
    BY ElementOfSeq, LenProperties, RegionEnds, Zenon
  <1>7. s \in Nat /\ e \in Nat /\ m <= s /\ s < e
    BY <1>1, Zenon
  <1>8. \A j \in DOMAIN ranges : j < c + 1 => ranges[j].end <= e
    <2> SUFFICES ASSUME NEW j \in DOMAIN ranges, j < c + 1
                 PROVE  ranges[j].end <= e
      BY Zenon
    <2>1. j < c \/ j = c
      BY <1>1
    <2>2. CASE j = c
      BY <2>2, <1>1
    <2>3. CASE j < c
      BY <2>3, <1>1, <1>7
    <2> QED BY <2>1, <2>2, <2>3, Zenon
  <1>9. CASE m = s /\ new = pieces
    <2> HIDE DEF covered, of, s, e
    <2>1. \A o \in Bytes(r) : of(pieces, o) <=> o < e /\ ~covered(o)
      BY <1>3, <1>4, <1>5, <1>7, <1>9
    <2>2. \A p \in DOMAIN pieces : MaxByte(pieces[p]) + 1 < e
      BY <1>6, <1>7
    <2> QED BY <2>1, <2>2, <1>5, <1>8, <1>9 DEF CutUpTo, covered, of, e
  <1>10. ASSUME NEW left \in Region, new = Append(pieces, left), MinByte(left) = m,
                MaxByte(left) = s - 1
         PROVE  /\ CutUpTo(r, ranges, new, e)
                /\ \A p \in DOMAIN new : MaxByte(new[p]) + 1 < e
    <2>1. /\ Apart(new)
          /\ \A o : of(new, o) <=> of(pieces, o) \/ o \in Bytes(left)
          /\ \A p \in DOMAIN new : MaxByte(new[p]) <= MaxByte(left)
      <3>1. \A p \in DOMAIN pieces : MaxByte(pieces[p]) + 1 < MinByte(left)
        BY <1>10, Zenon
      <3> QED BY <3>1, <1>5, <1>10, PushApart
    <2>2. \A o \in Nat : o \in Bytes(left) <=> m <= o /\ o < s
      <3>1. \A o \in Nat : o \in Bytes(left) <=> MinByte(left) <= o /\ o <= MaxByte(left)
        BY RegionBytes, Zenon
      <3> QED BY <3>1, <1>7, <1>10
    <2>3. \A p \in DOMAIN new : MaxByte(new[p]) \in Nat
      BY ElementOfSeq, LenProperties, RegionEnds, Zenon
    <2> HIDE DEF covered, of, s, e
    <2>4. \A o \in Bytes(r) : of(new, o) <=> o < e /\ ~covered(o)
      <3> SUFFICES ASSUME NEW o \in Bytes(r)
                   PROVE  of(new, o) <=> o < e /\ ~covered(o)
        BY Zenon
      <3>1. o \in Nat
        BY <1>4, Zenon
      <3>2. of(new, o) <=> of(pieces, o) \/ o \in Bytes(left)
        BY <2>1, Zenon
      <3> QED BY <3>1, <3>2, <2>2, <1>2, <1>3, <1>5, <1>7
    <2>5. \A p \in DOMAIN new : MaxByte(new[p]) + 1 < e
      BY <2>1, <2>3, <1>7, <1>10
    <2> QED BY <2>1, <2>4, <2>5, Zenon DEF CutUpTo, covered, of
  <1> QED BY <1>8, <1>9, <1>10, Zenon

\* The ranges are all cut out and the rest is pushed.
LEMMA CutLast ==
    ASSUME NEW r \in Region, NEW ranges \in Seq(MatchRange), NEW pieces \in Seq(Region),
           NEW rest \in Region, MinByte(r) <= MinByte(rest), MaxByte(rest) = MaxByte(r),
           CutUpTo(r, ranges, pieces, MinByte(rest)),
           \A p \in DOMAIN pieces : MaxByte(pieces[p]) + 1 < MinByte(rest),
           \A j \in DOMAIN ranges : ranges[j].end <= MinByte(rest)
    PROVE  CutUpTo(r, ranges, Append(pieces, rest), MaxByte(r) + 1)
  <1> DEFINE covered(o) == CoveredBy(ranges, o)
             new == Append(pieces, rest)
             of(rs, o) == \E p \in DOMAIN rs : o \in Bytes(rs[p])
  <1>1. \A j \in DOMAIN ranges : ranges[j].start \in Nat /\ ranges[j].end \in Nat
    <2>1. \A j \in DOMAIN ranges : ranges[j] \in MatchRange
      BY ElementOfSeq, LenProperties, Zenon
    <2> QED BY <2>1, Zenon DEF MatchRange
  <1>2. MinByte(rest) \in Nat /\ MaxByte(r) \in Nat
    BY RegionEnds, Zenon
  <1>3. \A o \in Nat : MinByte(rest) <= o => ~covered(o)
    BY <1>1, <1>2 DEF CoveredBy, RangeBytes
  <1>4. /\ Apart(new)
        /\ \A o : of(new, o) <=> of(pieces, o) \/ o \in Bytes(rest)
    BY PushApart, Zenon DEF CutUpTo
  <1>5. \A o \in Nat : o \in Bytes(rest) <=> MinByte(rest) <= o /\ o <= MaxByte(r)
    BY RegionBytes, Zenon
  <1>6. \A o \in Bytes(r) : o \in Nat /\ o <= MaxByte(r)
    BY RegionBytes, Zenon
  <1>7. \A o \in Bytes(r) : of(pieces, o) <=> o < MinByte(rest) /\ ~covered(o)
    BY Zenon DEF CutUpTo
  <1> HIDE DEF covered, of, new
  <1>8. \A o \in Bytes(r) : of(new, o) <=> o < MaxByte(r) + 1 /\ ~covered(o)
    <2> SUFFICES ASSUME NEW o \in Bytes(r)
                 PROVE  of(new, o) <=> o < MaxByte(r) + 1 /\ ~covered(o)
      BY Zenon
    <2>1. of(new, o) <=> of(pieces, o) \/ o \in Bytes(rest)
      BY <1>4, Zenon
    <2> QED BY <2>1, <1>2, <1>3, <1>5, <1>6, <1>7
  <1> QED BY <1>4, <1>8, Zenon DEF CutUpTo, covered, of, new

\* Of a region that is still whole no piece is made.
LEMMA NothingCut ==
    ASSUME NEW r \in Region, NEW ranges
    PROVE  CutUpTo(r, ranges, <<>>, MinByte(r))
  <1>1. \A o \in Bytes(r) : ~(o < MinByte(r))
    BY RegionBytes, RegionEnds
  <1>2. DOMAIN <<>> = {}
    OBVIOUS
  <1> QED BY <1>1, <1>2, Zenon DEF CutUpTo, Apart

\* Pieces apart from each other that make up a set of offsets are its runs.
LEMMA PiecesAreRuns ==
    ASSUME NEW pieces \in Seq(Region), Apart(pieces), NEW S \in SUBSET Nat,
           \A o \in Nat : o \in S <=> \E p \in DOMAIN pieces : o \in Bytes(pieces[p])
    PROVE  {Bytes(pieces[p]) : p \in DOMAIN pieces} = Runs(S) \ {{}}
  <1> DEFINE low(p) == MinByte(pieces[p])
             high(p) == MaxByte(pieces[p])
  <1>0. \A run : run \in Runs(S) <=>
            \E first, last \in S : /\ first - 1 \notin S /\ last + 1 \notin S
                                   /\ run = first .. last /\ first .. last \subseteq S
    <2> DEFINE F == {x \in S : x - 1 \notin S}
               L == {x \in S : x + 1 \notin S}
    <2>1. Runs(S) = {first .. last : first \in F, last \in L} \cap SUBSET S
      BY DEF Runs
    <2>2. \A x : (x \in F <=> x \in S /\ x - 1 \notin S) /\ (x \in L <=> x \in S /\ x + 1 \notin S)
      BY Zenon
    <2> HIDE DEF F, L
    <2>3. \A run : run \in Runs(S) <=> /\ \E first \in F, last \in L : run = first .. last
                                      /\ run \subseteq S
      BY <2>1
    <2>4. ASSUME NEW run, run \in Runs(S)
          PROVE  \E first, last \in S : /\ first - 1 \notin S /\ last + 1 \notin S
                                        /\ run = first .. last /\ first .. last \subseteq S
      <3>1. PICK first \in F, last \in L : run = first .. last
        BY <2>3, <2>4, Zenon
      <3>2. /\ first \in S /\ last \in S /\ first - 1 \notin S /\ last + 1 \notin S
            /\ first .. last \subseteq S
        BY <2>2, <2>3, <2>4, <3>1, Zenon
      <3> QED BY <3>1, <3>2, Zenon
    <2>5. ASSUME NEW first \in S, NEW last \in S, first - 1 \notin S, last + 1 \notin S,
                 first .. last \subseteq S
          PROVE  first .. last \in Runs(S)
      <3>1. first \in F /\ last \in L
        BY <2>2, <2>5, Zenon
      <3> QED BY <2>3, <2>5, <3>1, Zenon
    <2> QED BY <2>4, <2>5
  <1>1. \A p \in DOMAIN pieces : /\ low(p) \in Nat /\ high(p) \in Nat /\ low(p) <= high(p)
                                 /\ Bytes(pieces[p]) = low(p) .. high(p)
    BY ElementOfSeq, LenProperties, RegionEnds, Zenon DEF Bytes
  <1>2. DOMAIN pieces \subseteq Nat
    BY LenProperties
  <1>3. \A o \in Nat : o \in S <=> \E p \in DOMAIN pieces : low(p) <= o /\ o <= high(p)
    BY <1>1
  <1>4. \A p, q \in DOMAIN pieces : p < q => high(p) + 1 < low(q)
    BY Zenon DEF Apart
  <1> HIDE DEF low, high
  <1>5. \A p \in DOMAIN pieces : high(p) + 1 \notin S
    <2> SUFFICES ASSUME NEW p \in DOMAIN pieces, NEW q \in DOMAIN pieces,
                        low(q) <= high(p) + 1, high(p) + 1 <= high(q)
                 PROVE  FALSE
      BY <1>1, <1>3, Zenon
    <2>1. p < q \/ q < p \/ p = q
      BY <1>2
    <2> QED BY <2>1, <1>1, <1>4
  <1>6. \A p \in DOMAIN pieces : low(p) - 1 \notin S
    <2> SUFFICES ASSUME NEW p \in DOMAIN pieces, low(p) - 1 \in Nat, NEW q \in DOMAIN pieces,
                        low(q) <= low(p) - 1, low(p) - 1 <= high(q)
                 PROVE  FALSE
      BY <1>1, <1>3, Zenon
    <2>1. p < q \/ q < p \/ p = q
      BY <1>2
    <2> QED BY <2>1, <1>1, <1>4
  <1>7. ASSUME NEW p \in DOMAIN pieces
        PROVE  Bytes(pieces[p]) \in Runs(S) \ {{}}
    <2>1. low(p) \in S /\ high(p) \in S /\ low(p) .. high(p) \subseteq S
      BY <1>1, <1>3
    <2>2. low(p) \in {x \in S : x - 1 \notin S} /\ high(p) \in {x \in S : x + 1 \notin S}
      BY <2>1, <1>5, <1>6, Zenon
    <2>3. low(p) .. high(p) \in Runs(S)
      BY <2>1, <2>2, <1>0, Zenon
    <2>4. low(p) \in low(p) .. high(p)
      BY <1>1
    <2> QED BY <2>3, <2>4, <1>1, Zenon
  <1>8. ASSUME NEW run \in Runs(S), run # {}
        PROVE  \E p \in DOMAIN pieces : run = Bytes(pieces[p])
    <2>1. PICK first \in S, last \in S :
              /\ first - 1 \notin S /\ last + 1 \notin S
              /\ run = first .. last /\ first .. last \subseteq S
      BY <1>0, <1>8, Zenon
    <2>2. first \in Nat /\ last \in Nat /\ first <= last
      BY <2>1, <1>8
    <2>3. PICK p \in DOMAIN pieces : low(p) <= first /\ first <= high(p)
      BY <2>2, <1>3, Zenon
    <2>4. low(p) = first
      <3>1. first - 1 >= low(p) => first - 1 \in Nat /\ first - 1 <= high(p)
        BY <2>2, <2>3, <1>1
      <3>2. first - 1 >= low(p) => first - 1 \in S
        BY <3>1, <1>1, <1>3, Zenon
      <3> QED BY <3>2, <2>1, <2>2, <2>3, <1>1
    <2>5. last <= high(p)
      <3>1. high(p) + 1 <= last => high(p) + 1 \in first .. last
        BY <2>2, <2>3, <1>1
      <3>2. ~(high(p) + 1 <= last)
        BY <3>1, <2>1, <1>5, Zenon
      <3> QED BY <3>2, <2>2, <1>1
    <2>6. last = high(p)
      <3>1. last + 1 <= high(p) => last + 1 \in S
        BY <2>2, <2>4, <1>1, <1>3
      <3> QED BY <3>1, <2>1, <2>2, <2>5, <1>1
    <2> QED BY <2>1, <2>4, <2>6, <1>1, Zenon
  <1> QED BY <1>7, <1>8

\* A byte of region x is in some match if it is in one of region x.
LEMMA MatchedInRegion ==
    ASSUME SearchInv, RangesInRegions, NEW x \in DOMAIN regions, NEW o \in Bytes(regions[x])
    PROVE  o \in Matched <=> CoveredBy(matched_ranges[x], o)
  <1>1. /\ DOMAIN matched_ranges = DOMAIN regions /\ DOMAIN regions \subseteq Nat
        /\ Separated(regions)
    BY SelectionFacts, LenProperties
       DEF SearchInv, SearchTypeOK, RangesInRegions, IndInv, RegionsSortedDisjoint
  <1>2. \A y \in DOMAIN regions :
            /\ MinByte(regions[y]) \in Nat /\ MaxByte(regions[y]) \in Nat
            /\ regions[y] \in Region
    BY SelectionFacts, Zenon DEF SearchInv
  <1>3. o \in Nat /\ MinByte(regions[x]) <= o /\ o <= MaxByte(regions[x])
    BY <1>2, RegionBytes, Zenon
  <1>4. o \in Matched <=> \E y \in DOMAIN regions : CoveredBy(matched_ranges[y], o)
    <2> DEFINE of(y) == UNION {RangeBytes(matched_ranges[y][j]) : j \in DOMAIN matched_ranges[y]}
    <2>1. \A y : o \in of(y) <=> CoveredBy(matched_ranges[y], o)
      BY Zenon DEF CoveredBy
    <2>2. Matched = UNION {of(y) : y \in DOMAIN regions}
      BY <1>1, Zenon DEF Matched
    <2> HIDE DEF of
    <2>3. o \in UNION {of(y) : y \in DOMAIN regions} <=> \E y \in DOMAIN regions : o \in of(y)
      BY Zenon
    <2> QED BY <2>1, <2>2, <2>3, Zenon
  <1>5. ASSUME NEW y \in DOMAIN regions, CoveredBy(matched_ranges[y], o)
        PROVE  y = x
    <2>1. PICK j \in DOMAIN matched_ranges[y] : o \in RangeBytes(matched_ranges[y][j])
      BY <1>5, Zenon DEF CoveredBy
    <2>2. /\ matched_ranges[y][j].start \in Nat /\ matched_ranges[y][j].end \in Nat
          /\ MinByte(regions[y]) <= matched_ranges[y][j].start
          /\ matched_ranges[y][j].end <= MaxByte(regions[y]) + 1
      BY RangeFacts, Zenon DEF RangesInRegions
    <2>3. MinByte(regions[y]) <= o /\ o <= MaxByte(regions[y])
      BY <2>1, <2>2, <1>2, <1>3 DEF RangeBytes
    <2>4. x < y => MaxByte(regions[x]) < MinByte(regions[y])
      BY <1>1, Zenon DEF Separated
    <2>5. y < x => MaxByte(regions[y]) < MinByte(regions[x])
      BY <1>1, Zenon DEF Separated
    <2> QED BY <2>3, <2>4, <2>5, <1>1, <1>2, <1>3
  <1> QED BY <1>4, <1>5, Zenon

\* Pushing a region behind the pieces of region `at' keeps the pieces in
\* their regions.
LEMMA PushPiece ==
    ASSUME SearchInv, PiecesInRegions(made), at \in DOMAIN regions, NEW piece \in Region,
           MinByte(regions[at]) <= MinByte(piece), MaxByte(piece) <= MaxByte(regions[at]),
           \A p \in DOMAIN made[at] : MaxByte(made[at][p]) < MinByte(piece)
    PROVE  LET pushed == [made EXCEPT ![at] = @ \o <<piece>>]
           IN  /\ pushed \in Seq(Seq(Region))
               /\ PiecesInRegions(pushed)
               /\ \A x \in DOMAIN regions : x # at => pushed[x] = made[x]
               /\ \A p \in DOMAIN pushed[at] : MaxByte(pushed[at][p]) <= MaxByte(piece)
  <1> DEFINE pushed == [made EXCEPT ![at] = @ \o <<piece>>]
             vector == Append(made[at], piece)
  <1>1. /\ made \in Seq(Seq(Region)) /\ Len(made) = Len(regions)
        /\ DOMAIN made = DOMAIN regions /\ at \in 1 .. Len(made)
        /\ DOMAIN regions = 1 .. Len(regions)
    BY SelectionFacts, LenProperties, Zenon DEF SearchInv, SearchTypeOK, PiecesInRegions
  <1>2. made[at] \in Seq(Region) /\ Separated(made[at])
    BY <1>1, ElementOfSeq, Zenon DEF PiecesInRegions
  <1>3. made[at] \o <<piece>> = vector
    BY <1>2, AppendIsConcat, Zenon
  <1>4. /\ DOMAIN made[at] = 1 .. Len(made[at]) /\ Len(made[at]) \in Nat
        /\ made[at] = <<>> \/ Len(made[at]) \in DOMAIN made[at]
    BY <1>2, LenProperties, EmptySeq
  <1>5. /\ vector \in Seq(Region) /\ Separated(vector)
    BY <1>2, <1>4, AppendSeparated, Zenon
  <1>6. /\ DOMAIN vector = 1 .. Len(made[at]) + 1
        /\ \A p \in 1 .. Len(made[at]) : vector[p] = made[at][p]
        /\ vector[Len(made[at]) + 1] = piece
    BY <1>2, AppendProperties, LenProperties
  <1>7. MinByte(piece) \in Nat /\ MaxByte(piece) \in Nat /\ MinByte(piece) <= MaxByte(piece)
    BY RegionEnds, Zenon
  <1>8. ASSUME NEW p \in DOMAIN vector
        PROVE  /\ MinByte(regions[at]) <= MinByte(vector[p])
               /\ MaxByte(vector[p]) <= MaxByte(regions[at])
               /\ MaxByte(vector[p]) <= MaxByte(piece)
    <2>1. CASE p \in DOMAIN made[at]
      <3>1. vector[p] = made[at][p]
        BY <2>1, <1>4, <1>6, Zenon
      <3>2. made[at][p] \in Region
        BY <2>1, <1>2, <1>4, ElementOfSeq, Zenon
      <3>3. MaxByte(made[at][p]) \in Nat /\ MaxByte(made[at][p]) < MinByte(piece)
        BY <2>1, <3>2, RegionEnds, Zenon
      <3>4. /\ MinByte(regions[at]) <= MinByte(made[at][p])
            /\ MaxByte(made[at][p]) <= MaxByte(regions[at])
        BY <2>1, <1>1, Zenon DEF PiecesInRegions
      <3> HIDE DEF vector
      <3> QED BY <3>1, <3>3, <3>4, <1>7
    <2>2. CASE p = Len(made[at]) + 1
      <3>1. vector[p] = piece
        BY <2>2, <1>6, Zenon
      <3> HIDE DEF vector
      <3> QED BY <3>1, <1>7
    <2>3. p \in DOMAIN made[at] \/ p = Len(made[at]) + 1
      BY <1>4, <1>6
    <2> QED BY <2>1, <2>2, <2>3, Zenon
  <1> HIDE DEF vector
  <1>9. /\ pushed \in Seq(Seq(Region)) /\ Len(pushed) = Len(regions)
        /\ \A x \in 1 .. Len(made) : pushed[x] = IF x = at THEN vector ELSE made[x]
    <2>1. pushed = [made EXCEPT ![at] = vector]
      BY <1>3, Zenon
    <2>2. vector \in Seq(Region)
      BY <1>5, Zenon
    <2> HIDE DEF pushed
    <2> QED BY <2>1, <2>2, <1>1, ExceptSeq
  <1> HIDE DEF pushed
  <1>10. PiecesInRegions(pushed)
    <2> SUFFICES ASSUME NEW x \in DOMAIN regions
                 PROVE  /\ Separated(pushed[x])
                        /\ \A p \in DOMAIN pushed[x] :
                              /\ MinByte(regions[x]) <= MinByte(pushed[x][p])
                              /\ MaxByte(pushed[x][p]) <= MaxByte(regions[x])
      BY <1>9, Zenon DEF PiecesInRegions
    <2>1. CASE x = at
      BY <2>1, <1>1, <1>5, <1>8, <1>9
    <2>2. CASE x # at
      BY <2>2, <1>1, <1>9 DEF PiecesInRegions
    <2> QED BY <2>1, <2>2, Zenon
  <1>11. /\ \A x \in DOMAIN regions : x # at => pushed[x] = made[x]
         /\ \A p \in DOMAIN pushed[at] : MaxByte(pushed[at][p]) <= MaxByte(piece)
    BY <1>1, <1>8, <1>9, Zenon
  <1> QED BY <1>9, <1>10, <1>11, Zenon DEF pushed

\* New regions that lie in their old ones do not overlap: none clash.
LEMMA PiecesDoNotClash ==
    ASSUME IndInv, NEW new \in Seq(Seq(Region)), PiecesInRegions(new)
    PROVE  ~Clash(new)
  <1>1. /\ regions \in Seq(Region) /\ Separated(regions) /\ Len(new) = Len(regions)
        /\ DOMAIN regions = 1 .. Len(regions) /\ DOMAIN new = 1 .. Len(regions)
    BY LenProperties, Zenon DEF IndInv, TypeOK, RegionsSortedDisjoint, PiecesInRegions
  <1> SUFFICES ASSUME NEW a \in DOMAIN regions, NEW b \in DOMAIN regions,
                      NEW p \in DOMAIN new[a], NEW q \in DOMAIN new[b],
                      Earlier(a, p, b, q)
               PROVE  ~Overlaps(new[a][p], new[b][q])
    BY <1>1, Zenon DEF Clash, Clashes
  <1>2. new[a] \in Seq(Region) /\ new[b] \in Seq(Region)
    BY <1>1, ElementOfSeq, Zenon
  <1>3. /\ new[a][p] \in Region /\ new[b][q] \in Region
        /\ regions[a] \in Region /\ regions[b] \in Region
    BY <1>1, <1>2, ElementOfSeq, LenProperties, Zenon
  <1>4. /\ MinByte(new[b][q]) \in Nat /\ MaxByte(new[a][p]) \in Nat
        /\ MaxByte(regions[a]) \in Nat /\ MinByte(regions[b]) \in Nat
    BY <1>3, RegionEnds, Zenon
  <1>5. MaxByte(new[a][p]) < MinByte(new[b][q])
    <2>1. CASE a = b /\ p < q
      BY <2>1, Zenon DEF PiecesInRegions, Separated
    <2>2. CASE a < b
      <3>1. MaxByte(regions[a]) < MinByte(regions[b])
        BY <2>2, <1>1, Zenon DEF Separated
      <3>2. /\ MaxByte(new[a][p]) <= MaxByte(regions[a])
            /\ MinByte(regions[b]) <= MinByte(new[b][q])
        BY Zenon DEF PiecesInRegions
      <3> QED BY <3>1, <3>2, <1>4
    <2> QED BY <2>1, <2>2, Zenon DEF Earlier
  <1> QED BY <1>4, <1>5 DEF Overlaps

=============================================================================
