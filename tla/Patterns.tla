------------------------------ MODULE Patterns ------------------------------
(***************************************************************************)
(* What a finished search prompt does to the selection: find the matches   *)
(* of the pattern in every region (search.rs), then split the regions at   *)
(* them (split.rs) or collapse the regions to them (collapse.rs).  The     *)
(* loop that looks for matches and the loop that cuts a region up are      *)
(* steps of their own here; their result goes into the loop of             *)
(* map_selections of module Selection.                                     *)
(*                                                                         *)
(* text[x + 1] is the byte at offset x.  A range runs from start up to and *)
(* excluding end, as in the code.                                          *)
(***************************************************************************)
EXTENDS Selection, FiniteSets

CONSTANTS Byte,        \* byte values
          Newline,     \* the byte 0x0A, which a regex "." does not match
          MaxPattern   \* bound on the number of pieces of a pattern

ASSUME PatternsAssumption == Byte \subseteq Nat /\ MaxPattern \in Nat

VARIABLES
    text,            \* CurrentBuffer.data
    phase,           \* "none", "finding", "cutting", and "mapping" after that
    acceptor,        \* Search.next: "split" or "collapse", "none" outside
    pattern,         \* Pattern.pieces
    at,              \* the region the search works on
    base,            \* base of the loop in map_selections_to_matches
    matched_ranges,  \* matched_ranges of apply_search
    cut,             \* the range of this region to cut out next
    base_region,     \* what is left of this region, an option
    made             \* the vectors made for map_selections

search == <<phase, acceptor, pattern, at, base, matched_ranges, cut, base_region, made>>
allvars == <<vars, text, search>>

\* PatternPiece::Wildcard; a literal piece is its byte.
Wildcard == -1

\* Range<usize> and Pattern of the code.
MatchRange == [start : Nat, end : Nat]
Pattern == UNION {[1 .. size -> Byte \cup {Wildcard}] : size \in 0 .. MaxPattern}

NoSearch ==
    /\ phase = "none"
    /\ acceptor = "none"
    /\ pattern = <<>>
    /\ at = 1
    /\ base = 0
    /\ matched_ranges = <<>>
    /\ cut = 1
    /\ base_region = <<>>
    /\ made = <<>>

\* The selections that module Selection leaves on data of this length, with
\* the carets within the data or one past its end.
Selections(size) ==
    {rs \in UNION {[1 .. count -> [caret : 0 .. size, tail : 0 .. size, main : {FALSE}]] :
                      count \in 1 .. size + 1} : Separated(rs)}

SearchInit ==
    /\ text \in UNION {[1 .. size -> Byte] : size \in 0 .. MaxLen}
    /\ len = Len(text)
    /\ \E rs \in Selections(len) :
         /\ main_selection \in DOMAIN rs
         /\ regions = WithMain(rs, main_selection)
    /\ status = "idle"
    /\ op = "none"
    /\ mapped = <<>>
    /\ i = 1
    /\ k = 1
    /\ regions_out = <<>>
    /\ new_main_sel = 1
    /\ overjump = FALSE
    /\ removed_other = FALSE
    /\ NoSearch

-----------------------------------------------------------------------------
(***************************************************************************)
(* map_selections_to_matches.  A pattern without wildcards is looked for   *)
(* with a substring search in a loop, one with wildcards by the find_iter  *)
(* of a regex: both go on after the end of the last match.                 *)
(***************************************************************************)

MatchesPiece(piece, byte) ==
    piece = byte \/ (piece = Wildcard /\ byte # Newline)

\* slice_to_cow stops at the end of the data.
SliceEnd(r) == Smaller(MaxByte(r) + 1, len)

Occurs(start) ==
    \A j \in DOMAIN pattern : MatchesPiece(pattern[j], text[start + j])

\* Where the pattern occurs in region r, from offset `from' on.
Occurrences(r, from) ==
    {start \in from .. SliceEnd(r) - Len(pattern) : Occurs(start)}

\* Search::transition, Action::Finish: apply_search of split.rs or of
\* collapse.rs.  An empty pattern is not looked for.
StartSearch(next, pieces) ==
    /\ status = "idle"
    /\ phase = "none"
    /\ IF pieces = <<>>
       THEN UNCHANGED search
       ELSE /\ phase' = "finding"
            /\ acceptor' = next
            /\ pattern' = pieces
            /\ at' = 1
            /\ base' = MinByte(regions[1])
            /\ matched_ranges' = [x \in DOMAIN regions |-> <<>>]
            /\ UNCHANGED <<cut, base_region, made>>
    /\ UNCHANGED <<vars, text>>

\* Variant: the search goes on one byte after the start of a match.
FindMatchOverlapping ==
    /\ phase = "finding"
    /\ at <= Len(regions)
    /\ \E start \in Occurrences(regions[at], base) :
         /\ \A other \in Occurrences(regions[at], base) : start <= other
         /\ matched_ranges' =
              [matched_ranges EXCEPT ![at] =
                  Append(@, [start |-> start, end |-> start + Len(pattern)])]
         /\ base' = start + 1
    /\ UNCHANGED <<vars, text, phase, acceptor, pattern, at, cut, base_region, made>>

FindMatch ==
    /\ phase = "finding"
    /\ at <= Len(regions)
    /\ \E start \in Occurrences(regions[at], base) :
         /\ \A other \in Occurrences(regions[at], base) : start <= other
         /\ matched_ranges' =
              [matched_ranges EXCEPT ![at] =
                  Append(@, [start |-> start, end |-> start + Len(pattern)])]
         /\ base' = start + Len(pattern)
    /\ UNCHANGED <<vars, text, phase, acceptor, pattern, at, cut, base_region, made>>

\* Variant: a region without a further match is searched again.
NextRegionStuck ==
    /\ phase = "finding"
    /\ at <= Len(regions)
    /\ Occurrences(regions[at], base) = {}
    /\ UNCHANGED allvars

NextRegion ==
    /\ phase = "finding"
    /\ at <= Len(regions)
    /\ Occurrences(regions[at], base) = {}
    /\ at' = at + 1
    /\ base' = IF at < Len(regions) THEN MinByte(regions[at + 1]) ELSE 0
    /\ UNCHANGED <<vars, text, phase, acceptor, pattern, matched_ranges, cut,
                   base_region, made>>

-----------------------------------------------------------------------------

Selected == UNION {Bytes(regions[x]) : x \in DOMAIN regions}

RangeBytes(range) == range.start .. range.end - 1

Matched ==
    UNION {UNION {RangeBytes(matched_ranges[x][j]) : j \in DOMAIN matched_ranges[x]} :
              x \in DOMAIN matched_ranges}

\* matched_len against selection.len_bytes(): both sums are over disjoint
\* ranges.
Refuse ==
    \/ acceptor = "split" /\ Cardinality(Matched) = Cardinality(Selected)
    \/ acceptor = "collapse" /\ Cardinality(Matched) = 0

EndSearch ==
    /\ phase' = "none"
    /\ acceptor' = "none"
    /\ pattern' = <<>>
    /\ at' = 1
    /\ base' = 0
    /\ matched_ranges' = <<>>
    /\ cut' = 1
    /\ base_region' = <<>>
    /\ made' = <<>>

RefuseMatches ==
    /\ phase = "finding"
    /\ at > Len(regions)
    /\ Refuse
    /\ EndSearch
    /\ UNCHANGED <<vars, text>>

\* The closure of collapse.rs: every region becomes its matches.
CollapseToMatches ==
    /\ phase = "finding"
    /\ at > Len(regions)
    /\ ~Refuse
    /\ acceptor = "collapse"
    /\ StartMapping("collapse_matches",
           [x \in DOMAIN regions |->
               [j \in DOMAIN matched_ranges[x] |->
                   InheritDirection(SelRegion(matched_ranges[x][j].start,
                                              matched_ranges[x][j].end - 1),
                                    regions[x])]])
    /\ phase' = "mapping"
    /\ UNCHANGED <<len, history, text, acceptor, pattern, at, base, matched_ranges, cut,
                   base_region, made>>

\* The closure of split.rs, run for every region in turn.
StartCutting ==
    /\ phase = "finding"
    /\ at > Len(regions)
    /\ ~Refuse
    /\ acceptor = "split"
    /\ phase' = "cutting"
    /\ at' = 1
    /\ cut' = 1
    /\ base_region' = <<regions[1]>>
    /\ made' = [x \in DOMAIN regions |-> <<>>]
    /\ UNCHANGED <<vars, text, acceptor, pattern, base, matched_ranges>>

\* for range in &remaining_matched_ranges[0]: nothing remains after a break.
CutRange ==
    /\ phase = "cutting"
    /\ at <= Len(regions)
    /\ base_region # <<>>
    /\ cut <= Len(matched_ranges[at])
    /\ LET range == matched_ranges[at][cut]
           pieces == SplitAtRegion(base_region[1], range.start, range.end - 1)
       IN  /\ made' = [made EXCEPT ![at] = @ \o pieces.left]
           /\ base_region' = pieces.right
    /\ cut' = cut + 1
    /\ UNCHANGED <<vars, text, phase, acceptor, pattern, at, base, matched_ranges>>

\* Variant: the rest of a region is dropped.
CloseCutDropped ==
    /\ phase = "cutting"
    /\ at <= Len(regions)
    /\ base_region = <<>> \/ cut > Len(matched_ranges[at])
    /\ at' = at + 1
    /\ cut' = 1
    /\ base_region' = IF at < Len(regions) THEN <<regions[at + 1]>> ELSE <<>>
    /\ UNCHANGED <<vars, text, phase, acceptor, pattern, base, matched_ranges, made>>

\* if remaining, the rest of the region is pushed; on to the next region.
CloseCut ==
    /\ phase = "cutting"
    /\ at <= Len(regions)
    /\ base_region = <<>> \/ cut > Len(matched_ranges[at])
    /\ made' = [made EXCEPT ![at] = @ \o base_region]
    /\ at' = at + 1
    /\ cut' = 1
    /\ base_region' = IF at < Len(regions) THEN <<regions[at + 1]>> ELSE <<>>
    /\ UNCHANGED <<vars, text, phase, acceptor, pattern, base, matched_ranges>>

SplitAtMatches ==
    /\ phase = "cutting"
    /\ at > Len(regions)
    /\ StartMapping("split_matches", made)
    /\ phase' = "mapping"
    /\ UNCHANGED <<len, history, text, acceptor, pattern, at, base, matched_ranges, cut,
                   base_region, made>>

\* map_selections, and back to normal mode.
MapLoop ==
    /\ Looping
    /\ IF status' = "idle" THEN EndSearch ELSE UNCHANGED search
    /\ UNCHANGED text

SearchStep ==
    \/ FindMatch
    \/ NextRegion
    \/ RefuseMatches
    \/ CollapseToMatches
    \/ StartCutting
    \/ CutRange
    \/ CloseCut
    \/ SplitAtMatches
    \/ MapLoop

SearchHalted == status = "panicked" /\ UNCHANGED allvars

SearchNext ==
    \/ \E next \in {"split", "collapse"}, pieces \in Pattern : StartSearch(next, pieces)
    \/ SearchStep
    \/ SearchHalted

\* One thread runs a handler to its end: it takes its next step if it has one.
SearchSpec == SearchInit /\ [][SearchNext]_allvars /\ WF_allvars(SearchStep)

-----------------------------------------------------------------------------
(***************************************************************************)
(* Properties.                                                             *)
(***************************************************************************)

\* The search's indices and ranges stay well formed in every step of the two
\* loops: no range is empty or reaches back before the data.
SearchTypeOK ==
    /\ TypeOK
    /\ text \in Seq(Byte)
    /\ len = Len(text)
    /\ phase \in {"none", "finding", "cutting", "mapping"}
    /\ acceptor \in {"none", "split", "collapse"}
    /\ pattern \in Seq(Byte \cup {Wildcard})
    /\ at \in Nat
    /\ base \in Nat
    /\ matched_ranges \in Seq(Seq(MatchRange))
    /\ cut \in Nat
    /\ base_region \in Seq(Region)
    /\ made \in Seq(Seq(Region))

\* How far region x has been searched.
SearchedTo(x) == IF x < at THEN SliceEnd(regions[x]) ELSE base

\* What the loop of map_selections_to_matches has found so far: occurrences
\* of the pattern inside the region, one after the other, and none missed:
\* an occurrence that is not reported begins inside a reported one.
MatchesAreLeftmost ==
    phase = "finding" =>
        \A x \in DOMAIN regions :
            LET found == matched_ranges[x]
            IN  /\ x > at => found = <<>>
                /\ \A j \in DOMAIN found :
                      /\ found[j].start \in Occurrences(regions[x], MinByte(regions[x]))
                      /\ found[j].end = found[j].start + Len(pattern)
                      /\ j > 1 => found[j - 1].end <= found[j].start
                /\ x <= at =>
                      \A start \in Occurrences(regions[x], MinByte(regions[x])) :
                          start < SearchedTo(x) =>
                              \E j \in DOMAIN found :
                                  start \in found[j].start .. found[j].end - 1

\* The longest runs of consecutive offsets in a set.
Runs(S) ==
    {first .. last : first \in {x \in S : x - 1 \notin S},
                     last \in {x \in S : x + 1 \notin S}} \cap SUBSET S

\* Splitting cuts every region into exactly the runs of bytes that no match
\* covers: the matches go, every other selected byte stays, and no run is cut
\* further.
SplitsIntoRuns ==
    phase = "mapping" /\ acceptor = "split" =>
        \A x \in DOMAIN regions :
            {Bytes(mapped[x][p]) : p \in DOMAIN mapped[x]} =
            Runs(Bytes(regions[x]) \ Matched) \ {{}}

\* Nothing is left of the main region and of the regions before it.
NothingUpToMain ==
    \A x \in 1 .. main_selection :
        IF acceptor = "split" THEN Bytes(regions[x]) \subseteq Matched
                              ELSE matched_ranges[x] = <<>>

\* Both acceptors refuse what would leave nothing selected (split.rs:61-63,
\* collapse.rs:27-29), but map_selections needs more than that: the program
\* panics exactly when nothing is left of the main region and of all regions
\* before it, and otherwise something is still selected.
PanicsWithoutMain ==
    /\ status = "panicked" => NothingUpToMain
    /\ status = "mapping" /\ i > main_selection => ~NothingUpToMain

\* The loops of a search end: whatever the pattern and the text, the program
\* comes back for the next key (or panics in map_selections).
SearchEnds == (phase # "none") ~> (phase = "none" \/ status = "panicked")

-----------------------------------------------------------------------------
(***************************************************************************)
(* The inductive invariant.  Ranges lie in their region, one behind the    *)
(* other; while a region is cut up, what is left of it lies behind the     *)
(* pieces made so far and no later than the ranges still to cut out.       *)
(***************************************************************************)
RangesInRegions ==
    /\ Len(matched_ranges) = Len(regions)
    /\ \A x \in DOMAIN regions : \A j \in DOMAIN matched_ranges[x] :
          /\ MinByte(regions[x]) <= matched_ranges[x][j].start
          /\ matched_ranges[x][j].start < matched_ranges[x][j].end
          /\ matched_ranges[x][j].end <= MaxByte(regions[x]) + 1
          /\ \A l \in DOMAIN matched_ranges[x] :
                j < l => matched_ranges[x][j].end <= matched_ranges[x][l].start

FindingInv ==
    /\ RangesInRegions
    /\ MatchesAreLeftmost
    /\ Len(pattern) > 0
    /\ at > 0
    /\ at <= Len(regions) =>
          /\ MinByte(regions[at]) <= base
          /\ \A j \in DOMAIN matched_ranges[at] : matched_ranges[at][j].end <= base

PiecesInRegions(pieces) ==
    /\ Len(pieces) = Len(regions)
    /\ \A x \in DOMAIN regions :
          /\ Separated(pieces[x])
          /\ \A p \in DOMAIN pieces[x] :
                /\ MinByte(regions[x]) <= MinByte(pieces[x][p])
                /\ MaxByte(pieces[x][p]) <= MaxByte(regions[x])

RestOfRegion ==
    /\ Len(base_region) = 1
    /\ MinByte(regions[at]) <= MinByte(base_region[1])
    /\ MaxByte(base_region[1]) = MaxByte(regions[at])
    /\ \A p \in DOMAIN made[at] : MaxByte(made[at][p]) < MinByte(base_region[1])
    /\ \A j \in DOMAIN matched_ranges[at] :
          j >= cut => MinByte(base_region[1]) <= matched_ranges[at][j].start

CuttingInv ==
    /\ RangesInRegions
    /\ PiecesInRegions(made)
    /\ at > 0
    /\ cut > 0
    /\ \A x \in DOMAIN regions : x > at => made[x] = <<>>
    /\ at <= Len(regions) /\ base_region # <<>> => RestOfRegion

SearchInv ==
    /\ IndInv
    /\ SearchTypeOK
    /\ phase \in {"finding", "cutting"} => status = "idle"
    /\ phase = "finding" => FindingInv
    /\ phase = "cutting" => CuttingInv

=============================================================================
