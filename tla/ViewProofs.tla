----------------------------- MODULE ViewProofs -----------------------------
(***************************************************************************)
(* Proofs about the window of the view, for files, screens, lines and      *)
(* loads of every size.                                                    *)
(***************************************************************************)
EXTENDS View, SequenceTheorems, TLAPS

-----------------------------------------------------------------------------
(* Multiples of the length of a line.                                      *)

\* A multiple has a factor.
LEMMA Multiples ==
    ASSUME NEW x \in Int
    PROVE  x % BytesPerLine = 0 <=> \E n \in Int : x = n * BytesPerLine
  <1> DEFINE B == BytesPerLine
  <1>1. B \in Nat /\ B > 0
    BY BytesPerLineAssumption
  <1> HIDE DEF B
  <1>2. ASSUME x % B = 0 PROVE \E n \in Int : x = n * B
    <2>1. x = ((x \div B) * B) + (x % B) /\ x \div B \in Int
      BY <1>1
    <2>2. x = (x \div B) * B
      BY <1>1, <1>2, <2>1
    <2> QED BY <2>1, <2>2, Zenon
  <1>3. ASSUME NEW n \in Int, x = n * B PROVE x % B = 0
    BY <1>1, <1>3
  <1> QED BY <1>2, <1>3, Zenon DEF B

\* Products, sums and differences of multiples, and the start of a line.
LEMMA MultipleOfLine ==
    ASSUME NEW n \in Int
    PROVE  n * BytesPerLine \in Int /\ (n * BytesPerLine) % BytesPerLine = 0
  <1>1. n * BytesPerLine \in Int
    BY BytesPerLineAssumption
  <1> QED BY <1>1, Multiples, Zenon

\* Sums and differences of multiples are multiples.
LEMMA SumOfMultiples ==
    ASSUME NEW x \in Int, NEW y \in Int, x % BytesPerLine = 0, y % BytesPerLine = 0
    PROVE  (x + y) % BytesPerLine = 0 /\ (x - y) % BytesPerLine = 0
  <1>1. PICK m \in Int : x = m * BytesPerLine
    BY Multiples, Zenon
  <1>2. PICK n \in Int : y = n * BytesPerLine
    BY Multiples, Zenon
  <1>3. x + y = (m + n) * BytesPerLine /\ x - y = (m - n) * BytesPerLine
    BY <1>1, <1>2, BytesPerLineAssumption
  <1>4. m + n \in Int /\ m - n \in Int
    OBVIOUS
  <1> QED BY <1>3, <1>4, MultipleOfLine, Zenon

\* The start of the line of a byte is a multiple.
LEMMA StartOfLine ==
    ASSUME NEW x \in Nat
    PROVE  /\ x - (x % BytesPerLine) \in Nat
           /\ (x - (x % BytesPerLine)) % BytesPerLine = 0
  <1> DEFINE B == BytesPerLine
  <1>1. B \in Nat /\ B > 0
    BY BytesPerLineAssumption
  <1> HIDE DEF B
  <1>2. x - (x % B) = (x \div B) * B /\ x \div B \in Nat /\ (x \div B) * B \in Nat
    BY <1>1
  <1> QED BY <1>2, MultipleOfLine DEF B

\* The count of lines scrolling works with.
LEMMA LinesNat ==
    ASSUME NEW n \in Nat
    PROVE  Lines(n) \in Nat
  <1> DEFINE B == BytesPerLine
  <1>1. B \in Nat /\ B > 0
    BY BytesPerLineAssumption
  <1> HIDE DEF B
  <1>2. (n + B - 1) \div B \in Nat
    BY <1>1
  <1> QED BY <1>2, Zenon DEF Lines, B

-----------------------------------------------------------------------------
(* Data and files.                                                         *)

\* Every path has a file of some length, the scratch buffer's being 0.
LEMMA FileLenNat ==
    ASSUME NEW path \in Paths
    PROVE  FileLen(path) \in Nat
  BY ViewAssumption, Zenon DEF Paths, FileLen

\* A piece of a file has the length that was read.
LEMMA Piece ==
    ASSUME NEW n \in Nat, NEW at \in Nat
    PROVE  LET piece == [x \in 1 .. n |-> at + x - 1]
           IN  piece \in Seq(Nat \cup {Typed}) /\ Len(piece) = n
  <1> DEFINE piece == [x \in 1 .. n |-> at + x - 1]
  <1>1. \A x \in 1 .. n : at + x - 1 \in Nat \cup {Typed}
    OBVIOUS
  <1>2. piece \in Seq(Nat \cup {Typed})
    BY <1>1, IsASeq
  <1>3. Len(piece) = n
    BY <1>2, LenProperties
  <1> QED BY <1>2, <1>3, Zenon

\* Data cut to a part of itself.
LEMMA PartOfData ==
    ASSUME NEW S, NEW data \in Seq(S), NEW m \in Nat, NEW n \in Nat, n <= Len(data), m > 0
    PROVE  /\ SubSeq(data, m, n) \in Seq(S)
           /\ Len(SubSeq(data, m, n)) = IF m <= n THEN n - m + 1 ELSE 0
  <1>1. Len(data) \in Nat /\ data \in [1 .. Len(data) -> S]
    BY LenProperties, Zenon
  <1>2. \A x \in m .. n : data[x] \in S
    BY <1>1
  <1> QED BY <1>2, SubSeqProperties

\* The chunk that scrolling loads is a number of whole lines.
LEMMA ChunkNat ==
    ASSUME term \in Heights
    PROVE  Chunk \in Nat /\ Chunk % BytesPerLine = 0
  <1>1. term - 1 \in Nat
    BY ViewAssumption
  <1>2. (term - 1) * BytesPerLine \in Nat
    BY <1>1, BytesPerLineAssumption
  <1> QED BY <1>1, <1>2, MultipleOfLine DEF Chunk

\* The screen has a line besides the status line.
LEMMA HeightNat ==
    ASSUME NEW height \in Heights
    PROVE  height \in Nat /\ height - 1 \in Nat
  BY ViewAssumption

\* The screen shows whole lines.
LEMMA ScreenMultiple ==
    ASSUME NEW v \in ViewRecord
    PROVE  Screen(v) \in Nat /\ Screen(v) % BytesPerLine = 0
  <1> v.height \in Heights
    BY Zenon DEF ViewRecord
  <1>1. v.height - 1 \in Nat
    BY HeightNat, Zenon
  <1>2. (v.height - 1) * BytesPerLine \in Nat
    BY <1>1, BytesPerLineAssumption
  <1> QED BY <1>1, <1>2, MultipleOfLine DEF Screen

\* load_next_chunk never reads past the end of the file.
LEMMA LoadSound ==
    ASSUME NEW v, NEW typed \in Nat, NEW chunk_size \in Nat, Sound(v, typed, file)
    PROVE  /\ Sound(LoadNextChunk(v, chunk_size), typed, file)
           /\ LoadNextChunk(v, chunk_size).start_offset = v.start_offset
           /\ LoadNextChunk(v, chunk_size).height = v.height
  <1> DEFINE at == Len(v.data)
             read == Larger(0, Smaller(chunk_size, FileLen(v.path) - at))
             piece == [x \in 1 .. read |-> at + x - 1]
             loaded == [v EXCEPT !.data = @ \o piece]
             failed == [v EXCEPT !.status = "exited"]
  <1>1. v \in ViewRecord /\ v.path \in Paths /\ v.data \in Seq(Nat \cup {Typed})
    BY Zenon DEF Sound, ViewRecord
  <1>2. at \in Nat /\ FileLen(v.path) \in Nat /\ at <= FileLen(v.path) + typed
    BY <1>1, FileLenNat, LenProperties, Zenon DEF Sound
  <1>3. read \in Nat /\ at + read <= FileLen(v.path) + typed
    BY <1>2 DEF Larger, Smaller
  <1>4. piece \in Seq(Nat \cup {Typed}) /\ Len(piece) = read
    BY <1>2, <1>3, Piece, Zenon
  <1>5. v.data \o piece \in Seq(Nat \cup {Typed}) /\ Len(v.data \o piece) = at + read
    <2> HIDE DEF piece, read
    <2> QED BY <1>1, <1>4, ConcatProperties, Zenon
  <1> HIDE DEF piece, read
  <1>6. Sound(loaded, typed, file) /\ loaded.start_offset = v.start_offset /\ loaded.height = v.height
    BY <1>1, <1>3, <1>5, Zenon DEF Sound, ViewRecord
  <1>7. file = "gone" => /\ Sound(failed, typed, file)
                         /\ failed.start_offset = v.start_offset /\ failed.height = v.height
    BY <1>1, Zenon DEF Sound, ViewRecord
  <1>8. LoadNextChunk(v, chunk_size) = IF v.path # Scratch /\ file = "gone" THEN failed ELSE loaded
    BY Zenon DEF LoadNextChunk, piece, read
  <1> HIDE DEF loaded, failed
  <1> QED BY <1>6, <1>7, <1>8, Zenon

\* trim_buffer_top takes whole lines off the front.
LEMMA TrimSound ==
    ASSUME NEW v, NEW typed \in Nat, term \in Heights, Sound(v, typed, file)
    PROVE  Sound(TrimBufferTop(v, Chunk), typed, file)
  <1> DEFINE cut == SubSeq(v.data, Chunk + 1, Len(v.data))
             rest == Larger(0, v.start_offset - Chunk)
             trimmed == [v EXCEPT !.data = cut, !.start_offset = rest, !.trimmed = TRUE]
  <1>1. v \in ViewRecord /\ v.data \in Seq(Nat \cup {Typed}) /\ v.start_offset \in Nat /\ v.path \in Paths
    BY Zenon DEF Sound, ViewRecord
  <1>2. Chunk \in Nat /\ Chunk % BytesPerLine = 0 /\ Len(v.data) \in Nat /\ FileLen(v.path) \in Nat
    BY <1>1, ChunkNat, LenProperties, FileLenNat, Zenon
  <1>3. cut \in Seq(Nat \cup {Typed}) /\ Len(cut) <= Len(v.data)
    <2>1. /\ cut \in Seq(Nat \cup {Typed})
          /\ Len(cut) = IF Chunk + 1 <= Len(v.data) THEN Len(v.data) - (Chunk + 1) + 1 ELSE 0
      BY <1>1, <1>2, PartOfData
    <2> QED BY <1>2, <2>1
  <1>4. rest \in Nat /\ rest % BytesPerLine = 0
    <2>1. (v.start_offset - Chunk) % BytesPerLine = 0
      <3>1. v.start_offset \in Int /\ Chunk \in Int /\ v.start_offset % BytesPerLine = 0
        BY <1>1, <1>2 DEF Sound
      <3> QED BY <1>2, <3>1, SumOfMultiples, Zenon
    <2>2. 0 % BytesPerLine = 0
      BY BytesPerLineAssumption, MultipleOfLine
    <2> QED BY <1>1, <1>2, <2>1, <2>2 DEF Larger
  <1> HIDE DEF cut, rest
  <1>5. Sound(trimmed, typed, file)
    <2>1. trimmed \in ViewRecord /\ trimmed.start_offset = rest /\ trimmed.data = cut
      BY <1>1, <1>3, <1>4, Zenon DEF ViewRecord
    <2>2. trimmed.path = v.path /\ trimmed.status = v.status /\ trimmed.height = v.height
      BY <1>1, Zenon DEF ViewRecord
    <2>3. Len(cut) <= FileLen(v.path) + typed
      BY <1>2, <1>3, LenProperties DEF Sound
    <2> QED BY <1>4, <2>1, <2>2, <2>3, Zenon DEF Sound
  <1>6. TrimBufferTop(v, Chunk) = v \/ TrimBufferTop(v, Chunk) = trimmed
    BY Zenon DEF TrimBufferTop, cut, rest
  <1> QED BY <1>5, <1>6, Zenon

-----------------------------------------------------------------------------
(* Drawing and scrolling.                                                  *)

\* A view that starts at another line.
LEMMA OffsetSound ==
    ASSUME NEW v, NEW typed \in Nat, Sound(v, typed, file),
           NEW offset \in Nat, offset % BytesPerLine = 0
    PROVE  Sound([v EXCEPT !.start_offset = offset], typed, file)
  <1>1. v \in ViewRecord
    BY Zenon DEF Sound
  <1>2. LET w == [v EXCEPT !.start_offset = offset]
        IN  /\ w \in ViewRecord /\ w.start_offset = offset /\ w.data = v.data
            /\ w.path = v.path /\ w.status = v.status /\ w.height = v.height
    BY <1>1, Zenon DEF ViewRecord
  <1> QED BY <1>2, Zenon DEF Sound

\* Drawing loads, and can stop the program.
LEMMA PaintedSound ==
    ASSUME NEW v, NEW typed \in Nat, Sound(v, typed, file)
    PROVE  Sound(Painted(v), typed, file)
  <1> DEFINE Stopping(status) == [v EXCEPT !.status = status]
  <1>1. v \in ViewRecord /\ v.height \in Heights
    BY Zenon DEF Sound, ViewRecord
  <1>2. ASSUME NEW status \in {"ok", "panicked", "hung"}, status = "hung" => v.height < PropertyRows
        PROVE  Sound(Stopping(status), typed, file)
    <2>1. LET w == Stopping(status)
          IN  /\ w \in ViewRecord /\ w.start_offset = v.start_offset /\ w.data = v.data
              /\ w.path = v.path /\ w.status = status /\ w.height = v.height
      BY <1>1, Zenon DEF ViewRecord
    <2> QED BY <1>2, <2>1, Zenon DEF Sound
  <1>3. \/ Painted(v) = v
        \/ Painted(v) = Stopping("panicked")
        \/ v.height < PropertyRows /\ Painted(v) = Stopping("hung")
        \/ Painted(v) = Stopping("ok")
    BY Zenon DEF Painted
  <1> HIDE DEF Stopping
  <1> QED BY <1>2, <1>3, Zenon

\* draw and draw_rows, with what they load.
LEMMA DrawSound ==
    ASSUME NEW v, NEW typed \in Nat, Sound(v, typed, file)
    PROVE  Sound(Draw(v), typed, file) /\ Sound(DrawRows(v), typed, file)
  <1>1. Sound(EnsureVisibleData(v), typed, file)
    BY LoadSound, ViewAssumption, Zenon DEF EnsureVisibleData
  <1>2. Sound(Painted(EnsureVisibleData(v)), typed, file)
    BY <1>1, PaintedSound, Zenon
  <1> QED BY <1>2, Zenon DEF Draw, DrawRows

\* scroll_down, with what it loads, trims and draws.
LEMMA ScrollDownSound ==
    ASSUME NEW v, NEW typed \in Nat, NEW line_count \in Nat, term \in Heights, Sound(v, typed, file)
    PROVE  Sound(ScrollDown(v, line_count), typed, file)
  <1> DEFINE next_position == v.start_offset + line_count * BytesPerLine
             next_visible_end == next_position + v.height * BytesPerLine
             tried == LoadNextChunk(v, SmallLoad)
             ready == IF next_visible_end <= Len(v.data) THEN v
                      ELSE IF Len(tried.data) > Len(v.data) /\ ShouldTrim(tried)
                      THEN TrimBufferTop(tried, Chunk)
                      ELSE tried
             scrolled == [ready EXCEPT !.start_offset = next_position]
  <1>1. Sound(tried, typed, file)
    BY LoadSound, ViewAssumption, Zenon
  <1>2. Sound(ready, typed, file)
    BY <1>1, TrimSound, Zenon
  <1>3. next_position \in Nat /\ next_position % BytesPerLine = 0
    <2>1. v.start_offset \in Nat /\ v.start_offset % BytesPerLine = 0
      BY Zenon DEF Sound, ViewRecord
    <2>2. line_count * BytesPerLine \in Nat
      BY BytesPerLineAssumption
    <2>3. (line_count * BytesPerLine) % BytesPerLine = 0
      BY MultipleOfLine
    <2>4. v.start_offset \in Int /\ line_count * BytesPerLine \in Int
      BY <2>1, <2>2
    <2>5. next_position % BytesPerLine = 0
      BY <2>1, <2>3, <2>4, SumOfMultiples, Zenon
    <2> HIDE DEF next_position
    <2>6. next_position \in Nat
      BY <2>1, <2>2 DEF next_position
    <2> QED BY <2>5, <2>6, Zenon
  <1>4. ScrollDown(v, line_count) = ready \/ ScrollDown(v, line_count) = DrawRows(scrolled)
    BY Zenon DEF ScrollDown
  <1> HIDE DEF ready, next_position
  <1>5. Sound(scrolled, typed, file)
    BY <1>2, <1>3, OffsetSound, Zenon
  <1>6. Sound(DrawRows(scrolled), typed, file)
    BY <1>5, DrawSound, Zenon
  <1> QED BY <1>2, <1>4, <1>6, Zenon

\* scroll_up stops at the first line.
LEMMA ScrollUpSound ==
    ASSUME NEW v, NEW typed \in Nat, NEW line_count \in Nat, Sound(v, typed, file)
    PROVE  Sound(ScrollUp(v, line_count), typed, file)
  <1> DEFINE back == line_count * BytesPerLine
             scrolled == [v EXCEPT !.start_offset = @ - back]
  <1>1. v.start_offset \in Nat /\ v.start_offset % BytesPerLine = 0
    BY Zenon DEF Sound, ViewRecord
  <1>2. back \in Nat /\ back % BytesPerLine = 0
    BY BytesPerLineAssumption, MultipleOfLine
  <1>3. ScrollUp(v, line_count) =
            IF ~Ok(v) \/ v.start_offset < back THEN v ELSE DrawRows(scrolled)
    BY Zenon DEF ScrollUp
  <1> HIDE DEF back
  <1>4. ASSUME v.start_offset >= back PROVE Sound(scrolled, typed, file)
    <2>1. (v.start_offset - back) % BytesPerLine = 0
      <3>1. v.start_offset \in Int /\ back \in Int
        BY <1>1, <1>2
      <3> QED BY <1>1, <1>2, <3>1, SumOfMultiples, Zenon
    <2>2. v.start_offset - back \in Nat
      BY <1>1, <1>2, <1>4
    <2> QED BY <2>1, <2>2, OffsetSound, Zenon
  <1>5. ASSUME v.start_offset >= back PROVE Sound(DrawRows(scrolled), typed, file)
    BY <1>4, <1>5, DrawSound, Zenon
  <1>6. v.start_offset < back \/ v.start_offset >= back
    BY <1>1, <1>2
  <1> HIDE DEF scrolled
  <1> QED BY <1>3, <1>5, <1>6, Zenon

\* visible_bytes has an end.
LEMMA VisibleEndNat ==
    ASSUME NEW v \in ViewRecord
    PROVE  VisibleEnd(v) \in Nat
  <1>1. v.data \in Seq(Nat \cup {Typed}) /\ v.start_offset \in Nat
    BY Zenon DEF ViewRecord
  <1>2. Len(v.data) \in Nat /\ Screen(v) \in Nat
    BY <1>1, LenProperties, ScreenMultiple, Zenon
  <1> QED BY <1>1, <1>2 DEF VisibleEnd, Smaller

\* maybe_update_offset scrolls by whole lines, up or down.
LEMMA MaybeUpdateOffsetSound ==
    ASSUME NEW v, NEW typed \in Nat, term \in Heights, Sound(v, typed, file)
    PROVE  Sound(MaybeUpdateOffset(v), typed, file)
  <1> DEFINE caret == v.region.caret
             end == VisibleEnd(v)
  <1>1. v \in ViewRecord /\ caret \in Nat /\ v.start_offset \in Nat
    BY Zenon DEF Sound, ViewRecord, Region
  <1>2. end \in Nat
    BY <1>1, VisibleEndNat, Zenon
  <1>3. MaybeUpdateOffset(v) =
            CASE v.data = <<>> -> [v EXCEPT !.start_offset = 0]
              [] v.data # <<>> /\ caret < v.start_offset -> ScrollUp(v, Lines(v.start_offset - caret))
              [] v.data # <<>> /\ caret >= end -> ScrollDown(v, Lines(caret - (end - 1)))
              [] OTHER -> v
    BY Zenon DEF MaybeUpdateOffset
  <1> HIDE DEF caret, end
  <1>4. Sound([v EXCEPT !.start_offset = 0], typed, file)
    <2>1. 0 \in Nat /\ 0 % BytesPerLine = 0
      BY BytesPerLineAssumption
    <2> QED BY <2>1, OffsetSound, Zenon
  <1>5. ASSUME caret < v.start_offset
        PROVE  Sound(ScrollUp(v, Lines(v.start_offset - caret)), typed, file)
    <2>1. v.start_offset - caret \in Nat
      BY <1>1, <1>5
    <2> QED BY <2>1, LinesNat, ScrollUpSound, Zenon
  <1>6. ASSUME caret >= end
        PROVE  Sound(ScrollDown(v, Lines(caret - (end - 1))), typed, file)
    <2>1. caret - (end - 1) \in Nat
      BY <1>1, <1>2, <1>6
    <2> QED BY <2>1, LinesNat, ScrollDownSound, Zenon
  <1> QED
    <2>1. CASE v.data = <<>>
      BY <1>3, <1>4, <2>1, Zenon
    <2>2. CASE v.data # <<>> /\ caret < v.start_offset
      <3>1. \/ MaybeUpdateOffset(v) = ScrollUp(v, Lines(v.start_offset - caret))
            \/ caret >= end /\ MaybeUpdateOffset(v) = ScrollDown(v, Lines(caret - (end - 1)))
        BY <1>3, <2>2, Zenon
      <3> QED BY <1>5, <1>6, <2>2, <3>1, Zenon
    <2>3. CASE v.data # <<>> /\ ~(caret < v.start_offset) /\ caret >= end
      <3>1. MaybeUpdateOffset(v) = ScrollDown(v, Lines(caret - (end - 1)))
        BY <1>3, <2>3, Zenon
      <3> QED BY <1>6, <2>3, <3>1, Zenon
    <2>4. CASE v.data # <<>> /\ ~(caret < v.start_offset) /\ ~(caret >= end)
      <3>1. MaybeUpdateOffset(v) = v
        BY <1>3, <2>4, Zenon
      <3> QED BY <3>1, Zenon
    <2> QED BY <2>1, <2>2, <2>3, <2>4, Zenon

\* maybe_update_offset_and_draw goes to the start of the cursor's line, or to
\* the line that makes it the last one.
LEMMA MaybeUpdateOffsetAndDrawSound ==
    ASSUME NEW v, NEW typed \in Nat, Sound(v, typed, file)
    PROVE  Sound(MaybeUpdateOffsetAndDraw(v), typed, file)
  <1> DEFINE caret == v.region.caret
             line == caret - (caret % BytesPerLine)
             below == line + BytesPerLine - Screen(v)
             offset == IF caret < v.start_offset THEN line
                       ELSE IF caret >= VisibleEnd(v) THEN Larger(0, below)
                       ELSE v.start_offset
  <1>1. /\ v \in ViewRecord /\ caret \in Nat /\ v.start_offset \in Nat
        /\ v.start_offset % BytesPerLine = 0
    BY Zenon DEF Sound, ViewRecord, Region
  <1>2. MaybeUpdateOffsetAndDraw(v) = Draw([v EXCEPT !.start_offset = offset])
    BY Zenon DEF MaybeUpdateOffsetAndDraw
  <1>3. line \in Nat /\ line % BytesPerLine = 0
    BY <1>1, StartOfLine, Zenon
  <1> HIDE DEF line
  <1>4. below \in Int /\ below % BytesPerLine = 0
    <2>1. Screen(v) \in Int /\ Screen(v) % BytesPerLine = 0
      BY <1>1, ScreenMultiple
    <2>2. BytesPerLine \in Int /\ BytesPerLine % BytesPerLine = 0
      BY BytesPerLineAssumption
    <2>3. line \in Int /\ BytesPerLine - Screen(v) \in Int
      BY <1>3, <2>1, <2>2
    <2>4. (BytesPerLine - Screen(v)) % BytesPerLine = 0
      BY <2>1, <2>2, SumOfMultiples, Zenon
    <2>5. below % BytesPerLine = 0
      BY <1>3, <2>3, <2>4, SumOfMultiples, Zenon
    <2>6. below \in Int
      BY <2>3
    <2> QED BY <2>5, <2>6, Zenon
  <1> HIDE DEF below
  <1>5. offset \in Nat /\ offset % BytesPerLine = 0
    <2>1. 0 % BytesPerLine = 0
      BY BytesPerLineAssumption
    <2> QED BY <1>1, <1>3, <1>4, <2>1 DEF Larger
  <1> HIDE DEF offset
  <1>6. Sound([v EXCEPT !.start_offset = offset], typed, file)
    BY <1>5, OffsetSound, Zenon
  <1> QED BY <1>2, <1>6, DrawSound, Zenon

\* A view with another region.
LEMMA RegionSound ==
    ASSUME NEW v, NEW typed \in Nat, Sound(v, typed, file), NEW region \in Region
    PROVE  Sound([v EXCEPT !.region = region], typed, file)
  <1>1. v \in ViewRecord
    BY Zenon DEF Sound
  <1>2. LET w == [v EXCEPT !.region = region]
        IN  /\ w \in ViewRecord /\ w.start_offset = v.start_offset /\ w.data = v.data
            /\ w.path = v.path /\ w.status = v.status /\ w.height = v.height
    BY <1>1, Zenon DEF ViewRecord
  <1> QED BY <1>2, Zenon DEF Sound

\* The cursor after a move up or down is a region again.
LEMMA SimpleMoveRegion ==
    ASSUME NEW r \in Region, NEW direction \in {"Up", "Down"}, NEW max_size \in Nat
    PROVE  SimpleMove(r, direction, max_size, 1) \in Region
  <1> DEFINE caret == SteppedCaret(r.caret, direction, max_size, 1)
  <1>1. r.caret \in Nat
    BY Zenon DEF Region
  <1>2. BytesPerLine * 1 = BytesPerLine /\ BytesPerLine \in Nat
    BY BytesPerLineAssumption
  <1>3. caret \in Nat
    BY <1>1, <1>2 DEF SteppedCaret, Larger, Smaller
  <1> HIDE DEF caret
  <1>4. SelRegion(caret, caret) \in Region
    BY <1>3, Zenon DEF SelRegion, Region
  <1>5. SimpleMove(r, direction, max_size, 1) = IF max_size = 0 THEN r ELSE SelRegion(caret, caret)
    BY Zenon DEF SimpleMove, caret
  <1> QED BY <1>4, <1>5, Zenon

-----------------------------------------------------------------------------
(* The initial state and the events.                                       *)

\* Data read from the beginning of a file.
LEMMA LoadedData ==
    ASSUME NEW size \in Nat
    PROVE  Loaded(size) \in Seq(Nat \cup {Typed}) /\ Len(Loaded(size)) = size
  <1>1. \A x \in 1 .. size : x - 1 \in Nat \cup {Typed}
    OBVIOUS
  <1>2. Loaded(size) \in Seq(Nat \cup {Typed})
    BY <1>1, IsASeq DEF Loaded
  <1>3. Len(Loaded(size)) = size
    BY <1>2, LenProperties DEF Loaded
  <1> QED BY <1>2, <1>3, Zenon

\* What main starts with is sound.
LEMMA FirstSound ==
    ASSUME Init
    PROVE  Sound(FirstView(term), 0, file)
  <1> DEFINE screen == (term - 1) * BytesPerLine
             size == Smaller(FileLen("first"), screen)
  <1>1. term \in Heights /\ file = "there"
    BY Zenon DEF Init
  <1>2. "first" \in Paths /\ FileLen("first") \in Nat
    BY ViewAssumption, FileLenNat, Zenon DEF Paths
  <1>3. screen \in Nat
    <2>1. term - 1 \in Nat
      BY <1>1, HeightNat, Zenon
    <2> QED BY <2>1, BytesPerLineAssumption
  <1> HIDE DEF screen
  <1>4. size \in Nat /\ size <= FileLen("first")
    BY <1>2, <1>3 DEF Smaller
  <1>5. FirstView(term) = [path |-> "first", data |-> Loaded(size), region |-> SelRegion(0, 0),
                           trimmed |-> FALSE, start_offset |-> 0, height |-> term, status |-> "ok"]
    BY Zenon DEF FirstView, screen
  <1> HIDE DEF size
  <1>6. Loaded(size) \in Seq(Nat \cup {Typed}) /\ Len(Loaded(size)) = size
    BY <1>4, LoadedData, Zenon
  <1>7. SelRegion(0, 0) \in Region
    BY Zenon DEF SelRegion, Region
  <1>8. 0 % BytesPerLine = 0
    BY BytesPerLineAssumption
  <1>9. FirstView(term) \in ViewRecord
    BY <1>1, <1>2, <1>5, <1>6, <1>7 DEF ViewRecord
  <1>10. /\ FirstView(term).path = "first" /\ FirstView(term).data = Loaded(size)
         /\ FirstView(term).start_offset = 0 /\ FirstView(term).status = "ok"
    BY <1>5
  <1>11. Len(Loaded(size)) <= FileLen("first") + 0
    BY <1>2, <1>4, <1>6
  <1> QED BY <1>8, <1>9, <1>10, <1>11, Zenon DEF Sound

\* run_event_loop draws it.
LEMMA InitSound ==
    Init => ViewInv
  <1> SUFFICES ASSUME Init PROVE ViewInv
    BY Zenon
  <1>1. term \in Heights /\ file = "there" /\ edits = 0 /\ unsettled = FALSE /\ parked = <<>>
    BY Zenon DEF Init
  <1>2. Sound(Draw(FirstView(term)), 0, file)
    BY FirstSound, DrawSound, Zenon
  <1>3. Sound(view, edits, file)
    BY <1>1, <1>2, Zenon DEF Init
  <1>4. edits \in Nat /\ file \in {"there", "gone"} /\ unsettled \in BOOLEAN
    BY <1>1, Zenon
  <1> QED BY <1>1, <1>3, <1>4, Zenon DEF ViewInv

\* An event that replaces the view by a sound one, and leaves the rest alone.
LEMMA ViewStep ==
    ASSUME ViewInv, Sound(view', edits, file), unsettled' \in BOOLEAN,
           UNCHANGED <<parked, term, file, edits>>
    PROVE  ViewInv'
  BY Zenon DEF ViewInv

\* Every selection a mode can answer with is a region.
LEMMA SelectableRegion ==
    ASSUME NEW len \in Nat, NEW region \in Selectable(len)
    PROVE  region \in Region
  <1>1. 0 .. len + Beyond \subseteq Nat
    BY ViewAssumption
  <1>2. \A caret, tail \in Nat : SelRegion(caret, tail) \in Region
    BY Zenon DEF SelRegion, Region
  <1>3. PICK caret \in 0 .. len + Beyond, tail \in Nat : region = SelRegion(caret, tail)
    BY <1>1 DEF Selectable
  <1> QED BY <1>1, <1>2, <1>3, Zenon

\* A mode answers ChangeInPlace.
LEMMA ChangeInPlaceStep ==
    ASSUME ViewInv, NEW region \in Selectable(Len(view.data)), ChangeInPlace(region)
    PROVE  ViewInv'
  <1>1. Sound(view, edits, file) /\ edits \in Nat /\ term \in Heights
    BY Zenon DEF ViewInv
  <1>2. Len(view.data) \in Nat
    BY <1>1, LenProperties, Zenon DEF Sound, ViewRecord
  <1>3. region \in Region
    BY <1>2, SelectableRegion, Zenon
  <1>4. Sound([view EXCEPT !.region = region], edits, file)
    BY <1>1, <1>3, RegionSound, Zenon
  <1>5. Sound(DrawRows(MaybeUpdateOffset([view EXCEPT !.region = region])), edits, file)
    BY <1>1, <1>4, MaybeUpdateOffsetSound, DrawSound, Zenon
  <1>6. Sound(view', edits, file)
    BY <1>5, Zenon DEF ChangeInPlace
  <1>7. unsettled' \in BOOLEAN
    BY DEF ChangeInPlace
  <1> QED BY <1>6, <1>7, ViewStep, Zenon DEF ChangeInPlace

\* An edit makes the data at most one byte longer.
LEMMA EditedSound ==
    ASSUME ViewInv, NEW data \in Seq(Nat \cup {Typed}), NEW region \in Region,
           Len(data) <= Len(view.data) + 1
    PROVE  Sound([view EXCEPT !.data = data, !.region = region], edits + 1, file)
  <1> DEFINE w == [view EXCEPT !.data = data, !.region = region]
  <1>1. /\ Sound(view, edits, file) /\ edits \in Nat /\ term \in Heights
        /\ file \in {"there", "gone"}
    BY Zenon DEF ViewInv
  <1>2. view \in ViewRecord /\ view.path \in Paths
    BY <1>1, Zenon DEF Sound, ViewRecord
  <1>3. /\ w \in ViewRecord /\ w.start_offset = view.start_offset /\ w.data = data
        /\ w.path = view.path /\ w.status = view.status /\ w.height = view.height
    BY <1>2, Zenon DEF ViewRecord
  <1>4. Len(data) <= FileLen(view.path) + (edits + 1)
    <2>1. Len(data) \in Nat /\ Len(view.data) \in Nat /\ FileLen(view.path) \in Nat
      BY <1>2, LenProperties, FileLenNat, Zenon DEF ViewRecord
    <2>2. Len(view.data) <= FileLen(view.path) + edits
      BY <1>1, Zenon DEF Sound
    <2> QED BY <1>1, <2>1, <2>2
  <1>5. Sound(w, edits + 1, file)
    <2> HIDE DEF w
    <2> QED BY <1>1, <1>3, <1>4, Zenon DEF Sound
  <1> QED BY <1>5, Zenon

\* ChangeLength lets the screen follow and draws.
LEMMA ChangeLengthStep ==
    ASSUME ViewInv, NEW data \in Seq(Nat \cup {Typed}), NEW region \in Region,
           Len(data) <= Len(view.data) + 1, ChangeLength(data, region)
    PROVE  ViewInv'
  <1> DEFINE w == [view EXCEPT !.data = data, !.region = region]
  <1>1. edits \in Nat /\ term \in Heights /\ file \in {"there", "gone"}
    BY Zenon DEF ViewInv
  <1>5. Sound(w, edits + 1, file)
    BY EditedSound, Zenon
  <1> HIDE DEF w
  <1>6. Sound(MaybeUpdateOffsetAndDraw(w), edits + 1, file)
    BY <1>1, <1>5, MaybeUpdateOffsetAndDrawSound
  <1>7. /\ view' = MaybeUpdateOffsetAndDraw(w) /\ edits' = edits + 1 /\ unsettled' = FALSE
        /\ UNCHANGED <<parked, term, file>>
    BY Zenon DEF ChangeLength, w
  <1>8. parked # <<>> => /\ parked[1] \in BufferRecord
                         /\ Len(parked[1].data) <= FileLen(parked[1].path) + (edits + 1)
    <2> SUFFICES ASSUME parked # <<>>
                 PROVE  /\ parked[1] \in BufferRecord
                        /\ Len(parked[1].data) <= FileLen(parked[1].path) + (edits + 1)
      BY Zenon
    <2>1. parked[1] \in BufferRecord /\ Len(parked[1].data) <= FileLen(parked[1].path) + edits
      BY Zenon DEF ViewInv
    <2>2. parked[1].data \in Seq(Nat \cup {Typed}) /\ parked[1].path \in Paths
      BY <2>1, Zenon DEF BufferRecord
    <2>3. Len(parked[1].data) \in Nat /\ FileLen(parked[1].path) \in Nat
      BY <2>2, LenProperties, FileLenNat, Zenon
    <2> QED BY <1>1, <2>1, <2>3
  <1>9. Sound(view', edits', file')
    BY <1>6, <1>7, Zenon
  <1>10. (/\ term \in Heights /\ file \in {"there", "gone"}
          /\ edits \in Nat /\ unsettled \in BOOLEAN)'
    <2>1. (/\ term \in Heights /\ file \in {"there", "gone"} /\ edits \in Nat)'
      BY <1>1, <1>7
    <2>2. (unsettled \in BOOLEAN)'
      BY <1>7, Zenon
    <2> QED BY <2>1, <2>2, Zenon
  <1>11. (parked # <<>> => /\ parked[1] \in BufferRecord
                          /\ Len(parked[1].data) <= FileLen(parked[1].path) + edits)'
    <2>1. parked' = parked /\ edits' = edits + 1
      BY <1>7, Zenon
    <2> QED BY <1>8, <2>1, Zenon DEF BufferRecord, FileLen
  <1> QED BY <1>9, <1>10, <1>11, Zenon DEF ViewInv

\* A typed byte makes the data one longer, and the caret goes behind it.
LEMMA TypeByteEdit ==
    ASSUME ViewInv, TypeByte
    PROVE  \E data \in Seq(Nat \cup {Typed}), region \in Region :
              /\ Len(data) <= Len(view.data) + 1 /\ region.caret <= Len(data)
              /\ ChangeLength(data, region)
  <1> DEFINE at == view.region.caret
             Moved(x) == IF x >= at THEN x + 1 ELSE x
             before == SubSeq(view.data, 1, at)
             after == SubSeq(view.data, at + 1, Len(view.data))
             upTo == before \o <<Typed>>
             data == upTo \o after
             region == SelRegion(Moved(at), Moved(view.region.tail))
  <1>1. view \in ViewRecord /\ view.data \in Seq(Nat \cup {Typed}) /\ view.region \in Region
    BY Zenon DEF ViewInv, Sound, ViewRecord
  <1>2. at \in Nat /\ view.region.tail \in Nat /\ Len(view.data) \in Nat
    BY <1>1, LenProperties, Zenon DEF Region
  <1>3. at <= Len(view.data)
    BY <1>2 DEF TypeByte, MaxByte, Larger
  <1>4. region \in Region
    <2>1. Moved(at) \in Nat /\ Moved(view.region.tail) \in Nat
      BY <1>2
    <2> HIDE DEF Moved
    <2> QED BY <2>1, Zenon DEF SelRegion, Region
  <1>5. ChangeLength(data, region)
    BY Zenon DEF TypeByte
  <1> HIDE DEF at
  <1>6. data \in Seq(Nat \cup {Typed}) /\ Len(data) = Len(view.data) + 1
    <2>1. /\ before \in Seq(Nat \cup {Typed})
          /\ Len(before) = IF 1 <= at THEN at - 1 + 1 ELSE 0
      BY <1>1, <1>2, <1>3, PartOfData
    <2>2. /\ after \in Seq(Nat \cup {Typed})
          /\ Len(after) = IF at + 1 <= Len(view.data) THEN Len(view.data) - (at + 1) + 1 ELSE 0
      BY <1>1, <1>2, <1>3, PartOfData
    <2> HIDE DEF before, after
    <2>3. <<Typed>> \in Seq(Nat \cup {Typed}) /\ Len(<<Typed>>) = 1
      OBVIOUS
    <2>4. upTo \in Seq(Nat \cup {Typed}) /\ Len(upTo) = Len(before) + 1
      BY <2>1, <2>3, ConcatProperties, Zenon
    <2> HIDE DEF upTo
    <2>5. data \in Seq(Nat \cup {Typed}) /\ Len(data) = Len(upTo) + Len(after)
      BY <2>2, <2>4, ConcatProperties, Zenon
    <2> HIDE DEF data
    <2>6. Len(before) = at /\ Len(after) = Len(view.data) - at
      BY <1>2, <1>3, <2>1, <2>2
    <2>7. Len(upTo) = at + 1
      BY <2>4, <2>6, Zenon
    <2>8. Len(data) = (at + 1) + (Len(view.data) - at)
      BY <2>5, <2>6, <2>7, Zenon
    <2>9. \A a, b \in Nat : (a + 1) + (b - a) = b + 1
      OBVIOUS
    <2>10. Len(data) = Len(view.data) + 1
      BY <1>2, <2>8, <2>9, Zenon
    <2> QED BY <2>5, <2>10, Zenon
  <1>7. region.caret = at + 1
    BY <1>2 DEF SelRegion
  <1> HIDE DEF data, region
  <1>8. Len(data) <= Len(view.data) + 1 /\ region.caret <= Len(data)
    BY <1>2, <1>3, <1>6, <1>7
  <1> QED BY <1>4, <1>5, <1>6, <1>8, Zenon

\* d makes the data shorter, and the caret goes where the region was.
LEMMA DeleteRegionEdit ==
    ASSUME ViewInv, DeleteRegion
    PROVE  \E data \in Seq(Nat \cup {Typed}), region \in Region :
              /\ Len(data) <= Len(view.data) + 1 /\ region.caret <= Len(data)
              /\ ChangeLength(data, region)
  <1> DEFINE from == MinByte(view.region)
             to == MaxByte(view.region)
             before == SubSeq(view.data, 1, from)
             after == SubSeq(view.data, to + 2, Len(view.data))
             data == before \o after
             region == SelRegion(from, from)
  <1>1. view \in ViewRecord /\ view.data \in Seq(Nat \cup {Typed}) /\ view.region \in Region
    BY Zenon DEF ViewInv, Sound, ViewRecord
  <1>2. from \in Nat /\ to \in Nat /\ from <= to /\ Len(view.data) \in Nat
    BY <1>1, LenProperties DEF Region, MinByte, MaxByte, Larger, Smaller
  <1>3. to < Len(view.data) /\ ChangeLength(data, region)
    BY Zenon DEF DeleteRegion
  <1> HIDE DEF from, to
  <1>4. region \in Region
    BY <1>2, Zenon DEF SelRegion, Region
  <1>5. data \in Seq(Nat \cup {Typed}) /\ Len(data) <= Len(view.data) + 1 /\ from <= Len(data)
    <2>1. /\ before \in Seq(Nat \cup {Typed})
          /\ Len(before) = IF 1 <= from THEN from - 1 + 1 ELSE 0
      BY <1>1, <1>2, <1>3, PartOfData
    <2>2. /\ after \in Seq(Nat \cup {Typed})
          /\ Len(after) = IF to + 2 <= Len(view.data) THEN Len(view.data) - (to + 2) + 1 ELSE 0
      BY <1>1, <1>2, <1>3, PartOfData
    <2> HIDE DEF before, after
    <2>3. data \in Seq(Nat \cup {Typed}) /\ Len(data) = Len(before) + Len(after)
      BY <2>1, <2>2, ConcatProperties, Zenon
    <2> HIDE DEF data
    <2>4. Len(before) = from /\ Len(after) \in Nat /\ Len(after) <= Len(view.data) - to
      BY <1>2, <1>3, <2>1, <2>2
    <2> QED BY <1>2, <2>3, <2>4
  <1>6. region.caret = from
    BY Zenon DEF SelRegion
  <1> HIDE DEF data, region
  <1>7. region.caret <= Len(data)
    BY <1>5, <1>6, Zenon
  <1> QED BY <1>3, <1>4, <1>5, <1>7, Zenon

\* Both edits.
LEMMA EditStep ==
    ASSUME ViewInv, TypeByte \/ DeleteRegion
    PROVE  ViewInv'
  BY TypeByteEdit, DeleteRegionEdit, ChangeLengthStep, Zenon

\* The buffer that becomes current brings its own path and data.
LEMMA SwitchedSound ==
    ASSUME ViewInv, NEW buf \in BufferRecord,
           Len(buf.data) <= FileLen(buf.path) + edits
    PROVE  Sound([view EXCEPT !.path = buf.path, !.data = buf.data,
                              !.region = buf.region, !.trimmed = buf.trimmed], edits, file)
  <1> DEFINE w == [view EXCEPT !.path = buf.path, !.data = buf.data,
                               !.region = buf.region, !.trimmed = buf.trimmed]
  <1>1. Sound(view, edits, file) /\ edits \in Nat /\ view \in ViewRecord
    BY Zenon DEF ViewInv, Sound
  <1>2. /\ buf.path \in Paths /\ buf.data \in Seq(Nat \cup {Typed})
        /\ buf.region \in Region /\ buf.trimmed \in BOOLEAN
    BY Zenon DEF BufferRecord
  <1>3. /\ w \in ViewRecord /\ w.start_offset = view.start_offset /\ w.data = buf.data
        /\ w.path = buf.path /\ w.status = view.status /\ w.height = view.height
    BY <1>1, <1>2, Zenon DEF ViewRecord
  <1> HIDE DEF w
  <1>4. Sound(w, edits, file)
    BY <1>1, <1>3, Zenon DEF Sound
  <1> QED BY <1>4, Zenon DEF w

\* The switch lets the screen follow and draws.
LEMMA SwitchSound ==
    ASSUME ViewInv, NEW buf \in BufferRecord,
           Len(buf.data) <= FileLen(buf.path) + edits, Switch(buf)
    PROVE  Sound(view', edits, file)
  <1> DEFINE w == [view EXCEPT !.path = buf.path, !.data = buf.data,
                               !.region = buf.region, !.trimmed = buf.trimmed]
  <1>1. edits \in Nat
    BY Zenon DEF ViewInv
  <1>2. Sound(w, edits, file)
    BY SwitchedSound, Zenon
  <1>3. view' = MaybeUpdateOffsetAndDraw(w)
    BY Zenon DEF Switch
  <1> HIDE DEF w
  <1> QED BY <1>1, <1>2, <1>3, MaybeUpdateOffsetAndDrawSound, Zenon

\* A buffer that is opened holds its whole file.
LEMMA NewBufferSound ==
    ASSUME NEW path \in Paths, edits \in Nat
    PROVE  /\ NewBuffer(path) \in BufferRecord
           /\ Len(NewBuffer(path).data) <= FileLen(NewBuffer(path).path) + edits
  <1>1. FileLen(path) \in Nat
    BY FileLenNat, Zenon
  <1>2. Loaded(FileLen(path)) \in Seq(Nat \cup {Typed}) /\ Len(Loaded(FileLen(path))) = FileLen(path)
    BY <1>1, LoadedData, Zenon
  <1>3. SelRegion(0, 0) \in Region
    BY Zenon DEF SelRegion, Region
  <1>4. NewBuffer(path) \in BufferRecord
    BY <1>2, <1>3, Zenon DEF NewBuffer, BufferRecord
  <1>5. NewBuffer(path).data = Loaded(FileLen(path)) /\ NewBuffer(path).path = path
    BY Zenon DEF NewBuffer
  <1>6. FileLen(path) <= FileLen(path) + edits
    BY <1>1
  <1> QED BY <1>2, <1>4, <1>5, <1>6, Zenon

\* :e parks the current buffer and reads another file.
LEMMA OpenStep ==
    ASSUME ViewInv, NEW path \in DOMAIN FileLens, Open(path)
    PROVE  ViewInv'
  <1> DEFINE old == [path |-> view.path, data |-> view.data, region |-> view.region,
                     trimmed |-> view.trimmed]
  <1>1. edits \in Nat /\ path \in Paths /\ view \in ViewRecord
    BY Zenon DEF ViewInv, Sound, Paths
  <1>2. /\ NewBuffer(path) \in BufferRecord
        /\ Len(NewBuffer(path).data) <= FileLen(NewBuffer(path).path) + edits
    BY <1>1, NewBufferSound, Zenon
  <1>3. Switch(NewBuffer(path)) /\ parked' = <<old>>
    BY Zenon DEF Open
  <1>4. Sound(view', edits, file)
    BY <1>2, <1>3, SwitchSound, Zenon
  <1>5. old \in BufferRecord /\ old.data = view.data /\ old.path = view.path
    BY <1>1, Zenon DEF BufferRecord, ViewRecord
  <1> HIDE DEF old
  <1>6. Len(old.data) <= FileLen(old.path) + edits
    BY <1>5, Zenon DEF ViewInv, Sound
  <1>7. unsettled' \in BOOLEAN /\ UNCHANGED <<term, file, edits>>
    BY <1>3 DEF Switch
  <1>8. parked'[1] = old
    BY <1>3, Zenon
  <1> QED BY <1>4, <1>5, <1>6, <1>7, <1>8, Zenon DEF ViewInv, Sound, ViewRecord, BufferRecord, FileLen, Paths

\* :db! goes back to the parked buffer or to an empty one.
LEMMA DeleteCurrentStep ==
    ASSUME ViewInv, DeleteCurrent
    PROVE  ViewInv'
  <1> DEFINE buf == IF parked = <<>> THEN NewBuffer(Scratch) ELSE parked[1]
  <1>1. edits \in Nat /\ Scratch \in Paths
    BY Zenon DEF ViewInv, Paths
  <1>2. /\ NewBuffer(Scratch) \in BufferRecord
        /\ Len(NewBuffer(Scratch).data) <= FileLen(NewBuffer(Scratch).path) + edits
    BY <1>1, NewBufferSound, Zenon
  <1>3. parked # <<>> => /\ parked[1] \in BufferRecord
                         /\ Len(parked[1].data) <= FileLen(parked[1].path) + edits
    BY Zenon DEF ViewInv
  <1>4. buf \in BufferRecord /\ Len(buf.data) <= FileLen(buf.path) + edits
    BY <1>2, <1>3, Zenon
  <1>5. Switch(buf) /\ parked' = <<>>
    BY Zenon DEF DeleteCurrent
  <1> HIDE DEF buf
  <1>6. Sound(view', edits, file)
    BY <1>4, <1>5, SwitchSound, Zenon
  <1>7. unsettled' \in BOOLEAN /\ UNCHANGED <<term, file, edits>>
    BY <1>5 DEF Switch
  <1> QED BY <1>5, <1>6, <1>7, Zenon DEF ViewInv

\* Ctrl-e loads, moves and scrolls.
LEMMA CtrlEStep ==
    ASSUME ViewInv, CtrlE
    PROVE  ViewInv'
  <1> DEFINE loaded == LoadNextChunk(view, Chunk)
             region == SimpleMove(loaded.region, "Down", Len(loaded.data), 1)
             moved == [loaded EXCEPT !.region = region]
  <1>1. Sound(view, edits, file) /\ edits \in Nat /\ term \in Heights
    BY Zenon DEF ViewInv
  <1>2. Sound(loaded, edits, file)
    BY <1>1, ChunkNat, LoadSound, Zenon
  <1>3. view' = IF Ok(loaded) THEN Draw(ScrollDown(moved, 1)) ELSE loaded
    BY Zenon DEF CtrlE
  <1>4. unsettled' = unsettled /\ UNCHANGED <<parked, term, file, edits>>
    BY Zenon DEF CtrlE
  <1> HIDE DEF loaded
  <1>5. region \in Region
    <2>1. loaded.region \in Region /\ loaded.data \in Seq(Nat \cup {Typed})
      BY <1>2, Zenon DEF Sound, ViewRecord
    <2>2. Len(loaded.data) \in Nat
      BY <2>1, LenProperties, Zenon
    <2> QED BY <2>1, <2>2, SimpleMoveRegion, Zenon
  <1> HIDE DEF region
  <1>6. Sound(moved, edits, file)
    BY <1>1, <1>2, <1>5, RegionSound, Zenon
  <1> HIDE DEF moved
  <1>7. Sound(Draw(ScrollDown(moved, 1)), edits, file)
    <2>1. Sound(ScrollDown(moved, 1), edits, file)
      BY <1>1, <1>6, ScrollDownSound, Zenon
    <2> QED BY <1>1, <2>1, DrawSound, Zenon
  <1>8. Sound(view', edits, file)
    BY <1>2, <1>3, <1>7, Zenon
  <1>9. unsettled' \in BOOLEAN
    BY <1>4, Zenon DEF ViewInv
  <1> QED BY <1>4, <1>8, <1>9, ViewStep, Zenon

\* Ctrl-y moves and scrolls up.
LEMMA CtrlYStep ==
    ASSUME ViewInv, CtrlY
    PROVE  ViewInv'
  <1> DEFINE region == SimpleMove(view.region, "Up", Len(view.data), 1)
             moved == [view EXCEPT !.region = region]
  <1>1. Sound(view, edits, file) /\ edits \in Nat
    BY Zenon DEF ViewInv
  <1>2. view' = Draw(ScrollUp(moved, 1))
    BY Zenon DEF CtrlY
  <1>3. unsettled' = unsettled /\ UNCHANGED <<parked, term, file, edits>>
    BY Zenon DEF CtrlY
  <1>4. region \in Region
    <2>1. view.region \in Region /\ view.data \in Seq(Nat \cup {Typed})
      BY <1>1, Zenon DEF Sound, ViewRecord
    <2>2. Len(view.data) \in Nat
      BY <2>1, LenProperties, Zenon
    <2> QED BY <2>1, <2>2, SimpleMoveRegion, Zenon
  <1> HIDE DEF region
  <1>5. Sound(moved, edits, file)
    BY <1>1, <1>4, RegionSound, Zenon
  <1> HIDE DEF moved
  <1>6. Sound(ScrollUp(moved, 1), edits, file)
    BY <1>1, <1>5, ScrollUpSound, Zenon
  <1>7. Sound(view', edits, file)
    BY <1>1, <1>2, <1>6, DrawSound, Zenon
  <1>8. unsettled' \in BOOLEAN
    BY <1>3, Zenon DEF ViewInv
  <1> QED BY <1>3, <1>7, <1>8, ViewStep, Zenon

\* The event loop draws with the terminal's new size.
LEMMA ResizeStep ==
    ASSUME ViewInv, Resize
    PROVE  ViewInv'
  <1> DEFINE w == [view EXCEPT !.height = term]
  <1>1. Sound(view, edits, file) /\ edits \in Nat /\ term \in Heights /\ view \in ViewRecord
    BY Zenon DEF ViewInv, Sound
  <1>2. /\ w \in ViewRecord /\ w.start_offset = view.start_offset /\ w.data = view.data
        /\ w.path = view.path /\ w.status = view.status
    BY <1>1, Zenon DEF ViewRecord
  <1>3. view' = Draw(w) /\ view.status = "ok" /\ UNCHANGED <<parked, term, file, edits>>
    BY Zenon DEF Resize, Ok
  <1> HIDE DEF w
  <1>4. Sound(w, edits, file)
    BY <1>1, <1>2, <1>3, Zenon DEF Sound
  <1>5. Sound(view', edits, file)
    BY <1>1, <1>3, <1>4, DrawSound, Zenon
  <1>6. unsettled' \in BOOLEAN
    BY Zenon DEF Resize
  <1> QED BY <1>3, <1>5, <1>6, ViewStep, Zenon

\* The terminal and the file change outside of the program.
LEMMA EnvironmentStep ==
    ASSUME ViewInv, TerminalResized \/ FileRemoved
    PROVE  ViewInv'
  <1>1. CASE TerminalResized
    <2>1. term' \in Heights /\ UNCHANGED <<view, parked, file, edits, unsettled>>
      BY <1>1, Zenon DEF TerminalResized
    <2> QED BY <2>1, Zenon DEF ViewInv
  <1>2. CASE FileRemoved
    <2>1. file' = "gone" /\ UNCHANGED <<view, parked, term, edits, unsettled>>
      BY <1>2, Zenon DEF FileRemoved
    <2>2. Sound(view, edits, "gone")
      BY Zenon DEF ViewInv, Sound
    <2> QED BY <2>1, <2>2, Zenon DEF ViewInv
  <1> QED BY <1>1, <1>2, Zenon

\* Every event keeps the invariant.
LEMMA NextStep ==
    ViewInv /\ [Next]_vars => ViewInv'
  <1> SUFFICES ASSUME ViewInv, [Next]_vars PROVE ViewInv'
    BY Zenon
  <1>1. CASE \E region \in Selectable(Len(view.data)) : ChangeInPlace(region)
    BY <1>1, ChangeInPlaceStep, Zenon
  <1>2. CASE TypeByte \/ DeleteRegion
    BY <1>2, EditStep, Zenon
  <1>3. CASE \E path \in DOMAIN FileLens : Open(path)
    BY <1>3, OpenStep, Zenon
  <1>4. CASE DeleteCurrent
    BY <1>4, DeleteCurrentStep, Zenon
  <1>5. CASE CtrlE
    BY <1>5, CtrlEStep, Zenon
  <1>6. CASE CtrlY
    BY <1>6, CtrlYStep, Zenon
  <1>7. CASE Resize
    BY <1>7, ResizeStep, Zenon
  <1>8. CASE TerminalResized \/ FileRemoved
    BY <1>8, EnvironmentStep, Zenon
  <1>9. CASE Stopped \/ UNCHANGED vars
    BY <1>9, Zenon DEF Stopped, vars, ViewInv
  <1> QED BY <1>1, <1>2, <1>3, <1>4, <1>5, <1>6, <1>7, <1>8, <1>9, Zenon DEF Next

-----------------------------------------------------------------------------
(* What is loaded, and where the cursor is on the screen.                  *)

\* w shows the same buffer at the same cursor as v, and what was loaded since
\* continues the data, unless it was trimmed.
Follows(v, w) ==
    /\ w.path = v.path /\ w.region = v.region /\ w.height = v.height
    /\ ~w.trimmed => /\ ~v.trimmed
                     /\ Len(v.data) <= Len(w.data)
                     /\ Beginning(v.data) => Beginning(w.data)

\* Nothing has gone wrong yet in drawing the cursor.
Shown(v) == ~v.trimmed => v.status # "panicked" /\ (Ok(v) => OnScreen(v))

\* The types of what the cursor's place depends on.
LEMMA WindowTypes ==
    ASSUME NEW v \in ViewRecord
    PROVE  /\ v.region \in Region /\ v.region.caret \in Nat /\ v.region.tail \in Nat
           /\ v.start_offset \in Nat /\ v.height \in Heights /\ v.trimmed \in BOOLEAN
           /\ v.path \in Paths /\ FileLen(v.path) \in Nat
           /\ v.data \in Seq(Nat \cup {Typed}) /\ Len(v.data) \in Nat
           /\ Screen(v) \in Nat
  <1>1. /\ v.region \in Region /\ v.start_offset \in Nat /\ v.trimmed \in BOOLEAN
        /\ v.path \in Paths /\ v.data \in Seq(Nat \cup {Typed}) /\ v.height \in Heights
    BY Zenon DEF ViewRecord
  <1>2. v.region.caret \in Nat /\ v.region.tail \in Nat
    BY <1>1, Zenon DEF Region
  <1>3. Len(v.data) \in Nat /\ FileLen(v.path) \in Nat /\ Screen(v) \in Nat
    BY <1>1, LenProperties, FileLenNat, ScreenMultiple, Zenon
  <1> QED BY <1>1, <1>2, <1>3, Zenon

\* A screen has room for a line of data, and for two of them where the
\* property lines fit.
LEMMA ScreenLines ==
    ASSUME NEW v \in ViewRecord
    PROVE  /\ Screen(v) >= BytesPerLine
           /\ v.height >= PropertyRows => Screen(v) >= 2 * BytesPerLine
  <1> DEFINE B == BytesPerLine
             h == v.height
  <1>1. B \in Nat /\ h \in Nat /\ h - 2 \in Nat /\ PropertyRows \in Nat /\ PropertyRows >= 3
    <2>1. h \in Heights
      BY WindowTypes, Zenon
    <2> HIDE DEF h
    <2>2. B \in Nat /\ h \in Nat \ {0, 1} /\ PropertyRows \in Nat \ {0, 1, 2}
      BY <2>1, BytesPerLineAssumption, ViewAssumption
    <2> QED BY <2>2
  <1>2. Screen(v) = (h - 1) * B
    BY Zenon DEF Screen
  <1> HIDE DEF B, h
  <1>3. (h - 1) * B = B + (h - 2) * B /\ (h - 2) * B \in Nat
    BY <1>1
  <1>4. (h - 1) * B = 2 * B + (h - 3) * B
    BY <1>1
  <1>5. h >= PropertyRows => (h - 3) * B \in Nat
    <2> SUFFICES ASSUME h >= PropertyRows PROVE (h - 3) * B \in Nat
      BY Zenon
    <2>1. h - 3 \in Nat
      BY <1>1
    <2> QED BY <1>1, <2>1
  <1> DEFINE more == (h - 2) * B
             most == (h - 3) * B
             all == (h - 1) * B
  <1>6. all = B + more /\ more \in Nat /\ all = 2 * B + most /\ (h >= PropertyRows => most \in Nat)
    BY <1>3, <1>4, <1>5, Zenon
  <1> HIDE DEF more, most, all
  <1>7. all >= B
    BY <1>1, <1>6
  <1>8. h >= PropertyRows => all >= 2 * B
    BY <1>1, <1>6
  <1> QED BY <1>2, <1>7, <1>8, Zenon DEF all, B, h

\* Being on the screen, in terms of the data and the screen.
LEMMA OnScreenMeans ==
    ASSUME NEW v \in ViewRecord
    PROVE  OnScreen(v) <=> /\ v.start_offset <= v.region.caret
                           /\ v.region.caret <= Len(v.data)
                           /\ v.region.caret < v.start_offset + Screen(v)
  <1>1. /\ v.region.caret \in Nat /\ v.start_offset \in Nat
        /\ Len(v.data) \in Nat /\ Screen(v) \in Nat
    BY WindowTypes, Zenon
  <1> QED BY <1>1 DEF OnScreen, VisibleEnd, Smaller

\* Following is transitive.
LEMMA FollowsOn ==
    ASSUME NEW u \in ViewRecord, NEW v \in ViewRecord, NEW w \in ViewRecord,
           Follows(u, v), Follows(v, w)
    PROVE  Follows(u, w)
  <1>1. Len(u.data) \in Nat /\ Len(v.data) \in Nat /\ Len(w.data) \in Nat
    BY WindowTypes, Zenon
  <1> QED BY <1>1 DEF Follows

\* load_next_chunk: the bytes read continue the data.
LEMMA LoadFollows ==
    ASSUME NEW v, NEW typed \in Nat, NEW chunk_size \in Nat, Sound(v, typed, file)
    PROVE  LET w == LoadNextChunk(v, chunk_size)
               read == Larger(0, Smaller(chunk_size, FileLen(v.path) - Len(v.data)))
           IN  /\ Follows(v, w)
               /\ w.start_offset = v.start_offset /\ w.trimmed = v.trimmed
               /\ w.status \in {v.status, "exited"}
               /\ w.status # "exited" => Len(w.data) = Len(v.data) + read
  <1> DEFINE at == Len(v.data)
             read == Larger(0, Smaller(chunk_size, FileLen(v.path) - at))
             piece == [x \in 1 .. read |-> at + x - 1]
             loaded == [v EXCEPT !.data = @ \o piece]
             failed == [v EXCEPT !.status = "exited"]
  <1>1. v \in ViewRecord /\ v.data \in Seq(Nat \cup {Typed}) /\ at \in Nat /\ FileLen(v.path) \in Nat
    BY WindowTypes, Zenon DEF Sound
  <1>2. read \in Nat
    BY <1>1 DEF Larger, Smaller
  <1>3. piece \in Seq(Nat \cup {Typed}) /\ Len(piece) = read
    BY <1>1, <1>2, Piece, Zenon
  <1>4. \A x \in 1 .. read : piece[x] = at + x - 1
    BY Zenon
  <1>5. LoadNextChunk(v, chunk_size) = IF v.path # Scratch /\ file = "gone" THEN failed ELSE loaded
    BY Zenon DEF LoadNextChunk
  <1> HIDE DEF piece, read
  <1>6. /\ v.data \o piece \in Seq(Nat \cup {Typed})
        /\ Len(v.data \o piece) = at + read
        /\ \A x \in 1 .. at + read :
              (v.data \o piece)[x] = IF x <= at THEN v.data[x] ELSE piece[x - at]
    BY <1>1, <1>2, <1>3, ConcatProperties, Zenon
  <1>7. Beginning(v.data) => Beginning(v.data \o piece)
    <2> SUFFICES ASSUME Beginning(v.data), NEW x \in DOMAIN (v.data \o piece)
                 PROVE  (v.data \o piece)[x] = x - 1
      BY Zenon DEF Beginning
    <2>1. x \in 1 .. at + read
      BY <1>6, LenProperties, Zenon
    <2>2. DOMAIN v.data = 1 .. at
      BY <1>1, LenProperties, Zenon
    <2> DEFINE value == (v.data \o piece)[x]
    <2>3. value = IF x <= at THEN v.data[x] ELSE piece[x - at]
      BY <1>6, <2>1, Zenon
    <2> HIDE DEF value
    <2>4. CASE x <= at
      <3>1. x \in 1 .. at
        BY <1>1, <1>2, <2>1, <2>4
      <3>2. v.data[x] = x - 1
        BY <2>2, <3>1, Zenon DEF Beginning
      <3> QED BY <2>3, <2>4, <3>2, Zenon DEF value
    <2>5. CASE x > at
      <3>1. x - at \in 1 .. read /\ at + (x - at) - 1 = x - 1 /\ ~(x <= at)
        BY <1>1, <1>2, <2>1, <2>5
      <3>2. piece[x - at] = at + (x - at) - 1
        BY <1>4, <3>1, Zenon
      <3> QED BY <2>3, <3>1, <3>2, Zenon DEF value
    <2>6. x <= at \/ x > at
      BY <1>1, <1>2, <2>1
    <2> QED BY <2>4, <2>5, <2>6, Zenon
  <1>8. /\ loaded.data = v.data \o piece /\ loaded.path = v.path /\ loaded.region = v.region
        /\ loaded.height = v.height /\ loaded.trimmed = v.trimmed /\ loaded.status = v.status
        /\ loaded.start_offset = v.start_offset
    BY <1>1, Zenon DEF ViewRecord
  <1>9. /\ failed.data = v.data /\ failed.path = v.path /\ failed.region = v.region
        /\ failed.height = v.height /\ failed.trimmed = v.trimmed /\ failed.status = "exited"
        /\ failed.start_offset = v.start_offset
    BY <1>1, Zenon DEF ViewRecord
  <1> HIDE DEF loaded, failed
  <1>10. Len(v.data) <= Len(v.data \o piece) /\ Len(v.data) <= Len(v.data)
    BY <1>1, <1>2, <1>6
  <1>11. Follows(v, loaded)
    BY <1>7, <1>8, <1>10, Zenon DEF Follows
  <1>12. Follows(v, failed)
    BY <1>9, <1>10, Zenon DEF Follows
  <1>13. Len(loaded.data) = Len(v.data) + read
    BY <1>6, <1>8, Zenon
  <1>14. \/ LoadNextChunk(v, chunk_size) = failed
         \/ LoadNextChunk(v, chunk_size) = loaded
    BY <1>5, Zenon
  <1> QED BY <1>8, <1>9, <1>11, <1>12, <1>13, <1>14, Zenon DEF read

\* A cursor on the screen is one when more has been loaded.
LEMMA OnScreenFollows ==
    ASSUME NEW v \in ViewRecord, NEW w \in ViewRecord, Follows(v, w), ~w.trimmed,
           w.start_offset = v.start_offset, OnScreen(v)
    PROVE  OnScreen(w)
  <1>1. Len(v.data) \in Nat /\ Len(w.data) \in Nat /\ v.region.caret \in Nat
    BY WindowTypes, Zenon
  <1>2. Screen(w) = Screen(v) /\ w.region = v.region /\ Len(v.data) <= Len(w.data)
    BY Zenon DEF Follows, Screen
  <1>3. /\ v.start_offset <= v.region.caret /\ v.region.caret <= Len(v.data)
        /\ v.region.caret < v.start_offset + Screen(v)
    BY OnScreenMeans, Zenon
  <1>4. w.region.caret <= Len(w.data)
    BY <1>1, <1>2, <1>3
  <1> QED BY <1>2, <1>3, <1>4, OnScreenMeans, Zenon

\* A cursor on the screen is drawn without a panic.
LEMMA OnScreenDraws ==
    ASSUME NEW v \in ViewRecord, OnScreen(v)
    PROVE  ~RangePanics(v) /\ ~CurrentBytesPanics(v)
  <1>1. /\ v.region.caret \in Nat /\ v.region.tail \in Nat /\ v.start_offset \in Nat
        /\ Len(v.data) \in Nat /\ Screen(v) \in Nat
    BY WindowTypes, Zenon
  <1>2. /\ v.start_offset <= v.region.caret /\ v.region.caret <= Len(v.data)
        /\ v.region.caret < v.start_offset + Screen(v)
    BY OnScreenMeans, Zenon
  <1>3. ~(v.start_offset > MaxByte(v.region))
    BY <1>1, <1>2 DEF MaxByte, Larger
  <1>4. ~RangePanics(v)
    BY <1>3, Zenon DEF RangePanics
  <1>5. ~(v.region.caret < v.start_offset)
    BY <1>1, <1>2
  <1>6. ~(v.region.caret - v.start_offset > Smaller(VisibleEnd(v), Len(v.data)) - v.start_offset)
    BY <1>1, <1>2 DEF VisibleEnd, Smaller
  <1> QED BY <1>4, <1>5, <1>6, Zenon DEF CurrentBytesPanics

\* draw keeps the cursor on the screen, and goes on only where the property
\* lines fit.
LEMMA DrawFollows ==
    ASSUME NEW v, NEW typed \in Nat, Sound(v, typed, file)
    PROVE  /\ DrawRows(v) = Draw(v)
           /\ Follows(v, Draw(v))
           /\ Shown(v) => Shown(Draw(v))
           /\ Ok(Draw(v)) => v.height >= PropertyRows
  <1> DEFINE u == EnsureVisibleData(v)
             w == Painted(u)
  <1>1. SmallLoad \in Nat /\ PropertyRows \in Nat
    BY ViewAssumption, Zenon
  <1>2. Sound(u, typed, file)
    BY <1>1, LoadSound, Zenon DEF EnsureVisibleData
  <1>3. /\ Follows(v, u) /\ u.start_offset = v.start_offset /\ u.trimmed = v.trimmed
        /\ u.status \in {v.status, "exited"}
    <2>1. v \in ViewRecord
      BY Zenon DEF Sound
    <2>2. Len(v.data) \in Nat
      BY <2>1, WindowTypes, Zenon
    <2>3. Follows(v, v)
      BY <2>2 DEF Follows
    <2>4. LET x == LoadNextChunk(v, SmallLoad)
          IN  /\ Follows(v, x) /\ x.start_offset = v.start_offset /\ x.trimmed = v.trimmed
              /\ x.status \in {v.status, "exited"}
      BY <1>1, LoadFollows, Zenon
    <2> QED BY <2>3, <2>4, Zenon DEF EnsureVisibleData
  <1>4. u \in ViewRecord /\ v \in ViewRecord
    BY <1>2, Zenon DEF Sound
  <1> HIDE DEF u
  <1>5. Sound(w, typed, file) /\ w \in ViewRecord
    BY <1>2, PaintedSound, Zenon DEF Sound
  <1>6. /\ w.data = u.data /\ w.path = u.path /\ w.region = u.region /\ w.height = u.height
        /\ w.trimmed = u.trimmed /\ w.start_offset = u.start_offset
        /\ ~Ok(u) => w.status = u.status
        /\ Ok(u) => w.status = IF RangePanics(u) \/ CurrentBytesPanics(u) THEN "panicked"
                               ELSE IF u.height < PropertyRows THEN "hung" ELSE "ok"
    BY <1>4, Zenon DEF Painted, ViewRecord
  <1> HIDE DEF w
  <1>7. Follows(u, w)
    <2>1. Len(u.data) \in Nat
      BY <1>4, WindowTypes, Zenon
    <2> QED BY <1>6, <2>1 DEF Follows
  <1>8. Follows(v, w)
    BY <1>3, <1>4, <1>5, <1>7, FollowsOn, Zenon
  <1>9. Draw(v) = IF Ok(v) THEN w ELSE v
    BY Zenon DEF Draw, u, w
  <1>10. DrawRows(v) = Draw(v)
    BY Zenon DEF Draw, DrawRows
  <1>11. Follows(v, v)
    <2>1. Len(v.data) \in Nat
      BY <1>4, WindowTypes, Zenon
    <2> QED BY <2>1 DEF Follows
  <1>12. Ok(v) /\ Shown(v) => Shown(w)
    <2> SUFFICES ASSUME Ok(v), Shown(v), ~w.trimmed
                 PROVE  w.status # "panicked" /\ (Ok(w) => OnScreen(w))
      BY Zenon DEF Shown
    <2>1. OnScreen(v) /\ ~u.trimmed
      BY <1>3, <1>6, Zenon DEF Shown
    <2>2. OnScreen(u)
      BY <1>3, <1>4, <2>1, OnScreenFollows, Zenon
    <2>3. ~RangePanics(u) /\ ~CurrentBytesPanics(u)
      BY <1>4, <2>2, OnScreenDraws, Zenon
    <2>4. w.status # "panicked"
      BY <1>3, <1>6, <2>3, Zenon DEF Ok
    <2>5. OnScreen(w)
      BY <1>4, <1>5, <1>6, <1>7, <2>2, OnScreenFollows, Zenon
    <2> QED BY <2>4, <2>5, Zenon
  <1>13. Ok(v) /\ Ok(w) => v.height >= PropertyRows
    <2> SUFFICES ASSUME Ok(v), Ok(w) PROVE v.height >= PropertyRows
      BY Zenon
    <2>1. Ok(u)
      BY <1>6, Zenon DEF Ok
    <2>2. ~(u.height < PropertyRows)
      BY <1>6, <2>1, Zenon DEF Ok
    <2>3. u.height = v.height /\ v.height \in Nat
      BY <1>3, <1>4, WindowTypes, HeightNat, Zenon DEF Follows
    <2> QED BY <1>1, <2>2, <2>3
  <1> QED BY <1>8, <1>9, <1>10, <1>11, <1>12, <1>13, Zenon

\* A view follows itself.
LEMMA FollowsSelf ==
    ASSUME NEW v \in ViewRecord
    PROVE  Follows(v, v)
  <1>1. Len(v.data) \in Nat
    BY WindowTypes, Zenon
  <1> QED BY <1>1 DEF Follows

\* The same view from another line.
LEMMA OnScreenFrom ==
    ASSUME NEW v \in ViewRecord, NEW offset \in Nat
    PROVE  LET w == [v EXCEPT !.start_offset = offset]
           IN  /\ w \in ViewRecord /\ Follows(v, w)
               /\ w.status = v.status /\ w.trimmed = v.trimmed
               /\ OnScreen(w) <=> /\ offset <= v.region.caret
                                  /\ v.region.caret <= Len(v.data)
                                  /\ v.region.caret < offset + Screen(v)
  <1> DEFINE w == [v EXCEPT !.start_offset = offset]
  <1>1. /\ w \in ViewRecord /\ w.status = v.status /\ w.trimmed = v.trimmed
        /\ w.start_offset = offset /\ w.data = v.data /\ w.region = v.region
        /\ w.height = v.height /\ w.path = v.path
    BY Zenon DEF ViewRecord
  <1> HIDE DEF w
  <1>2. Len(v.data) \in Nat
    BY WindowTypes, Zenon
  <1>3. Follows(v, w)
    BY <1>1, <1>2 DEF Follows
  <1>4. Screen(w) = Screen(v)
    BY <1>1, Zenon DEF Screen
  <1>5. OnScreen(w) <=> /\ offset <= v.region.caret
                        /\ v.region.caret <= Len(v.data)
                        /\ v.region.caret < offset + Screen(v)
    BY <1>1, <1>4, OnScreenMeans, Zenon
  <1> QED BY <1>1, <1>3, <1>5, Zenon DEF w

\* Lines covers the bytes it is given, and less than a line more.
LEMMA LinesCover ==
    ASSUME NEW n \in Nat
    PROVE  /\ Lines(n) * BytesPerLine \in Nat
           /\ n <= Lines(n) * BytesPerLine
           /\ Lines(n) * BytesPerLine < n + BytesPerLine
  <1> DEFINE B == BytesPerLine
             q == (n + B - 1) \div B
             r == (n + B - 1) % B
             product == q * B
  <1>1. B \in Nat /\ B > 0
    BY BytesPerLineAssumption
  <1> HIDE DEF B
  <1>2. q \in Nat /\ r \in Nat /\ r < B /\ n + B - 1 = (q * B) + r
    BY <1>1
  <1>3. product \in Nat /\ n + B - 1 = product + r
    <2> HIDE DEF q, r
    <2> QED BY <1>1, <1>2
  <1> HIDE DEF product, r
  <1>4. n <= product /\ product < n + B
    BY <1>1, <1>2, <1>3
  <1>5. product = Lines(n) * BytesPerLine
    BY Zenon DEF product, Lines, B
  <1> QED BY <1>3, <1>4, <1>5, Zenon DEF B

\* Two starts of lines are a line apart.
LEMMA LineApart ==
    ASSUME NEW x \in Int, NEW y \in Int, x % BytesPerLine = 0, y % BytesPerLine = 0, x < y
    PROVE  x + BytesPerLine <= y
  <1> DEFINE B == BytesPerLine
  <1>1. B \in Nat /\ B > 0
    BY BytesPerLineAssumption
  <1>2. (y - x) % B = 0 /\ y - x \in Int
    BY SumOfMultiples
  <1>3. PICK n \in Int : y - x = n * B
    BY <1>2, Multiples, Zenon
  <1> HIDE DEF B
  <1>4. n > 0
    <2> SUFFICES ASSUME n <= 0 PROVE FALSE
      OBVIOUS
    <2>1. 0 - n \in Nat
      OBVIOUS
    <2>2. (0 - n) * B \in Nat
      BY <1>1, <2>1
    <2>3. n * B = 0 - ((0 - n) * B)
      BY <1>1
    <2> DEFINE product == (0 - n) * B
    <2>4. product \in Nat /\ y - x = 0 - product
      BY <1>3, <2>2, <2>3, Zenon
    <2> HIDE DEF product
    <2> QED BY <2>4
  <1>5. n - 1 \in Nat
    BY <1>4
  <1>6. n * B = B + (n - 1) * B /\ (n - 1) * B \in Nat
    BY <1>1, <1>5
  <1> DEFINE rest == (n - 1) * B
  <1>7. rest \in Nat /\ y - x = B + rest
    BY <1>3, <1>6, Zenon
  <1> HIDE DEF rest
  <1>8. x + B <= y
    BY <1>1, <1>7
  <1> QED BY <1>8, Zenon DEF B

\* scroll_up keeps the cursor on the screen when its new line is on it.
LEMMA ScrollUpShows ==
    ASSUME NEW v, NEW typed \in Nat, NEW line_count \in Nat, Sound(v, typed, file)
    PROVE  LET back == line_count * BytesPerLine
               w == ScrollUp(v, line_count)
           IN  /\ Follows(v, w)
               /\ (/\ Ok(v)
                   /\ v.start_offset < back => OnScreen(v)
                   /\ back <= v.start_offset => /\ v.start_offset - back <= v.region.caret
                                                /\ v.region.caret <= Len(v.data)
                                                /\ v.region.caret < v.start_offset - back + Screen(v))
                  => Shown(w)
  <1> DEFINE back == line_count * BytesPerLine
             offset == v.start_offset - back
             scrolled == [v EXCEPT !.start_offset = offset]
             w == ScrollUp(v, line_count)
             there == /\ offset <= v.region.caret
                      /\ v.region.caret <= Len(v.data)
                      /\ v.region.caret < offset + Screen(v)
  <1>1. v \in ViewRecord /\ v.start_offset \in Nat /\ v.start_offset % BytesPerLine = 0
    BY WindowTypes, Zenon DEF Sound
  <1>2. back \in Nat /\ back % BytesPerLine = 0
    BY BytesPerLineAssumption, MultipleOfLine
  <1>3. w = IF ~Ok(v) \/ v.start_offset < back THEN v ELSE DrawRows(scrolled)
    BY Zenon DEF ScrollUp
  <1> HIDE DEF back, w
  <1>4. CASE ~Ok(v)
    BY <1>1, <1>3, <1>4, FollowsSelf, Zenon DEF back, w
  <1>5. CASE Ok(v) /\ v.start_offset < back
    <2>1. w = v /\ ~(back <= v.start_offset)
      BY <1>1, <1>2, <1>3, <1>5
    <2>2. OnScreen(v) => Shown(v)
      BY <1>5, Zenon DEF Shown, Ok
    <2> QED BY <1>1, <1>5, <2>1, <2>2, FollowsSelf, Zenon DEF back, w
  <1>6. CASE Ok(v) /\ ~(v.start_offset < back)
    <2>1. w = DrawRows(scrolled) /\ back <= v.start_offset
      BY <1>1, <1>2, <1>3, <1>6
    <2>2. offset \in Nat
      BY <1>1, <1>2, <2>1
    <2>3. offset % BytesPerLine = 0
      <3>1. v.start_offset \in Int /\ back \in Int
        BY <1>1, <1>2
      <3> QED BY <1>1, <1>2, <3>1, SumOfMultiples, Zenon
    <2> HIDE DEF offset
    <2>4. Sound(scrolled, typed, file)
      BY <2>2, <2>3, OffsetSound, Zenon
    <2>5. /\ scrolled \in ViewRecord /\ Follows(v, scrolled)
          /\ scrolled.status = v.status /\ (OnScreen(scrolled) <=> there)
      BY <1>1, <2>2, OnScreenFrom, Zenon
    <2> HIDE DEF scrolled
    <2>6. w = Draw(scrolled) /\ Follows(scrolled, w) /\ (Shown(scrolled) => Shown(w))
      BY <2>1, <2>4, DrawFollows, Zenon
    <2>7. w \in ViewRecord
      BY <2>4, <2>6, DrawSound, Zenon DEF Sound
    <2>8. Follows(v, w)
      BY <1>1, <2>5, <2>6, <2>7, FollowsOn, Zenon
    <2>9. there => Shown(w)
      BY <1>6, <2>5, <2>6, Zenon DEF Shown, Ok
    <2> QED BY <2>1, <2>8, <2>9, Zenon DEF back, w, offset
  <1> QED BY <1>4, <1>5, <1>6, Zenon

\* trim_buffer_top marks what it changes.
LEMMA TrimFollows ==
    ASSUME NEW v \in ViewRecord
    PROVE  LET w == TrimBufferTop(v, Chunk)
           IN  w = v \/ (w.trimmed /\ Follows(v, w))
  <1> DEFINE trimmed == [v EXCEPT !.data = SubSeq(v.data, Chunk + 1, Len(v.data)),
                                  !.start_offset = Larger(0, v.start_offset - Chunk),
                                  !.trimmed = TRUE]
  <1>1. TrimBufferTop(v, Chunk) = v \/ TrimBufferTop(v, Chunk) = trimmed
    BY Zenon DEF TrimBufferTop
  <1>2. /\ trimmed.trimmed /\ trimmed.path = v.path /\ trimmed.region = v.region
        /\ trimmed.height = v.height
    BY Zenon DEF ViewRecord
  <1> HIDE DEF trimmed
  <1> QED BY <1>1, <1>2, Zenon DEF Follows

\* scroll_down, whether it loads or not, keeps the cursor on the screen when it
\* is on the screen it leaves, or on the one it goes to.
LEMMA ScrollDownShows ==
    ASSUME NEW v, NEW typed \in Nat, NEW line_count \in Nat, term \in Heights, Sound(v, typed, file)
    PROVE  LET next_position == v.start_offset + line_count * BytesPerLine
               read == Larger(0, Smaller(SmallLoad, FileLen(v.path) - Len(v.data)))
               w == ScrollDown(v, line_count)
           IN  /\ Follows(v, w)
               /\ (/\ Ok(v) /\ v.region.caret <= Len(v.data)
                   /\ \A len \in {Len(v.data), Len(v.data) + read} :
                         IF next_position >= len
                         THEN OnScreen(v)
                         ELSE /\ next_position <= v.region.caret
                              /\ v.region.caret < next_position + Screen(v))
                  => Shown(w)
  <1> DEFINE next_position == v.start_offset + line_count * BytesPerLine
             next_visible_end == next_position + v.height * BytesPerLine
             read == Larger(0, Smaller(SmallLoad, FileLen(v.path) - Len(v.data)))
             tried == LoadNextChunk(v, SmallLoad)
             ready == IF next_visible_end <= Len(v.data) THEN v
                      ELSE IF Len(tried.data) > Len(v.data) /\ ShouldTrim(tried)
                      THEN TrimBufferTop(tried, Chunk)
                      ELSE tried
             scrolled == [ready EXCEPT !.start_offset = next_position]
             w == ScrollDown(v, line_count)
             Where(len) == IF next_position >= len
                           THEN OnScreen(v)
                           ELSE /\ next_position <= v.region.caret
                                /\ v.region.caret < next_position + Screen(v)
             shows == /\ Ok(v) /\ v.region.caret <= Len(v.data)
                      /\ \A len \in {Len(v.data), Len(v.data) + read} : Where(len)
  <1>1. v \in ViewRecord /\ v.start_offset \in Nat /\ v.start_offset % BytesPerLine = 0
    BY WindowTypes, Zenon DEF Sound
  <1>2. next_position \in Nat /\ next_position % BytesPerLine = 0
    <2>1. line_count * BytesPerLine \in Nat /\ (line_count * BytesPerLine) % BytesPerLine = 0
      BY BytesPerLineAssumption, MultipleOfLine
    <2> DEFINE forth == line_count * BytesPerLine
    <2> HIDE DEF forth
    <2>2. forth \in Nat /\ forth % BytesPerLine = 0 /\ next_position = v.start_offset + forth
      BY <2>1, Zenon DEF forth
    <2>3. v.start_offset \in Int /\ forth \in Int
      BY <1>1, <2>2
    <2>4. (v.start_offset + forth) % BytesPerLine = 0
      BY <1>1, <2>2, <2>3, SumOfMultiples, Zenon
    <2> HIDE DEF next_position
    <2> QED BY <1>1, <2>2, <2>4
  <1>3. w = IF ~Ok(v) \/ ~Ok(ready) \/ next_position >= Len(ready.data)
            THEN ready ELSE DrawRows(scrolled)
    BY Zenon DEF ScrollDown
  <1> HIDE DEF next_position
  <1>4. Sound(tried, typed, file) /\ SmallLoad \in Nat
    BY LoadSound, ViewAssumption, Zenon
  <1>5. /\ Follows(v, tried) /\ tried.start_offset = v.start_offset /\ tried.trimmed = v.trimmed
        /\ tried.status \in {v.status, "exited"}
        /\ tried.status # "exited" => Len(tried.data) = Len(v.data) + read
    BY <1>4, LoadFollows, Zenon
  <1>6. tried \in ViewRecord
    BY <1>4, Zenon DEF Sound
  <1> HIDE DEF tried, read
  <1>7. ready \in {v, tried, TrimBufferTop(tried, Chunk)}
    BY Zenon
  <1>8. Sound(TrimBufferTop(tried, Chunk), typed, file)
    BY <1>4, TrimSound, Zenon
  <1>9. \/ TrimBufferTop(tried, Chunk) = tried
        \/ TrimBufferTop(tried, Chunk).trimmed /\ Follows(tried, TrimBufferTop(tried, Chunk))
    BY <1>6, TrimFollows, Zenon
  <1> HIDE DEF ready
  <1>10. Sound(ready, typed, file) /\ ready \in ViewRecord
    BY <1>4, <1>7, <1>8, Zenon DEF Sound
  <1>11. \/ ready.trimmed
         \/ /\ ready.start_offset = v.start_offset
            /\ ready.status \in {v.status, "exited"}
            /\ ready.status # "exited" => Len(ready.data) \in {Len(v.data), Len(v.data) + read}
    BY <1>5, <1>7, <1>9, Zenon
  <1>12. Follows(v, ready)
    <2>1. Follows(v, v)
      BY <1>1, FollowsSelf, Zenon
    <2>2. TrimBufferTop(tried, Chunk) \in ViewRecord
      BY <1>8, Zenon DEF Sound
    <2>3. Follows(v, TrimBufferTop(tried, Chunk))
      BY <1>1, <1>5, <1>6, <1>9, <2>2, FollowsOn, Zenon
    <2> QED BY <1>5, <1>7, <2>1, <2>3, Zenon
  <1>13. CASE ~Ok(v) \/ ~Ok(ready) \/ next_position >= Len(ready.data)
    <2>1. w = ready
      BY <1>3, <1>13, Zenon
    <2>2. ASSUME shows PROVE Shown(ready)
      <3> SUFFICES ASSUME ~ready.trimmed
                   PROVE  ready.status # "panicked" /\ (Ok(ready) => OnScreen(ready))
        BY Zenon DEF Shown
      <3>1. ready.status # "panicked"
        BY <1>11, <2>2, Zenon DEF Ok
      <3>2. ASSUME Ok(ready) PROVE OnScreen(ready)
        <4>1. Len(ready.data) \in {Len(v.data), Len(v.data) + read}
          BY <1>11, <3>2, Zenon DEF Ok
        <4>2. next_position >= Len(ready.data)
          BY <1>13, <2>2, <3>2, Zenon
        <4>3. OnScreen(v)
          BY <2>2, <4>1, <4>2, Zenon
        <4> QED BY <1>1, <1>10, <1>11, <1>12, <4>3, OnScreenFollows, Zenon
      <3> QED BY <3>1, <3>2, Zenon
    <2> HIDE DEF shows, w
    <2>3. Follows(v, w) /\ (shows => Shown(w))
      BY <1>12, <2>1, <2>2, Zenon
    <2> QED BY <2>3, Zenon DEF shows, w, next_position, read
  <1>14. CASE Ok(v) /\ Ok(ready) /\ ~(next_position >= Len(ready.data))
    <2>1. w = DrawRows(scrolled)
      BY <1>3, <1>14, Zenon
    <2>2. Sound(scrolled, typed, file)
      BY <1>2, <1>10, OffsetSound, Zenon
    <2>3. /\ scrolled \in ViewRecord /\ Follows(ready, scrolled)
          /\ scrolled.status = ready.status /\ scrolled.trimmed = ready.trimmed
          /\ OnScreen(scrolled) <=> /\ next_position <= ready.region.caret
                                    /\ ready.region.caret <= Len(ready.data)
                                    /\ ready.region.caret < next_position + Screen(ready)
      BY <1>2, <1>10, OnScreenFrom, Zenon
    <2> HIDE DEF scrolled
    <2>4. w = Draw(scrolled) /\ Follows(scrolled, w) /\ (Shown(scrolled) => Shown(w))
      BY <2>1, <2>2, DrawFollows, Zenon
    <2>5. w \in ViewRecord
      BY <2>2, <2>4, DrawSound, Zenon DEF Sound
    <2>6. Follows(v, w)
      <3>1. Follows(v, scrolled)
        BY <1>1, <1>10, <1>12, <2>3, FollowsOn, Zenon
      <3> QED BY <1>1, <2>3, <2>4, <2>5, <3>1, FollowsOn, Zenon
    <2>7. ASSUME shows PROVE Shown(scrolled)
      <3> SUFFICES ASSUME ~scrolled.trimmed PROVE OnScreen(scrolled)
        BY <1>14, <2>3, Zenon DEF Shown, Ok
      <3>1. ~ready.trimmed /\ ready.status # "exited"
        BY <1>14, <2>3, Zenon DEF Ok
      <3>2. Len(ready.data) \in {Len(v.data), Len(v.data) + read}
        BY <1>11, <3>1, Zenon
      <3>3. next_position <= v.region.caret /\ v.region.caret < next_position + Screen(v)
        BY <1>14, <2>7, <3>2, Zenon
      <3>4. ready.region = v.region /\ Screen(ready) = Screen(v) /\ Len(v.data) <= Len(ready.data)
        BY <1>12, <3>1, Zenon DEF Follows, Screen
      <3>5. v.region.caret <= Len(v.data)
        BY <2>7, Zenon
      <3>6. v.region.caret \in Nat /\ Len(v.data) \in Nat /\ Len(ready.data) \in Nat
        BY <1>1, <1>10, WindowTypes, Zenon
      <3>7. ready.region.caret <= Len(ready.data)
        BY <3>4, <3>5, <3>6
      <3> QED BY <2>3, <3>3, <3>4, <3>7, Zenon
    <2> HIDE DEF shows, w
    <2>8. Follows(v, w) /\ (shows => Shown(w))
      BY <2>4, <2>6, <2>7, Zenon
    <2> QED BY <2>8, Zenon DEF shows, w, next_position, read
  <1> QED BY <1>13, <1>14, Zenon

\* maybe_update_offset: a cursor within the data is on the screen afterwards.
LEMMA MaybeUpdateOffsetShows ==
    ASSUME NEW v, NEW typed \in Nat, term \in Heights, Sound(v, typed, file)
    PROVE  /\ Follows(v, MaybeUpdateOffset(v))
           /\ (Ok(v) /\ v.height >= PropertyRows /\ v.region.caret <= Len(v.data))
              => Shown(MaybeUpdateOffset(v))
  <1> DEFINE caret == v.region.caret
             start == v.start_offset
             len == Len(v.data)
             screen == Screen(v)
             end == VisibleEnd(v)
             w == MaybeUpdateOffset(v)
             within == Ok(v) /\ v.height >= PropertyRows /\ caret <= len
             B == BytesPerLine
  <1>1. /\ v \in ViewRecord /\ caret \in Nat /\ start \in Nat /\ len \in Nat /\ screen \in Nat
        /\ start % B = 0 /\ B \in Nat /\ B > 0
    BY WindowTypes, BytesPerLineAssumption DEF Sound
  <1>2. end = Smaller(len + 1, start + screen) /\ end \in Nat
    BY <1>1, VisibleEndNat, Zenon DEF VisibleEnd
  <1>3. screen >= B /\ (v.height >= PropertyRows => screen >= 2 * B)
    BY <1>1, ScreenLines, Zenon
  <1>4. w = CASE v.data = <<>> -> [v EXCEPT !.start_offset = 0]
              [] v.data # <<>> /\ caret < start -> ScrollUp(v, Lines(start - caret))
              [] v.data # <<>> /\ caret >= end -> ScrollDown(v, Lines(caret - (end - 1)))
              [] OTHER -> v
    BY Zenon DEF MaybeUpdateOffset
  <1> HIDE DEF end, w
  <1>5. CASE v.data = <<>>
    <2> DEFINE top == [v EXCEPT !.start_offset = 0]
    <2>1. w = top
      BY <1>4, <1>5, Zenon
    <2>2. /\ w.status = v.status /\ Follows(v, w)
          /\ (OnScreen(w) <=> 0 <= caret /\ caret <= len /\ caret < 0 + screen)
      <3>1. 0 \in Nat
        BY Zenon
      <3>2. /\ top.status = v.status /\ Follows(v, top)
            /\ (OnScreen(top) <=> 0 <= caret /\ caret <= len /\ caret < 0 + screen)
        BY <1>1, <3>1, OnScreenFrom, Zenon
      <3> HIDE DEF top
      <3> QED BY <2>1, <3>2, Zenon
    <2> HIDE DEF top
    <2>3. len = 0
      BY <1>5
    <2>4. caret <= len => OnScreen(w)
      <3> HIDE DEF len, caret, screen
      <3> QED BY <1>1, <1>3, <2>2, <2>3
    <2>5. within => Shown(w)
      BY <2>2, <2>4, Zenon DEF Shown, Ok
    <2> QED BY <2>2, <2>5, Zenon DEF w
  <1>6. CASE v.data # <<>> /\ caret < start
    <2> DEFINE n == start - caret
               back == Lines(n) * B
    <2>1. \/ w = ScrollUp(v, Lines(n))
          \/ caret >= end /\ w = ScrollDown(v, Lines(caret - (end - 1)))
      BY <1>4, <1>6
    <2>2. n \in Nat
      BY <1>1, <1>6
    <2>3. Lines(n) \in Nat /\ back \in Nat /\ n <= back /\ back < n + B
      BY <2>2, LinesNat, LinesCover, Zenon
    <2>4. back % B = 0
      BY <2>3, MultipleOfLine
    <2> HIDE DEF back
    <2>5. back <= start
      <3> SUFFICES ASSUME start < back PROVE FALSE
        BY <1>1, <2>3
      <3>1. start \in Int /\ back \in Int
        BY <1>1, <2>3
      <3>2. start + B <= back
        BY <1>1, <2>4, <3>1, LineApart, Zenon
      <3> HIDE DEF start, caret, B
      <3> QED BY <1>1, <2>3, <3>2
    <2>6. start - back <= caret /\ caret < start - back + screen
      <3> HIDE DEF start, caret, B, screen
      <3> QED BY <1>1, <1>3, <2>3
    <2>7. ~(start < back)
      BY <1>1, <2>3, <2>5
    <2>8. /\ Follows(v, ScrollUp(v, Lines(n)))
          /\ within => Shown(ScrollUp(v, Lines(n)))
      <3>1. LET x == ScrollUp(v, Lines(n))
            IN  /\ Follows(v, x)
                /\ (/\ Ok(v)
                    /\ start < back => OnScreen(v)
                    /\ back <= start => /\ start - back <= caret
                                        /\ caret <= len
                                        /\ caret < start - back + screen)
                   => Shown(x)
        BY <2>3, ScrollUpShows, Zenon DEF back
      <3> HIDE DEF start, caret, len, screen, n
      <3> QED BY <2>6, <2>7, <3>1, Zenon
    <2>9. caret <= len => ~(caret >= end)
      BY <1>1, <1>2, <1>3, <1>6 DEF Smaller
    <2>10. caret >= end => Follows(v, ScrollDown(v, Lines(caret - (end - 1))))
      <3> SUFFICES ASSUME caret >= end PROVE Follows(v, ScrollDown(v, Lines(caret - (end - 1))))
        BY Zenon
      <3>1. caret - (end - 1) \in Nat
        BY <1>1, <1>2
      <3>2. Lines(caret - (end - 1)) \in Nat
        BY <3>1, LinesNat, Zenon
      <3> QED BY <3>2, ScrollDownShows, Zenon
    <2> HIDE DEF n
    <2> QED BY <2>1, <2>8, <2>9, <2>10, Zenon DEF w
  <1>7. CASE v.data # <<>> /\ ~(caret < start) /\ caret >= end
    <2> DEFINE n == caret - (end - 1)
               forth == Lines(n) * B
               next_position == start + forth
               read == Larger(0, Smaller(SmallLoad, FileLen(v.path) - len))
    <2>1. w = ScrollDown(v, Lines(n))
      BY <1>4, <1>7, Zenon
    <2>2. n \in Nat
      BY <1>1, <1>2, <1>7
    <2>3. Lines(n) \in Nat /\ forth \in Nat /\ n <= forth /\ forth < n + B
      BY <2>2, LinesNat, LinesCover, Zenon
    <2>4. LET x == ScrollDown(v, Lines(n))
          IN  /\ Follows(v, x)
              /\ (/\ Ok(v) /\ caret <= len
                  /\ \A size \in {len, len + read} :
                         IF next_position >= size
                         THEN OnScreen(v)
                         ELSE next_position <= caret /\ caret < next_position + screen)
                 => Shown(x)
      BY <2>3, ScrollDownShows, Zenon
    <2> HIDE DEF forth
    <2>5. read \in Nat
      <3>1. FileLen(v.path) \in Nat /\ SmallLoad \in Nat
        BY <1>1, WindowTypes, ViewAssumption, Zenon
      <3> QED BY <1>1, <3>1 DEF Larger, Smaller
    <2> HIDE DEF read
    <2>6. ASSUME within
          PROVE  next_position <= caret /\ caret < next_position + screen /\ next_position < len
      <3>1. end = start + screen
        BY <1>1, <1>2, <1>7, <2>6 DEF Smaller
      <3>2. screen >= 2 * B /\ caret <= len
        BY <1>3, <2>6, Zenon
      <3> HIDE DEF start, caret, len, screen, B
      <3> QED BY <1>1, <2>3, <3>1, <3>2
    <2>7. within => \A size \in {len, len + read} : ~(next_position >= size)
      <3> SUFFICES ASSUME within, NEW size \in {len, len + read} PROVE ~(next_position >= size)
        BY Zenon
      <3> HIDE DEF len, start
      <3>1. next_position < len
        BY <2>6, Zenon
      <3> QED BY <1>1, <2>3, <2>5, <3>1
    <2> HIDE DEF n, next_position
    <2>8. within => Shown(ScrollDown(v, Lines(n)))
      <3> HIDE DEF caret, len, screen
      <3> QED BY <2>4, <2>6, <2>7, Zenon
    <2> QED BY <2>1, <2>4, <2>8, Zenon DEF w
  <1>8. CASE v.data # <<>> /\ ~(caret < start) /\ ~(caret >= end)
    <2>1. w = v
      BY <1>4, <1>8, Zenon
    <2>2. OnScreen(v)
      BY <1>1, <1>2, <1>8, OnScreenMeans DEF Smaller
    <2> QED BY <1>1, <2>1, <2>2, FollowsSelf, Zenon DEF Shown, Ok, w
  <1> QED BY <1>5, <1>6, <1>7, <1>8, Zenon

\* maybe_update_offset_and_draw: the same, with any screen.
LEMMA MaybeUpdateOffsetAndDrawShows ==
    ASSUME NEW v, NEW typed \in Nat, Sound(v, typed, file)
    PROVE  LET w == MaybeUpdateOffsetAndDraw(v)
           IN  /\ Follows(v, w)
               /\ Ok(v) /\ v.region.caret <= Len(v.data) => Shown(w)
               /\ Ok(w) => w.height >= PropertyRows
  <1> DEFINE caret == v.region.caret
             start == v.start_offset
             len == Len(v.data)
             screen == Screen(v)
             B == BytesPerLine
             line == caret - (caret % B)
             below == line + B - screen
             offset == IF caret < start THEN line
                       ELSE IF caret >= VisibleEnd(v) THEN Larger(0, below)
                       ELSE start
             placed == [v EXCEPT !.start_offset = offset]
             w == MaybeUpdateOffsetAndDraw(v)
  <1>1. /\ v \in ViewRecord /\ caret \in Nat /\ start \in Nat /\ len \in Nat /\ screen \in Nat
        /\ start % B = 0 /\ B \in Nat /\ B > 0
    BY WindowTypes, BytesPerLineAssumption DEF Sound
  <1>2. w = Draw(placed)
    BY Zenon DEF MaybeUpdateOffsetAndDraw
  <1>3. line \in Nat /\ line % B = 0
    BY <1>1, StartOfLine, Zenon
  <1>4. line <= caret /\ caret < line + B
    <2>1. caret % B \in 0 .. B - 1
      <3> HIDE DEF B, caret
      <3> QED BY <1>1
    <2> DEFINE column == caret % B
    <2>2. column \in 0 .. B - 1 /\ line = caret - column
      BY <2>1, Zenon
    <2> HIDE DEF column, line, caret, B
    <2> QED BY <1>1, <2>2
  <1> HIDE DEF line
  <1>5. below \in Int /\ below % B = 0
    <2>1. screen \in Int /\ screen % B = 0 /\ B \in Int /\ B % B = 0 /\ line \in Int
      BY <1>1, <1>3, ScreenMultiple
    <2>2. (B - screen) % B = 0
      BY <2>1, SumOfMultiples, Zenon
    <2>3. B - screen \in Int
      BY <2>1
    <2>4. (line + (B - screen)) % B = 0
      BY <1>3, <2>1, <2>2, <2>3, SumOfMultiples, Zenon
    <2>5. line + (B - screen) = below
      BY <2>1, Zenon
    <2> QED BY <2>1, <2>4, <2>5
  <1>6. screen >= B
    BY <1>1, ScreenLines, Zenon
  <1>7. VisibleEnd(v) = Smaller(len + 1, start + screen)
    BY Zenon DEF VisibleEnd
  <1>8. offset \in Nat /\ offset % B = 0
    <2>1. 0 % B = 0
      BY BytesPerLineAssumption
    <2> HIDE DEF below
    <2> QED BY <1>1, <1>3, <1>5, <2>1 DEF Larger
  <1>9. caret <= len => offset <= caret /\ caret < offset + screen
    <2> HIDE DEF start, caret, len, screen, B
    <2> QED BY <1>1, <1>3, <1>4, <1>6, <1>7 DEF Larger, Smaller
  <1> HIDE DEF offset
  <1>10. Sound(placed, typed, file)
    BY <1>8, OffsetSound, Zenon
  <1>11. /\ placed \in ViewRecord /\ Follows(v, placed) /\ placed.status = v.status
         /\ OnScreen(placed) <=> offset <= caret /\ caret <= len /\ caret < offset + screen
    BY <1>1, <1>8, OnScreenFrom, Zenon
  <1> HIDE DEF placed
  <1>12. Follows(placed, w) /\ (Shown(placed) => Shown(w)) /\ (Ok(w) => placed.height >= PropertyRows)
    BY <1>2, <1>10, DrawFollows, Zenon
  <1>13. w \in ViewRecord
    BY <1>2, <1>10, DrawSound, Zenon DEF Sound
  <1>14. Follows(v, w)
    BY <1>1, <1>11, <1>12, <1>13, FollowsOn, Zenon
  <1>15. Ok(v) /\ caret <= len => Shown(w)
    <2> HIDE DEF caret, len, screen, w
    <2> QED BY <1>9, <1>11, <1>12, Zenon DEF Shown, Ok
  <1>16. Ok(w) => w.height >= PropertyRows
    BY <1>12, Zenon DEF Follows
  <1> QED BY <1>14, <1>15, <1>16, Zenon

-----------------------------------------------------------------------------
(* The window through the events.                                          *)

\* A terminal has room for a line of data.
LEMMA ChunkLine ==
    ASSUME term \in Heights
    PROVE  Chunk \in Nat /\ Chunk >= BytesPerLine
  <1>1. term \in Nat /\ term - 2 \in Nat /\ BytesPerLine \in Nat
    BY ViewAssumption, BytesPerLineAssumption
  <1>2. (term - 1) * BytesPerLine = BytesPerLine + (term - 2) * BytesPerLine
    BY <1>1
  <1>3. (term - 2) * BytesPerLine \in Nat
    BY <1>1
  <1> DEFINE more == (term - 2) * BytesPerLine
  <1>4. more \in Nat /\ Chunk = BytesPerLine + more
    BY <1>2, <1>3, Zenon DEF Chunk
  <1> HIDE DEF more
  <1> QED BY <1>1, <1>4

\* Data read from the beginning of a file is the beginning of it.
LEMMA LoadedBeginning ==
    ASSUME NEW size \in Nat
    PROVE  Beginning(Loaded(size))
  BY Zenon DEF Beginning, Loaded

\* main's first screen shows the cursor on the first byte.
LEMMA InitWindow ==
    Init => WindowInv
  <1> SUFFICES ASSUME Init PROVE WindowInv
    BY Zenon
  <1> DEFINE screen == (term - 1) * BytesPerLine
             size == Smaller(FileLen("first"), screen)
             first == FirstView(term)
  <1>1. /\ term \in Heights /\ file = "there" /\ edits = 0 /\ unsettled = FALSE /\ parked = <<>>
        /\ view = Draw(first)
    BY Zenon DEF Init
  <1>2. Sound(first, 0, file) /\ 0 \in Nat
    BY FirstSound, Zenon
  <1>3. first \in ViewRecord
    BY <1>2, Zenon DEF Sound
  <1>4. size \in Nat
    <2>1. term - 1 \in Nat
      BY <1>1, HeightNat, Zenon
    <2>2. screen \in Nat
      BY <2>1, BytesPerLineAssumption
    <2>3. FileLen("first") \in Nat
      BY ViewAssumption, FileLenNat, Zenon DEF Paths
    <2> HIDE DEF screen
    <2> QED BY <2>2, <2>3, Zenon DEF Smaller
  <1>5. /\ first.data = Loaded(size) /\ first.region.caret = 0 /\ first.start_offset = 0
        /\ first.status = "ok" /\ first.trimmed = FALSE
    BY Zenon DEF FirstView, SelRegion
  <1> HIDE DEF first, size
  <1>6. Beginning(first.data)
    BY <1>4, <1>5, LoadedBeginning, Zenon
  <1>7. OnScreen(first)
    <2>1. Len(first.data) \in Nat /\ Screen(first) \in Nat /\ Screen(first) >= BytesPerLine
      BY <1>3, WindowTypes, ScreenLines, Zenon
    <2>2. BytesPerLine \in Nat /\ BytesPerLine > 0
      BY BytesPerLineAssumption
    <2> QED BY <1>3, <1>5, <2>1, <2>2, OnScreenMeans
  <1>8. Shown(first)
    BY <1>5, <1>7, Zenon DEF Shown, Ok
  <1>9. Follows(first, view) /\ Shown(view) /\ (Ok(view) => first.height >= PropertyRows)
    BY <1>1, <1>2, <1>8, DrawFollows, Zenon
  <1> QED BY <1>1, <1>5, <1>6, <1>9, Zenon DEF WindowInv, Follows, Shown

\* An event whose view follows one with the data of before.
LEMMA WindowStep ==
    ASSUME WindowInv, NEW u, u.data = view.data, u.trimmed = view.trimmed,
           Follows(u, view'), Ok(view') => view'.height >= PropertyRows,
           ~unsettled' => Shown(view'), UNCHANGED <<parked, edits>>
    PROVE  WindowInv'
  <1>1. edits' = 0 /\ ~view'.trimmed => Beginning(view'.data)
    BY Zenon DEF WindowInv, Follows
  <1>2. edits' = 0 /\ parked' # <<>> /\ ~parked'[1].trimmed => Beginning(parked'[1].data)
    BY Zenon DEF WindowInv
  <1> QED BY <1>1, <1>2, Zenon DEF WindowInv, Shown

\* The same view with another region.
LEMMA WithRegion ==
    ASSUME NEW v \in ViewRecord, NEW region \in Region
    PROVE  LET w == [v EXCEPT !.region = region]
           IN  /\ w \in ViewRecord /\ w.region = region /\ w.data = v.data /\ w.path = v.path
               /\ w.trimmed = v.trimmed /\ w.start_offset = v.start_offset
               /\ w.height = v.height /\ w.status = v.status
  BY Zenon DEF ViewRecord

\* A selection within the data, from wherever the screen was, settles the view.
LEMMA ChangeInPlaceWindow ==
    ASSUME ViewInv, WindowInv, NEW region \in Selectable(Len(view.data)), ChangeInPlace(region)
    PROVE  WindowInv'
  <1> DEFINE u == [view EXCEPT !.region = region]
             m == MaybeUpdateOffset(u)
  <1>1. Sound(view, edits, file) /\ edits \in Nat /\ term \in Heights /\ view \in ViewRecord
    BY Zenon DEF ViewInv, Sound
  <1>2. Len(view.data) \in Nat
    BY <1>1, WindowTypes, Zenon
  <1>3. region \in Region
    BY <1>2, SelectableRegion, Zenon
  <1>4. Sound(u, edits, file)
    BY <1>1, <1>3, RegionSound, Zenon
  <1>5. /\ u \in ViewRecord /\ u.region = region /\ u.data = view.data /\ u.trimmed = view.trimmed
        /\ u.height = view.height /\ u.status = view.status
    BY <1>1, <1>3, WithRegion, Zenon
  <1>6. /\ Ok(view) /\ view' = DrawRows(m) /\ unsettled' = (region.caret > Len(view.data))
        /\ UNCHANGED <<parked, edits>>
    BY Zenon DEF ChangeInPlace
  <1> HIDE DEF u
  <1>7. Sound(m, edits, file) /\ m \in ViewRecord
    BY <1>1, <1>4, MaybeUpdateOffsetSound, Zenon DEF Sound
  <1>8. /\ Follows(u, m)
        /\ Ok(u) /\ u.height >= PropertyRows /\ u.region.caret <= Len(u.data) => Shown(m)
    BY <1>1, <1>4, MaybeUpdateOffsetShows, Zenon
  <1> HIDE DEF m
  <1>9. /\ view' = Draw(m) /\ Follows(m, view') /\ (Shown(m) => Shown(view'))
        /\ Ok(view') => m.height >= PropertyRows
    BY <1>1, <1>6, <1>7, DrawFollows, Zenon
  <1>10. view' \in ViewRecord
    BY <1>1, <1>7, <1>9, DrawSound, Zenon DEF Sound
  <1>11. Follows(u, view')
    BY <1>5, <1>7, <1>8, <1>9, <1>10, FollowsOn, Zenon
  <1>12. Ok(view') => view'.height >= PropertyRows
    BY <1>9, Zenon DEF Follows
  <1>13. ~unsettled' => Shown(view')
    <2> SUFFICES ASSUME ~unsettled' PROVE Shown(m)
      BY <1>9, Zenon
    <2>1. region.caret <= Len(view.data)
      <3>1. region.caret \in Nat
        BY <1>3, Zenon DEF Region
      <3>2. ~(region.caret > Len(view.data))
        BY <1>6, Zenon
      <3> QED BY <1>2, <3>1, <3>2
    <2>2. Ok(u) /\ u.height >= PropertyRows
      BY <1>5, <1>6, Zenon DEF Ok, WindowInv
    <2> QED BY <1>5, <1>8, <2>1, <2>2, Zenon
  <1> QED BY <1>5, <1>6, <1>11, <1>12, <1>13, WindowStep, Zenon

\* An edit leaves the caret within the data, and so on the screen.
LEMMA ChangeLengthWindow ==
    ASSUME ViewInv, WindowInv, NEW data \in Seq(Nat \cup {Typed}), NEW region \in Region,
           Len(data) <= Len(view.data) + 1, region.caret <= Len(data), ChangeLength(data, region)
    PROVE  WindowInv'
  <1> DEFINE w == [view EXCEPT !.data = data, !.region = region]
  <1>1. /\ Sound(view, edits, file) /\ edits \in Nat /\ view \in ViewRecord
    BY Zenon DEF ViewInv, Sound
  <1>2. /\ w.data = data /\ w.region = region /\ w.status = view.status
    BY <1>1, Zenon DEF ViewRecord
  <1>3. Sound(w, edits + 1, file) /\ edits + 1 \in Nat
    <2>1. edits + 1 \in Nat
      BY <1>1
    <2> QED BY <2>1, EditedSound, Zenon
  <1>4. /\ Ok(view) /\ view' = MaybeUpdateOffsetAndDraw(w) /\ edits' = edits + 1
        /\ unsettled' = FALSE /\ parked' = parked
    BY Zenon DEF ChangeLength
  <1> HIDE DEF w
  <1>5. /\ Ok(w) /\ w.region.caret <= Len(w.data) => Shown(view')
        /\ Ok(view') => view'.height >= PropertyRows
    BY <1>3, <1>4, MaybeUpdateOffsetAndDrawShows, Zenon
  <1>6. Ok(w)
    BY <1>2, <1>4, Zenon DEF Ok
  <1>7. Shown(view')
    BY <1>2, <1>5, <1>6, Zenon
  <1>8. edits' # 0
    BY <1>1, <1>4
  <1> QED BY <1>5, <1>7, <1>8, Zenon DEF WindowInv, Shown

\* The buffer that becomes current, with its cursor.
LEMMA SwitchWindow ==
    ASSUME ViewInv, NEW buf \in BufferRecord,
           Len(buf.data) <= FileLen(buf.path) + edits, Switch(buf),
           edits = 0 /\ ~buf.trimmed => Beginning(buf.data)
    PROVE  /\ edits = 0 /\ ~view'.trimmed => Beginning(view'.data)
           /\ Ok(view') => view'.height >= PropertyRows
           /\ ~unsettled' => Shown(view')
  <1> DEFINE w == [view EXCEPT !.path = buf.path, !.data = buf.data,
                               !.region = buf.region, !.trimmed = buf.trimmed]
  <1>1. edits \in Nat /\ view \in ViewRecord
    BY Zenon DEF ViewInv, Sound
  <1>2. Sound(w, edits, file)
    BY SwitchedSound, Zenon
  <1>3. /\ w.data = buf.data /\ w.region = buf.region /\ w.trimmed = buf.trimmed
        /\ w.status = view.status
    BY <1>1, Zenon DEF ViewRecord
  <1>4. /\ Ok(view) /\ view' = MaybeUpdateOffsetAndDraw(w)
        /\ unsettled' = (buf.region.caret > Len(buf.data))
    BY Zenon DEF Switch
  <1> HIDE DEF w
  <1>5. /\ Follows(w, view')
        /\ Ok(w) /\ w.region.caret <= Len(w.data) => Shown(view')
        /\ Ok(view') => view'.height >= PropertyRows
    BY <1>1, <1>2, <1>4, MaybeUpdateOffsetAndDrawShows, Zenon
  <1>6. edits = 0 /\ ~view'.trimmed => Beginning(view'.data)
    BY <1>3, <1>5, Zenon DEF Follows
  <1>7. ~unsettled' => Shown(view')
    <2> SUFFICES ASSUME ~unsettled' PROVE Shown(view')
      BY Zenon
    <2>1. w \in ViewRecord
      BY <1>2, Zenon DEF Sound
    <2>2. w.region.caret \in Nat /\ Len(w.data) \in Nat
      BY <2>1, WindowTypes, Zenon
    <2>3. w.region.caret <= Len(w.data)
      <3>1. ~(w.region.caret > Len(w.data))
        BY <1>3, <1>4, Zenon
      <3> QED BY <2>2, <3>1
    <2>4. Ok(w)
      BY <1>3, <1>4, Zenon DEF Ok
    <2> QED BY <1>5, <2>3, <2>4, Zenon
  <1> QED BY <1>5, <1>6, <1>7, Zenon

\* :e parks the data as it is, and starts with a file that was read completely.
LEMMA OpenWindow ==
    ASSUME ViewInv, WindowInv, NEW path \in DOMAIN FileLens, Open(path)
    PROVE  WindowInv'
  <1> DEFINE old == [path |-> view.path, data |-> view.data, region |-> view.region,
                     trimmed |-> view.trimmed]
  <1>1. edits \in Nat /\ path \in Paths
    BY Zenon DEF ViewInv, Paths
  <1>2. /\ NewBuffer(path) \in BufferRecord
        /\ Len(NewBuffer(path).data) <= FileLen(NewBuffer(path).path) + edits
    BY <1>1, NewBufferSound, Zenon
  <1>3. Beginning(NewBuffer(path).data)
    BY <1>1, FileLenNat, LoadedBeginning, Zenon DEF NewBuffer
  <1>4. Switch(NewBuffer(path)) /\ parked' = <<old>>
    BY Zenon DEF Open
  <1>5. /\ edits = 0 /\ ~view'.trimmed => Beginning(view'.data)
        /\ Ok(view') => view'.height >= PropertyRows
        /\ ~unsettled' => Shown(view')
    BY <1>2, <1>3, <1>4, SwitchWindow, Zenon
  <1>6. edits' = edits
    BY <1>4, Zenon DEF Switch
  <1>7. old.data = view.data /\ old.trimmed = view.trimmed
    BY Zenon
  <1> HIDE DEF old
  <1>8. parked'[1] = old
    BY <1>4, Zenon
  <1> QED BY <1>5, <1>6, <1>7, <1>8, Zenon DEF WindowInv, Shown

\* :db! goes back to a parked buffer, or to an empty one.
LEMMA DeleteCurrentWindow ==
    ASSUME ViewInv, WindowInv, DeleteCurrent
    PROVE  WindowInv'
  <1> DEFINE buf == IF parked = <<>> THEN NewBuffer(Scratch) ELSE parked[1]
  <1>1. edits \in Nat /\ Scratch \in Paths
    BY Zenon DEF ViewInv, Paths
  <1>2. /\ NewBuffer(Scratch) \in BufferRecord
        /\ Len(NewBuffer(Scratch).data) <= FileLen(NewBuffer(Scratch).path) + edits
    BY <1>1, NewBufferSound, Zenon
  <1>3. Beginning(NewBuffer(Scratch).data)
    BY <1>1, FileLenNat, LoadedBeginning, Zenon DEF NewBuffer
  <1>4. parked # <<>> => /\ parked[1] \in BufferRecord
                         /\ Len(parked[1].data) <= FileLen(parked[1].path) + edits
    BY Zenon DEF ViewInv
  <1>5. buf \in BufferRecord /\ Len(buf.data) <= FileLen(buf.path) + edits
    BY <1>2, <1>4, Zenon
  <1>6. edits = 0 /\ ~buf.trimmed => Beginning(buf.data)
    BY <1>3, Zenon DEF WindowInv
  <1>7. Switch(buf) /\ parked' = <<>>
    BY Zenon DEF DeleteCurrent
  <1> HIDE DEF buf
  <1>8. /\ edits = 0 /\ ~view'.trimmed => Beginning(view'.data)
        /\ Ok(view') => view'.height >= PropertyRows
        /\ ~unsettled' => Shown(view')
    BY <1>5, <1>6, <1>7, SwitchWindow, Zenon
  <1>9. edits' = edits
    BY <1>7, Zenon DEF Switch
  <1> QED BY <1>7, <1>8, <1>9, Zenon DEF WindowInv, Shown

\* The region Ctrl-e and Ctrl-y move the cursor to.
LEMMA LineMoved ==
    ASSUME NEW r \in Region, NEW max_size \in Nat
    PROVE  LET down == SimpleMove(r, "Down", max_size, 1).caret
               up == SimpleMove(r, "Up", max_size, 1).caret
           IN  /\ down = IF max_size = 0 THEN r.caret ELSE Smaller(max_size, r.caret + BytesPerLine)
               /\ up = IF max_size = 0 THEN r.caret ELSE Larger(0, r.caret - BytesPerLine)
  <1>1. BytesPerLine * 1 = BytesPerLine
    BY BytesPerLineAssumption
  <1> QED BY <1>1, Zenon DEF SimpleMove, SteppedCaret, SelRegion

\* Ctrl-e moves the cursor and the screen by a line each, or neither, or the
\* cursor only, to the end of the data.
LEMMA CtrlEWindow ==
    ASSUME ViewInv, WindowInv, CtrlE
    PROVE  WindowInv'
  <1> DEFINE loaded == LoadNextChunk(view, Chunk)
             region == SimpleMove(loaded.region, "Down", Len(loaded.data), 1)
             moved == [loaded EXCEPT !.region = region]
             down == ScrollDown(moved, 1)
             B == BytesPerLine
  <1>1. Sound(view, edits, file) /\ edits \in Nat /\ term \in Heights /\ view \in ViewRecord
    BY Zenon DEF ViewInv, Sound
  <1>2. Chunk \in Nat /\ Chunk >= B /\ B \in Nat /\ B > 0
    BY <1>1, ChunkLine, BytesPerLineAssumption
  <1>3. Sound(loaded, edits, file) /\ loaded \in ViewRecord
    BY <1>1, <1>2, LoadSound, Zenon DEF Sound
  <1>4. /\ Follows(view, loaded)
        /\ loaded.start_offset = view.start_offset /\ loaded.trimmed = view.trimmed
        /\ loaded.status \in {view.status, "exited"}
        /\ loaded.status # "exited" =>
              Len(loaded.data) = Len(view.data)
                                 + Larger(0, Smaller(Chunk, FileLen(view.path) - Len(view.data)))
    BY <1>1, <1>2, LoadFollows, Zenon
  <1>5. /\ Ok(view) /\ view' = IF Ok(loaded) THEN Draw(down) ELSE loaded
        /\ unsettled' = unsettled /\ UNCHANGED <<parked, edits>>
    BY Zenon DEF CtrlE
  <1> HIDE DEF loaded
  <1>6. CASE ~Ok(loaded)
    <2>1. view' = loaded
      BY <1>5, <1>6, Zenon
    <2>2. Shown(view') /\ ~Ok(view')
      BY <1>4, <1>5, <1>6, <2>1, Zenon DEF Shown, Ok
    <2> QED BY <1>4, <1>5, <2>1, <2>2, WindowStep, Zenon
  <1>7. CASE Ok(loaded)
    <2>1. /\ loaded.region \in Region /\ Len(loaded.data) \in Nat
          /\ Len(view.data) \in Nat /\ FileLen(view.path) \in Nat
      BY <1>1, <1>3, WindowTypes, Zenon
    <2>2. region \in Region
      BY <2>1, SimpleMoveRegion, Zenon
    <2>3. region.caret = IF Len(loaded.data) = 0 THEN loaded.region.caret
                         ELSE Smaller(Len(loaded.data), loaded.region.caret + B)
      BY <2>1, LineMoved, Zenon
    <2> HIDE DEF region
    <2>4. Sound(moved, edits, file)
      BY <1>1, <1>3, <2>2, RegionSound, Zenon
    <2>5. /\ moved \in ViewRecord /\ moved.region = region /\ moved.data = loaded.data
          /\ moved.path = loaded.path /\ moved.trimmed = loaded.trimmed
          /\ moved.start_offset = loaded.start_offset
          /\ moved.height = loaded.height /\ moved.status = loaded.status
      BY <1>3, <2>2, WithRegion, Zenon
    <2> HIDE DEF moved
    <2>6. Sound(down, edits, file) /\ down \in ViewRecord
      BY <1>1, <2>4, ScrollDownSound, Zenon DEF Sound
    <2>7. Follows(moved, down)
      BY <1>1, <2>4, ScrollDownShows, Zenon
    <2>8. /\ view' = Draw(down) /\ Follows(down, view') /\ (Shown(down) => Shown(view'))
          /\ Ok(view') => down.height >= PropertyRows
      <3> HIDE DEF down
      <3> QED BY <1>1, <1>5, <1>7, <2>6, DrawFollows, Zenon
    <2>9. view' \in ViewRecord
      BY <1>1, <2>6, <2>8, DrawSound, Zenon DEF Sound
    <2>10. Follows(moved, view')
      BY <2>5, <2>6, <2>7, <2>8, <2>9, FollowsOn, Zenon
    <2>11. Ok(view') => view'.height >= PropertyRows
      BY <2>8, Zenon DEF Follows
    <2>12. edits' = 0 /\ ~view'.trimmed => Beginning(view'.data)
      BY <1>4, <1>5, <2>5, <2>10, Zenon DEF Follows, WindowInv
    <2>13. ASSUME ~unsettled, ~view.trimmed PROVE Shown(down)
      <3> DEFINE caret == view.region.caret
                 start == view.start_offset
                 screen == Screen(view)
                 len == Len(view.data)
                 size == Len(loaded.data)
                 full == FileLen(view.path)
                 next_position == start + B
                 read == Larger(0, Smaller(SmallLoad, full - size))
      <3>1. OnScreen(view) /\ view.height >= PropertyRows
        BY <1>5, <2>13, Zenon DEF WindowInv
      <3>2. start <= caret /\ caret <= len /\ caret < start + screen /\ screen >= 2 * B
        BY <1>1, <3>1, OnScreenMeans, ScreenLines, Zenon
      <3>3. /\ caret \in Nat /\ start \in Nat /\ screen \in Nat /\ SmallLoad \in Nat
            /\ len \in Nat /\ size \in Nat /\ full \in Nat
        BY <1>1, <2>1, WindowTypes, ViewAssumption, Zenon
      <3>4. /\ loaded.region = view.region /\ loaded.path = view.path
            /\ loaded.height = view.height /\ Screen(moved) = screen
        BY <1>4, <2>5, Zenon DEF Follows, Screen
      <3>5. size = len + Larger(0, Smaller(Chunk, full - len))
        BY <1>4, <1>7, Zenon DEF Ok
      <3>6. region.caret = IF size = 0 THEN caret ELSE Smaller(size, caret + B)
        BY <2>3, <3>4, Zenon
      <3>7. len <= size /\ (size >= len + B \/ size >= full)
        <4> HIDE DEF len, size, full, B
        <4> QED BY <1>2, <3>3, <3>5 DEF Larger, Smaller
      <3>8. read \in Nat /\ (size >= full => read = 0)
        <4> HIDE DEF size, full
        <4> QED BY <3>3 DEF Larger, Smaller
      <3> HIDE DEF read
      <3>9. start <= region.caret /\ region.caret <= size /\ region.caret < next_position + screen
        <4> HIDE DEF caret, start, len, size, screen, B
        <4> QED BY <1>2, <3>2, <3>3, <3>6, <3>7 DEF Smaller
      <3>10. ASSUME NEW x \in {size, size + read}, next_position >= x
             PROVE  OnScreen(moved)
        <4>1. region.caret < start + screen
          <5> HIDE DEF caret, start, len, size, screen, B
          <5>1. region.caret \in Nat
            BY <2>2, Zenon DEF Region
          <5> QED BY <1>2, <3>2, <3>3, <3>8, <3>9, <3>10, <5>1
        <4>2. moved.region.caret = region.caret /\ moved.start_offset = start /\ Len(moved.data) = size
          BY <1>4, <2>5, Zenon
        <4> QED BY <2>5, <3>4, <3>9, <4>1, <4>2, OnScreenMeans, Zenon
      <3>11. ASSUME NEW x \in {size, size + read}, ~(next_position >= x)
             PROVE  next_position <= region.caret
        <4> HIDE DEF caret, start, len, size, full, screen, B
        <4>1. CASE size >= len + B
          BY <1>2, <3>2, <3>3, <3>6, <4>1 DEF Smaller
        <4>2. CASE size >= full
          <5>1. x = size
            BY <3>3, <3>8, <3>11, <4>2
          <5> QED BY <1>2, <3>2, <3>3, <3>6, <3>11, <5>1 DEF Smaller
        <4> QED BY <3>7, <4>1, <4>2, Zenon
      <3>12. /\ moved.start_offset = start /\ moved.data = loaded.data /\ moved.region = region
             /\ FileLen(moved.path) = full /\ Screen(moved) = screen
        BY <1>4, <2>5, <3>4, Zenon
      <3>13. 1 * BytesPerLine = B
        BY BytesPerLineAssumption
      <3>14. (/\ Ok(moved) /\ region.caret <= size
              /\ \A x \in {size, size + read} :
                     IF next_position >= x
                     THEN OnScreen(moved)
                     ELSE next_position <= region.caret /\ region.caret < next_position + screen)
             => Shown(down)
        <4>1. LET position == moved.start_offset + 1 * BytesPerLine
                  more == Larger(0, Smaller(SmallLoad, FileLen(moved.path) - Len(moved.data)))
              IN  (/\ Ok(moved) /\ moved.region.caret <= Len(moved.data)
                   /\ \A x \in {Len(moved.data), Len(moved.data) + more} :
                         IF position >= x
                         THEN OnScreen(moved)
                         ELSE /\ position <= moved.region.caret
                              /\ moved.region.caret < position + Screen(moved))
                  => Shown(down)
          BY <1>1, <2>4, ScrollDownShows, Zenon
        <4> HIDE DEF down
        <4> QED BY <3>12, <3>13, <4>1, Zenon DEF read
      <3>15. Ok(moved)
        BY <1>7, <2>5, Zenon DEF Ok
      <3> HIDE DEF next_position, size, screen, down
      <3> QED BY <3>9, <3>10, <3>11, <3>14, <3>15, Zenon
    <2>14. ~unsettled' => Shown(view')
      <3> SUFFICES ASSUME ~unsettled', ~view'.trimmed PROVE Shown(view')
        BY Zenon DEF Shown
      <3>1. ~unsettled /\ ~view.trimmed
        BY <1>4, <1>5, <2>5, <2>10, Zenon DEF Follows
      <3> QED BY <2>8, <2>13, <3>1, Zenon
    <2>15. edits' = 0 /\ parked' # <<>> /\ ~parked'[1].trimmed => Beginning(parked'[1].data)
      BY <1>5, Zenon DEF WindowInv
    <2> QED BY <2>11, <2>12, <2>14, <2>15, Zenon DEF WindowInv, Shown
  <1> QED BY <1>6, <1>7, Zenon

\* Ctrl-y moves the cursor up a line, and the screen too unless it starts at
\* the first one.
LEMMA CtrlYWindow ==
    ASSUME ViewInv, WindowInv, CtrlY
    PROVE  WindowInv'
  <1> DEFINE region == SimpleMove(view.region, "Up", Len(view.data), 1)
             moved == [view EXCEPT !.region = region]
             up == ScrollUp(moved, 1)
             caret == view.region.caret
             start == view.start_offset
             screen == Screen(view)
             len == Len(view.data)
             B == BytesPerLine
  <1>1. Sound(view, edits, file) /\ edits \in Nat /\ view \in ViewRecord
    BY Zenon DEF ViewInv, Sound
  <1>2. /\ view.region \in Region /\ caret \in Nat /\ start \in Nat /\ screen \in Nat
        /\ len \in Nat /\ B \in Nat /\ B > 0 /\ start % B = 0
    BY <1>1, WindowTypes, BytesPerLineAssumption DEF Sound
  <1>3. Ok(view) /\ view' = Draw(up) /\ unsettled' = unsettled /\ UNCHANGED <<parked, edits>>
    BY Zenon DEF CtrlY
  <1>4. region \in Region
    BY <1>2, SimpleMoveRegion, Zenon
  <1>5. region.caret = IF len = 0 THEN caret ELSE Larger(0, caret - B)
    BY <1>2, LineMoved, Zenon
  <1> HIDE DEF region
  <1>6. Sound(moved, edits, file)
    BY <1>1, <1>4, RegionSound, Zenon
  <1>7. /\ moved \in ViewRecord /\ moved.region = region /\ moved.data = view.data
        /\ moved.trimmed = view.trimmed /\ moved.start_offset = view.start_offset
        /\ moved.height = view.height /\ moved.status = view.status
    BY <1>1, <1>4, WithRegion, Zenon
  <1> HIDE DEF moved
  <1>8. Sound(up, edits, file) /\ up \in ViewRecord
    BY <1>1, <1>6, ScrollUpSound, Zenon DEF Sound
  <1>9. 1 * BytesPerLine = B
    BY BytesPerLineAssumption
  <1>10. Screen(moved) = screen
    BY <1>7, Zenon DEF Screen
  <1>11. /\ Follows(moved, up)
         /\ (/\ Ok(moved)
             /\ start < B => OnScreen(moved)
             /\ B <= start => /\ start - B <= region.caret
                              /\ region.caret <= len
                              /\ region.caret < start - B + screen)
            => Shown(up)
    <2>1. LET back == 1 * BytesPerLine
          IN  /\ Follows(moved, up)
              /\ (/\ Ok(moved)
                  /\ moved.start_offset < back => OnScreen(moved)
                  /\ back <= moved.start_offset =>
                        /\ moved.start_offset - back <= moved.region.caret
                        /\ moved.region.caret <= Len(moved.data)
                        /\ moved.region.caret < moved.start_offset - back + Screen(moved))
                 => Shown(up)
      BY <1>1, <1>6, ScrollUpShows, Zenon
    <2> HIDE DEF up
    <2> QED BY <1>7, <1>9, <1>10, <2>1, Zenon
  <1>12. ASSUME ~unsettled, ~view.trimmed PROVE Shown(up)
    <2>1. OnScreen(view)
      BY <1>3, <1>12, Zenon DEF WindowInv
    <2>2. start <= caret /\ caret <= len /\ caret < start + screen
      BY <1>1, <2>1, OnScreenMeans, Zenon
    <2>3. ASSUME start < B PROVE OnScreen(moved)
      <3>1. start = 0
        <4> SUFFICES ASSUME 0 < start PROVE FALSE
          BY <1>2
        <4>1. 0 \in Int /\ start \in Int /\ 0 % B = 0
          BY <1>2
        <4>2. 0 + B <= start
          BY <1>2, <4>1, LineApart, Zenon
        <4> QED BY <1>2, <2>3, <4>2
      <3>2. start <= region.caret /\ region.caret <= len /\ region.caret < start + screen
        <4> HIDE DEF caret, start, len, screen, B
        <4> QED BY <1>2, <1>5, <2>2, <3>1 DEF Larger
      <3> QED BY <1>7, <1>10, <3>2, OnScreenMeans, Zenon
    <2>4. ASSUME B <= start
          PROVE  start - B <= region.caret /\ region.caret <= len /\ region.caret < start - B + screen
      <3> HIDE DEF caret, start, len, screen, B
      <3> QED BY <1>2, <1>5, <2>2, <2>4 DEF Larger
    <2>5. Ok(moved)
      BY <1>3, <1>7, Zenon DEF Ok
    <2> HIDE DEF up, start, len, screen, B
    <2> QED BY <1>11, <2>3, <2>4, <2>5, Zenon
  <1> HIDE DEF up
  <1>13. /\ Follows(up, view') /\ (Shown(up) => Shown(view'))
         /\ Ok(view') => up.height >= PropertyRows
    BY <1>1, <1>3, <1>8, DrawFollows, Zenon
  <1>14. view' \in ViewRecord
    BY <1>1, <1>3, <1>8, DrawSound, Zenon DEF Sound
  <1>15. Follows(moved, view')
    BY <1>7, <1>8, <1>11, <1>13, <1>14, FollowsOn, Zenon
  <1>16. Ok(view') => view'.height >= PropertyRows
    BY <1>13, Zenon DEF Follows
  <1>17. ~unsettled' => Shown(view')
    <2> SUFFICES ASSUME ~unsettled', ~view'.trimmed PROVE Shown(view')
      BY Zenon DEF Shown
    <2>1. ~unsettled /\ ~view.trimmed
      BY <1>3, <1>7, <1>15, Zenon DEF Follows
    <2> QED BY <1>12, <1>13, <2>1, Zenon
  <1> QED BY <1>3, <1>7, <1>15, <1>16, <1>17, WindowStep, Zenon

\* A screen that grows shows what it showed.
LEMMA ResizeWindow ==
    ASSUME ViewInv, WindowInv, Resize
    PROVE  WindowInv'
  <1> DEFINE w == [view EXCEPT !.height = term]
  <1>1. Sound(view, edits, file) /\ edits \in Nat /\ term \in Heights /\ view \in ViewRecord
    BY Zenon DEF ViewInv, Sound
  <1>2. /\ w \in ViewRecord /\ w.start_offset = view.start_offset /\ w.data = view.data
        /\ w.path = view.path /\ w.status = view.status /\ w.region = view.region
        /\ w.trimmed = view.trimmed /\ w.height = term
    BY <1>1, Zenon DEF ViewRecord
  <1>3. /\ Ok(view) /\ view' = Draw(w) /\ unsettled' = (unsettled \/ term < view.height)
        /\ UNCHANGED <<parked, edits>>
    BY Zenon DEF Resize
  <1> HIDE DEF w
  <1>4. Sound(w, edits, file)
    BY <1>1, <1>2, <1>3, Zenon DEF Sound, Ok
  <1>5. /\ Follows(w, view') /\ (Shown(w) => Shown(view'))
        /\ Ok(view') => w.height >= PropertyRows
    BY <1>1, <1>3, <1>4, DrawFollows, Zenon
  <1>6. Ok(view') => view'.height >= PropertyRows
    BY <1>5, Zenon DEF Follows
  <1>7. ASSUME ~unsettled, ~(term < view.height), ~view.trimmed PROVE Shown(w)
    <2>1. OnScreen(view)
      BY <1>3, <1>7, Zenon DEF WindowInv
    <2>2. /\ view.start_offset <= view.region.caret /\ view.region.caret <= Len(view.data)
          /\ view.region.caret < view.start_offset + Screen(view)
      BY <1>1, <2>1, OnScreenMeans, Zenon
    <2>3. /\ view.height \in Nat /\ term \in Nat /\ view.region.caret \in Nat
          /\ view.start_offset \in Nat /\ Screen(view) \in Nat /\ Screen(w) \in Nat
      BY <1>1, <1>2, WindowTypes, HeightNat, Zenon
    <2>4. Screen(view) <= Screen(w)
      <3>1. term - view.height \in Nat /\ BytesPerLine \in Nat
        BY <1>7, <2>3, BytesPerLineAssumption
      <3>2. (term - view.height) * BytesPerLine \in Nat
        BY <3>1
      <3>3. (term - 1) * BytesPerLine
              = (view.height - 1) * BytesPerLine + (term - view.height) * BytesPerLine
        BY <2>3, <3>1
      <3> DEFINE more == (term - view.height) * BytesPerLine
      <3>4. more \in Nat /\ Screen(w) = Screen(view) + more
        BY <1>2, <3>2, <3>3, Zenon DEF Screen
      <3> HIDE DEF more
      <3> QED BY <2>3, <3>4
    <2>5. view.region.caret < view.start_offset + Screen(w)
      BY <2>2, <2>3, <2>4
    <2>6. OnScreen(w)
      BY <1>2, <2>2, <2>5, OnScreenMeans, Zenon
    <2> QED BY <1>2, <1>3, <2>6, Zenon DEF Shown, Ok
  <1>8. ~unsettled' => Shown(view')
    <2> SUFFICES ASSUME ~unsettled', ~view'.trimmed PROVE Shown(view')
      BY Zenon DEF Shown
    <2>1. ~unsettled /\ ~(term < view.height)
      BY <1>3, Zenon
    <2>2. ~view.trimmed
      BY <1>2, <1>5, Zenon DEF Follows
    <2> QED BY <1>5, <1>7, <2>1, <2>2, Zenon
  <1> QED BY <1>2, <1>3, <1>5, <1>6, <1>8, WindowStep, Zenon

\* Every event.
LEMMA NextWindow ==
    ViewInv /\ WindowInv /\ [Next]_vars => WindowInv'
  <1> SUFFICES ASSUME ViewInv, WindowInv, [Next]_vars PROVE WindowInv'
    BY Zenon
  <1>1. CASE \E region \in Selectable(Len(view.data)) : ChangeInPlace(region)
    BY <1>1, ChangeInPlaceWindow, Zenon
  <1>2. CASE TypeByte \/ DeleteRegion
    <2>1. PICK data \in Seq(Nat \cup {Typed}), region \in Region :
              /\ Len(data) <= Len(view.data) + 1 /\ region.caret <= Len(data)
              /\ ChangeLength(data, region)
      BY <1>2, TypeByteEdit, DeleteRegionEdit, Zenon
    <2> QED BY <2>1, ChangeLengthWindow, Zenon
  <1>3. CASE \E path \in DOMAIN FileLens : Open(path)
    BY <1>3, OpenWindow, Zenon
  <1>4. CASE DeleteCurrent
    BY <1>4, DeleteCurrentWindow, Zenon
  <1>5. CASE CtrlE
    BY <1>5, CtrlEWindow, Zenon
  <1>6. CASE CtrlY
    BY <1>6, CtrlYWindow, Zenon
  <1>7. CASE Resize
    BY <1>7, ResizeWindow, Zenon
  <1>8. CASE TerminalResized \/ FileRemoved \/ Stopped \/ UNCHANGED vars
    <2>1. UNCHANGED <<view, parked, edits, unsettled>>
      BY <1>8, Zenon DEF TerminalResized, FileRemoved, Stopped, vars
    <2> QED BY <2>1, Zenon DEF WindowInv
  <1> QED BY <1>1, <1>2, <1>3, <1>4, <1>5, <1>6, <1>7, <1>8, Zenon DEF Next

-----------------------------------------------------------------------------
(* Theorems.                                                               *)

\* The inductive invariant holds, whatever is selected, typed, deleted, opened,
\* closed, scrolled and resized, and whenever the file disappears.
THEOREM ViewInductive == Spec => []ViewInv
  <1>1. Init => ViewInv
    BY InitSound, Zenon
  <1>2. ViewInv /\ [Next]_vars => ViewInv'
    BY NextStep, Zenon
  <1> QED BY <1>1, <1>2, PTL DEF Spec

\* The screen starts at the start of a line, with lines of every length, and
\* start_offset never goes below 0: after every scroll, trim, jump, edit and resize.
THEOREM ScreenStartsAtLine == Spec => []AlignedToLines
  <1>1. ViewInv => AlignedToLines
    BY Zenon DEF ViewInv, Sound, ViewRecord, AlignedToLines
  <1> QED BY <1>1, ViewInductive, PTL

\* load_next_chunk never makes the data longer than its file and what was
\* typed, for files, screens and loads of every size, and after trims.
THEOREM DataStaysWithinFile == Spec => []LoadsWithinFile
  <1>1. ViewInv => LoadsWithinFile
    BY Zenon DEF ViewInv, Sound, LoadsWithinFile
  <1> QED BY <1>1, ViewInductive, PTL

\* Only a screen with fewer rows than property lines makes draw_rows loop
\* forever, and only a file that is gone ends the event loop.
THEOREM StopsAreExplained == Spec => []StopCauses
  <1>1. ViewInv => StopCauses
    BY Zenon DEF ViewInv, Sound, StopCauses
  <1> QED BY <1>1, ViewInductive, PTL

\* The window's invariant holds, with the other one.
THEOREM WindowInductive == Spec => []WindowInv
  <1>1. Init => WindowInv
    BY InitWindow, Zenon
  <1>2. ViewInv /\ WindowInv /\ [Next]_vars => WindowInv'
    BY NextWindow, Zenon
  <1> QED BY <1>1, <1>2, ViewInductive, PTL DEF Spec

\* The main cursor is on the screen after every event, for files, screens,
\* lines and loads of every size: unless a trim moved the data, or the view
\* waits to be settled after a smaller screen or a jump past the end.
THEOREM CursorStaysOnScreen == Spec => []CursorOnScreen
  <1>1. WindowInv => CursorOnScreen
    BY Zenon DEF WindowInv, CursorOnScreen
  <1> QED BY <1>1, WindowInductive, PTL

\* What load_next_chunk reads continues the data: until an edit or a trim it is
\* the beginning of the file, also in a buffer that was switched away from.
THEOREM LoadsContinueTheFile == Spec => []LoadedIsPrefix
  <1>1. WindowInv => LoadedIsPrefix
    BY Zenon DEF WindowInv, LoadedIsPrefix
  <1> QED BY <1>1, WindowInductive, PTL

\* Drawing panics only after a trim, or with a view that waits to be settled.
THEOREM DrawPanicsExplained == Spec => []DrawPanicCauses
  <1>1. ViewInv /\ WindowInv => DrawPanicCauses
    BY Zenon DEF ViewInv, Sound, ViewRecord, WindowInv, DrawPanicCauses
  <1> QED BY <1>1, ViewInductive, WindowInductive, PTL

=============================================================================
