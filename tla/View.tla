-------------------------------- MODULE View --------------------------------
(***************************************************************************)
(* The window of the hex view (hex_view/view.rs): which part of the file   *)
(* is loaded, which part of the loaded data is on the screen, and where    *)
(* the main cursor is.  Every event of the loop is one action that runs    *)
(* the whole handler, drawing included, because drawing loads data too.    *)
(* The handlers are operators on a view; one that has stopped (status)     *)
(* passes through unchanged, as `?` would make it.                         *)
(*                                                                         *)
(* A byte of the data is the file offset it was read from, or Typed.       *)
(***************************************************************************)
EXTENDS SelRegions

CONSTANTS FileLens,      \* the lengths of the files, by path; one of them is "first"
          Heights,       \* heights the terminal can have
          SmallLoad,     \* the 64 bytes drawing and scrolling ask for
          PropertyRows,  \* BytePropertiesFormatter::height()
          MaxEdits,      \* bound on the number of edits
          Beyond         \* how far a jump can go past the end of the data

ASSUME ViewAssumption ==
    /\ "first" \in DOMAIN FileLens
    /\ \A path \in DOMAIN FileLens : FileLens[path] \in Nat
    /\ Heights \subseteq Nat \ {0, 1}
    /\ SmallLoad \in Nat /\ PropertyRows \in Nat \ {0, 1, 2}
    /\ MaxEdits \in Nat /\ Beyond \in Nat

VARIABLES
    view,        \* HexView, as far as it is modelled, with its current buffer
    parked,      \* the buffer before the current one in the list, an option
    term,        \* terminal::size().1, which view.height follows with a delay
    file,        \* "there", or "gone" once no file can be opened any more
    edits,       \* history: how many edits there were
    unsettled    \* history: a smaller screen or a jump past the end of the
                 \* data may have left the cursor outside the screen

vars == <<view, parked, term, file, edits, unsettled>>

Typed == -1

-----------------------------------------------------------------------------
(***************************************************************************)
(* Loading and trimming.                                                   *)
(***************************************************************************)

Ok(v) == v.status = "ok"

Scratch == "*scratch*"

\* A buffer without a path has no file.
FileLen(path) == IF path = Scratch THEN 0 ELSE FileLens[path]

Loaded(size) == [x \in 1 .. size |-> x - 1]

\* The chunk size scrolling works with asks the terminal, not the view.
Chunk == (term - 1) * BytesPerLine

Screen(v) == (v.height - 1) * BytesPerLine

\* Variant: the read always starts over at the beginning of the file.
LoadFromStart(v, chunk_size) ==
    IF v.path # Scratch /\ file = "gone"
    THEN [v EXCEPT !.status = "exited"]
    ELSE [v EXCEPT !.data = @ \o Loaded(Smaller(chunk_size, FileLen(v.path)))]

\* load_next_chunk reads where the data would end if it were the beginning of
\* the file.  An error leaves the event loop.
LoadNextChunk(v, chunk_size) ==
    LET at == Len(v.data)
        read == Larger(0, Smaller(chunk_size, FileLen(v.path) - at))
    IN  IF v.path # Scratch /\ file = "gone"
        THEN [v EXCEPT !.status = "exited"]
        ELSE [v EXCEPT !.data = @ \o [x \in 1 .. read |-> at + x - 1]]

ShouldTrim(v) == Len(v.data) > 3 * Chunk

TrimBufferTop(v, chunk_size) ==
    IF chunk_size = 0 \/ Len(v.data) <= 2 * chunk_size
    THEN v
    ELSE [v EXCEPT !.data = SubSeq(@, chunk_size + 1, Len(@)),
                   !.start_offset = Larger(0, @ - chunk_size),
                   !.trimmed = TRUE]

-----------------------------------------------------------------------------
(***************************************************************************)
(* Drawing.                                                                *)
(***************************************************************************)

\* visible_bytes is start_offset .. VisibleEnd - 1; the byte past the end of
\* the data is the overflow cursor's.
VisibleEnd(v) == Smaller(Len(v.data) + 1, v.start_offset + Screen(v))

EnsureVisibleData(v) ==
    IF VisibleEnd(v) > Len(v.data) THEN LoadNextChunk(v, SmallLoad) ELSE v

\* regions_in_range on a selection of one region.
InRange(r, start, end) ==
    start <= MaxByte(r) /\ (end > MaxByte(r) \/ MinByte(r) <= end)

\* regions_in_range slices backwards when the screen starts after the data
\* and the region lies in between.
RangePanics(v) ==
    LET end == VisibleEnd(v)
    IN  /\ v.start_offset > MaxByte(v.region)
        /\ end <= MaxByte(v.region)
        /\ MinByte(v.region) > end

\* The four bytes at the main cursor are taken from the visible ones.
CurrentBytesPanics(v) ==
    LET end == VisibleEnd(v)
        visible == Smaller(end, Len(v.data)) - v.start_offset
    IN  /\ InRange(v.region, v.start_offset, end)
        /\ \/ v.region.caret < v.start_offset
           \/ v.region.caret - v.start_offset > visible

\* Variant: one property line more than there are.
PaintedOneMore(v) ==
    IF ~Ok(v)
    THEN v
    ELSE [v EXCEPT !.status = IF RangePanics(v) \/ CurrentBytesPanics(v) THEN "panicked"
                              ELSE IF v.height < PropertyRows + 1 THEN "hung"
                              ELSE "ok"]

\* draw_row skips a row below the screen without printing its property line,
\* and the loop that prints the remaining property lines never ends.
Painted(v) ==
    IF ~Ok(v)
    THEN v
    ELSE [v EXCEPT !.status = IF RangePanics(v) \/ CurrentBytesPanics(v) THEN "panicked"
                              ELSE IF v.height < PropertyRows THEN "hung"
                              ELSE "ok"]

Draw(v) == IF Ok(v) THEN Painted(EnsureVisibleData(v)) ELSE v
DrawRows(v) == IF Ok(v) THEN Painted(EnsureVisibleData(v)) ELSE v

-----------------------------------------------------------------------------
(***************************************************************************)
(* Scrolling.                                                              *)
(***************************************************************************)

ScrollDown(v, line_count) ==
    LET next_position == v.start_offset + line_count * BytesPerLine
        next_visible_end == next_position + v.height * BytesPerLine
        tried == LoadNextChunk(v, SmallLoad)
        ready == IF next_visible_end <= Len(v.data) THEN v
                 ELSE IF Len(tried.data) > Len(v.data) /\ ShouldTrim(tried)
                 THEN TrimBufferTop(tried, Chunk)
                 ELSE tried
    IN  IF ~Ok(v) \/ ~Ok(ready) \/ next_position >= Len(ready.data)
        THEN ready
        ELSE DrawRows([ready EXCEPT !.start_offset = next_position])

ScrollUp(v, line_count) ==
    IF ~Ok(v) \/ v.start_offset < line_count * BytesPerLine
    THEN v
    ELSE DrawRows([v EXCEPT !.start_offset = @ - line_count * BytesPerLine])

\* Rounds away from zero.
Lines(bytes) == (bytes + BytesPerLine - 1) \div BytesPerLine

\* Variant: a cursor right below the screen counts as visible.
MaybeUpdateOffsetLate(v) ==
    LET caret == v.region.caret
        end == VisibleEnd(v)
    IN  CASE v.data = <<>>          -> [v EXCEPT !.start_offset = 0]
          [] v.data # <<>> /\ caret < v.start_offset -> ScrollUp(v, Lines(v.start_offset - caret))
          [] v.data # <<>> /\ caret > end            -> ScrollDown(v, Lines(caret - end))
          [] OTHER                                   -> v

MaybeUpdateOffset(v) ==
    LET caret == v.region.caret
        end == VisibleEnd(v)
    IN  CASE v.data = <<>>          -> [v EXCEPT !.start_offset = 0]
          [] v.data # <<>> /\ caret < v.start_offset -> ScrollUp(v, Lines(v.start_offset - caret))
          [] v.data # <<>> /\ caret >= end           -> ScrollDown(v, Lines(caret - (end - 1)))
          [] OTHER                                   -> v

\* Variant: the screen starts at the cursor, not at its line.
MaybeUpdateOffsetAndDrawBytes(v) ==
    LET caret == v.region.caret
        line == caret
    IN  Draw([v EXCEPT !.start_offset =
                 IF caret < @ THEN line
                 ELSE IF caret >= VisibleEnd(v) THEN Larger(0, line + BytesPerLine - Screen(v))
                 ELSE @])

\* Variant: the screen does not follow the cursor.
MaybeUpdateOffsetAndDrawNever(v) == Draw(v)

MaybeUpdateOffsetAndDraw(v) ==
    LET caret == v.region.caret
        line == caret - (caret % BytesPerLine)
    IN  Draw([v EXCEPT !.start_offset =
                 IF caret < @ THEN line
                 ELSE IF caret >= VisibleEnd(v) THEN Larger(0, line + BytesPerLine - Screen(v))
                 ELSE @])

-----------------------------------------------------------------------------
(***************************************************************************)
(* Events.                                                                 *)
(***************************************************************************)

FirstView(height) ==
    [path |-> "first",
     data |-> Loaded(Smaller(FileLen("first"), (height - 1) * BytesPerLine)),
     region |-> SelRegion(0, 0),
     trimmed |-> FALSE,
     start_offset |-> 0,
     height |-> height,
     status |-> "ok"]

\* main reads the first screen, run_event_loop draws it.
Init ==
    /\ term \in Heights
    /\ file = "there"
    /\ view = Draw(FirstView(term))
    /\ parked = <<>>
    /\ edits = 0
    /\ unsettled = FALSE

\* A mode answers ChangeInPlace: the main region has moved.
ChangeInPlace(region) ==
    /\ Ok(view)
    /\ view' = DrawRows(MaybeUpdateOffset([view EXCEPT !.region = region]))
    /\ unsettled' = (region.caret > Len(view.data))
    /\ UNCHANGED <<parked, term, file, edits>>

\* A mode answers ChangeLength: the data has changed and the region with it.
ChangeLength(data, region) ==
    /\ Ok(view)
    /\ edits < MaxEdits
    /\ edits' = edits + 1
    /\ view' = MaybeUpdateOffsetAndDraw([view EXCEPT !.data = data, !.region = region])
    /\ unsettled' = FALSE
    /\ UNCHANGED <<parked, term, file>>

\* One byte typed at the caret.
TypeByte ==
    LET at == view.region.caret
        Moved(x) == IF x >= at THEN x + 1 ELSE x
    IN  /\ MaxByte(view.region) <= Len(view.data)
        /\ ChangeLength(SubSeq(view.data, 1, at) \o <<Typed>>
                            \o SubSeq(view.data, at + 1, Len(view.data)),
                        SelRegion(Moved(at), Moved(view.region.tail)))

\* d with one region.
DeleteRegion ==
    LET from == MinByte(view.region)
    IN  /\ MaxByte(view.region) < Len(view.data)
        /\ ChangeLength(SubSeq(view.data, 1, from)
                            \o SubSeq(view.data, MaxByte(view.region) + 2, Len(view.data)),
                        SelRegion(from, from))

\* Another buffer becomes current: the commands answer ChangeLength, and
\* start_offset is still the one of the buffer before.
Switch(buf) ==
    /\ Ok(view)
    /\ view' = MaybeUpdateOffsetAndDraw([view EXCEPT !.path = buf.path,
                                                    !.data = buf.data,
                                                    !.region = buf.region,
                                                    !.trimmed = buf.trimmed])
    /\ unsettled' = (buf.region.caret > Len(buf.data))
    /\ UNCHANGED <<term, file, edits>>

NewBuffer(path) ==
    [path |-> path, data |-> Loaded(FileLen(path)), region |-> SelRegion(0, 0), trimmed |-> FALSE]

\* :e of a file that is not open reads it completely.  The list is bounded to
\* two buffers.
Open(path) ==
    /\ parked = <<>> /\ path # view.path /\ file = "there"
    /\ parked' = <<[path |-> view.path, data |-> view.data, region |-> view.region,
                    trimmed |-> view.trimmed]>>
    /\ Switch(NewBuffer(path))

\* :db! goes back to the buffer before, or to a new empty one.
DeleteCurrent ==
    /\ parked' = <<>>
    /\ Switch(IF parked = <<>> THEN NewBuffer(Scratch) ELSE parked[1])

\* Ctrl-e loads, moves the cursor down a line and scrolls down a line.
CtrlE ==
    LET loaded == LoadNextChunk(view, Chunk)
        moved == [loaded EXCEPT !.region = SimpleMove(@, "Down", Len(loaded.data), 1)]
    IN  /\ Ok(view)
        /\ view' = IF Ok(loaded) THEN Draw(ScrollDown(moved, 1)) ELSE loaded
        /\ UNCHANGED <<parked, term, file, edits, unsettled>>

CtrlY ==
    LET moved == [view EXCEPT !.region = SimpleMove(@, "Up", Len(view.data), 1)]
    IN  /\ Ok(view)
        /\ view' = Draw(ScrollUp(moved, 1))
        /\ UNCHANGED <<parked, term, file, edits, unsettled>>

\* The event loop gets to know the terminal's size.
Resize ==
    /\ Ok(view)
    /\ view.height # term
    /\ view' = Draw([view EXCEPT !.height = term])
    /\ unsettled' = (unsettled \/ term < view.height)
    /\ UNCHANGED <<parked, term, file, edits>>

\* The environment: the terminal changes its size, the file disappears.
TerminalResized ==
    /\ Ok(view)
    /\ \E height \in Heights : height # term /\ term' = height
    /\ UNCHANGED <<view, parked, file, edits, unsettled>>

FileRemoved ==
    /\ Ok(view)
    /\ file = "there"
    /\ file' = "gone"
    /\ UNCHANGED <<view, parked, term, edits, unsettled>>

Stopped == ~Ok(view) /\ UNCHANGED vars

\* Moves and jumps, extensions from the first byte and from the end: the tail
\* matters only for whether the region reaches into the screen.
Selectable(len) ==
    LET carets == 0 .. len + Beyond
    IN  {SelRegion(caret, caret) : caret \in carets}
            \cup {SelRegion(caret, tail) : caret \in carets, tail \in {0, len}}

Next ==
    \/ \E region \in Selectable(Len(view.data)) : ChangeInPlace(region)
    \/ TypeByte
    \/ DeleteRegion
    \/ \E path \in DOMAIN FileLens : Open(path)
    \/ DeleteCurrent
    \/ CtrlE
    \/ CtrlY
    \/ Resize
    \/ TerminalResized
    \/ FileRemoved
    \/ Stopped

Spec == Init /\ [][Next]_vars

-----------------------------------------------------------------------------
(***************************************************************************)
(* Properties.                                                             *)
(***************************************************************************)

\* The screen starts at a line of the data, never before the first, whatever
\* was scrolled, jumped, edited, trimmed or resized: draw_rows counts rows from start_offset and
\* places the rows after the data by absolute lines.
AlignedToLines == view.start_offset \in Nat /\ view.start_offset % BytesPerLine = 0

OnScreen(v) == v.region.caret \in v.start_offset .. VisibleEnd(v) - 1

\* After every event, also when another buffer with other data has become
\* current, the main cursor is on the screen, unless a trim moved
\* the data under it, or the screen shrank or a jump went past the end of the
\* data and no selection or edit has settled the view since.
CursorOnScreen == Ok(view) /\ ~view.trimmed /\ ~unsettled => OnScreen(view)

\* The data is the beginning of its file.
Beginning(data) == \A x \in DOMAIN data : data[x] = x - 1

\* Until an edit or a trim, the data is the beginning of the file: every load
\* continues where the last one ended.
LoadedIsPrefix == edits = 0 /\ ~view.trimmed => Beginning(view.data)

\* However often a screen, a chunk or a little is loaded, before or after a
\* trim, the data never outgrows its file, apart from what was typed.
LoadsWithinFile == Len(view.data) <= FileLen(view.path) + edits

\* Drawing goes wrong only when the cursor may be off the screen.
DrawPanicCauses == view.status = "panicked" => unsettled \/ view.trimmed

\* Drawing ends, and the loop goes on, unless the screen has fewer rows than
\* the property lines, or the file is gone.
StopCauses ==
    /\ view.status = "hung" => view.height < PropertyRows
    /\ view.status = "exited" => file = "gone"

\* "essential for maintaining a sliding window view of large files in memory"
\* (trim_buffer_top): the data is one piece of the file.
OnePieceOfFile ==
    edits = 0 =>
        \A x \in 1 .. Len(view.data) - 1 : view.data[x + 1] = view.data[x] + 1

-----------------------------------------------------------------------------

\* The inductive invariant.  What TypeOK says of the view, as a record, and
\* what else every handler keeps: Sound.  A parked buffer has to be fit to be
\* the current one again.
Paths == DOMAIN FileLens \cup {Scratch}

ViewRecord ==
    [path : Paths, data : Seq(Nat \cup {Typed}), region : Region, trimmed : BOOLEAN,
     start_offset : Nat, height : Heights, status : {"ok", "panicked", "hung", "exited"}]

BufferRecord == [path : Paths, data : Seq(Nat \cup {Typed}), region : Region, trimmed : BOOLEAN]

Sound(v, typed, there) ==
    /\ v \in ViewRecord
    /\ v.start_offset % BytesPerLine = 0
    /\ Len(v.data) <= FileLen(v.path) + typed
    /\ v.status = "hung" => v.height < PropertyRows
    /\ v.status = "exited" => there = "gone"

ViewInv ==
    /\ Sound(view, edits, file)
    /\ term \in Heights
    /\ file \in {"there", "gone"}
    /\ edits \in Nat
    /\ unsettled \in BOOLEAN
    /\ parked # <<>> => /\ parked[1] \in BufferRecord
                        /\ Len(parked[1].data) <= FileLen(parked[1].path) + edits

\* What else every event keeps.  Drawing leaves only a screen with room for
\* the property lines, which is two lines of data at least; so the cursor can
\* follow line by line.
WindowInv ==
    /\ edits = 0 /\ ~view.trimmed => Beginning(view.data)
    /\ edits = 0 /\ parked # <<>> /\ ~parked[1].trimmed => Beginning(parked[1].data)
    /\ Ok(view) => view.height >= PropertyRows
    /\ ~view.trimmed /\ ~unsettled =>
          view.status # "panicked" /\ (Ok(view) => OnScreen(view))

=============================================================================
