------------------------------- MODULE Prompt -------------------------------
(***************************************************************************)
(* The two prompts of the status line: the command line                    *)
(* (modes/command.rs) and the pattern (modes/search.rs), with the part of  *)
(* them that is drawn after every event (view.rs).  A command line is a    *)
(* sequence of bytes, as a Rust String is; a pattern is a sequence of      *)
(* bytes and wildcards.  An Option is a sequence of length 0 or 1.         *)
(***************************************************************************)
EXTENDS Integers, Sequences, FiniteSetsExt

CONSTANTS
    HexBase,        \* values of one hex digit, 16
    Printable,      \* bytes drawn as one cell; the others take four
    Char,           \* what one key puts into a command line: UTF-8 sequences
    Continuation,   \* bytes that do not begin a character
    Space,          \* the byte of ' '
    Quitting,       \* names of commands that can end the program
    CommandLabel,   \* cells of ":"
    SearchLabel,    \* cells of "search:"
    Columns,        \* widths of the terminal
    MaxLine         \* bound on the length of a line

Byte == 0 .. HexBase * HexBase - 1
Wildcard == -1
Piece == Byte \cup {Wildcard}

ASSUME PromptAssumption ==
    /\ HexBase \in Nat \ {0, 1}
    /\ Char \subseteq Seq(Nat) \ {<<>>}
    /\ \A ch \in Char : ch[1] \notin Continuation
    /\ CommandLabel \in Nat /\ SearchLabel \in Nat /\ MaxLine \in Nat
    /\ Columns \subseteq Nat
    /\ \A width \in Columns : width >= CommandLabel + 2 /\ width >= SearchLabel + 5

VARIABLES
    prompt,         \* "none", "command", "search", or "quitting" after the last one
    line,           \* Command.command, or Search.pattern.pieces
    cursor,         \* Command.cursor, or Search.cursor
    hex,            \* Search.hex
    half,           \* Search.hex_half, an option
    col,            \* HexView.last_visible_prompt_col
    columns,        \* HexView.size.0
    prompt_status,  \* "ok", or the call that panicked
    wide            \* history: a character of several bytes was typed into line

prompt_vars == <<prompt, line, cursor, hex, half, col, columns, prompt_status, wide>>

Larger(a, b) == IF a >= b THEN a ELSE b
Smaller(a, b) == IF a <= b THEN a ELSE b

PromptInit ==
    /\ prompt = "none"
    /\ line = <<>>
    /\ cursor = 0
    /\ hex = FALSE
    /\ half = <<>>
    /\ col = 0
    /\ columns \in Columns
    /\ prompt_status = "ok"
    /\ wide = FALSE

-----------------------------------------------------------------------------
(***************************************************************************)
(* render_with_size: the first column drawn.  Positions count from 0.      *)
(***************************************************************************)

\* str::is_char_boundary.
IsBoundary(s, at) == at = 0 \/ at = Len(s) \/ s[at + 1] \notin Continuation

\* "Make sure start_column is between self.cursor and the length".
Clamped(s, at, last) ==
    CASE Len(s) <= last -> Larger(1, Len(s)) - 1
      [] Len(s) > last /\ at < last -> at
      [] OTHER -> last

\* The cursor behind the line takes a cell of its own.
Room(s, at, label, width) == width - label - (IF at = Len(s) THEN 1 ELSE 0)

CommandColumn(s, at, width, last) ==
    Larger(Clamped(s, at, last), at - Room(s, at, CommandLabel, width))

\* The slice of the line that is printed has to be one of whole characters.
SliceFails(s, at, width, start) ==
    \/ start > Len(s)
    \/ ~IsBoundary(s, start)
    \/ ~IsBoundary(s, Smaller(Len(s), start + Room(s, at, CommandLabel, width)))

HexColumn(s, at, width, last) ==
    LET start == Clamped(s, at, last)
        shown == (width - SearchLabel) \div 3
    IN  IF at >= start + shown THEN at - shown + 1 ELSE start

PieceCells(piece) == IF piece = Wildcard \/ piece \in Printable THEN 1 ELSE 4

Cells(pieces) == MapThenSumSet(LAMBDA i : PieceCells(pieces[i]), DOMAIN pieces)

\* Numbers of pieces to drop so that those before the cursor fit.
Drops(s, at, width, start) ==
    LET excess == Cells(SubSeq(s, start + 1, at)) - Room(s, at, SearchLabel, width)
    IN  {n \in 0 .. Len(s) - start - 1 : Cells(SubSeq(s, start + 1, start + n)) >= excess}

Fits(s, at, width, start) ==
    Cells(SubSeq(s, start + 1, at)) <= Room(s, at, SearchLabel, width)

\* Variant: one piece less is dropped.
AsciiColumnShort(s, at, width, last) ==
    LET start == Clamped(s, at, last)
    IN  IF Fits(s, at, width, start) THEN start
        ELSE start + Larger(0, Min(Drops(s, at, width, start)) - 1)

AsciiColumn(s, at, width, last) ==
    LET start == Clamped(s, at, last)
    IN  IF Fits(s, at, width, start) THEN start
        ELSE start + Min(Drops(s, at, width, start))

\* The position of the first piece to keep is unwrapped, the slices checked.
SearchFails(s, at, is_hex, width, last) ==
    LET start == Clamped(s, at, last)
    IN  \/ start > at \/ at > Len(s)
        \/ ~is_hex /\ ~Fits(s, at, width, start) /\ Drops(s, at, width, start) = {}

\* draw_statusline, after every event: on the state the event leaves.
DrawStatusline ==
    CASE prompt' = "command" ->
           LET start == CommandColumn(line', cursor', columns', col)
               fails == SliceFails(line', cursor', columns', start)
           IN  /\ prompt_status' = IF fails THEN "slice" ELSE "ok"
               /\ col' = IF fails THEN col ELSE start
      [] prompt' = "search" ->
           LET fails == SearchFails(line', cursor', hex', columns', col)
           IN  /\ prompt_status' = IF fails THEN "render" ELSE "ok"
               /\ col' = IF fails THEN col
                         ELSE IF hex' THEN HexColumn(line', cursor', columns', col)
                         ELSE AsciiColumn(line', cursor', columns', col)
      [] OTHER -> UNCHANGED <<prompt_status, col>>

-----------------------------------------------------------------------------
(***************************************************************************)
(* Keys both prompts have.  A pattern key with a half-typed byte first     *)
(* steps behind that byte.                                                 *)
(***************************************************************************)
Editing == prompt_status = "ok" /\ prompt \in {"command", "search"}

Position == cursor + Len(half)

OpenPrompt(kind, is_hex) ==
    /\ prompt_status = "ok"
    /\ prompt = "none"
    /\ prompt' = kind
    /\ hex' = is_hex
    /\ UNCHANGED <<line, cursor, half, columns, wide>>
    /\ DrawStatusline

\* The mode and its line are dropped.
ClosePrompt(outcome) ==
    /\ prompt' = outcome
    /\ line' = <<>>
    /\ cursor' = 0
    /\ hex' = FALSE
    /\ half' = <<>>
    /\ wide' = FALSE
    /\ UNCHANGED columns
    /\ DrawStatusline

Cancel == Editing /\ ClosePrompt("none")

\* Any other event, a key without meaning or a new size: drawn again.
OtherEvent(width) ==
    /\ Editing
    /\ columns' = width
    /\ UNCHANGED <<prompt, line, cursor, hex, half, wide>>
    /\ DrawStatusline

PromptPanics(call) ==
    /\ prompt_status' = call
    /\ UNCHANGED <<prompt, line, cursor, hex, half, col, columns, wide>>

MoveCursor(to) ==
    /\ cursor' = to
    /\ half' = <<>>
    /\ UNCHANGED <<prompt, line, hex, columns, wide>>
    /\ DrawStatusline

CursorLeft == Editing /\ MoveCursor(IF Position # 0 THEN Position - 1 ELSE Position)

\* Variant: no end.
CursorRightFree == Editing /\ MoveCursor(Position + 1)

CursorRight ==
    Editing /\ MoveCursor(IF Position < Len(line) THEN Position + 1 ELSE Position)

\* A line with n items at a position replaced.
Spliced(s, at, n, new) == SubSeq(s, 1, at) \o new \o SubSeq(s, at + n + 1, Len(s))

Splice(at, n, new, to) ==
    /\ Len(Spliced(line, at, n, new)) <= MaxLine
    /\ line' = Spliced(line, at, n, new)
    /\ cursor' = to
    /\ UNCHANGED <<prompt, columns>>
    /\ DrawStatusline

-----------------------------------------------------------------------------
(***************************************************************************)
(* The command line.  Strings are indexed by bytes, the cursor steps by    *)
(* one for every key.                                                      *)
(***************************************************************************)
Commanding == Editing /\ prompt = "command"

\* String::insert.
TypeChar(ch) ==
    /\ Commanding
    /\ IF IsBoundary(line, cursor)
       THEN /\ wide' = (wide \/ Len(ch) > 1)
            /\ UNCHANGED <<hex, half>>
            /\ Splice(cursor, 0, ch, cursor + 1)
       ELSE PromptPanics("insert")

\* String::remove takes out the whole character that begins at a position.
CharLength(at) ==
    CHOOSE n \in 1 .. Len(line) - at :
        IsBoundary(line, at + n) /\ \A k \in 1 .. n - 1 : ~IsBoundary(line, at + k)

RemoveChar(at, call) ==
    IF at < Len(line) /\ IsBoundary(line, at)
    THEN UNCHANGED <<hex, half, wide>> /\ Splice(at, CharLength(at), <<>>, at)
    ELSE PromptPanics(call)

RemoveLastChar == Commanding /\ cursor # 0 /\ RemoveChar(cursor - 1, "remove_last")

RemoveThisChar == Commanding /\ RemoveChar(cursor, "remove_this")

\* Command::finish: the name ends at the first space.
Name == SubSeq(line, 1, Min({n \in 0 .. Len(line) : n = Len(line) \/ line[n + 1] = Space}))

FinishCommand ==
    /\ Commanding
    /\ \/ ClosePrompt("none")
       \/ Name \in Quitting /\ ClosePrompt("quitting")

-----------------------------------------------------------------------------
(***************************************************************************)
(* The pattern.  Vec::insert and indexing check the position.              *)
(***************************************************************************)
Searching == Editing /\ prompt = "search"

InsertPiece(at, piece, to, new_half) ==
    IF at <= Len(line)
    THEN /\ half' = new_half
         /\ UNCHANGED <<hex, wide>>
         /\ Splice(at, 0, <<piece>>, to)
    ELSE PromptPanics("insert")

\* Ctrl-n and Ctrl-w.
InsertNull == Searching /\ InsertPiece(Position, 0, Position + 1, <<>>)
InsertWildcard == Searching /\ InsertPiece(Position, Wildcard, Position + 1, <<>>)

\* Pattern::remove leaves a position past the end alone.
RemovePiece(at) ==
    IF at < Len(line)
    THEN /\ half' = <<>>
         /\ UNCHANGED <<hex, wide>>
         /\ Splice(at, 1, <<>>, at)
    ELSE MoveCursor(at)

RemoveLastPiece == Searching /\ Position # 0 /\ RemovePiece(Position - 1)

RemoveThisPiece == Searching /\ RemovePiece(Position)

SwitchInputMode ==
    /\ Searching
    /\ hex' = ~hex
    /\ cursor' = Position
    /\ half' = <<>>
    /\ UNCHANGED <<prompt, line, columns, wide>>
    /\ DrawStatusline

TypeAscii(byte) == Searching /\ ~hex /\ InsertPiece(cursor, byte, cursor + 1, half)

\* Variant: insert_literal, beside the half byte.
CompleteByteBeside(byte) ==
    IF cursor < Len(line)
    THEN /\ half' = <<>>
         /\ UNCHANGED <<hex, wide>>
         /\ Splice(cursor, 0, <<byte>>, cursor + 1)
    ELSE PromptPanics("index")

\* insert_half_literal.
CompleteByte(byte) ==
    IF cursor < Len(line)
    THEN /\ half' = <<>>
         /\ UNCHANGED <<hex, wide>>
         /\ Splice(cursor, 1, <<byte>>, cursor + 1)
    ELSE PromptPanics("index")

\* Variant: the first digit moves the cursor.
TypeDigitMoving(digit) ==
    /\ Searching
    /\ hex
    /\ IF half # <<>>
       THEN CompleteByte(half[1] + digit)
       ELSE InsertPiece(cursor, digit * HexBase, cursor + 1, <<digit * HexBase>>)

TypeDigit(digit) ==
    /\ Searching
    /\ hex
    /\ IF half # <<>>
       THEN CompleteByte(half[1] + digit)
       ELSE InsertPiece(cursor, digit * HexBase, cursor, <<digit * HexBase>>)

FinishSearch == Searching /\ ClosePrompt("none")

-----------------------------------------------------------------------------
PromptKey ==
    \/ Cancel
    \/ CursorLeft
    \/ CursorRight
    \/ \E width \in Columns : OtherEvent(width)
    \/ \E ch \in Char : TypeChar(ch)
    \/ RemoveLastChar
    \/ RemoveThisChar
    \/ FinishCommand
    \/ InsertNull
    \/ InsertWildcard
    \/ RemoveLastPiece
    \/ RemoveThisPiece
    \/ SwitchInputMode
    \/ \E byte \in Byte : TypeAscii(byte)
    \/ \E digit \in 0 .. HexBase - 1 : TypeDigit(digit)
    \/ FinishSearch

PromptNext ==
    \/ OpenPrompt("command", FALSE)
    \/ \E is_hex \in BOOLEAN : OpenPrompt("search", is_hex)
    \/ PromptKey

PromptSpec == PromptInit /\ [][PromptNext]_prompt_vars

-----------------------------------------------------------------------------
(***************************************************************************)
(* Properties.                                                             *)
(***************************************************************************)

PromptTypeOK ==
    /\ prompt \in {"none", "command", "search", "quitting"}
    /\ line \in Seq(IF prompt = "command" THEN Nat ELSE Piece)
    /\ cursor \in 0 .. Len(line)
    /\ hex \in BOOLEAN
    /\ half \in Seq(Byte) /\ Len(half) <= 1
    /\ columns \in Columns
    /\ wide \in BOOLEAN

\* A byte that is complete but for its second digit.
FirstDigitOnly(byte) == \E digit \in 0 .. HexBase - 1 : byte = digit * HexBase

\* A half-typed byte of the pattern lies under the cursor, whatever was moved,
\* erased, inserted or switched since: insert_half_literal completes that
\* byte and no other.
HalfUnderCursor ==
    half # <<>> =>
        /\ prompt = "search" /\ hex
        /\ cursor < Len(line)
        /\ line[cursor + 1] = half[1]
        /\ FirstDigitOnly(half[1])

\* What is drawn starts at or before the cursor and reaches up to it, after
\* every key, change of input mode and change of the terminal's width.
DrawnUpToCursor ==
    prompt_status = "ok" =>
        /\ prompt \in {"command", "search"} => col <= cursor
        /\ prompt = "command" => cursor - col <= Room(line, cursor, CommandLabel, columns)
        /\ prompt = "search" /\ hex => 3 * (cursor - col + 1) <= columns - SearchLabel
        /\ prompt = "search" /\ ~hex => Fits(line, cursor, columns, col)

\* Text before and after the cursor; a half-typed byte counts as typed.
Item == Piece \cup {ch[1] : ch \in Char}

Text == INSTANCE LineEditor WITH
            open <- prompt \in {"command", "search"},
            before <- SubSeq(line, 1, Position),
            after <- SubSeq(line, Position + 1, Len(line))

\* Every key of either prompt does one thing to one line of text, until a
\* character of several bytes is typed into a command line.
EditsLikeText == Text!Init /\ [][~wide' => [Text!Next]_(Text!vars)]_prompt_vars

-----------------------------------------------------------------------------

\* The inductive invariant: a command line that no character of several bytes
\* was typed into has a boundary everywhere.
NarrowLine ==
    prompt = "command" /\ ~wide => \A n \in 1 .. Len(line) : line[n] \notin Continuation

ClosedIsEmpty == prompt \notin {"command", "search"} => line = <<>> /\ ~wide

PromptInv == PromptTypeOK /\ HalfUnderCursor /\ NarrowLine /\ ClosedIsEmpty

=============================================================================
