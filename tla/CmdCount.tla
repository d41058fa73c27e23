------------------------------ MODULE CmdCount ------------------------------
(***************************************************************************)
(* The count before a command (cmd_count.rs) and how Normal mode uses it   *)
(* up (modes/normal.rs).  The count is an unsigned integer of Width bits.  *)
(* An Option is a sequence of length 0 or 1.                               *)
(***************************************************************************)
EXTENDS Integers, Sequences, FiniteSetsExt

CONSTANT Width      \* bits of usize

ASSUME WidthAssumption == Width \in Nat /\ Width % 4 = 0 /\ Width > 4

VARIABLES
    count_state,    \* cmd_count::State of Normal mode
    count_status,         \* "ok" or "panicked"
    digits,         \* history: the digits of the count as the user sees them
    wrapped,        \* history: the count went out of its range
    stale           \* history: a command ran since the count was begun

count_vars == <<count_state, count_status, digits, wrapped, stale>>

Limit == 2 ^ Width
None == <<>>
Some(hex, count) == <<[hex |-> hex, count |-> count]>>
Base(hex) == IF hex THEN 16 ELSE 10

-----------------------------------------------------------------------------
(***************************************************************************)
(* Reference: a numeral is a sequence of digits without leading zeros.     *)
(***************************************************************************)

Value(numeral, base) ==
    MapThenSumSet(LAMBDA i : numeral[i] * base ^ (Len(numeral) - i), DOMAIN numeral)

Numeral(n, base) ==
    LET size == CHOOSE k \in 0 .. Width : base ^ k > n /\ (k = 0 \/ base ^ (k - 1) <= n)
    IN  [i \in 1 .. size |-> (n \div base ^ (size - i)) % base]

-----------------------------------------------------------------------------
(***************************************************************************)
(* State::transition.                                                      *)
(***************************************************************************)

\* count << 4 | d drops the high bits, count * 10 + d wraps or panics.
Appended(s, d) == (s.count * Base(s.hex) + d) % Limit

\* Variant: the other base.
ShortenedByTen(s) == s.count \div 10

Shortened(s) == s.count \div Base(s.hex)

Pending == count_state # None
Entry == count_state[1]

Handles(d) == IF Pending THEN d < Base(Entry.hex) ELSE d < 10

AppendDigit(d) ==
    /\ count_status = "ok"
    /\ Handles(d)
    /\ LET s == IF Pending THEN Entry ELSE [hex |-> FALSE, count |-> 0]
           exact == s.count * Base(s.hex) + d
       IN  /\ count_state' = Some(s.hex, Appended(s, d))
           /\ count_status' \in IF exact >= Limit /\ ~s.hex THEN {"ok", "panicked"} ELSE {"ok"}
           /\ wrapped' = (wrapped \/ exact >= Limit)
           /\ digits' = IF wrapped' \/ exact = 0 THEN <<>> ELSE Append(digits, d)
           /\ stale' = stale

CountCleared == count_state' = None /\ digits' = <<>> /\ wrapped' = FALSE /\ stale' = FALSE

CancelEntry ==
    /\ count_status = "ok"
    /\ Pending
    /\ CountCleared
    /\ UNCHANGED count_status

SwitchHexEntry ==
    /\ count_status = "ok"
    /\ count_state' = IF Pending THEN Some(~Entry.hex, Entry.count) ELSE Some(TRUE, 0)
    /\ digits' = IF Pending /\ ~wrapped THEN Numeral(Entry.count, Base(~Entry.hex)) ELSE digits
    /\ UNCHANGED <<count_status, wrapped, stale>>

RemoveLastDigit ==
    /\ count_status = "ok"
    /\ Pending
    /\ IF Entry.count >= Base(Entry.hex)
       THEN /\ count_state' = Some(Entry.hex, Shortened(Entry))
            /\ digits' = IF wrapped THEN digits ELSE SubSeq(digits, 1, Len(digits) - 1)
            /\ UNCHANGED <<wrapped, stale>>
       ELSE CountCleared
    /\ UNCHANGED count_status

-----------------------------------------------------------------------------
(***************************************************************************)
(* Commands of Normal mode.  A command whose key is also a digit that the  *)
(* count handles never runs.                                               *)
(***************************************************************************)

\* Moves, jumps, cycling, Measure, Undo, Redo and every change of mode.
Resetting == {"move", "extend", "jump_to", "extend_to", "select_next", "select_prev",
              "append", "change", "insert", "measure", "undo", "redo"}

\* Commands that answer with dirty bytes or nothing, and stay in the mode.
Staying == {"paste", "delete", "yank", "swap_caret", "collapse", "select_all"}

\* These use a count only if it is positive, and reset only then.
Indexing == {"remove_main", "retain_main"}

DigitOfKey == [append |-> 10, change |-> 12, delete |-> 13]

Reachable(command) == command \in DOMAIN DigitOfKey => ~Handles(DigitOfKey[command])

Resets(command) ==
    \/ command \in Resetting
    \/ command \in Indexing /\ Pending /\ Entry.count > 0

Command(command) ==
    /\ count_status = "ok"
    /\ Reachable(command)
    /\ IF Resets(command)
       THEN CountCleared
       ELSE /\ stale' = Pending
            /\ UNCHANGED <<count_state, digits, wrapped>>
    /\ UNCHANGED count_status

CountHalted == count_status # "ok" /\ UNCHANGED count_vars

CountInit ==
    /\ count_state = None
    /\ count_status = "ok"
    /\ digits = <<>>
    /\ wrapped = FALSE
    /\ stale = FALSE

CountNext ==
    \/ \E d \in 0 .. 15 : AppendDigit(d)
    \/ CancelEntry
    \/ SwitchHexEntry
    \/ RemoveLastDigit
    \/ \E command \in Resetting \cup Staying \cup Indexing : Command(command)
    \/ CountHalted

CountSpec == CountInit /\ [][CountNext]_count_vars

-----------------------------------------------------------------------------
(***************************************************************************)
(* Properties.                                                             *)
(***************************************************************************)

\* The count is the number whose digits the user typed, through any mix of
\* digits, Backspace and changes of the base, until it leaves the range of
\* usize; without a count nothing is left of an earlier one.
CountIsTyped ==
    /\ Pending /\ ~wrapped => Entry.count = Value(digits, Base(Entry.hex))
    /\ ~Pending => digits = <<>> /\ ~wrapped

\* "new_mode to clear count" (normal.rs): no command leaves a count behind for
\* the next one.
CommandsClearCount == ~stale

=============================================================================
