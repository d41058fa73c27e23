------------------------------- MODULE Modes --------------------------------
(***************************************************************************)
(* Who gets a key: Normal mode and Split mode, each with a count, and the  *)
(* prompts they open.  A mode owns its state, so a prompt starts without a *)
(* count and drops its line when it closes.  The other modes hold neither: *)
(* the commands that enter them are commands of module CmdCount.           *)
(***************************************************************************)
EXTENDS CmdCount, Prompt

CONSTANTS
    SplitWidths,    \* bytes of the units Split mode knows
    MaxOffset       \* bound on the offsets of selected bytes

ASSUME ModesAssumption == SplitWidths \subseteq Nat \ {0} /\ MaxOffset \in Nat

VARIABLES
    mode,           \* the mode that is current, or will accept the prompt's answer
    split_status    \* "ok", or "panicked" in Split mode

vars == <<count_vars, prompt_vars, mode, split_status>>

Listening(name) ==
    /\ prompt = "none"
    /\ prompt_status = "ok" /\ split_status = "ok" /\ count_status = "ok"
    /\ mode = name

CountKey ==
    \/ \E d \in 0 .. 15 : AppendDigit(d)
    \/ CancelEntry
    \/ SwitchHexEntry
    \/ RemoveLastDigit

\* The mode is replaced by a new one.
ModeChanged(name) ==
    /\ mode' = name
    /\ CountCleared
    /\ UNCHANGED count_status

NormalKey ==
    /\ Listening("normal")
    /\ \/ CountKey
       \/ \E command \in Resetting \cup Staying \cup Indexing : Command(command)
    /\ UNCHANGED <<prompt_vars, mode, split_status>>

SplitMode == Listening("normal") /\ ModeChanged("split") /\ UNCHANGED <<prompt_vars, split_status>>

CommandMode ==
    /\ Listening("normal")
    /\ OpenPrompt("command", FALSE)
    /\ ModeChanged("normal")
    /\ UNCHANGED split_status

\* s and S.
CollapseMode(is_hex) ==
    /\ Listening("normal")
    /\ OpenPrompt("search", is_hex)
    /\ ModeChanged("normal")
    /\ UNCHANGED split_status

-----------------------------------------------------------------------------
(***************************************************************************)
(* Split mode.  In hex entry the digits b and d shadow two of the widths.  *)
(***************************************************************************)
\* Variant: no count is zero.
ToCountZero == IF Pending THEN Entry.count ELSE 0

ToCount == IF Pending THEN Entry.count ELSE 1

DigitOfWidth == [w \in {1, 4} |-> IF w = 1 THEN 11 ELSE 13]

SplitCount ==
    /\ Listening("split")
    /\ CountKey
    /\ UNCHANGED <<prompt_vars, mode, split_status>>

\* step_by(width * count) panics on zero; a product or an end of a piece that
\* leaves usize wraps or panics.
SplitWidthKey(width) ==
    /\ Listening("split")
    /\ width \in DOMAIN DigitOfWidth => ~Handles(DigitOfWidth[width])
    /\ LET exact == width * ToCount
       IN  split_status' \in IF exact % Limit = 0 THEN {"panicked"}
                             ELSE IF exact + MaxOffset >= Limit THEN {"ok", "panicked"}
                             ELSE {"ok"}
    /\ IF split_status' = "ok" THEN ModeChanged("normal") ELSE UNCHANGED <<count_vars, mode>>
    /\ UNCHANGED prompt_vars

\* / and ?: the count goes along in Search.next, where nothing reads it.
SplitSearch(is_hex) ==
    /\ Listening("split")
    /\ OpenPrompt("search", is_hex)
    /\ ModeChanged("split")
    /\ UNCHANGED split_status

\* n splits at zero bytes; any key Split mode does not know leaves it.
SplitOther == Listening("split") /\ ModeChanged("normal") /\ UNCHANGED <<prompt_vars, split_status>>

\* Both ways out of a prompt lead to Normal mode, whoever opened it.
PromptEvent ==
    /\ PromptKey
    /\ mode' = IF prompt' \in {"command", "search"} THEN mode ELSE "normal"
    /\ UNCHANGED <<count_vars, split_status>>

Stopped ==
    /\ \/ prompt_status # "ok" \/ split_status # "ok" \/ count_status # "ok"
       \/ prompt = "quitting"
    /\ UNCHANGED vars

Init ==
    /\ CountInit
    /\ PromptInit
    /\ mode = "normal"
    /\ split_status = "ok"

Next ==
    \/ NormalKey
    \/ SplitMode
    \/ CommandMode
    \/ \E is_hex \in BOOLEAN : CollapseMode(is_hex) \/ SplitSearch(is_hex)
    \/ SplitCount
    \/ \E width \in SplitWidths : SplitWidthKey(width)
    \/ SplitOther
    \/ PromptEvent
    \/ Stopped

Spec == Init /\ [][Next]_vars

-----------------------------------------------------------------------------

\* The program panics in a prompt or over a count for four reasons only.  A
\* count: decimal entry past the end of usize; and in a split by width the
\* number the user sees, when it is zero, when there is none yet after x, or when
\* the pieces leave usize.  A prompt: Delete at the end of the command line, and
\* a character of several bytes in it.  The pattern prompt never does.
InputPanicCauses ==
    /\ count_status = "panicked" => ~Entry.hex /\ wrapped
    /\ split_status = "panicked" =>
        /\ mode = "split" /\ Pending
        /\ \/ wrapped
           \/ Value(digits, Base(Entry.hex)) = 0
           \/ \E width \in SplitWidths :
                width * Value(digits, Base(Entry.hex)) + MaxOffset >= Limit
    /\ prompt_status # "ok" =>
        /\ prompt = "command"
        /\ wide \/ (prompt_status = "remove_this" /\ cursor = Len(line))

=============================================================================
