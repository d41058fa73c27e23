------------------------------- MODULE Buffers -------------------------------
(***************************************************************************)
(* The open buffers (BuffrCollection in current_buffer.rs), the commands   *)
(* that save, open, close and quit (modes/command.rs), and the files on    *)
(* disk.  A content is a sequence; one element stands for a chunk.         *)
(* Several names can denote one file (canonicalize).                       *)
(***************************************************************************)
EXTENDS Naturals, Sequences, SequencesExt

CONSTANTS Names,        \* file names a user can type
          Files,        \* the files they denote
          Canon,        \* Names -> Files, the canonical path
          Original,     \* Files -> content before the program starts
          Edited,       \* contents an edit can produce
          NoPath,       \* Option::None of a buffer's path
          MaxBuffers,   \* bound on the number of open buffers
          MaxEdits      \* bound on the number of edits

ASSUME BuffersAssumption ==
    /\ Canon \in [Names -> Files]
    /\ NoPath \notin Names
    /\ MaxBuffers \in Nat \ {0} /\ MaxEdits \in Nat
    /\ Original \in [Files -> Seq(Nat)]
    /\ Edited \subseteq Seq(Nat)

VARIABLES
    list,            \* the open buffers
    cur_buf_index,   \* from 1, where the code counts from 0
    disk,            \* the files that exist -> content
    mode,            \* "normal"; "quit" and "forced" after :q, :wq and :q!;
                     \* "exited" after an error in the event loop
    edits,           \* history: number of edits
    foreign          \* history: files that were removed, or written by anything
                     \* but a successful save of the buffers under their own path

vars == <<list, cur_buf_index, disk, mode, edits, foreign>>

-----------------------------------------------------------------------------

\* "elsewhere" and "adopted" are history: the last save went to another file
\* than the buffer's own; the buffer got its path from :w.
Buffer(data, path) ==
    [data |-> data, path |-> path, dirty |-> FALSE, elsewhere |-> FALSE, adopted |-> FALSE]

Current == list[cur_buf_index]
HasPath(buf) == buf.path # NoPath
FileOf(buf) == Canon[buf.path]

\* main opens the file on the command line and reads its first chunk, if there
\* is one; without a file there is an empty scratch buffer.
FirstChunk(content) == IF content = <<>> THEN <<>> ELSE <<Head(content)>>

Init ==
    /\ disk = Original
    /\ list \in {<<Buffer(<<>>, NoPath)>>}
                \cup {<<Buffer(FirstChunk(Original[Canon[name]]), name)>> : name \in Names}
    /\ cur_buf_index = 1
    /\ mode = "normal"
    /\ edits = 0
    /\ foreign = {}

\* Any edit, undo or redo of the current buffer.
EditData(data) ==
    /\ mode = "normal"
    /\ edits < MaxEdits
    /\ edits' = edits + 1
    /\ list' = [list EXCEPT ![cur_buf_index].data = data, ![cur_buf_index].dirty = TRUE]
    /\ UNCHANGED <<cur_buf_index, disk, mode, foreign>>

\* load_next_chunk, called by drawing and scrolling.
LoadNextChunk ==
    LET content == disk[FileOf(Current)]
        at == Len(Current.data)
    IN  /\ mode = "normal"
        /\ HasPath(Current)
        /\ \/ /\ FileOf(Current) \notin DOMAIN disk
              /\ mode' = "exited"
              /\ UNCHANGED list
           \/ /\ FileOf(Current) \in DOMAIN disk
              /\ at < Len(content)
              /\ list' = [list EXCEPT ![cur_buf_index].data = Append(@, content[at + 1])]
              /\ UNCHANGED mode
        /\ UNCHANGED <<cur_buf_index, disk, edits, foreign>>

-----------------------------------------------------------------------------
(***************************************************************************)
(* Saving.  fs::write truncates the file before it writes.                 *)
(***************************************************************************)

Stored(files, f, data) == [g \in DOMAIN files \cup {f} |-> IF g = f THEN data ELSE files[g]]

\* What a failed write leaves: nothing happened, or a beginning of the data
\* arrived.
FailedWrite(files, f, data) ==
    {files} \cup {Stored(files, f, SubSeq(data, 1, n)) : n \in 0 .. Len(data)}

UpdatePathIfMissing(buf, name) ==
    IF HasPath(buf) THEN buf ELSE [buf EXCEPT !.path = name, !.adopted = TRUE]

WritePath(filename) == IF filename = NoPath THEN Current.path ELSE filename

\* :w and :w filename, when the write succeeds.
Write(filename) ==
    LET path == WritePath(filename)
        own == HasPath(Current) /\ FileOf(Current) = Canon[path]
    IN  /\ mode = "normal"
        /\ path # NoPath
        /\ disk' = Stored(disk, Canon[path], Current.data)
        /\ list' = [list EXCEPT ![cur_buf_index] =
                      UpdatePathIfMissing([@ EXCEPT !.dirty = FALSE,
                                                    !.elsewhere = HasPath(Current) /\ ~own],
                                          path)]
        /\ foreign' = IF own THEN foreign ELSE foreign \cup {Canon[path]}
        /\ UNCHANGED <<cur_buf_index, mode, edits>>

\* ... and when it fails.  A buffer without a path is only reported.
WriteFails(filename) ==
    LET path == WritePath(filename)
    IN  /\ mode = "normal"
        /\ path # NoPath
        /\ disk' \in FailedWrite(disk, Canon[path], Current.data)
        /\ foreign' = foreign \cup {Canon[path]}
        /\ UNCHANGED <<list, cur_buf_index, mode, edits>>

\* The disk after the buffers before "upto" are written in the list's order.
Flushed(upto) ==
    LET Writers(f) == {i \in 1 .. upto - 1 : HasPath(list[i]) /\ FileOf(list[i]) = f}
    IN  [f \in DOMAIN disk \cup {g \in Files : Writers(g) # {}} |->
            IF Writers(f) = {} THEN disk[f] ELSE list[Max(Writers(f))].data]

\* Variant: the buffers are clean once the loop has begun.
CleanedEarly(upto) ==
    [i \in DOMAIN list |->
        IF HasPath(list[i])
        THEN [list[i] EXCEPT !.dirty = FALSE, !.elsewhere = FALSE]
        ELSE list[i]]

Cleaned(upto) ==
    [i \in DOMAIN list |->
        IF i < upto /\ HasPath(list[i])
        THEN [list[i] EXCEPT !.dirty = FALSE, !.elsewhere = FALSE]
        ELSE list[i]]

\* Files two buffers have open are written twice.
Contested(upto) ==
    {f \in Files : \E i, j \in 1 .. upto - 1 :
        i # j /\ HasPath(list[i]) /\ HasPath(list[j]) /\ FileOf(list[i]) = f /\ FileOf(list[j]) = f}

FlushAll(next_mode) ==
    LET past == Len(list) + 1
    IN  /\ mode = "normal"
        /\ disk' = Flushed(past)
        /\ list' = Cleaned(past)
        /\ foreign' = foreign \cup Contested(past)
        /\ mode' = next_mode
        /\ UNCHANGED <<cur_buf_index, edits>>

\* :wa and :wq stop at the first buffer that cannot be written.
FlushFails ==
    \E i \in DOMAIN list :
        /\ mode = "normal"
        /\ HasPath(list[i])
        /\ disk' \in FailedWrite(Flushed(i), FileOf(list[i]), list[i].data)
        /\ list' = Cleaned(i)
        /\ foreign' = foreign \cup Contested(i) \cup {FileOf(list[i])}
        /\ UNCHANGED <<cur_buf_index, mode, edits>>

WriteAll == FlushAll("normal")
WriteQuit == FlushAll("quit")

-----------------------------------------------------------------------------
(***************************************************************************)
(* Opening, closing and quitting.                                          *)
(***************************************************************************)

\* Variant: names are compared as they are typed.
SameName(buf, name) == buf.path = name

SameFile(buf, name) == FileOf(buf) = Canon[name]

\* The first buffer that ends the search of switch_current_buffer: its file is
\* the one looked for, or is gone, which is an error.
Search(name) == {i \in DOMAIN list : HasPath(list[i])
                    /\ (SameFile(list[i], name) \/ FileOf(list[i]) \notin DOMAIN disk)}

\* :e filename.  The failing cases are only reported.
SwitchCurrentBuffer(name) ==
    LET first == Min(Search(name))
    IN  /\ mode = "normal"
        /\ Canon[name] \in DOMAIN disk
        /\ \/ /\ Search(name) # {}
              /\ SameFile(list[first], name)
              /\ cur_buf_index' = first
              /\ UNCHANGED list
           \/ /\ Search(name) = {}
              /\ Len(list) < MaxBuffers
              /\ list' = Append(list, Buffer(disk[Canon[name]], name))
              /\ cur_buf_index' = Len(list) + 1
        /\ UNCHANGED <<disk, mode, edits, foreign>>

\* Variant: the index stays.
AfterDeleteStays(rest) ==
    /\ list' = IF rest = <<>> THEN <<Buffer(<<>>, NoPath)>> ELSE rest
    /\ UNCHANGED cur_buf_index

AfterDelete(rest) ==
    /\ list' = IF rest = <<>> THEN <<Buffer(<<>>, NoPath)>> ELSE rest
    /\ cur_buf_index' = IF cur_buf_index = 1 THEN 1 ELSE cur_buf_index - 1

DeleteCurrent ==
    /\ AfterDelete(RemoveAt(list, cur_buf_index))
    /\ UNCHANGED <<disk, mode, edits, foreign>>

Closable == ~(Current.dirty /\ HasPath(Current))

\* :db and :db!
DeleteBuffer == mode = "normal" /\ Closable /\ DeleteCurrent
ForceDeleteBuffer == mode = "normal" /\ DeleteCurrent

\* Variant: only the current buffer is asked.
QuitsWithCurrent == ~(Current.dirty /\ HasPath(Current))

Quits == \A i \in DOMAIN list : ~(list[i].dirty /\ HasPath(list[i]))

Quit ==
    /\ mode = "normal"
    /\ Quits
    /\ mode' = "quit"
    /\ UNCHANGED <<list, cur_buf_index, disk, edits, foreign>>

ForceQuit ==
    /\ mode = "normal"
    /\ mode' = "forced"
    /\ UNCHANGED <<list, cur_buf_index, disk, edits, foreign>>

\* Somebody else removes a file.
FileRemoved(f) ==
    /\ mode = "normal"
    /\ f \in DOMAIN disk
    /\ disk' = [g \in DOMAIN disk \ {f} |-> disk[g]]
    /\ foreign' = foreign \cup {f}
    /\ UNCHANGED <<list, cur_buf_index, mode, edits>>

Ended == mode # "normal" /\ UNCHANGED vars

Next ==
    \/ \E data \in Edited : EditData(data)
    \/ LoadNextChunk
    \/ \E filename \in Names \cup {NoPath} : Write(filename) \/ WriteFails(filename)
    \/ WriteAll
    \/ WriteQuit
    \/ FlushFails
    \/ \E name \in Names : SwitchCurrentBuffer(name)
    \/ DeleteBuffer
    \/ ForceDeleteBuffer
    \/ Quit
    \/ ForceQuit
    \/ \E f \in Files : FileRemoved(f)
    \/ Ended

Spec == Init /\ [][Next]_vars

-----------------------------------------------------------------------------
(***************************************************************************)
(* Properties.                                                             *)
(***************************************************************************)

\* There is always a current buffer, whatever was opened and closed.
TypeOK ==
    /\ \A i \in DOMAIN list : /\ list[i].data \in Seq(Nat)
                              /\ list[i].path \in Names \cup {NoPath}
                              /\ list[i].dirty \in BOOLEAN
    /\ cur_buf_index \in DOMAIN list
    /\ DOMAIN disk \subseteq Files /\ \A f \in DOMAIN disk : disk[f] \in Seq(Nat)
    /\ mode \in {"normal", "quit", "forced", "exited"}
    /\ edits \in Nat
    /\ foreign \subseteq Files

\* :e never opens a file twice, under whatever name: two buffers have the same
\* file only if :w gave one of them its path.
OneBufferPerFile ==
    \A i, j \in DOMAIN list :
        i # j /\ HasPath(list[i]) /\ HasPath(list[j]) /\ FileOf(list[i]) = FileOf(list[j])
            => list[i].adopted \/ list[j].adopted

\* A buffer that is not dirty shows (the loaded beginning of) its file: saving,
\* saving all with a failure in between, loading and switching never clear
\* dirty before the data is in the file.  Not so for a file that others wrote
\* or removed, or after a save to another file.
CleanMatchesDisk ==
    \A i \in DOMAIN list :
        LET buf == list[i]
        IN  HasPath(buf) /\ ~buf.dirty /\ ~buf.elsewhere /\ FileOf(buf) \notin foreign
                => IsPrefix(buf.data, disk[FileOf(buf)])

\* :q and :wq leave no change of a buffer with a path behind, with the same
\* exceptions.
QuitLosesNothing ==
    mode = "quit" =>
        \A i \in DOMAIN list :
            LET buf == list[i]
            IN  HasPath(buf) /\ ~buf.elsewhere /\ FileOf(buf) \notin foreign
                    => IsPrefix(buf.data, disk[FileOf(buf)])

\* "unsaved changes! Run :wq or :q! instead.": after :q every buffer with a
\* path is as its file is, the file being nobody else's.
QuitRefusesUnsaved ==
    mode = "quit" =>
        \A i \in DOMAIN list :
            HasPath(list[i]) /\ FileOf(list[i]) \notin foreign
                => IsPrefix(list[i].data, disk[FileOf(list[i])])

\* ":w to flush current_buffer to disk": with nothing edited and no other file
\* involved, there is nothing to flush and the file stays as it is.
SavingKeepsFile ==
    edits = 0 => \A f \in Files \ foreign : disk[f] = Original[f]

=============================================================================
