---------------------------- MODULE BuffersProofs ---------------------------
(***************************************************************************)
(* Proofs about the open buffers, for any number of buffers, names, files  *)
(* and edits.                                                              *)
(***************************************************************************)
EXTENDS Buffers, SequenceTheorems, WellFoundedInduction, TLAPS

BufferRecord ==
    [data : Seq(Nat), path : Names \cup {NoPath}, dirty : BOOLEAN, elsewhere : BOOLEAN,
     adopted : BOOLEAN]

\* The inductive invariant.  A buffer that :w gave its path made the file it
\* took foreign, so two buffers on one file are always excused; a file nobody
\* else touched exists; and what quits has no dirty buffer with a path.
BuffersInv ==
    /\ list \in Seq(BufferRecord)
    /\ TypeOK
    /\ Files \ foreign \subseteq DOMAIN disk
    /\ \A i \in DOMAIN list : list[i].adopted => FileOf(list[i]) \in foreign
    /\ OneBufferPerFile
    /\ CleanMatchesDisk
    /\ mode = "quit" => \A i \in DOMAIN list : HasPath(list[i]) => ~list[i].dirty

-----------------------------------------------------------------------------
(* Sequences and sets of indices.                                          *)

\* A prefix, element by element.
LEMMA PrefixElements ==
    ASSUME NEW s \in Seq(Nat), NEW t \in Seq(Nat)
    PROVE  IsPrefix(s, t) <=> Len(s) <= Len(t) /\ \A k \in 1 .. Len(s) : s[k] = t[k]
  <1>1. Len(s) \in Nat /\ Len(t) \in Nat /\ (\A k \in 1 .. Len(s) : s[k] \in Nat)
        /\ (\A k \in 1 .. Len(t) : t[k] \in Nat)
    BY LenProperties, ElementOfSeq, Zenon
  <1>2. SubSeq(s, 1, Len(s)) = s
    BY <1>1, SubSeqFull, Zenon
  <1>3. CASE ~(Len(s) <= Len(t))
    BY <1>3, Zenon DEF IsPrefix
  <1>4. CASE Len(s) <= Len(t)
    <2> DEFINE u == SubSeq(t, 1, Len(s))
    <2>1. u \in Seq(Nat) /\ Len(u) = Len(s) /\ \A k \in 1 .. Len(s) : u[k] = t[k]
      <3>1. \A k \in 1 .. Len(s) : t[k] \in Nat
        BY <1>1, <1>4
      <3>2. /\ u \in Seq(Nat)
            /\ Len(u) = IF 1 <= Len(s) THEN Len(s) - 1 + 1 ELSE 0
            /\ \A k \in 1 .. Len(s) - 1 + 1 : u[k] = t[1 + k - 1]
        BY <1>1, <3>1, SubSeqProperties
      <3> HIDE DEF u
      <3> QED BY <1>1, <3>2
    <2> HIDE DEF u
    <2>2. s = u <=> \A k \in 1 .. Len(s) : s[k] = t[k]
      BY <2>1, SeqEqual, Zenon
    <2> QED BY <1>2, <1>4, <2>2 DEF IsPrefix, u
  <1> QED BY <1>3, <1>4, Zenon

\* A content is a beginning of itself.
LEMMA PrefixOfItself ==
    ASSUME NEW s \in Seq(Nat)
    PROVE  IsPrefix(s, s)
  BY PrefixElements, LenProperties

\* One buffer of the list is replaced.
LEMMA ReplacedBuffer ==
    ASSUME NEW S, NEW s \in Seq(S), NEW c \in 1 .. Len(s), NEW b \in S
    PROVE  /\ [s EXCEPT ![c] = b] \in Seq(S)
           /\ DOMAIN [s EXCEPT ![c] = b] = DOMAIN s
           /\ \A i \in DOMAIN s : [s EXCEPT ![c] = b][i] = IF i = c THEN b ELSE s[i]
  BY ExceptSeq, Zenon

\* The last of the buffers that write a file.
LEMMA MaxOfIndices ==
    ASSUME NEW n \in Nat, NEW T, T \subseteq 1 .. n, T # {}
    PROVE  Max(T) \in T
  <1> DEFINE U == {n - x : x \in T}
  <1>1. \A x \in T : x \in Int /\ 1 <= x /\ x <= n
    OBVIOUS
  <1>2. U \subseteq Nat /\ U # {}
    <2>1. \A x \in T : n - x \in Nat
      BY <1>1
    <2> QED BY <2>1, Zenon
  <1>3. PICK m \in U : \A y \in U : ~(<<y, m>> \in OpToRel(<, Nat))
    <2> HIDE DEF U
    <2> QED BY <1>2, NatLessThanWellFounded, WFMin, Zenon
  <1>4. \A y \in U : ~(y < m)
    BY <1>2, <1>3, Zenon DEF OpToRel
  <1>5. PICK x \in T : m = n - x
    BY Zenon
  <1>6. \A y \in T : x >= y
    <2> SUFFICES ASSUME NEW y \in T PROVE x >= y
      BY Zenon
    <2>1. ~(n - y < n - x)
      BY <1>4, <1>5, Zenon
    <2> QED BY <1>1, <2>1
  <1> QED BY <1>5, <1>6, Zenon DEF Max

\* The first of the buffers that end the search of switch_current_buffer.
LEMMA MinOfIndices ==
    ASSUME NEW T, T \subseteq Nat, T # {}
    PROVE  Min(T) \in T
  <1>1. PICK m \in T : \A y \in T : ~(<<y, m>> \in OpToRel(<, Nat))
    BY NatLessThanWellFounded, WFMin, Zenon
  <1>2. \A y \in T : ~(y < m)
    BY <1>1, Zenon DEF OpToRel
  <1>3. \A y \in T : m =< y
    BY <1>2
  <1> QED BY <1>3, Zenon DEF Min

\* Taking one buffer out shifts the ones behind it.
LEMMA RemovedBuffer ==
    ASSUME NEW S, NEW s \in Seq(S), NEW c \in 1 .. Len(s)
    PROVE  /\ RemoveAt(s, c) \in Seq(S)
           /\ Len(RemoveAt(s, c)) = Len(s) - 1
           /\ \A i \in 1 .. Len(s) - 1 :
                RemoveAt(s, c)[i] = s[IF i < c THEN i ELSE i + 1]
  <1>1. Len(s) \in Nat /\ \A k \in 1 .. Len(s) : s[k] \in S
    BY LenProperties, ElementOfSeq, Zenon
  <1> DEFINE u == SubSeq(s, 1, c - 1)
             v == SubSeq(s, c + 1, Len(s))
  <1>2. u \in Seq(S) /\ Len(u) = c - 1 /\ \A k \in 1 .. c - 1 : u[k] = s[k]
    <2>1. \A k \in 1 .. c - 1 : s[k] \in S
      BY <1>1
    <2>2. /\ u \in Seq(S)
          /\ Len(u) = IF 1 <= c - 1 THEN c - 1 - 1 + 1 ELSE 0
          /\ \A k \in 1 .. c - 1 - 1 + 1 : u[k] = s[1 + k - 1]
      BY <1>1, <2>1, SubSeqProperties
    <2> HIDE DEF u
    <2> QED BY <1>1, <2>2
  <1>3. v \in Seq(S) /\ Len(v) = Len(s) - c /\ \A k \in 1 .. Len(s) - c : v[k] = s[c + k]
    <2>1. \A k \in c + 1 .. Len(s) : s[k] \in S
      BY <1>1
    <2>2. /\ v \in Seq(S)
          /\ Len(v) = IF c + 1 <= Len(s) THEN Len(s) - (c + 1) + 1 ELSE 0
          /\ \A k \in 1 .. Len(s) - (c + 1) + 1 : v[k] = s[c + 1 + k - 1]
      BY <1>1, <2>1, SubSeqProperties
    <2> HIDE DEF v
    <2> QED BY <1>1, <2>2
  <1>4. RemoveAt(s, c) = u \o v
    BY Zenon DEF RemoveAt
  <1> HIDE DEF u, v
  <1>5. /\ u \o v \in Seq(S) /\ Len(u \o v) = Len(u) + Len(v)
        /\ \A x \in 1 .. Len(u) + Len(v) :
             (u \o v)[x] = IF x <= Len(u) THEN u[x] ELSE v[x - Len(u)]
    BY <1>2, <1>3, ConcatProperties, Zenon
  <1>6. \A i \in 1 .. Len(s) - 1 : (u \o v)[i] = s[IF i < c THEN i ELSE i + 1]
    <2> SUFFICES ASSUME NEW i \in 1 .. Len(s) - 1
                 PROVE  (u \o v)[i] = s[IF i < c THEN i ELSE i + 1]
      BY Zenon
    <2>1. CASE i < c
      BY <1>1, <1>2, <1>3, <1>5, <2>1
    <2>2. CASE ~(i < c)
      <3>1. i - (c - 1) \in 1 .. Len(s) - c /\ c + (i - (c - 1)) = i + 1
        BY <1>1, <2>2
      <3>2. (u \o v)[i] = v[i - (c - 1)]
        BY <1>1, <1>2, <1>3, <1>5, <2>2
      <3>3. v[i - (c - 1)] = s[c + (i - (c - 1))]
        BY <1>3, <3>1, Zenon
      <3> QED BY <2>2, <3>1, <3>2, <3>3, Zenon
    <2> QED BY <2>1, <2>2, Zenon
  <1> QED BY <1>1, <1>2, <1>3, <1>4, <1>5, <1>6

-----------------------------------------------------------------------------
(* What the invariant says of one buffer and of one file.                  *)

\* The parts of the invariant, buffer by buffer.
LEMMA BufferFacts ==
    ASSUME BuffersInv
    PROVE  /\ Len(list) \in Nat /\ DOMAIN list = 1 .. Len(list)
           /\ cur_buf_index \in 1 .. Len(list)
           /\ \A i \in DOMAIN list : list[i] \in BufferRecord
           /\ Current \in BufferRecord
           /\ \A i \in DOMAIN list : HasPath(list[i]) => FileOf(list[i]) \in Files
  <1>1. Len(list) \in Nat /\ DOMAIN list = 1 .. Len(list)
        /\ \A i \in 1 .. Len(list) : list[i] \in BufferRecord
    BY LenProperties, ElementOfSeq, Zenon DEF BuffersInv
  <1>2. cur_buf_index \in 1 .. Len(list)
    BY <1>1, Zenon DEF BuffersInv, TypeOK
  <1>3. \A b \in BufferRecord : HasPath(b) => FileOf(b) \in Files
    BY BuffersAssumption, Zenon DEF BufferRecord, HasPath, FileOf
  <1> QED BY <1>1, <1>2, <1>3, Zenon DEF Current

\* Two buffers have one file only if somebody else wrote it.
LEMMA SharedIsForeign ==
    ASSUME BuffersInv, NEW i \in DOMAIN list, NEW j \in DOMAIN list, i # j,
           HasPath(list[i]), HasPath(list[j]), FileOf(list[i]) = FileOf(list[j])
    PROVE  FileOf(list[i]) \in foreign
  BY Zenon DEF BuffersInv, OneBufferPerFile

\* The type of a buffer in the list, as TypeOK states it.
LEMMA BufferTypes ==
    ASSUME NEW b \in BufferRecord
    PROVE  b.data \in Seq(Nat) /\ b.path \in Names \cup {NoPath} /\ b.dirty \in BOOLEAN
           /\ b.elsewhere \in BOOLEAN /\ b.adopted \in BOOLEAN
  BY Zenon DEF BufferRecord

\* The data of a clean buffer, whatever the list and the disk become: it has
\* to be a beginning of its file unless the file is foreign.
Settled(buf, files, taken) ==
    HasPath(buf) /\ ~buf.dirty /\ ~buf.elsewhere /\ FileOf(buf) \notin taken
        => IsPrefix(buf.data, files[FileOf(buf)])

\* A file that is not foreign after a step keeps its content, so the clean
\* buffers stay as they are.
LEMMA SettledStays ==
    ASSUME BuffersInv, NEW i \in DOMAIN list, NEW files, NEW taken, foreign \subseteq taken,
           \A f \in Files \ taken : files[f] = disk[f]
    PROVE  Settled(list[i], files, taken)
  <1>1. HasPath(list[i]) => FileOf(list[i]) \in Files
    BY BufferFacts, Zenon
  <1> QED BY <1>1, Zenon DEF BuffersInv, CleanMatchesDisk, Settled

\* A step that leaves the list alone, and every file but the foreign ones.
LEMMA SameListInv ==
    ASSUME BuffersInv, UNCHANGED <<list, cur_buf_index, edits>>,
           mode' \in {"normal", "quit", "forced", "exited"},
           mode' = "quit" => \A i \in DOMAIN list : HasPath(list[i]) => ~list[i].dirty,
           foreign \subseteq foreign', foreign' \subseteq Files,
           DOMAIN disk' \subseteq Files, \A f \in DOMAIN disk' : disk'[f] \in Seq(Nat),
           \A f \in Files \ foreign' : f \in DOMAIN disk' /\ disk'[f] = disk[f]
    PROVE  BuffersInv'
  <1>1. \A i \in DOMAIN list : Settled(list[i], disk', foreign')
    BY SettledStays, Zenon
  <1>2. CleanMatchesDisk'
    BY <1>1, Zenon DEF CleanMatchesDisk, Settled, HasPath, FileOf
  <1>3. TypeOK'
    BY Zenon DEF BuffersInv, TypeOK
  <1>4. OneBufferPerFile'
    BY Zenon DEF BuffersInv, OneBufferPerFile, HasPath, FileOf
  <1>5. \A i \in DOMAIN list : list[i].adopted => FileOf(list[i]) \in foreign'
    BY Zenon DEF BuffersInv
  <1> QED BY <1>2, <1>3, <1>4, <1>5 DEF BuffersInv, HasPath, FileOf

\* A step that replaces the current buffer by one with the same path, or one
\* that adopts a path whose file becomes foreign, and writes at most its file.
LEMMA ReplaceInv ==
    ASSUME BuffersInv, mode = "normal", UNCHANGED <<cur_buf_index, mode>>, edits' \in Nat,
           NEW b \in BufferRecord, list' = [list EXCEPT ![cur_buf_index] = b],
           \/ (b.path = Current.path /\ b.adopted = Current.adopted)
           \/ (b.adopted /\ FileOf(b) \in foreign'),
           foreign \subseteq foreign', foreign' \subseteq Files,
           DOMAIN disk' \subseteq Files, \A f \in DOMAIN disk' : disk'[f] \in Seq(Nat),
           \A f \in Files \ foreign' :
              f \in DOMAIN disk' /\ (disk'[f] = disk[f] \/ (HasPath(Current) /\ f = FileOf(Current))),
           Settled(b, disk', foreign')
    PROVE  BuffersInv'
  <1>1. /\ list' \in Seq(BufferRecord) /\ DOMAIN list' = DOMAIN list
        /\ \A i \in DOMAIN list : list'[i] = IF i = cur_buf_index THEN b ELSE list[i]
    BY BufferFacts, ReplacedBuffer, Zenon DEF BuffersInv
  <1>2. cur_buf_index \in DOMAIN list /\ Current = list[cur_buf_index]
    BY BufferFacts, Zenon DEF Current
  <1>3. \A i \in DOMAIN list' : list'[i] \in BufferRecord
    BY <1>1, BufferFacts, Zenon
  <1>4. TypeOK'
    BY <1>1, <1>3, BufferTypes DEF BuffersInv, TypeOK
  <1>5. Files \ foreign' \subseteq DOMAIN disk'
    BY Zenon
  <1>6. \A i \in DOMAIN list' : list'[i].adopted => Canon[list'[i].path] \in foreign'
    BY <1>1, <1>2 DEF BuffersInv, FileOf
  <1>7. OneBufferPerFile'
    BY <1>1, <1>2, SMTT(30) DEF BuffersInv, OneBufferPerFile, HasPath, FileOf
  <1>8. CleanMatchesDisk'
    <2> SUFFICES ASSUME NEW i \in DOMAIN list PROVE Settled(list'[i], disk', foreign')
      BY <1>1, Zenon DEF CleanMatchesDisk, Settled, HasPath, FileOf
    <2>1. CASE i = cur_buf_index
      BY <1>1, <2>1, Zenon
    <2>2. CASE i # cur_buf_index
      <3> SUFFICES ASSUME HasPath(list[i]), ~list[i].dirty, ~list[i].elsewhere,
                          FileOf(list[i]) \notin foreign'
                   PROVE  IsPrefix(list[i].data, disk'[FileOf(list[i])])
        BY <1>1, <2>2, Zenon DEF Settled
      <3>1. FileOf(list[i]) \in Files
        BY BufferFacts, Zenon
      <3>2. ~(HasPath(Current) /\ FileOf(list[i]) = FileOf(Current))
        BY <1>2, <2>2, SharedIsForeign
      <3>3. disk'[FileOf(list[i])] = disk[FileOf(list[i])]
        BY <3>1, <3>2, Zenon
      <3>4. FileOf(list[i]) \notin foreign
        BY Zenon
      <3> QED BY <3>3, <3>4, Zenon DEF BuffersInv, CleanMatchesDisk
    <2> QED BY <2>1, <2>2, Zenon
  <1> QED BY <1>1, <1>4, <1>5, <1>6, <1>7, <1>8, Zenon DEF BuffersInv, FileOf

-----------------------------------------------------------------------------
(* The actions.                                                            *)

\* What a write leaves on disk: the file written, and every other file.
LEMMA StoredFiles ==
    ASSUME NEW files, DOMAIN files \subseteq Files, \A f \in DOMAIN files : files[f] \in Seq(Nat),
           NEW f \in Files, NEW data \in Seq(Nat)
    PROVE  /\ DOMAIN Stored(files, f, data) = DOMAIN files \cup {f}
           /\ \A g \in DOMAIN Stored(files, f, data) : Stored(files, f, data)[g] \in Seq(Nat)
           /\ Stored(files, f, data)[f] = data
           /\ \A g \in DOMAIN files : g # f => Stored(files, f, data)[g] = files[g]
  BY Zenon DEF Stored

\* A failed write harms no file but the one it was to write.
LEMMA FailedWriteFiles ==
    ASSUME NEW files, DOMAIN files \subseteq Files, \A f \in DOMAIN files : files[f] \in Seq(Nat),
           NEW f \in Files, NEW data \in Seq(Nat), NEW left \in FailedWrite(files, f, data)
    PROVE  /\ DOMAIN files \subseteq DOMAIN left /\ DOMAIN left \subseteq Files
           /\ \A g \in DOMAIN left : left[g] \in Seq(Nat)
           /\ \A g \in DOMAIN files : g # f => left[g] = files[g]
  <1>1. CASE left = files
    BY <1>1, Zenon
  <1>2. CASE \E n \in 0 .. Len(data) : left = Stored(files, f, SubSeq(data, 1, n))
    <2>1. PICK n \in 0 .. Len(data) : left = Stored(files, f, SubSeq(data, 1, n))
      BY <1>2, Zenon
    <2>2. SubSeq(data, 1, n) \in Seq(Nat)
      <3>1. Len(data) \in Nat /\ \A k \in 1 .. Len(data) : data[k] \in Nat
        BY LenProperties, ElementOfSeq, Zenon
      <3>2. n \in Int /\ \A k \in 1 .. n : data[k] \in Nat
        BY <3>1
      <3> QED BY <3>2, SubSeqProperties
    <2> DEFINE part == SubSeq(data, 1, n)
    <2>3. part \in Seq(Nat) /\ left = Stored(files, f, part)
      BY <2>1, <2>2, Zenon
    <2> HIDE DEF part
    <2>4. /\ DOMAIN Stored(files, f, part) = DOMAIN files \cup {f}
          /\ \A g \in DOMAIN Stored(files, f, part) : Stored(files, f, part)[g] \in Seq(Nat)
          /\ \A g \in DOMAIN files : g # f => Stored(files, f, part)[g] = files[g]
      BY <2>3, StoredFiles, Zenon
    <2> QED BY <2>3, <2>4, Zenon
  <1> QED BY <1>1, <1>2, Zenon DEF FailedWrite

\* main starts with a clean buffer that shows the beginning of its file.
LEMMA InitInv == Init => BuffersInv
  <1> SUFFICES ASSUME Init PROVE BuffersInv
    BY Zenon
  <1>1. PICK b : list = <<b>> /\ (\/ b = Buffer(<<>>, NoPath)
                                 \/ \E name \in Names :
                                      b = Buffer(FirstChunk(Original[Canon[name]]), name))
    BY Zenon DEF Init
  <1>2. /\ b \in BufferRecord /\ ~b.dirty /\ ~b.adopted
        /\ HasPath(b) => IsPrefix(b.data, Original[FileOf(b)])
    <2>1. CASE b = Buffer(<<>>, NoPath)
      BY <2>1, EmptySeq, Zenon DEF Buffer, BufferRecord, HasPath
    <2>2. CASE \E name \in Names : b = Buffer(FirstChunk(Original[Canon[name]]), name)
      <3>1. PICK name \in Names : b = Buffer(FirstChunk(Original[Canon[name]]), name)
        BY <2>2, Zenon
      <3> DEFINE content == Original[Canon[name]]
                 chunk == FirstChunk(content)
      <3>2. content \in Seq(Nat)
        BY BuffersAssumption, Zenon
      <3> HIDE DEF content
      <3>3. chunk \in Seq(Nat) /\ IsPrefix(chunk, content)
        <4>1. CASE content = <<>>
          BY <4>1, <3>2, PrefixOfItself, Zenon DEF FirstChunk
        <4>2. CASE content # <<>>
          <5>1. Head(content) \in Nat /\ Head(content) = content[1] /\ Len(content) >= 1
                /\ Len(content) \in Nat
            BY <3>2, <4>2, EmptySeq, LenProperties, SMTT(30)
          <5>2. chunk = <<Head(content)>> /\ chunk \in Seq(Nat) /\ Len(chunk) = 1
                /\ chunk[1] = content[1]
            BY <4>2, <5>1 DEF FirstChunk
          <5> HIDE DEF chunk
          <5>3. Len(chunk) <= Len(content) /\ \A k \in 1 .. Len(chunk) : chunk[k] = content[k]
            BY <5>1, <5>2
          <5> QED BY <3>2, <5>2, <5>3, PrefixElements, Zenon
        <4> QED BY <4>1, <4>2
      <3> HIDE DEF chunk
      <3>4. b = Buffer(chunk, name)
        BY <3>1, Zenon DEF chunk, content
      <3>5. b \in BufferRecord /\ ~b.dirty /\ ~b.adopted /\ b.data = chunk /\ b.path = name
        BY <3>3, <3>4, Zenon DEF Buffer, BufferRecord
      <3> QED BY <3>3, <3>5 DEF FileOf, content
    <2> QED BY <1>1, <2>1, <2>2, SMTT(30)
  <1>3. list \in Seq(BufferRecord) /\ DOMAIN list = {1} /\ list[1] = b
    BY <1>1, <1>2
  <1>4. disk = Original /\ DOMAIN disk = Files /\ (\A f \in Files : disk[f] \in Seq(Nat))
        /\ cur_buf_index = 1 /\ mode = "normal" /\ edits = 0 /\ foreign = {}
    BY BuffersAssumption, Zenon DEF Init
  <1>5. TypeOK
    BY <1>2, <1>3, <1>4, BufferTypes, SMTT(30) DEF TypeOK
  <1>6. OneBufferPerFile
    BY <1>3, Zenon DEF OneBufferPerFile
  <1>7. CleanMatchesDisk
    BY <1>2, <1>3, <1>4, Zenon DEF CleanMatchesDisk
  <1> QED BY <1>2, <1>3, <1>4, <1>5, <1>6, <1>7, Zenon DEF BuffersInv

\* An edit makes the buffer dirty.
LEMMA EditInv ==
    ASSUME BuffersInv, NEW data \in Edited, EditData(data)
    PROVE  BuffersInv'
  <1> DEFINE b == [Current EXCEPT !.data = data, !.dirty = TRUE]
  <1>1. Current \in BufferRecord /\ data \in Seq(Nat)
    BY BufferFacts, BuffersAssumption
  <1>2. b \in BufferRecord /\ b.path = Current.path /\ b.adopted = Current.adopted /\ b.dirty
    BY <1>1, Zenon DEF BufferRecord
  <1>3. list' = [list EXCEPT ![cur_buf_index] = b]
    BY BufferFacts, Zenon DEF EditData, Current
  <1> HIDE DEF b
  <1>4. Settled(b, disk', foreign')
    BY <1>2, Zenon DEF Settled
  <1>5. edits' \in Nat /\ mode = "normal" /\ UNCHANGED <<cur_buf_index, mode, disk, foreign>>
    BY DEF EditData, BuffersInv, TypeOK
  <1> QED BY <1>2, <1>3, <1>4, <1>5, ReplaceInv, Zenon DEF BuffersInv, TypeOK

\* A chunk is appended at the end of what is loaded.
LEMMA LoadedPrefix ==
    ASSUME NEW s \in Seq(Nat), NEW t \in Seq(Nat), Len(s) < Len(t)
    PROVE  /\ Append(s, t[Len(s) + 1]) \in Seq(Nat)
           /\ IsPrefix(s, t) => IsPrefix(Append(s, t[Len(s) + 1]), t)
  <1> DEFINE u == Append(s, t[Len(s) + 1])
  <1>1. Len(s) \in Nat /\ Len(t) \in Nat /\ t[Len(s) + 1] \in Nat
    BY LenProperties, ElementOfSeq
  <1>2. /\ u \in Seq(Nat) /\ Len(u) = Len(s) + 1 /\ u[Len(s) + 1] = t[Len(s) + 1]
        /\ \A k \in 1 .. Len(s) : u[k] = s[k]
    BY <1>1, AppendProperties
  <1> HIDE DEF u
  <1>3. ASSUME IsPrefix(s, t) PROVE IsPrefix(u, t)
    <2>1. \A k \in 1 .. Len(s) : s[k] = t[k]
      BY <1>3, PrefixElements, Zenon
    <2>2. \A k \in 1 .. Len(s) + 1 : u[k] = t[k]
      <3>1. \A n \in Nat : \A k \in 1 .. n + 1 : k \in 1 .. n \/ k = n + 1
        OBVIOUS
      <3> QED BY <1>1, <1>2, <2>1, <3>1, Zenon
    <2>3. Len(u) <= Len(t) /\ \A k \in 1 .. Len(u) : u[k] = t[k]
      BY <1>1, <1>2, <2>2
    <2> QED BY <1>2, <2>3, PrefixElements, SMTT(30)
  <1> QED BY <1>2, <1>3 DEF u

\* load_next_chunk goes on reading where the data ends.
LEMMA LoadInv ==
    ASSUME BuffersInv, LoadNextChunk
    PROVE  BuffersInv'
  <1>1. /\ mode = "normal" /\ HasPath(Current)
        /\ UNCHANGED <<cur_buf_index, disk, edits, foreign>>
    BY Zenon DEF LoadNextChunk
  <1>2. CASE FileOf(Current) \notin DOMAIN disk
    <2>1. mode' = "exited" /\ UNCHANGED list
      BY <1>2, Zenon DEF LoadNextChunk
    <2> QED BY <1>1, <2>1, SameListInv, Zenon DEF BuffersInv, TypeOK
  <1>3. CASE FileOf(Current) \in DOMAIN disk
    <2> DEFINE content == disk[FileOf(Current)]
               loaded == Append(Current.data, content[Len(Current.data) + 1])
               b == [Current EXCEPT !.data = loaded]
    <2>1. Current \in BufferRecord /\ Current.data \in Seq(Nat) /\ content \in Seq(Nat)
      BY <1>3, BufferFacts, BufferTypes DEF BuffersInv, TypeOK
    <2>2. /\ Len(Current.data) < Len(content) /\ UNCHANGED mode
          /\ list' = [list EXCEPT ![cur_buf_index].data = Append(@, content[Len(Current.data) + 1])]
      BY <1>3, Zenon DEF LoadNextChunk
    <2>3. loaded \in Seq(Nat) /\ (IsPrefix(Current.data, content) => IsPrefix(loaded, content))
      BY <2>1, <2>2, LoadedPrefix, Zenon
    <2>4. list' = [list EXCEPT ![cur_buf_index] = b]
      BY <2>2, BufferFacts DEF Current
    <2> HIDE DEF loaded
    <2>5. /\ b \in BufferRecord /\ b.path = Current.path /\ b.adopted = Current.adopted
          /\ b.dirty = Current.dirty /\ b.elsewhere = Current.elsewhere /\ b.data = loaded
      BY <2>1, <2>3, Zenon DEF BufferRecord
    <2> HIDE DEF b
    <2>6. Settled(Current, disk, foreign)
      BY BufferFacts, Zenon DEF BuffersInv, CleanMatchesDisk, Settled, Current
    <2>7. Settled(b, disk', foreign')
      BY <1>1, <2>3, <2>5, <2>6 DEF Settled, HasPath, FileOf
    <2> QED BY <1>1, <2>2, <2>4, <2>5, <2>7, ReplaceInv, ZenonT(30) DEF BuffersInv, TypeOK
  <1> QED BY <1>2, <1>3, Zenon

\* The path a save goes to.
LEMMA WritePathIsName ==
    ASSUME BuffersInv, NEW filename \in Names \cup {NoPath}, WritePath(filename) # NoPath
    PROVE  WritePath(filename) \in Names /\ Canon[WritePath(filename)] \in Files
  <1>1. WritePath(filename) \in Names
    BY BufferFacts, BufferTypes, SMTT(30) DEF WritePath
  <1> QED BY <1>1, BuffersAssumption

\* :w puts the data into the file, and adopts its name where there was none.
LEMMA WriteInv ==
    ASSUME BuffersInv, NEW filename \in Names \cup {NoPath}, Write(filename)
    PROVE  BuffersInv'
  <1> DEFINE path == WritePath(filename)
             own == HasPath(Current) /\ FileOf(Current) = Canon[path]
             elsewhere == HasPath(Current) /\ ~own
             saved == [Current EXCEPT !.dirty = FALSE, !.elsewhere = elsewhere]
             b == UpdatePathIfMissing(saved, path)
  <1>1. path \in Names /\ Canon[path] \in Files
    BY WritePathIsName, Zenon DEF Write
  <1>2. Current \in BufferRecord /\ Current.data \in Seq(Nat)
    BY BufferFacts, BufferTypes
  <1>3. /\ mode = "normal" /\ UNCHANGED <<cur_buf_index, mode, edits>>
        /\ disk' = Stored(disk, Canon[path], Current.data)
        /\ foreign' = IF own THEN foreign ELSE foreign \cup {Canon[path]}
    BY Zenon DEF Write
  <1>4. list' = [list EXCEPT ![cur_buf_index] = b]
    BY BufferFacts, Zenon DEF Write, Current
  <1>5. /\ saved \in BufferRecord /\ saved.path = Current.path /\ saved.data = Current.data
        /\ saved.adopted = Current.adopted /\ saved.dirty = FALSE
        /\ saved.elsewhere = elsewhere
    <2>1. elsewhere \in BOOLEAN
      BY Zenon
    <2> HIDE DEF elsewhere
    <2> QED BY <1>2, <2>1, ZenonT(30) DEF BufferRecord
  <1> HIDE DEF saved
  <1>6. /\ b \in BufferRecord /\ b.data = Current.data
        /\ HasPath(Current) => b = saved
        /\ ~HasPath(Current) => b.path = path /\ b.adopted
    <2>1. CASE HasPath(Current)
      BY <1>5, <2>1, Zenon DEF UpdatePathIfMissing, HasPath
    <2>2. CASE ~HasPath(Current)
      <3>1. b = [saved EXCEPT !.path = path, !.adopted = TRUE]
        BY <1>5, <2>2, Zenon DEF UpdatePathIfMissing, HasPath
      <3> HIDE DEF path
      <3> QED BY <1>1, <1>5, <2>2, <3>1, Zenon DEF BufferRecord
    <2> QED BY <2>1, <2>2, Zenon
  <1> HIDE DEF b, path
  <1>7. DOMAIN disk \subseteq Files /\ (\A f \in DOMAIN disk : disk[f] \in Seq(Nat))
        /\ foreign \subseteq Files /\ edits \in Nat /\ Files \ foreign \subseteq DOMAIN disk
    BY Zenon DEF BuffersInv, TypeOK
  <1>8. /\ DOMAIN disk' = DOMAIN disk \cup {Canon[path]}
        /\ \A g \in DOMAIN disk' : disk'[g] \in Seq(Nat)
        /\ disk'[Canon[path]] = Current.data
        /\ \A g \in DOMAIN disk : g # Canon[path] => disk'[g] = disk[g]
    <2> DEFINE f == Canon[path]
               data == Current.data
    <2>1. f \in Files /\ data \in Seq(Nat) /\ disk' = Stored(disk, f, data)
      BY <1>1, <1>2, <1>3, Zenon
    <2> HIDE DEF f, data
    <2>2. /\ DOMAIN Stored(disk, f, data) = DOMAIN disk \cup {f}
          /\ \A g \in DOMAIN Stored(disk, f, data) : Stored(disk, f, data)[g] \in Seq(Nat)
          /\ Stored(disk, f, data)[f] = data
          /\ \A g \in DOMAIN disk : g # f => Stored(disk, f, data)[g] = disk[g]
      BY <1>7, <2>1, StoredFiles, Zenon
    <2> QED BY <2>1, <2>2, Zenon DEF f, data
  <1>9. foreign \subseteq foreign' /\ foreign' \subseteq Files
        /\ DOMAIN disk' \subseteq Files
    BY <1>1, <1>3, <1>7, <1>8, Zenon
  <1>10. \A f \in Files \ foreign' :
            f \in DOMAIN disk' /\ (disk'[f] = disk[f] \/ (HasPath(Current) /\ f = FileOf(Current)))
    BY <1>3, <1>7, <1>8, <1>9, SMTT(30)
  <1>11. Settled(b, disk', foreign')
    <2>1. CASE HasPath(Current) /\ own
      <3>1. b.data = Current.data /\ FileOf(b) = Canon[path]
        BY <1>5, <1>6, <2>1, SMTT(30) DEF FileOf
      <3> QED BY <1>2, <1>8, <3>1, PrefixOfItself, SMTT(30) DEF Settled
    <2>2. CASE HasPath(Current) /\ ~own
      BY <1>5, <1>6, <2>2, ZenonT(30) DEF Settled
    <2>3. CASE ~HasPath(Current)
      BY <1>3, <1>6, <2>3 DEF Settled, FileOf
    <2> QED BY <2>1, <2>2, <2>3, SMTT(30)
  <1>12. \/ (b.path = Current.path /\ b.adopted = Current.adopted)
         \/ (b.adopted /\ FileOf(b) \in foreign')
    BY <1>3, <1>5, <1>6 DEF FileOf
  <1> QED BY <1>3, <1>4, <1>6, <1>7, <1>8, <1>9, <1>10, <1>11, <1>12, ReplaceInv, Zenon

\* A write that fails leaves the buffer dirty and the file as others left it.
LEMMA WriteFailsInv ==
    ASSUME BuffersInv, NEW filename \in Names \cup {NoPath}, WriteFails(filename)
    PROVE  BuffersInv'
  <1> DEFINE f == Canon[WritePath(filename)]
  <1>1. f \in Files
    BY WritePathIsName, Zenon DEF WriteFails
  <1>2. /\ mode = "normal" /\ UNCHANGED <<list, cur_buf_index, mode, edits>>
        /\ disk' \in FailedWrite(disk, f, Current.data) /\ foreign' = foreign \cup {f}
    BY Zenon DEF WriteFails
  <1> HIDE DEF f
  <1>3. DOMAIN disk \subseteq Files /\ (\A g \in DOMAIN disk : disk[g] \in Seq(Nat))
        /\ foreign \subseteq Files /\ Files \ foreign \subseteq DOMAIN disk
        /\ Current.data \in Seq(Nat)
    BY BufferFacts, BufferTypes, Zenon DEF BuffersInv, TypeOK
  <1>4. /\ DOMAIN disk \subseteq DOMAIN disk' /\ DOMAIN disk' \subseteq Files
        /\ \A g \in DOMAIN disk' : disk'[g] \in Seq(Nat)
        /\ \A g \in DOMAIN disk : g # f => disk'[g] = disk[g]
    BY <1>1, <1>2, <1>3, FailedWriteFiles, Zenon
  <1>5. \A g \in Files \ foreign' : g \in DOMAIN disk' /\ disk'[g] = disk[g]
    BY <1>2, <1>3, <1>4, SMTT(30)
  <1> QED BY <1>1, <1>2, <1>3, <1>4, <1>5, SameListInv, SMTT(30)

\* Files can be removed by others.
LEMMA FileRemovedInv ==
    ASSUME BuffersInv, NEW f \in Files, FileRemoved(f)
    PROVE  BuffersInv'
  <1>1. /\ mode = "normal" /\ UNCHANGED <<list, cur_buf_index, mode, edits>>
        /\ disk' = [g \in DOMAIN disk \ {f} |-> disk[g]] /\ foreign' = foreign \cup {f}
    BY Zenon DEF FileRemoved
  <1>2. DOMAIN disk \subseteq Files /\ (\A g \in DOMAIN disk : disk[g] \in Seq(Nat))
        /\ foreign \subseteq Files /\ Files \ foreign \subseteq DOMAIN disk
    BY Zenon DEF BuffersInv, TypeOK
  <1>3. DOMAIN disk' = DOMAIN disk \ {f} /\ \A g \in DOMAIN disk' : disk'[g] = disk[g]
    BY <1>1, Zenon
  <1>4. \A g \in Files \ foreign' : g \in DOMAIN disk' /\ disk'[g] = disk[g]
    BY <1>1, <1>2, <1>3, SMTT(30)
  <1>5. \A g \in DOMAIN disk' : disk'[g] \in Seq(Nat)
    BY <1>2, <1>3, Zenon
  <1>6. DOMAIN disk' \subseteq Files /\ foreign' \subseteq Files /\ foreign \subseteq foreign'
    BY <1>1, <1>2, <1>3
  <1> QED BY <1>1, <1>4, <1>5, <1>6, SameListInv, Zenon

\* :e goes to the buffer of the file, or opens one.
LEMMA SwitchInv ==
    ASSUME BuffersInv, NEW name \in Names, SwitchCurrentBuffer(name)
    PROVE  BuffersInv'
  <1>1. /\ mode = "normal" /\ UNCHANGED <<disk, mode, edits, foreign>>
        /\ Canon[name] \in DOMAIN disk
    BY Zenon DEF SwitchCurrentBuffer
  <1>2. /\ Len(list) \in Nat /\ DOMAIN list = 1 .. Len(list)
        /\ \A i \in DOMAIN list : list[i] \in BufferRecord
    BY BufferFacts, Zenon
  <1>3. CASE Search(name) # {}
    <2>1. cur_buf_index' = Min(Search(name)) /\ UNCHANGED list
      BY <1>3, Zenon DEF SwitchCurrentBuffer
    <2>2. Search(name) \subseteq Nat /\ Search(name) \subseteq DOMAIN list
      BY <1>2 DEF Search
    <2>3. cur_buf_index' \in DOMAIN list
      BY <1>3, <2>1, <2>2, MinOfIndices, SMTT(30)
    <2> QED BY <1>1, <2>1, <2>3, SMTT(30) DEF BuffersInv, TypeOK, OneBufferPerFile, CleanMatchesDisk,
                                    HasPath, FileOf
  <1>4. CASE Search(name) = {}
    <2> DEFINE content == disk[Canon[name]]
               b == Buffer(content, name)
    <2>1. list' = Append(list, b) /\ cur_buf_index' = Len(list) + 1
      BY <1>4, Zenon DEF SwitchCurrentBuffer
    <2>2. content \in Seq(Nat)
      BY <1>1, Zenon DEF BuffersInv, TypeOK
    <2>3. /\ b \in BufferRecord /\ b.path = name /\ b.data = content /\ ~b.adopted
          /\ HasPath(b) /\ FileOf(b) = Canon[name]
      <3> HIDE DEF content
      <3> QED BY <2>2, BuffersAssumption, Zenon DEF Buffer, BufferRecord, HasPath, FileOf
    <2> HIDE DEF b
    <2>4. /\ list' \in Seq(BufferRecord) /\ DOMAIN list' = 1 .. Len(list) + 1
          /\ \A i \in DOMAIN list : list'[i] = list[i]
          /\ list'[Len(list) + 1] = b
      <3>1. list \in Seq(BufferRecord)
        BY Zenon DEF BuffersInv
      <3>2. /\ Append(list, b) \in Seq(BufferRecord) /\ Len(Append(list, b)) = Len(list) + 1
            /\ \A i \in 1 .. Len(list) : Append(list, b)[i] = list[i]
            /\ Append(list, b)[Len(list) + 1] = b
        BY <2>3, <3>1, AppendProperties
      <3>3. DOMAIN Append(list, b) = 1 .. Len(Append(list, b))
        BY <3>2, LenProperties, Zenon
      <3> QED BY <1>2, <2>1, <3>2, <3>3, Zenon
    <2>5. \A i \in DOMAIN list' : i \in DOMAIN list \/ i = Len(list) + 1
      BY <1>2, <2>4
    <2>6. \A i \in DOMAIN list : HasPath(list[i]) => FileOf(list[i]) # Canon[name]
      BY <1>4, Zenon DEF Search, SameFile
    <2>7. OneBufferPerFile'
      <3> SUFFICES ASSUME NEW i \in DOMAIN list', NEW j \in DOMAIN list', i # j,
                          HasPath(list'[i]), HasPath(list'[j]), FileOf(list'[i]) = FileOf(list'[j])
                   PROVE  list'[i].adopted \/ list'[j].adopted
        BY Zenon DEF OneBufferPerFile, HasPath, FileOf
      <3>1. CASE i \in DOMAIN list /\ j \in DOMAIN list
        <4>1. list'[i] = list[i] /\ list'[j] = list[j]
          BY <2>4, <3>1, Zenon
        <4> QED BY <3>1, <4>1, Zenon DEF BuffersInv, OneBufferPerFile
      <3>2. CASE i \in DOMAIN list /\ j = Len(list) + 1
        BY <2>3, <2>4, <2>6, <3>2, Zenon
      <3>3. CASE j \in DOMAIN list /\ i = Len(list) + 1
        BY <2>3, <2>4, <2>6, <3>3, Zenon
      <3> QED BY <2>5, <3>1, <3>2, <3>3, Zenon
    <2>8. Settled(b, disk, foreign)
      BY <2>2, <2>3, PrefixOfItself, SMTT(30) DEF Settled
    <2>9. CleanMatchesDisk'
      BY <1>1, <2>4, <2>5, <2>8, Zenon DEF BuffersInv, CleanMatchesDisk, Settled, HasPath, FileOf
    <2>10. \A i \in DOMAIN list' : list'[i] \in BufferRecord
      BY <1>2, <2>3, <2>4, <2>5, Zenon
    <2>11. cur_buf_index' \in DOMAIN list'
      BY <1>2, <2>1, <2>4, SMTT(30)
    <2>12. TypeOK'
      BY <1>1, <2>10, <2>11, BufferTypes, SMTT(30) DEF BuffersInv, TypeOK
    <2>13. \A i \in DOMAIN list' : list'[i].adopted => Canon[list'[i].path] \in foreign
      BY <2>3, <2>4, <2>5, Zenon DEF BuffersInv, FileOf
    <2>14. Files \ foreign \subseteq DOMAIN disk /\ mode' # "quit"
      BY <1>1, Zenon DEF BuffersInv
    <2> QED BY <1>1, <2>4, <2>7, <2>9, <2>12, <2>13, <2>14, Zenon DEF BuffersInv, FileOf
  <1> QED BY <1>3, <1>4, Zenon

\* :db and :db! take the current buffer off the list.
LEMMA DeleteInv ==
    ASSUME BuffersInv, mode = "normal", DeleteCurrent
    PROVE  BuffersInv'
  <1> DEFINE rest == RemoveAt(list, cur_buf_index)
             from(i) == IF i < cur_buf_index THEN i ELSE i + 1
  <1>1. /\ Len(list) \in Nat /\ DOMAIN list = 1 .. Len(list)
        /\ cur_buf_index \in 1 .. Len(list)
        /\ \A i \in DOMAIN list : list[i] \in BufferRecord
    BY BufferFacts, Zenon
  <1>2. /\ UNCHANGED <<disk, mode, edits, foreign>>
        /\ list' = IF rest = <<>> THEN <<Buffer(<<>>, NoPath)>> ELSE rest
        /\ cur_buf_index' = IF cur_buf_index = 1 THEN 1 ELSE cur_buf_index - 1
    BY Zenon DEF DeleteCurrent, AfterDelete
  <1>3. /\ rest \in Seq(BufferRecord) /\ Len(rest) = Len(list) - 1
        /\ \A i \in 1 .. Len(list) - 1 : rest[i] = list[IF i < cur_buf_index THEN i ELSE i + 1]
    BY <1>1, RemovedBuffer, Zenon DEF BuffersInv
  <1> HIDE DEF rest
  <1>4. Files \ foreign' \subseteq DOMAIN disk' /\ mode' # "quit"
    BY <1>2, Zenon DEF BuffersInv
  <1>5. CASE rest = <<>>
    <2> DEFINE b == Buffer(<<>>, NoPath)
    <2>1. b \in BufferRecord /\ ~b.adopted /\ ~HasPath(b)
      BY EmptySeq, Zenon DEF Buffer, BufferRecord, HasPath
    <2>2. list' = <<b>>
      BY <1>2, <1>5, Zenon
    <2>3. Len(list) = 1
      <3>1. Len(rest) = 0
        BY <1>5, Zenon
      <3>2. \A n \in Nat : n - 1 = 0 => n = 1
        OBVIOUS
      <3> QED BY <1>1, <1>3, <3>1, <3>2, Zenon
    <2> HIDE DEF b
    <2>4. list' \in Seq(BufferRecord) /\ DOMAIN list' = {1} /\ list'[1] = b
      BY <2>1, <2>2
    <2>5. cur_buf_index' = 1
      BY <1>1, <1>2, <2>3, SMTT(30)
    <2>6. TypeOK'
      BY <1>2, <2>1, <2>4, <2>5, BufferTypes, SMTT(30) DEF BuffersInv, TypeOK
    <2>7. OneBufferPerFile' /\ CleanMatchesDisk'
      BY <2>1, <2>4, Zenon DEF OneBufferPerFile, CleanMatchesDisk, HasPath
    <2> QED BY <1>4, <2>1, <2>4, <2>6, <2>7, Zenon DEF BuffersInv
  <1>6. CASE rest # <<>>
    <2>1. list' = rest /\ Len(rest) \in Nat /\ Len(rest) >= 1 /\ DOMAIN rest = 1 .. Len(rest)
      BY <1>2, <1>3, <1>6, EmptySeq, LenProperties, SMTT(30)
    <2>2. \A i \in DOMAIN rest : from(i) \in DOMAIN list /\ rest[i] = list[from(i)]
      BY <1>1, <1>3, <2>1
    <2>3. \A i, j \in DOMAIN rest : i # j => from(i) # from(j)
      BY <1>1, <2>1
    <2> HIDE DEF from
    <2>4. \A i \in DOMAIN list' : list'[i] \in BufferRecord
      BY <1>1, <2>1, <2>2, Zenon
    <2>5. cur_buf_index' \in DOMAIN list'
      BY <1>1, <1>2, <1>3, <2>1, SMTT(30)
    <2>6. TypeOK'
      BY <1>2, <2>4, <2>5, BufferTypes, SMTT(30) DEF BuffersInv, TypeOK
    <2>7. OneBufferPerFile'
      <3> SUFFICES ASSUME NEW i \in DOMAIN rest, NEW j \in DOMAIN rest, i # j,
                          HasPath(rest[i]), HasPath(rest[j]), FileOf(rest[i]) = FileOf(rest[j])
                   PROVE  rest[i].adopted \/ rest[j].adopted
        BY <2>1, Zenon DEF OneBufferPerFile, HasPath, FileOf
      <3>1. /\ from(i) \in DOMAIN list /\ rest[i] = list[from(i)] /\ from(i) # from(j)
            /\ from(j) \in DOMAIN list /\ rest[j] = list[from(j)]
        BY <2>2, <2>3, Zenon
      <3> QED BY <3>1, Zenon DEF BuffersInv, OneBufferPerFile
    <2>8. CleanMatchesDisk'
      <3>1. \A i \in DOMAIN list : Settled(list[i], disk, foreign)
        BY Zenon DEF BuffersInv, CleanMatchesDisk, Settled
      <3>2. \A i \in DOMAIN rest : Settled(rest[i], disk, foreign)
        BY <2>2, <3>1, Zenon
      <3> QED BY <1>2, <2>1, <3>2, Zenon DEF CleanMatchesDisk, Settled, HasPath, FileOf
    <2>9. \A i \in DOMAIN list' : list'[i].adopted => Canon[list'[i].path] \in foreign'
      BY <1>2, <2>1, <2>2, Zenon DEF BuffersInv, FileOf
    <2> QED BY <1>3, <1>4, <2>1, <2>6, <2>7, <2>8, <2>9, Zenon DEF BuffersInv, FileOf
  <1> QED BY <1>5, <1>6, Zenon

\* The disk after the buffers before "upto" are written: the file of such a
\* buffer has its data unless it is foreign, the other files are as before.
LEMMA FlushedFiles ==
    ASSUME BuffersInv, NEW upto \in 1 .. Len(list) + 1
    PROVE  /\ DOMAIN disk \subseteq DOMAIN Flushed(upto) /\ DOMAIN Flushed(upto) \subseteq Files
           /\ \A f \in DOMAIN Flushed(upto) : Flushed(upto)[f] \in Seq(Nat)
           /\ \A i \in 1 .. upto - 1 : HasPath(list[i]) /\ FileOf(list[i]) \notin foreign
                 => Flushed(upto)[FileOf(list[i])] = list[i].data
           /\ \A f \in DOMAIN disk :
                 (\A i \in 1 .. upto - 1 : HasPath(list[i]) => FileOf(list[i]) # f)
                    => Flushed(upto)[f] = disk[f]
  <1> DEFINE Writers(f) == {i \in 1 .. upto - 1 : HasPath(list[i]) /\ FileOf(list[i]) = f}
             D == DOMAIN disk \cup {g \in Files : Writers(g) # {}}
  <1>1. Flushed(upto) = [f \in D |-> IF Writers(f) = {} THEN disk[f] ELSE list[Max(Writers(f))].data]
    BY Zenon DEF Flushed
  <1>2. /\ Len(list) \in Nat /\ DOMAIN list = 1 .. Len(list)
        /\ \A i \in DOMAIN list : list[i].data \in Seq(Nat)
        /\ \A i \in DOMAIN list : HasPath(list[i]) => FileOf(list[i]) \in Files
    BY BufferFacts, BufferTypes, Zenon
  <1>3. 1 .. upto - 1 \subseteq DOMAIN list /\ upto - 1 \in Nat
    BY <1>2
  <1>4. DOMAIN disk \subseteq Files /\ \A f \in DOMAIN disk : disk[f] \in Seq(Nat)
    BY Zenon DEF BuffersInv, TypeOK
  <1>5. \A f : Writers(f) \subseteq 1 .. upto - 1
    BY Zenon
  <1>6. \A f : Writers(f) # {} => Max(Writers(f)) \in Writers(f)
    <2> SUFFICES ASSUME NEW f, Writers(f) # {} PROVE Max(Writers(f)) \in Writers(f)
      BY ZenonT(30)
    <2> DEFINE T == Writers(f)
    <2>1. T \subseteq 1 .. upto - 1 /\ T # {}
      BY <1>5, Zenon
    <2> HIDE DEF T
    <2>2. Max(T) \in T
      BY <1>3, <2>1, MaxOfIndices, Zenon
    <2> QED BY <2>2, Zenon DEF T
  <1>7. ASSUME NEW f, NEW i \in Writers(f), f \notin foreign
        PROVE  Writers(f) = {i}
    <2> SUFFICES ASSUME NEW j \in Writers(f), j # i PROVE FALSE
      BY Zenon
    <2>1. i \in DOMAIN list /\ j \in DOMAIN list /\ HasPath(list[i]) /\ HasPath(list[j])
          /\ FileOf(list[i]) = f /\ FileOf(list[j]) = f
      BY <1>3, <1>7, Zenon
    <2> QED BY <1>7, <2>1, SharedIsForeign, Zenon
  <1>8. \A i : i \in 1 .. upto - 1 /\ HasPath(list[i]) => i \in Writers(FileOf(list[i]))
    BY Zenon
  <1>9. \A f, i : i \in Writers(f) => i \in 1 .. upto - 1 /\ HasPath(list[i]) /\ FileOf(list[i]) = f
    BY Zenon
  <1> HIDE DEF Writers
  <1>10. DOMAIN Flushed(upto) = D
         /\ \A f \in D : Flushed(upto)[f] = IF Writers(f) = {} THEN disk[f] ELSE list[Max(Writers(f))].data
    BY <1>1, Zenon
  <1>11. \A f \in D : Flushed(upto)[f] \in Seq(Nat)
    <2> SUFFICES ASSUME NEW f \in D PROVE Flushed(upto)[f] \in Seq(Nat)
      BY Zenon
    <2>1. CASE Writers(f) = {}
      BY <1>4, <1>10, <2>1, Zenon
    <2>2. CASE Writers(f) # {}
      <3>1. Max(Writers(f)) \in DOMAIN list
        BY <1>3, <1>6, <1>9, <2>2, Zenon
      <3> QED BY <1>2, <1>10, <2>2, <3>1, Zenon
    <2> QED BY <2>1, <2>2, Zenon
  <1>12. ASSUME NEW i \in 1 .. upto - 1, HasPath(list[i]), FileOf(list[i]) \notin foreign
         PROVE  Flushed(upto)[FileOf(list[i])] = list[i].data
    <2> DEFINE f == FileOf(list[i])
    <2>1. i \in Writers(f) /\ Writers(f) = {i}
      BY <1>7, <1>8, <1>12, Zenon
    <2>2. Max(Writers(f)) = i /\ Writers(f) # {}
      BY <1>6, <2>1, Zenon
    <2>3. f \in D
      BY <1>2, <1>3, <1>12, <2>2, Zenon
    <2> QED BY <1>10, <2>2, <2>3, Zenon
  <1>13. ASSUME NEW f \in DOMAIN disk,
                \A i \in 1 .. upto - 1 : HasPath(list[i]) => FileOf(list[i]) # f
         PROVE  Flushed(upto)[f] = disk[f]
    <2>1. Writers(f) = {}
      BY <1>9, <1>13, Zenon
    <2> QED BY <1>10, <1>13, <2>1, Zenon
  <1>14. DOMAIN disk \subseteq D /\ D \subseteq Files
    BY <1>4, Zenon
  <1> QED BY <1>10, <1>11, <1>12, <1>13, <1>14, Zenon

\* The buffers that were written are clean, the others are as before.
LEMMA CleanedList ==
    ASSUME BuffersInv, NEW upto \in 1 .. Len(list) + 1
    PROVE  /\ Cleaned(upto) \in Seq(BufferRecord) /\ DOMAIN Cleaned(upto) = DOMAIN list
           /\ \A i \in DOMAIN list :
                 LET b == Cleaned(upto)[i]
                 IN  /\ b \in BufferRecord
                     /\ b.data = list[i].data /\ b.path = list[i].path
                     /\ b.adopted = list[i].adopted
                     /\ IF i < upto /\ HasPath(list[i]) THEN ~b.dirty ELSE b = list[i]
  <1>1. /\ Len(list) \in Nat /\ DOMAIN list = 1 .. Len(list)
        /\ \A i \in DOMAIN list : list[i] \in BufferRecord
    BY BufferFacts, Zenon
  <1> DEFINE c(i) == IF i < upto /\ HasPath(list[i])
                     THEN [list[i] EXCEPT !.dirty = FALSE, !.elsewhere = FALSE]
                     ELSE list[i]
  <1>2. Cleaned(upto) = [i \in DOMAIN list |-> c(i)]
    BY Zenon DEF Cleaned
  <1>3. ASSUME NEW i \in DOMAIN list
        PROVE  /\ c(i) \in BufferRecord
               /\ c(i).data = list[i].data /\ c(i).path = list[i].path
               /\ c(i).adopted = list[i].adopted
               /\ IF i < upto /\ HasPath(list[i]) THEN ~c(i).dirty ELSE c(i) = list[i]
    <2>1. list[i] \in BufferRecord
      BY <1>1, <1>3, Zenon
    <2>2. CASE i < upto /\ HasPath(list[i])
      BY <2>1, <2>2, Zenon DEF BufferRecord
    <2>3. CASE ~(i < upto /\ HasPath(list[i]))
      BY <2>1, <2>3, Zenon
    <2> QED BY <2>2, <2>3, Zenon
  <1> HIDE DEF c
  <1>4. Cleaned(upto) \in [1 .. Len(list) -> BufferRecord]
    BY <1>1, <1>2, <1>3, Zenon
  <1>5. Cleaned(upto) \in Seq(BufferRecord)
    BY <1>1, <1>4
  <1> QED BY <1>2, <1>3, <1>5, Zenon

\* Writing the buffers before "upto", to files that nobody else wrote.
LEMMA FlushInv ==
    ASSUME BuffersInv, NEW upto \in 1 .. Len(list) + 1, list' = Cleaned(upto),
           UNCHANGED <<cur_buf_index, edits>>, mode' \in {"normal", "quit"},
           mode' = "quit" => upto = Len(list) + 1,
           foreign \subseteq foreign', foreign' \subseteq Files,
           DOMAIN disk' \subseteq Files, \A f \in DOMAIN disk' : disk'[f] \in Seq(Nat),
           \A f \in Files \ foreign' : f \in DOMAIN disk' /\ disk'[f] = Flushed(upto)[f]
    PROVE  BuffersInv'
  <1>1. /\ Len(list) \in Nat /\ DOMAIN list = 1 .. Len(list)
        /\ \A i \in DOMAIN list : list[i] \in BufferRecord
        /\ \A i \in DOMAIN list : HasPath(list[i]) => FileOf(list[i]) \in Files
    BY BufferFacts, Zenon
  <1>2. /\ list' \in Seq(BufferRecord) /\ DOMAIN list' = DOMAIN list
        /\ \A i \in DOMAIN list :
              /\ list'[i] \in BufferRecord
              /\ list'[i].data = list[i].data /\ list'[i].path = list[i].path
              /\ list'[i].adopted = list[i].adopted
              /\ IF i < upto /\ HasPath(list[i]) THEN ~list'[i].dirty ELSE list'[i] = list[i]
    BY CleanedList, Zenon
  <1>3. \A i \in DOMAIN list : /\ HasPath(list'[i]) <=> HasPath(list[i])
                               /\ FileOf(list'[i]) = FileOf(list[i])
    BY <1>2, Zenon DEF HasPath, FileOf
  <1>4. TypeOK'
    BY <1>2, BufferTypes DEF BuffersInv, TypeOK
  <1>5. OneBufferPerFile'
    <2>1. \A i, j \in DOMAIN list :
             i # j /\ HasPath(list'[i]) /\ HasPath(list'[j]) /\ FileOf(list'[i]) = FileOf(list'[j])
                => list'[i].adopted \/ list'[j].adopted
      BY <1>2, <1>3, SMTT(30) DEF BuffersInv, OneBufferPerFile
    <2> QED BY <1>2, <2>1, Zenon DEF OneBufferPerFile, HasPath, FileOf
  <1>6. \A i \in DOMAIN list : Settled(list'[i], disk', foreign')
    <2> SUFFICES ASSUME NEW i \in DOMAIN list, HasPath(list[i]), ~list'[i].dirty,
                        ~list'[i].elsewhere, FileOf(list[i]) \notin foreign'
                 PROVE  IsPrefix(list[i].data, disk'[FileOf(list[i])])
      BY <1>2, <1>3, Zenon DEF Settled
    <2> DEFINE f == FileOf(list[i])
    <2>1. f \in Files /\ f \notin foreign /\ disk'[f] = Flushed(upto)[f] /\ f \in DOMAIN disk
      BY <1>1, Zenon DEF BuffersInv
    <2>2. CASE i < upto
      <3>1. i \in 1 .. upto - 1
        BY <1>1, <2>2
      <3>2. Flushed(upto)[f] = list[i].data
        BY <2>1, <3>1, FlushedFiles, Zenon
      <3>3. list[i].data \in Seq(Nat)
        BY <1>1, BufferTypes, Zenon
      <3> QED BY <2>1, <3>2, <3>3, PrefixOfItself, Zenon
    <2>3. CASE ~(i < upto)
      <3>1. ASSUME NEW j \in 1 .. upto - 1, HasPath(list[j]), FileOf(list[j]) = f
            PROVE  FALSE
        <4>1. j \in DOMAIN list /\ j # i
          BY <1>1, <2>3
        <4> QED BY <2>1, <3>1, <4>1, SharedIsForeign, Zenon
      <3>2. Flushed(upto)[f] = disk[f]
        BY <2>1, <3>1, FlushedFiles, Zenon
      <3>3. ~list[i].dirty /\ ~list[i].elsewhere
        BY <1>2, <2>3, Zenon
      <3> QED BY <2>1, <3>2, <3>3, Zenon DEF BuffersInv, CleanMatchesDisk
    <2> QED BY <2>2, <2>3, Zenon
  <1>7. CleanMatchesDisk'
    BY <1>2, <1>6, Zenon DEF CleanMatchesDisk, Settled, HasPath, FileOf
  <1>8. \A i \in DOMAIN list' : list'[i].adopted => Canon[list'[i].path] \in foreign'
    BY <1>2, Zenon DEF BuffersInv, FileOf
  <1>9. mode' = "quit" => \A i \in DOMAIN list' : HasPath(list'[i]) => ~list'[i].dirty
    <2>1. \A i \in DOMAIN list : i < Len(list) + 1
      BY <1>1
    <2> QED BY <1>2, <1>3, <2>1, Zenon
  <1>10. Files \ foreign' \subseteq DOMAIN disk'
    BY Zenon
  <1> QED BY <1>2, <1>4, <1>5, <1>7, <1>8, <1>9, <1>10, Zenon DEF BuffersInv, HasPath, FileOf

\* :wa and :wq save all buffers.
LEMMA FlushAllInv ==
    ASSUME BuffersInv, NEW next_mode \in {"normal", "quit"}, FlushAll(next_mode)
    PROVE  BuffersInv'
  <1> DEFINE past == Len(list) + 1
  <1>1. past \in 1 .. Len(list) + 1
    BY BufferFacts
  <1>2. /\ disk' = Flushed(past) /\ list' = Cleaned(past) /\ mode' = next_mode
        /\ foreign' = foreign \cup Contested(past) /\ UNCHANGED <<cur_buf_index, edits>>
    BY Zenon DEF FlushAll
  <1>3. past = Len(list) + 1
    BY Zenon
  <1> HIDE DEF past
  <1>4. /\ DOMAIN disk \subseteq DOMAIN disk' /\ DOMAIN disk' \subseteq Files
        /\ \A f \in DOMAIN disk' : disk'[f] \in Seq(Nat)
    BY <1>1, <1>2, FlushedFiles, Zenon
  <1>5. foreign \subseteq foreign' /\ foreign' \subseteq Files
    BY <1>2, Zenon DEF BuffersInv, TypeOK, Contested
  <1>6. \A f \in Files \ foreign' : f \in DOMAIN disk' /\ disk'[f] = Flushed(past)[f]
    BY <1>2, <1>4, <1>5, Zenon DEF BuffersInv
  <1> QED BY <1>1, <1>2, <1>3, <1>4, <1>5, <1>6, FlushInv, SMTT(30)

\* :wa and :wq stop at the first write that fails.
LEMMA FlushFailsInv ==
    ASSUME BuffersInv, FlushFails
    PROVE  BuffersInv'
  <1>1. PICK i \in DOMAIN list :
          /\ mode = "normal" /\ HasPath(list[i])
          /\ disk' \in FailedWrite(Flushed(i), FileOf(list[i]), list[i].data)
          /\ list' = Cleaned(i)
          /\ foreign' = foreign \cup Contested(i) \cup {FileOf(list[i])}
          /\ UNCHANGED <<cur_buf_index, mode, edits>>
    BY Zenon DEF FlushFails
  <1>2. i \in 1 .. Len(list) + 1
    BY BufferFacts
  <1> DEFINE f == FileOf(list[i])
             data == list[i].data
  <1>3. f \in Files /\ data \in Seq(Nat)
    BY <1>1, BufferFacts, BufferTypes, Zenon
  <1>4. disk' \in FailedWrite(Flushed(i), f, data) /\ foreign' = foreign \cup Contested(i) \cup {f}
    BY <1>1, Zenon
  <1> HIDE DEF f, data
  <1>5. /\ DOMAIN disk \subseteq DOMAIN Flushed(i) /\ DOMAIN Flushed(i) \subseteq Files
        /\ \A g \in DOMAIN Flushed(i) : Flushed(i)[g] \in Seq(Nat)
    BY <1>2, FlushedFiles, Zenon
  <1>6. /\ DOMAIN Flushed(i) \subseteq DOMAIN disk' /\ DOMAIN disk' \subseteq Files
        /\ \A g \in DOMAIN disk' : disk'[g] \in Seq(Nat)
        /\ \A g \in DOMAIN Flushed(i) : g # f => disk'[g] = Flushed(i)[g]
    BY <1>3, <1>4, <1>5, FailedWriteFiles, Zenon
  <1>7. foreign \subseteq foreign' /\ foreign' \subseteq Files
    BY <1>3, <1>4, Zenon DEF BuffersInv, TypeOK, Contested
  <1>8. \A g \in Files \ foreign' : g \in DOMAIN disk' /\ disk'[g] = Flushed(i)[g]
    BY <1>4, <1>5, <1>6, <1>7, SMTT(30) DEF BuffersInv
  <1> QED BY <1>1, <1>2, <1>6, <1>7, <1>8, FlushInv, SMTT(30)

\* Quitting, and the stuttering afterwards.
LEMMA QuitInv ==
    ASSUME BuffersInv, Quit \/ ForceQuit \/ UNCHANGED vars
    PROVE  BuffersInv'
  <1>1. CASE Quit
    <2>1. /\ mode' = "quit" /\ UNCHANGED <<list, cur_buf_index, disk, edits, foreign>>
          /\ \A i \in DOMAIN list : HasPath(list[i]) => ~list[i].dirty
      BY <1>1, Zenon DEF Quit, Quits
    <2> QED BY <2>1, SameListInv, Zenon DEF BuffersInv, TypeOK
  <1>2. CASE ForceQuit
    <2>1. /\ mode' = "forced" /\ UNCHANGED <<list, cur_buf_index, disk, edits, foreign>>
      BY <1>2, Zenon DEF ForceQuit
    <2> QED BY <2>1, SameListInv, Zenon DEF BuffersInv, TypeOK
  <1>3. CASE UNCHANGED vars
    BY <1>3, SameListInv, Zenon DEF vars, BuffersInv, TypeOK
  <1> QED BY <1>1, <1>2, <1>3, Zenon

\* The inductive invariant of the buffers holds, whatever is edited, saved,
\* opened, closed, removed and fails.
LEMMA BuffersInductive == Spec => []BuffersInv
  <1>1. BuffersInv /\ [Next]_vars => BuffersInv'
    <2> SUFFICES ASSUME BuffersInv, [Next]_vars PROVE BuffersInv'
      BY Zenon
    <2>1. CASE \E data \in Edited : EditData(data)
      BY <2>1, EditInv, Zenon
    <2>2. CASE LoadNextChunk
      BY <2>2, LoadInv, Zenon
    <2>3. CASE \E filename \in Names \cup {NoPath} : Write(filename) \/ WriteFails(filename)
      BY <2>3, WriteInv, WriteFailsInv, Zenon
    <2>4. CASE WriteAll \/ WriteQuit
      BY <2>4, FlushAllInv, Zenon DEF WriteAll, WriteQuit
    <2>5. CASE FlushFails
      BY <2>5, FlushFailsInv, Zenon
    <2>6. CASE \E name \in Names : SwitchCurrentBuffer(name)
      BY <2>6, SwitchInv, Zenon
    <2>7. CASE DeleteBuffer \/ ForceDeleteBuffer
      BY <2>7, DeleteInv, Zenon DEF DeleteBuffer, ForceDeleteBuffer
    <2>8. CASE Quit \/ ForceQuit \/ Ended \/ UNCHANGED vars
      BY <2>8, QuitInv, Zenon DEF Ended
    <2>9. CASE \E f \in Files : FileRemoved(f)
      BY <2>9, FileRemovedInv, Zenon
    <2> QED BY <2>1, <2>2, <2>3, <2>4, <2>5, <2>6, <2>7, <2>8, <2>9, Zenon DEF Next
  <1> QED BY <1>1, InitInv, PTL DEF Spec

-----------------------------------------------------------------------------
(* The results.                                                            *)

\* There is always a current buffer, and every path is one that was typed,
\* however many buffers were opened and closed (delete_current).
THEOREM BuffersTypeCorrect == Spec => []TypeOK
  <1>1. BuffersInv => TypeOK
    BY SMTT(30) DEF BuffersInv
  <1> QED BY <1>1, BuffersInductive, PTL

\* switch_current_buffer never opens a file twice, for any number of names
\* that denote it.
THEOREM FilesOpenedOnce == Spec => []OneBufferPerFile
  <1>1. BuffersInv => OneBufferPerFile
    BY SMTT(30) DEF BuffersInv
  <1> QED BY <1>1, BuffersInductive, PTL

\* Saving one buffer or all of them, also with a failure in between, never
\* clears dirty before the data is in the file.
THEOREM CleanBuffersMatchDisk == Spec => []CleanMatchesDisk
  <1>1. BuffersInv => CleanMatchesDisk
    BY SMTT(30) DEF BuffersInv
  <1> QED BY <1>1, BuffersInductive, PTL

\* :q and :wq leave the program only with every change in its file, however
\* many buffers were open.
THEOREM QuittingLosesNothing == Spec => []QuitLosesNothing
  <1>1. BuffersInv => QuitLosesNothing
    BY Zenon DEF BuffersInv, QuitLosesNothing, CleanMatchesDisk
  <1> QED BY <1>1, BuffersInductive, PTL

=============================================================================
