---------------------------- MODULE PromptProofs ----------------------------
(***************************************************************************)
(* Proofs about the prompts, for lines and terminals of every size.        *)
(***************************************************************************)
EXTENDS Modes, SequenceTheorems, WellFoundedInduction, TLAPS

-----------------------------------------------------------------------------
(* Parts of sequences.                                                     *)

\* The two parts of a concatenation.
LEMMA Halves ==
    ASSUME NEW S, NEW u \in Seq(S), NEW v \in Seq(S)
    PROVE  /\ SubSeq(u \o v, 1, Len(u)) = u
           /\ SubSeq(u \o v, Len(u) + 1, Len(u \o v)) = v
  <1>1. /\ Len(u) \in Nat /\ Len(v) \in Nat
        /\ u \o v \in Seq(S) /\ Len(u \o v) = Len(u) + Len(v)
        /\ \A x \in 1 .. Len(u) + Len(v) :
             (u \o v)[x] = IF x <= Len(u) THEN u[x] ELSE v[x - Len(u)]
    BY LenProperties, ConcatProperties, Zenon
  <1>2. \A x \in 1 .. Len(u) + Len(v) : (u \o v)[x] \in S
    BY <1>1, ElementOfSeq, Zenon
  <1>3. SubSeq(u \o v, 1, Len(u)) = u
    <2>1. /\ SubSeq(u \o v, 1, Len(u)) \in Seq(S)
          /\ Len(SubSeq(u \o v, 1, Len(u))) = Len(u)
          /\ \A x \in 1 .. Len(u) : SubSeq(u \o v, 1, Len(u))[x] = (u \o v)[x]
      <3>1. \A x \in 1 .. Len(u) : (u \o v)[x] \in S
        BY <1>1, <1>2
      <3>2. 1 \in Int /\ Len(u) \in Int
        BY <1>1
      <3>3. /\ SubSeq(u \o v, 1, Len(u)) \in Seq(S)
            /\ Len(SubSeq(u \o v, 1, Len(u))) = IF 1 <= Len(u) THEN Len(u) - 1 + 1 ELSE 0
            /\ \A x \in 1 .. Len(u) - 1 + 1 : SubSeq(u \o v, 1, Len(u))[x] = (u \o v)[1 + x - 1]
        BY <3>1, <3>2, SubSeqProperties
      <3> QED BY <1>1, <3>3
    <2>2. \A x \in 1 .. Len(u) : SubSeq(u \o v, 1, Len(u))[x] = u[x]
      BY <1>1, <2>1
    <2> QED BY <2>1, <2>2, SeqEqual, Zenon
  <1>4. SubSeq(u \o v, Len(u) + 1, Len(u \o v)) = v
    <2> DEFINE w == SubSeq(u \o v, Len(u) + 1, Len(u \o v))
    <2>1. /\ w \in Seq(S) /\ Len(w) = Len(v)
          /\ \A x \in 1 .. Len(v) : w[x] = (u \o v)[Len(u) + x]
      <3>1. \A x \in Len(u) + 1 .. Len(u \o v) : (u \o v)[x] \in S
        BY <1>1, <1>2
      <3>2. Len(u) + 1 \in Int /\ Len(u \o v) \in Int
        BY <1>1
      <3>3. /\ w \in Seq(S)
            /\ Len(w) = IF Len(u) + 1 <= Len(u \o v) THEN Len(u \o v) - (Len(u) + 1) + 1 ELSE 0
            /\ \A x \in 1 .. Len(u \o v) - (Len(u) + 1) + 1 : w[x] = (u \o v)[Len(u) + 1 + x - 1]
        BY <3>1, <3>2, SubSeqProperties
      <3> HIDE DEF w
      <3> QED BY <1>1, <3>3, SMTT(30)
    <2> HIDE DEF w
    <2>2. \A x \in 1 .. Len(v) : w[x] = v[x]
      BY <1>1, <2>1
    <2> QED BY <2>1, <2>2, SeqEqual, Zenon DEF w
  <1> QED BY <1>3, <1>4, Zenon

\* A part of a sequence.
LEMMA PartFacts ==
    ASSUME NEW S, NEW s \in Seq(S), NEW m \in Nat, NEW n \in Nat, n <= Len(s)
    PROVE  /\ SubSeq(s, m + 1, n) \in Seq(S)
           /\ Len(SubSeq(s, m + 1, n)) = IF m < n THEN n - m ELSE 0
           /\ \A x \in 1 .. n - m : SubSeq(s, m + 1, n)[x] = s[m + x]
  <1>1. Len(s) \in Nat
    BY LenProperties, Zenon
  <1>2. \A x \in m + 1 .. n : s[x] \in S
    BY <1>1, ElementOfSeq
  <1>3. /\ SubSeq(s, m + 1, n) \in Seq(S)
        /\ Len(SubSeq(s, m + 1, n)) = IF m + 1 <= n THEN n - (m + 1) + 1 ELSE 0
        /\ \A x \in 1 .. n - (m + 1) + 1 : SubSeq(s, m + 1, n)[x] = s[m + 1 + x - 1]
    BY <1>2, SubSeqProperties
  <1> QED BY <1>1, <1>3

\* Three parts put together.
MadeOf(t, S, u, v, w) ==
    /\ t \in Seq(S)
    /\ Len(t) = Len(u) + Len(v) + Len(w)
    /\ SubSeq(t, 1, Len(u) + Len(v)) = u \o v
    /\ SubSeq(t, Len(u) + Len(v) + 1, Len(t)) = w
    /\ \A x \in 1 .. Len(u) : t[x] = u[x]
    /\ \A x \in 1 .. Len(v) : t[Len(u) + x] = v[x]
    /\ \A x \in 1 .. Len(w) : t[Len(u) + Len(v) + x] = w[x]

\* Three pieces of a line, put together.
LEMMA ThreeParts ==
    ASSUME NEW S, NEW u \in Seq(S), NEW v \in Seq(S), NEW w \in Seq(S)
    PROVE  MadeOf(u \o v \o w, S, u, v, w)
  <1>1. Len(u) \in Nat /\ Len(v) \in Nat /\ Len(w) \in Nat
    BY LenProperties, Zenon
  <1>2. /\ u \o v \in Seq(S) /\ Len(u \o v) = Len(u) + Len(v)
        /\ \A x \in 1 .. Len(u) + Len(v) :
             (u \o v)[x] = IF x <= Len(u) THEN u[x] ELSE v[x - Len(u)]
    BY ConcatProperties, Zenon
  <1> DEFINE uv == u \o v
  <1>0. uv \in Seq(S)
    BY <1>2, Zenon
  <1>3. Len(uv) = Len(u) + Len(v)
    BY <1>2, Zenon
  <1> HIDE DEF uv
  <1>4. /\ uv \o w \in Seq(S) /\ Len(uv \o w) = Len(uv) + Len(w)
        /\ \A x \in 1 .. Len(uv) + Len(w) :
             (uv \o w)[x] = IF x <= Len(uv) THEN uv[x] ELSE w[x - Len(uv)]
    BY <1>0, ConcatProperties, Zenon
  <1>5. /\ SubSeq(uv \o w, 1, Len(uv)) = uv
        /\ SubSeq(uv \o w, Len(uv) + 1, Len(uv \o w)) = w
    BY <1>0, Halves
  <1>6. \A x \in 1 .. Len(u) + Len(v) : (uv \o w)[x] = uv[x]
    BY <1>1, <1>3, <1>4
  <1>7. \A x \in 1 .. Len(w) : (uv \o w)[Len(u) + Len(v) + x] = w[x]
    BY <1>1, <1>3, <1>4
  <1>8. /\ \A x \in 1 .. Len(u) : (u \o v)[x] = u[x]
        /\ \A x \in 1 .. Len(v) : (u \o v)[Len(u) + x] = v[x]
    BY <1>1, <1>2
  <1>9. /\ \A x \in 1 .. Len(u) : x \in 1 .. Len(u) + Len(v)
        /\ \A x \in 1 .. Len(v) : Len(u) + x \in 1 .. Len(u) + Len(v)
    BY <1>1
  <1>10. /\ \A x \in 1 .. Len(u) : (uv \o w)[x] = u[x]
         /\ \A x \in 1 .. Len(v) : (uv \o w)[Len(u) + x] = v[x]
    BY <1>6, <1>8, <1>9, Zenon DEF uv
  <1>11. /\ SubSeq(uv \o w, 1, Len(u) + Len(v)) = uv
         /\ SubSeq(uv \o w, Len(u) + Len(v) + 1, Len(uv \o w)) = w
         /\ Len(uv \o w) = Len(u) + Len(v) + Len(w)
    BY <1>3, <1>4, <1>5, Zenon
  <1> QED BY <1>2, <1>4, <1>7, <1>10, <1>11, Zenon DEF uv, MadeOf

\* What is before, in and behind the new part of a line.
SplicedParts(t, S, s, at, n, new) ==
    /\ t \in Seq(S)
    /\ Len(t) = Len(s) + Len(new) - n
    /\ SubSeq(t, 1, at + Len(new)) = SubSeq(s, 1, at) \o new
    /\ SubSeq(t, at + Len(new) + 1, Len(t)) = SubSeq(s, at + n + 1, Len(s))
    /\ \A x \in 1 .. at : t[x] = s[x]
    /\ \A x \in 1 .. Len(new) : t[at + x] = new[x]
    /\ \A x \in 1 .. Len(s) - (at + n) : t[at + Len(new) + x] = s[at + n + x]

\* A line with some items replaced by others.
LEMMA SplicedFacts ==
    ASSUME NEW S, NEW s \in Seq(S), NEW new \in Seq(S), NEW at \in Nat, NEW n \in Nat,
           at + n <= Len(s)
    PROVE  SplicedParts(Spliced(s, at, n, new), S, s, at, n, new)
  <1> DEFINE head == SubSeq(s, 1, at)
             rest == SubSeq(s, at + n + 1, Len(s))
  <1>1. Len(s) \in Nat /\ Len(new) \in Nat /\ at <= Len(s) /\ at + n \in Nat
    BY LenProperties
  <1>2. head \in Seq(S) /\ Len(head) = at /\ \A x \in 1 .. at : head[x] = s[x]
    <2>1. /\ SubSeq(s, 0 + 1, at) \in Seq(S)
          /\ Len(SubSeq(s, 0 + 1, at)) = IF 0 < at THEN at - 0 ELSE 0
          /\ \A x \in 1 .. at - 0 : SubSeq(s, 0 + 1, at)[x] = s[0 + x]
      BY <1>1, PartFacts
    <2> QED BY <1>1, <2>1
  <1>3. /\ rest \in Seq(S) /\ Len(rest) = Len(s) - (at + n)
        /\ \A x \in 1 .. Len(s) - (at + n) : rest[x] = s[at + n + x]
    <2>1. /\ SubSeq(s, (at + n) + 1, Len(s)) \in Seq(S)
          /\ Len(SubSeq(s, (at + n) + 1, Len(s))) =
               IF at + n < Len(s) THEN Len(s) - (at + n) ELSE 0
          /\ \A x \in 1 .. Len(s) - (at + n) :
               SubSeq(s, (at + n) + 1, Len(s))[x] = s[at + n + x]
      <3> HIDE DEF head
      <3> QED BY <1>1, PartFacts
    <2> QED BY <1>1, <2>1
  <1>0. head \in Seq(S) /\ rest \in Seq(S)
    BY <1>2, <1>3, Zenon
  <1> HIDE DEF head, rest
  <1>4. MadeOf(head \o new \o rest, S, head, new, rest)
    BY <1>0, ThreeParts, Zenon
  <1> DEFINE t == head \o new \o rest
  <1>5. /\ t \in Seq(S)
        /\ Len(t) = at + Len(new) + (Len(s) - (at + n))
        /\ SubSeq(t, 1, at + Len(new)) = head \o new
        /\ SubSeq(t, at + Len(new) + 1, Len(t)) = rest
        /\ \A x \in 1 .. at : t[x] = head[x]
        /\ \A x \in 1 .. Len(new) : t[at + x] = new[x]
        /\ \A x \in 1 .. Len(s) - (at + n) : t[at + Len(new) + x] = rest[x]
    BY <1>2, <1>3, <1>4, Zenon DEF MadeOf
  <1> HIDE DEF t
  <1>6. at + Len(new) + (Len(s) - (at + n)) = Len(s) + Len(new) - n
    BY <1>1
  <1>7. /\ t \in Seq(S)
        /\ Len(t) = Len(s) + Len(new) - n
        /\ SubSeq(t, 1, at + Len(new)) = head \o new
        /\ SubSeq(t, at + Len(new) + 1, Len(t)) = rest
        /\ \A x \in 1 .. at : t[x] = s[x]
        /\ \A x \in 1 .. Len(new) : t[at + x] = new[x]
        /\ \A x \in 1 .. Len(s) - (at + n) : t[at + Len(new) + x] = s[at + n + x]
    BY <1>2, <1>3, <1>5, <1>6, Zenon
  <1> QED BY <1>7, Zenon DEF t, head, rest, Spliced, SplicedParts

\* An option that is not empty.
LEMMA OneItem ==
    ASSUME NEW S, NEW s \in Seq(S), Len(s) <= 1, s # <<>>
    PROVE  Len(s) = 1
  <1>1. Len(s) \in Nat /\ Len(s) # 0
    BY LenProperties, EmptySeq, Zenon
  <1>2. \A k \in Nat : k <= 1 /\ k # 0 => k = 1
    OBVIOUS
  <1> QED BY <1>1, <1>2, Zenon

\* A prefix without its last element.
LEMMA ShorterPrefix ==
    ASSUME NEW S, NEW s \in Seq(S), NEW n \in 1 .. Len(s)
    PROVE  /\ SubSeq(s, 1, n) \in Seq(S)
           /\ Len(SubSeq(s, 1, n)) = n
           /\ SubSeq(s, 1, n) # <<>>
           /\ SubSeq(s, 1, n)[n] = s[n]
           /\ SubSeq(SubSeq(s, 1, n), 1, n - 1) = SubSeq(s, 1, n - 1)
           /\ SubSeq(s, 1, n) = Append(SubSeq(s, 1, n - 1), s[n])
  <1>1. Len(s) \in Nat /\ n - 1 \in Nat /\ n - 1 <= Len(s) /\ s[n] \in S
    BY LenProperties, ElementOfSeq
  <1>2. SubSeq(s, 1, n - 1) \in Seq(S) /\ Len(SubSeq(s, 1, n - 1)) = n - 1
    <2>1. /\ SubSeq(s, 0 + 1, n - 1) \in Seq(S)
          /\ Len(SubSeq(s, 0 + 1, n - 1)) = IF 0 < n - 1 THEN n - 1 - 0 ELSE 0
      BY <1>1, PartFacts, Zenon
    <2> QED BY <1>1, <2>1
  <1>3. SubSeq(s, 1, n) = SubSeq(s, 1, n - 1) \o <<s[n]>>
    <2>1. 1 \in 1 .. Len(s) /\ n \in 1 .. Len(s)
      BY <1>1
    <2> QED BY <2>1, SubSeqRecursiveSecond, Zenon
  <1>4. <<s[n]>> \in Seq(S) /\ Len(<<s[n]>>) = 1 /\ <<s[n]>>[1] = s[n]
    BY <1>1
  <1>5. /\ SubSeq(s, 1, n) \in Seq(S) /\ Len(SubSeq(s, 1, n)) = n
        /\ SubSeq(SubSeq(s, 1, n), 1, n - 1) = SubSeq(s, 1, n - 1)
    BY <1>1, <1>2, <1>3, <1>4, ConcatProperties, Halves
  <1>6. SubSeq(s, 1, n)[n] = s[n]
    BY <1>1, <1>2, <1>3, <1>4, ConcatProperties
  <1>7. Append(SubSeq(s, 1, n - 1), s[n]) = SubSeq(s, 1, n - 1) \o <<s[n]>>
    BY <1>1, <1>2, AppendIsConcat, Zenon
  <1>8. SubSeq(s, 1, n) # <<>>
    BY <1>5, EmptySeq
  <1> QED BY <1>3, <1>5, <1>6, <1>7, <1>8, Zenon

-----------------------------------------------------------------------------
(* The invariant.                                                          *)

\* Positions in a line, and the values of bytes.
LEMMA Positions ==
    ASSUME PromptInv
    PROVE  /\ Len(line) \in Nat
           /\ cursor \in Nat /\ cursor <= Len(line)
           /\ Position \in Nat /\ Position <= Len(line)
           /\ half = <<>> => Position = cursor
           /\ half # <<>> => Position = cursor + 1 /\ cursor < Len(line)
           /\ line \in Seq(Int)
  <1>1. line \in Seq(Nat) \/ line \in Seq(Piece)
    BY Zenon DEF PromptInv, PromptTypeOK
  <1>2. Nat \subseteq Int /\ Piece \subseteq Int
    BY PromptAssumption DEF Piece, Byte, Wildcard
  <1>3. line \in Seq(Int)
    BY <1>1, <1>2, SeqMonotonic, Zenon
  <1>4. Len(line) \in Nat
    BY <1>3, LenProperties, Zenon
  <1>5. cursor \in Nat /\ cursor <= Len(line)
    BY <1>4 DEF PromptInv, PromptTypeOK
  <1>6. half \in Seq(Byte) /\ Len(half) <= 1
    BY Zenon DEF PromptInv, PromptTypeOK
  <1>7. half = <<>> => Len(half) = 0
    BY <1>6, EmptySeq, Zenon
  <1>8. half # <<>> => Len(half) = 1
    <2>1. half # <<>> => Len(half) \in Nat \ {0}
      BY <1>6, EmptySeq, Zenon
    <2> QED BY <1>6, <2>1
  <1>9. half # <<>> => cursor < Len(line)
    BY Zenon DEF PromptInv, HalfUnderCursor
  <1>10. half = <<>> => Position = cursor
    BY <1>5, <1>7 DEF Position
  <1>11. half # <<>> => Position = cursor + 1
    BY <1>8, Zenon DEF Position
  <1>12. half # <<>> => cursor + 1 \in Nat /\ cursor + 1 <= Len(line)
    BY <1>4, <1>5, <1>9
  <1> QED BY <1>3, <1>4, <1>5, <1>9, <1>10, <1>11, <1>12, Zenon

\* The items one prompt can hold.
Items == IF prompt = "command" THEN Nat ELSE Piece

\* The line of a prompt consists of its items.
LEMMA LineType ==
    ASSUME PromptInv
    PROVE  line \in Seq(Items)
  BY Zenon DEF PromptInv, PromptTypeOK, Items

\* A line drawn again, or with the cursor moved, keeps the invariant.
LEMMA MovedKeeps ==
    ASSUME PromptInv, NEW to \in Nat, to <= Len(line),
           prompt' = prompt, line' = line, cursor' = to, half' = <<>>,
           hex' \in BOOLEAN, columns' \in Columns, wide' = wide
    PROVE  PromptInv'
  <1>1. /\ prompt' \in {"none", "command", "search", "quitting"}
        /\ line' \in Seq(IF prompt' = "command" THEN Nat ELSE Piece)
        /\ wide' \in BOOLEAN
    BY Zenon DEF PromptInv, PromptTypeOK
  <1>2. half' \in Seq(Byte) /\ Len(half') <= 1
    BY EmptySeq
  <1>3. cursor' \in 0 .. Len(line')
    BY Positions
  <1>4. PromptTypeOK'
    BY <1>1, <1>2, <1>3, Zenon DEF PromptTypeOK
  <1> QED BY <1>4, Zenon DEF PromptInv, HalfUnderCursor, NarrowLine, ClosedIsEmpty

\* A line with a part replaced keeps the invariant, if the new half byte is
\* the new part and is under the cursor.
LEMMA SpliceKeeps ==
    ASSUME PromptInv, Editing,
           NEW at \in Nat, NEW n \in Nat, at + n <= Len(line),
           NEW new \in Seq(Items), NEW to \in Nat,
           Splice(at, n, new, to), hex' = hex,
           to <= Len(line) + Len(new) - n,
           half' \in Seq(Byte), Len(half') <= 1,
           half' # <<>> =>
               /\ prompt = "search" /\ hex /\ to = at /\ new = half'
               /\ FirstDigitOnly(half'[1]),
           wide' \in BOOLEAN, wide => wide',
           ~wide' => \A x \in 1 .. Len(new) : prompt = "command" => new[x] \notin Continuation
    PROVE  PromptInv'
  <1>1. line \in Seq(Items) /\ Len(line) \in Nat /\ Len(new) \in Nat
    BY LineType, Positions, LenProperties, Zenon
  <1>2. /\ line' = Spliced(line, at, n, new) /\ cursor' = to
        /\ prompt' = prompt /\ columns' = columns
    BY Zenon DEF Splice
  <1>3. /\ line' \in Seq(Items)
        /\ Len(line') = Len(line) + Len(new) - n
        /\ \A x \in 1 .. at : line'[x] = line[x]
        /\ \A x \in 1 .. Len(new) : line'[at + x] = new[x]
        /\ \A x \in 1 .. Len(line) - (at + n) : line'[at + Len(new) + x] = line[at + n + x]
    <2>1. SplicedParts(Spliced(line, at, n, new), Items, line, at, n, new)
      BY <1>1, SplicedFacts, Zenon
    <2> QED BY <1>2, <2>1, Zenon DEF SplicedParts
  <1>4. Items = (IF prompt' = "command" THEN Nat ELSE Piece)
    BY <1>2, Zenon DEF Items
  <1>5. PromptTypeOK'
    <2>1. line' \in Seq(IF prompt' = "command" THEN Nat ELSE Piece)
      BY <1>3, <1>4, Zenon
    <2>2. cursor' \in 0 .. Len(line')
      BY <1>1, <1>2, <1>3
    <2> QED BY <1>2, <2>1, <2>2, Zenon DEF PromptInv, PromptTypeOK
  <1>6. HalfUnderCursor'
    <2> SUFFICES ASSUME half' # <<>> PROVE HalfUnderCursor'
      BY Zenon DEF HalfUnderCursor
    <2>1. Len(half') = 1
      BY OneItem, Zenon
    <2>2. Len(new) = 1 /\ new[1] = half'[1]
      <3>1. new = half'
        BY Zenon
      <3> QED BY <2>1, <3>1, Zenon
    <2>3. line'[at + 1] = new[1]
      <3>1. 1 \in 1 .. Len(new)
        BY <2>2
      <3> QED BY <1>3, <3>1, Zenon
    <2>4. cursor' = at /\ at < Len(line')
      BY <1>1, <1>2, <1>3, <2>2
    <2> QED BY <1>2, <2>2, <2>3, <2>4, Zenon DEF HalfUnderCursor
  <1>7. NarrowLine'
    <2> SUFFICES ASSUME prompt = "command", ~wide', NEW x \in 1 .. Len(line')
                 PROVE  line'[x] \notin Continuation
      BY <1>2, Zenon DEF NarrowLine
    <2>1. \A y \in 1 .. Len(line) : line[y] \notin Continuation
      BY Zenon DEF PromptInv, NarrowLine
    <2>2. \A y \in 1 .. Len(new) : new[y] \notin Continuation
      BY Zenon
    <2>3. x \in Int /\ 1 <= x /\ x <= Len(line) + Len(new) - n
      BY <1>1, <1>3
    <2>4. CASE x <= at
      <3>1. x \in 1 .. at /\ x \in 1 .. Len(line)
        BY <1>1, <2>3, <2>4
      <3> QED BY <1>3, <2>1, <3>1, Zenon
    <2>5. CASE at < x /\ x <= at + Len(new)
      <3> DEFINE y == x - at
      <3>1. y \in 1 .. Len(new) /\ x = at + y
        BY <1>1, <2>3, <2>5
      <3> HIDE DEF y
      <3> QED BY <1>3, <2>2, <3>1, Zenon
    <2>6. CASE at + Len(new) < x
      <3> DEFINE y == x - (at + Len(new))
      <3>1. /\ y \in 1 .. Len(line) - (at + n) /\ x = at + Len(new) + y
            /\ at + n + y \in 1 .. Len(line)
        BY <1>1, <2>3, <2>6
      <3> HIDE DEF y
      <3> QED BY <1>3, <2>1, <3>1, Zenon
    <2> QED BY <1>1, <2>3, <2>4, <2>5, <2>6
  <1>8. ClosedIsEmpty'
    BY <1>2, Zenon DEF ClosedIsEmpty, Editing
  <1> QED BY <1>5, <1>6, <1>7, <1>8, Zenon DEF PromptInv

-----------------------------------------------------------------------------
(* Every key keeps the invariant.                                          *)

\* Two digits make a byte.
LEMMA TwoDigits ==
    ASSUME NEW high \in 0 .. HexBase - 1, NEW low \in 0 .. HexBase - 1
    PROVE  high * HexBase + low \in Byte /\ high * HexBase \in Byte
  <1>1. HexBase \in Nat /\ HexBase > 1
    BY PromptAssumption
  <1>2. high * HexBase \in Nat /\ high * HexBase <= (HexBase - 1) * HexBase
    BY <1>1
  <1>3. (HexBase - 1) * HexBase = HexBase * HexBase - HexBase /\ HexBase * HexBase \in Nat
    BY <1>1
  <1> QED BY <1>1, <1>2, <1>3 DEF Byte

\* Without a half byte the position is the cursor.
LEMMA NoHalf ==
    ASSUME PromptInv, prompt # "search" \/ ~hex
    PROVE  half = <<>> /\ Position = cursor
  BY Positions, Zenon DEF PromptInv, HalfUnderCursor

\* Opening a prompt starts with an empty line.
LEMMA OpenInv ==
    ASSUME PromptInv, NEW kind \in {"command", "search"}, NEW is_hex \in BOOLEAN,
           OpenPrompt(kind, is_hex)
    PROVE  PromptInv'
  <1>1. /\ prompt' = kind /\ line' = <<>> /\ half' = <<>> /\ hex' = is_hex
        /\ cursor' = cursor /\ columns' = columns /\ wide' = FALSE
    BY Zenon DEF OpenPrompt, PromptInv, ClosedIsEmpty, HalfUnderCursor, PromptTypeOK
  <1>2. line = <<>> /\ Len(line) = 0
    BY EmptySeq, Zenon DEF OpenPrompt, PromptInv, ClosedIsEmpty
  <1>3. cursor = 0 /\ columns \in Columns
    BY <1>2 DEF PromptInv, PromptTypeOK
  <1>4. /\ line' \in Seq(IF prompt' = "command" THEN Nat ELSE Piece) /\ Len(line') = 0
        /\ half' \in Seq(Byte) /\ Len(half') = 0
    BY <1>1, EmptySeq, Zenon
  <1>5. PromptTypeOK'
    <2>1. cursor' \in 0 .. Len(line') /\ Len(half') <= 1
      BY <1>1, <1>3, <1>4
    <2>2. prompt' \in {"none", "command", "search", "quitting"}
      BY <1>1, Zenon
    <2> QED BY <1>1, <1>3, <1>4, <2>1, <2>2, Zenon DEF PromptTypeOK
  <1>6. NarrowLine'
    BY <1>4 DEF NarrowLine
  <1> QED BY <1>1, <1>5, <1>6, Zenon DEF PromptInv, HalfUnderCursor, ClosedIsEmpty

\* Closing a prompt empties its line.
LEMMA CloseInv ==
    ASSUME PromptInv, NEW outcome \in {"none", "quitting"}, ClosePrompt(outcome)
    PROVE  PromptInv'
  <1>1. /\ prompt' = outcome /\ line' = <<>> /\ half' = <<>> /\ hex' = FALSE
        /\ cursor' = 0 /\ columns' \in Columns /\ wide' = FALSE
    BY Zenon DEF ClosePrompt, PromptInv, PromptTypeOK
  <1>2. /\ line' \in Seq(IF prompt' = "command" THEN Nat ELSE Piece) /\ Len(line') = 0
        /\ half' \in Seq(Byte) /\ Len(half') = 0
    BY <1>1, EmptySeq, Zenon
  <1>3. PromptTypeOK'
    <2>1. cursor' \in 0 .. Len(line') /\ Len(half') <= 1
      BY <1>1, <1>2
    <2>2. prompt' \in {"none", "command", "search", "quitting"} /\ FALSE \in BOOLEAN
      BY <1>1, Zenon
    <2> QED BY <1>1, <1>2, <2>1, <2>2, Zenon DEF PromptTypeOK
  <1> QED BY <1>1, <1>3, Zenon DEF PromptInv, HalfUnderCursor, NarrowLine, ClosedIsEmpty

\* Everything the invariant speaks of but the width is left alone.
LEMMA RedrawInv ==
    ASSUME PromptInv, UNCHANGED <<prompt, line, cursor, hex, half, wide>>, columns' \in Columns
    PROVE  PromptInv'
  BY Zenon DEF PromptInv, PromptTypeOK, HalfUnderCursor, NarrowLine, ClosedIsEmpty

\* A prompt that panics leaves the line as it was.
LEMMA PanicInv ==
    ASSUME PromptInv, NEW call, PromptPanics(call)
    PROVE  PromptInv'
  <1>1. UNCHANGED <<prompt, line, cursor, hex, half, wide>> /\ columns' \in Columns
    BY Zenon DEF PromptPanics, PromptInv, PromptTypeOK
  <1> QED BY <1>1, RedrawInv, Zenon

\* The cursor moves within the line.
LEMMA MoveInv ==
    ASSUME PromptInv, NEW to \in Nat, to <= Len(line), MoveCursor(to)
    PROVE  PromptInv'
  <1>1. /\ prompt' = prompt /\ line' = line /\ cursor' = to /\ half' = <<>>
        /\ hex' \in BOOLEAN /\ columns' \in Columns /\ wide' = wide
    BY Zenon DEF MoveCursor, PromptInv, PromptTypeOK
  <1> QED BY <1>1, MovedKeeps, Zenon

\* The arrow keys move within the line, and switching to hex input redraws it.
LEMMA ArrowInv ==
    ASSUME PromptInv, CursorLeft \/ CursorRight \/ SwitchInputMode
    PROVE  PromptInv'
  <1>1. Len(line) \in Nat /\ Position \in Nat /\ Position <= Len(line)
    BY Positions, Zenon
  <1>2. CASE CursorLeft
    <2>1. (MoveCursor(Position - 1) /\ Position # 0) \/ MoveCursor(Position)
      BY <1>2, Zenon DEF CursorLeft
    <2>2. Position # 0 => Position - 1 \in Nat /\ Position - 1 <= Len(line)
      BY <1>1
    <2> QED BY <1>1, <2>1, <2>2, MoveInv, Zenon
  <1>3. CASE CursorRight
    <2>1. (MoveCursor(Position + 1) /\ Position < Len(line)) \/ MoveCursor(Position)
      BY <1>3, Zenon DEF CursorRight
    <2>2. Position < Len(line) => Position + 1 \in Nat /\ Position + 1 <= Len(line)
      BY <1>1
    <2> QED BY <1>1, <2>1, <2>2, MoveInv, Zenon
  <1>4. CASE SwitchInputMode
    <2>1. /\ prompt' = prompt /\ line' = line /\ cursor' = Position /\ half' = <<>>
          /\ hex' \in BOOLEAN /\ columns' \in Columns /\ wide' = wide
      BY <1>4, Zenon DEF SwitchInputMode, PromptInv, PromptTypeOK
    <2> QED BY <1>1, <2>1, MovedKeeps, Zenon
  <1> QED BY <1>2, <1>3, <1>4, Zenon

\* String::remove takes out a part of the line.
LEMMA CharLengthFits ==
    ASSUME PromptInv, NEW at \in Nat, at < Len(line)
    PROVE  /\ CharLength(at) \in Nat /\ CharLength(at) >= 1 /\ at + CharLength(at) <= Len(line)
           /\ \A k \in 1 .. CharLength(at) - 1 : ~IsBoundary(line, at + k)
  <1> DEFINE T == {n \in 1 .. Len(line) - at : IsBoundary(line, at + n)}
  <1>1. Len(line) \in Nat
    BY Positions, Zenon
  <1>2. Len(line) - at \in 1 .. Len(line) - at /\ at + (Len(line) - at) = Len(line)
    BY <1>1
  <1>3. Len(line) - at \in T
    BY <1>2, Zenon DEF IsBoundary
  <1>4. T \subseteq Nat /\ T # {}
    <2>1. 1 .. Len(line) - at \subseteq Nat
      BY <1>1
    <2> QED BY <1>3, <2>1, Zenon
  <1>5. PICK n \in T : \A y \in T : ~(<<y, n>> \in OpToRel(<, Nat))
    <2> HIDE DEF T
    <2> QED BY <1>4, NatLessThanWellFounded, WFMin, Zenon
  <1>6. \A y \in T : ~(y < n)
    BY <1>4, <1>5, Zenon DEF OpToRel
  <1>7. n \in 1 .. Len(line) - at /\ IsBoundary(line, at + n)
    BY Zenon
  <1>8. \A k \in 1 .. n - 1 : ~IsBoundary(line, at + k)
    <2> SUFFICES ASSUME NEW k \in 1 .. n - 1, IsBoundary(line, at + k) PROVE FALSE
      BY Zenon
    <2>1. k \in 1 .. Len(line) - at /\ k < n
      BY <1>1, <1>7
    <2> QED BY <1>6, <2>1, Zenon
  <1>9. /\ CharLength(at) \in 1 .. Len(line) - at
        /\ \A k \in 1 .. CharLength(at) - 1 : ~IsBoundary(line, at + k)
    BY <1>7, <1>8, Zenon DEF CharLength
  <1> QED BY <1>1, <1>9

\* A character typed into a command, of one or several bytes.
LEMMA TypeCharInv ==
    ASSUME PromptInv, NEW ch \in Char, TypeChar(ch)
    PROVE  PromptInv'
  <1>1. /\ prompt = "command" /\ Editing /\ half = <<>>
        /\ cursor \in Nat /\ cursor <= Len(line) /\ Len(line) \in Nat
    BY Positions, NoHalf, Zenon DEF TypeChar, Commanding
  <1>2. ch \in Seq(Nat) /\ ch # <<>> /\ ch[1] \notin Continuation
    BY PromptAssumption, Zenon
  <1>3. Len(ch) \in Nat /\ Len(ch) >= 1
    BY <1>2, EmptySeq, LenProperties
  <1>4. CASE ~IsBoundary(line, cursor)
    BY <1>4, PanicInv, Zenon DEF TypeChar
  <1>5. CASE IsBoundary(line, cursor)
    <2>1. /\ wide' = (wide \/ Len(ch) > 1) /\ hex' = hex /\ half' = <<>>
          /\ Splice(cursor, 0, ch, cursor + 1)
      BY <1>1, <1>5, Zenon DEF TypeChar
    <2>2. half' \in Seq(Byte) /\ Len(half') <= 1 /\ ~(half' # <<>>)
      BY <2>1, EmptySeq
    <2>3. wide' \in BOOLEAN /\ (wide => wide')
      BY <2>1, Zenon DEF PromptInv, PromptTypeOK
    <2>4. ~wide' => \A x \in 1 .. Len(ch) : ch[x] \notin Continuation
      <3> SUFFICES ASSUME ~wide', NEW x \in 1 .. Len(ch) PROVE ch[x] \notin Continuation
        BY Zenon
      <3>1. ~(Len(ch) > 1)
        BY <2>1, Zenon
      <3>2. x = 1
        BY <1>3, <3>1
      <3> QED BY <1>2, <3>2, Zenon
    <2>5. /\ cursor + 0 <= Len(line) /\ cursor + 1 \in Nat
          /\ cursor + 1 <= Len(line) + Len(ch) - 0 /\ 0 \in Nat
      BY <1>1, <1>3
    <2>6. ch \in Seq(Items)
      BY <1>1, <1>2, Zenon DEF Items
    <2> QED BY <1>1, <2>1, <2>2, <2>3, <2>4, <2>5, <2>6, SpliceKeeps, Zenon
  <1> QED BY <1>4, <1>5, Zenon

\* Items are taken out of the line.
LEMMA RemoveInv ==
    ASSUME PromptInv, Editing, NEW at \in Nat, NEW n \in Nat, at + n <= Len(line),
           Splice(at, n, <<>>, at), hex' = hex, half' = <<>>, wide' = wide
    PROVE  PromptInv'
  <1>1. /\ half' \in Seq(Byte) /\ Len(half') <= 1 /\ ~(half' # <<>>)
        /\ <<>> \in Seq(Items) /\ Len(<<>>) = 0
    BY EmptySeq
  <1>2. Len(line) \in Nat /\ wide' \in BOOLEAN /\ (wide => wide')
    BY Positions, Zenon DEF PromptInv, PromptTypeOK
  <1>3. at <= Len(line) + Len(<<>>) - n
    BY <1>1, <1>2
  <1>4. \A x \in 1 .. Len(<<>>) : <<>>[x] \notin Continuation
    BY <1>1
  <1> QED BY <1>1, <1>2, <1>3, <1>4, SpliceKeeps, Zenon

\* Backspace and Delete in a command, which panic inside a character.
LEMMA RemoveCharInv ==
    ASSUME PromptInv, Commanding, NEW at \in Nat, NEW call, RemoveChar(at, call)
    PROVE  PromptInv'
  <1>1. Editing /\ half = <<>>
    BY NoHalf, Zenon DEF Commanding
  <1>2. CASE at < Len(line) /\ IsBoundary(line, at)
    <2>1. /\ Splice(at, CharLength(at), <<>>, at)
          /\ hex' = hex /\ half' = <<>> /\ wide' = wide
      BY <1>1, <1>2, Zenon DEF RemoveChar
    <2>2. CharLength(at) \in Nat /\ at + CharLength(at) <= Len(line)
      BY <1>2, CharLengthFits, Zenon
    <2> QED BY <1>1, <2>1, <2>2, RemoveInv, Zenon
  <1>3. CASE ~(at < Len(line) /\ IsBoundary(line, at))
    BY <1>3, PanicInv, Zenon DEF RemoveChar
  <1> QED BY <1>2, <1>3, Zenon

\* A piece of a pattern is inserted at the cursor.
LEMMA InsertPieceInv ==
    ASSUME PromptInv, Searching, NEW at \in Nat, NEW piece \in Piece, NEW to \in {at, at + 1},
           NEW new_half \in {<<>>, <<piece>>}, InsertPiece(at, piece, to, new_half),
           new_half # <<>> => hex /\ to = at /\ piece \in Byte /\ FirstDigitOnly(piece)
    PROVE  PromptInv'
  <1>1. Editing /\ prompt = "search" /\ Len(line) \in Nat
    BY Positions, Zenon DEF Searching
  <1>2. CASE ~(at <= Len(line))
    BY <1>2, PanicInv, Zenon DEF InsertPiece
  <1>3. CASE at <= Len(line)
    <2>1. /\ half' = new_half /\ hex' = hex /\ wide' = wide
          /\ Splice(at, 0, <<piece>>, to)
      BY <1>3, Zenon DEF InsertPiece
    <2>2. <<piece>> \in Seq(Items) /\ Len(<<piece>>) = 1 /\ <<piece>>[1] = piece
      BY <1>1 DEF Items
    <2>3. half' \in Seq(Byte) /\ Len(half') <= 1
      <3>1. CASE new_half = <<>>
        BY <2>1, <3>1, EmptySeq
      <3>2. CASE new_half # <<>>
        <4>1. new_half = <<piece>> /\ piece \in Byte
          BY <3>2, Zenon
        <4>2. <<piece>> \in Seq(Byte)
          BY <4>1
        <4> QED BY <2>1, <2>2, <4>1, <4>2
      <3> QED BY <3>1, <3>2, Zenon
    <2>4. half' # <<>> => /\ prompt = "search" /\ hex /\ to = at /\ <<piece>> = half'
                          /\ FirstDigitOnly(half'[1])
      BY <1>1, <2>1, <2>2, Zenon
    <2>5. wide' \in BOOLEAN /\ (wide => wide')
      BY <2>1, Zenon DEF PromptInv, PromptTypeOK
    <2>6. /\ at + 0 <= Len(line) /\ to \in Nat
          /\ to <= Len(line) + Len(<<piece>>) - 0 /\ 0 \in Nat
      BY <1>1, <1>3, <2>2
    <2>7. \A x \in 1 .. Len(<<piece>>) : prompt = "command" => <<piece>>[x] \notin Continuation
      BY <1>1, Zenon
    <2> QED BY <1>1, <2>1, <2>2, <2>3, <2>4, <2>5, <2>6, <2>7, SpliceKeeps, Zenon
  <1> QED BY <1>2, <1>3, Zenon

\* Backspace and Delete in a pattern.
LEMMA RemovePieceInv ==
    ASSUME PromptInv, Searching, NEW at \in Nat, at <= Len(line), RemovePiece(at)
    PROVE  PromptInv'
  <1>1. Editing /\ Len(line) \in Nat
    BY Positions, Zenon DEF Searching
  <1>2. CASE at < Len(line)
    <2>1. Splice(at, 1, <<>>, at) /\ hex' = hex /\ half' = <<>> /\ wide' = wide
      BY <1>2, Zenon DEF RemovePiece
    <2>2. 1 \in Nat /\ at + 1 <= Len(line)
      BY <1>1, <1>2
    <2> QED BY <1>1, <2>1, <2>2, RemoveInv, Zenon
  <1>3. CASE ~(at < Len(line))
    BY <1>3, MoveInv, Zenon DEF RemovePiece
  <1> QED BY <1>2, <1>3, Zenon

\* The second digit replaces the half-typed byte.
LEMMA CompleteByteInv ==
    ASSUME PromptInv, Searching, NEW byte \in Byte, CompleteByte(byte)
    PROVE  PromptInv'
  <1>1. Editing /\ prompt = "search" /\ Len(line) \in Nat /\ cursor \in Nat
    BY Positions, Zenon DEF Searching
  <1>2. CASE ~(cursor < Len(line))
    BY <1>2, PanicInv, Zenon DEF CompleteByte
  <1>3. CASE cursor < Len(line)
    <2>1. Splice(cursor, 1, <<byte>>, cursor + 1) /\ hex' = hex /\ half' = <<>> /\ wide' = wide
      BY <1>3, Zenon DEF CompleteByte
    <2>2. <<byte>> \in Seq(Items) /\ Len(<<byte>>) = 1
      BY <1>1 DEF Items, Piece
    <2>3. half' \in Seq(Byte) /\ Len(half') <= 1 /\ ~(half' # <<>>)
      BY <2>1, EmptySeq
    <2>4. wide' \in BOOLEAN /\ (wide => wide')
      BY <2>1, Zenon DEF PromptInv, PromptTypeOK
    <2>5. /\ cursor + 1 <= Len(line) /\ cursor + 1 \in Nat /\ 1 \in Nat
          /\ cursor + 1 <= Len(line) + Len(<<byte>>) - 1
      BY <1>1, <1>3, <2>2
    <2>6. \A x \in 1 .. Len(<<byte>>) : prompt = "command" => <<byte>>[x] \notin Continuation
      BY <1>1, Zenon
    <2> QED BY <1>1, <2>1, <2>2, <2>3, <2>4, <2>5, <2>6, SpliceKeeps, Zenon
  <1> QED BY <1>2, <1>3, Zenon

\* The value of the half byte.
LEMMA HalfValue ==
    ASSUME PromptInv, half # <<>>, NEW digit \in 0 .. HexBase - 1
    PROVE  half[1] + digit \in Byte
  <1>1. PICK high \in 0 .. HexBase - 1 : half[1] = high * HexBase
    BY Zenon DEF PromptInv, HalfUnderCursor, FirstDigitOnly
  <1>2. high * HexBase + digit \in Byte
    BY TwoDigits, Zenon
  <1> QED BY <1>1, <1>2, Zenon

\* A hex digit starts a byte or completes one.
LEMMA TypeDigitInv ==
    ASSUME PromptInv, NEW digit \in 0 .. HexBase - 1, TypeDigit(digit)
    PROVE  PromptInv'
  <1>1. Searching /\ hex /\ cursor \in Nat
    BY Positions, Zenon DEF TypeDigit
  <1>2. CASE half # <<>>
    BY <1>1, <1>2, HalfValue, CompleteByteInv, Zenon DEF TypeDigit
  <1>3. CASE half = <<>>
    <2> DEFINE value == digit * HexBase
    <2>1. InsertPiece(cursor, value, cursor, <<value>>)
      BY <1>3, Zenon DEF TypeDigit
    <2>2. value \in Byte
      <3>1. 0 \in 0 .. HexBase - 1
        BY PromptAssumption
      <3> QED BY <3>1, TwoDigits, Zenon
    <2>3. FirstDigitOnly(value)
      BY Zenon DEF FirstDigitOnly
    <2> HIDE DEF value
    <2>4. value \in Piece /\ cursor \in {cursor, cursor + 1} /\ <<value>> \in {<<>>, <<value>>}
      BY <2>2, Zenon DEF Piece
    <2> QED BY <1>1, <2>1, <2>2, <2>3, <2>4, InsertPieceInv, Zenon
  <1> QED BY <1>2, <1>3, Zenon

\* Every key of either prompt keeps the invariant.
LEMMA KeyInv ==
    ASSUME PromptInv, PromptKey
    PROVE  PromptInv'
  <1>1. /\ Len(line) \in Nat /\ cursor \in Nat /\ cursor <= Len(line)
        /\ Position \in Nat /\ Position <= Len(line)
    BY Positions, Zenon
  <1>2. CASE Cancel \/ FinishCommand \/ FinishSearch
    BY <1>2, CloseInv, Zenon DEF Cancel, FinishCommand, FinishSearch
  <1>3. CASE CursorLeft \/ CursorRight \/ SwitchInputMode
    BY <1>3, ArrowInv, Zenon
  <1>4. CASE \E width \in Columns : OtherEvent(width)
    BY <1>4, RedrawInv, Zenon DEF OtherEvent
  <1>5. CASE \E ch \in Char : TypeChar(ch)
    BY <1>5, TypeCharInv, Zenon
  <1>6. CASE RemoveLastChar
    <2>1. cursor - 1 \in Nat
      BY <1>1, <1>6 DEF RemoveLastChar
    <2> QED BY <1>6, <2>1, RemoveCharInv, Zenon DEF RemoveLastChar
  <1>7. CASE RemoveThisChar
    BY <1>1, <1>7, RemoveCharInv, Zenon DEF RemoveThisChar
  <1>8. CASE InsertNull \/ InsertWildcard
    <2>1. 0 \in Piece /\ Wildcard \in Piece
      <3>1. HexBase \in Nat /\ HexBase >= 1 /\ HexBase * HexBase >= 1
        BY PromptAssumption
      <3> QED BY <3>1 DEF Piece, Byte
    <2> QED BY <1>1, <1>8, <2>1, InsertPieceInv, Zenon DEF InsertNull, InsertWildcard
  <1>9. CASE RemoveLastPiece
    <2>1. Position - 1 \in Nat /\ Position - 1 <= Len(line)
      BY <1>1, <1>9 DEF RemoveLastPiece
    <2> QED BY <1>9, <2>1, RemovePieceInv, Zenon DEF RemoveLastPiece
  <1>10. CASE RemoveThisPiece
    BY <1>1, <1>10, RemovePieceInv, Zenon DEF RemoveThisPiece
  <1>11. CASE \E byte \in Byte : TypeAscii(byte)
    <2>1. PICK byte \in Byte : TypeAscii(byte)
      BY <1>11, Zenon
    <2>2. /\ Searching /\ half = <<>> /\ byte \in Piece
          /\ InsertPiece(cursor, byte, cursor + 1, half)
      BY <2>1, NoHalf, Zenon DEF TypeAscii, Piece
    <2> QED BY <1>1, <2>2, InsertPieceInv, Zenon
  <1>12. CASE \E digit \in 0 .. HexBase - 1 : TypeDigit(digit)
    BY <1>12, TypeDigitInv, Zenon
  <1> QED BY <1>2, <1>3, <1>4, <1>5, <1>6, <1>7, <1>8, <1>9, <1>10, <1>11, <1>12
          DEF PromptKey

\* At first no prompt is open.
LEMMA PromptInitInv == PromptInit => PromptInv
  <1> SUFFICES ASSUME PromptInit PROVE PromptInv
    BY Zenon
  <1>1. /\ line \in Seq(IF prompt = "command" THEN Nat ELSE Piece) /\ Len(line) = 0
        /\ half \in Seq(Byte) /\ Len(half) = 0
    BY EmptySeq, Zenon DEF PromptInit
  <1>2. cursor \in 0 .. Len(line) /\ Len(half) <= 1
    BY <1>1 DEF PromptInit
  <1>3. PromptTypeOK
    BY <1>1, <1>2, Zenon DEF PromptInit, PromptTypeOK
  <1> QED BY <1>3, Zenon DEF PromptInit, PromptInv, HalfUnderCursor, NarrowLine, ClosedIsEmpty

\* Every step of the prompts keeps the invariant.
LEMMA PromptNextInv == PromptInv /\ [PromptNext]_prompt_vars => PromptInv'
  <1> SUFFICES ASSUME PromptInv, [PromptNext]_prompt_vars PROVE PromptInv'
    BY Zenon
  <1>1. CASE OpenPrompt("command", FALSE) \/ \E is_hex \in BOOLEAN : OpenPrompt("search", is_hex)
    BY <1>1, OpenInv, Zenon
  <1>2. CASE PromptKey
    BY <1>2, KeyInv, Zenon
  <1>3. CASE UNCHANGED prompt_vars
    <2>1. UNCHANGED <<prompt, line, cursor, hex, half, wide>> /\ columns' \in Columns
      BY <1>3, Zenon DEF prompt_vars, PromptInv, PromptTypeOK
    <2> QED BY <2>1, RedrawInv, Zenon
  <1> QED BY <1>1, <1>2, <1>3, Zenon DEF PromptNext

-----------------------------------------------------------------------------
(* Every key does one thing to one line of text.                           *)

\* The text before and after a position, and one step to the right.
LEMMA TextParts ==
    ASSUME NEW S, NEW s \in Seq(S), NEW at \in Nat, at <= Len(s)
    PROVE  /\ SubSeq(s, 1, at) \in Seq(S) /\ Len(SubSeq(s, 1, at)) = at
           /\ SubSeq(s, at + 1, Len(s)) \in Seq(S)
           /\ Len(SubSeq(s, at + 1, Len(s))) = Len(s) - at
  <1>1. Len(s) \in Nat
    BY LenProperties, Zenon
  <1>2. /\ SubSeq(s, 0 + 1, at) \in Seq(S)
        /\ Len(SubSeq(s, 0 + 1, at)) = IF 0 < at THEN at - 0 ELSE 0
    BY PartFacts, Zenon
  <1>3. /\ SubSeq(s, at + 1, Len(s)) \in Seq(S)
        /\ Len(SubSeq(s, at + 1, Len(s))) = IF at < Len(s) THEN Len(s) - at ELSE 0
    BY <1>1, PartFacts
  <1> QED BY <1>1, <1>2, <1>3

\* The text after the cursor begins with the item at the cursor.
LEMMA TextStep ==
    ASSUME NEW S, NEW s \in Seq(S), NEW at \in Nat, at < Len(s)
    PROVE  /\ SubSeq(s, at + 1, Len(s)) # <<>>
           /\ SubSeq(s, at + 1, Len(s)) = <<s[at + 1]>> \o SubSeq(s, at + 1 + 1, Len(s))
           /\ Head(SubSeq(s, at + 1, Len(s))) = s[at + 1]
           /\ Tail(SubSeq(s, at + 1, Len(s))) = SubSeq(s, at + 1 + 1, Len(s))
  <1>1. Len(s) \in Nat /\ at + 1 \in 1 .. Len(s) /\ Len(s) \in at + 1 .. Len(s)
    BY LenProperties
  <1>2. /\ SubSeq(s, at + 1, Len(s)) = <<s[at + 1]>> \o SubSeq(s, at + 1 + 1, Len(s))
        /\ Head(SubSeq(s, at + 1, Len(s))) = s[at + 1]
        /\ Tail(SubSeq(s, at + 1, Len(s))) = SubSeq(s, at + 1 + 1, Len(s))
    BY <1>1, SubSeqRecursiveFirst, HeadTailOfSubSeq, Zenon
  <1>3. SubSeq(s, at + 1, Len(s)) \in Seq(S) /\ Len(SubSeq(s, at + 1, Len(s))) = Len(s) - at
    BY <1>1, TextParts
  <1>4. SubSeq(s, at + 1, Len(s)) # <<>>
    <2>1. Len(s) - at # 0
      BY <1>1
    <2> QED BY <1>3, <2>1, EmptySeq, Zenon
  <1> QED BY <1>2, <1>4, Zenon

\* The text before the cursor ends with the item before it.
LEMMA LastItem ==
    ASSUME NEW S, NEW s \in Seq(S), NEW at \in Nat, at < Len(s)
    PROVE  /\ SubSeq(s, 1, at + 1) # <<>>
           /\ SubSeq(SubSeq(s, 1, at + 1), 1, Len(SubSeq(s, 1, at + 1)) - 1) = SubSeq(s, 1, at)
  <1> DEFINE n == at + 1
  <1>1. n \in 1 .. Len(s) /\ n - 1 = at
    BY LenProperties
  <1> HIDE DEF n
  <1>2. /\ SubSeq(s, 1, n) # <<>> /\ Len(SubSeq(s, 1, n)) = n
        /\ SubSeq(SubSeq(s, 1, n), 1, n - 1) = SubSeq(s, 1, n - 1)
    BY <1>1, ShorterPrefix, Zenon
  <1>3. /\ SubSeq(s, 1, n) # <<>>
        /\ SubSeq(SubSeq(s, 1, n), 1, Len(SubSeq(s, 1, n)) - 1) = SubSeq(s, 1, at)
    BY <1>1, <1>2, Zenon
  <1> QED BY <1>3, Zenon DEF n

\* A cursor without a half byte is the position.
LEMMA NoHalfNext ==
    ASSUME cursor' \in Nat, half' = <<>>
    PROVE  Position' = cursor'
  <1>1. Len(half') = 0
    BY EmptySeq, Zenon
  <1>2. \A c \in Nat : c + 0 = c
    OBVIOUS
  <1> QED BY <1>1, <1>2, Zenon DEF Position

\* A prompt with the same line and position is the same text.
LEMMA SameText ==
    ASSUME prompt' = prompt, line' = line, Position' = Position
    PROVE  UNCHANGED Text!vars
  BY Zenon DEF Text!vars

\* An empty line has nothing before and after the cursor.
LEMMA EmptyText ==
    /\ SubSeq(<<>>, 1, 0) = <<>>
    /\ SubSeq(<<>>, 0 + 1, Len(<<>>)) = <<>>
  <1>1. <<>> \in Seq(Int) /\ Len(<<>>) = 0
    BY EmptySeq, Zenon
  <1>2. /\ SubSeq(<<>>, 1, 0) \in Seq(Int) /\ Len(SubSeq(<<>>, 1, 0)) = 0
        /\ SubSeq(<<>>, 0 + 1, Len(<<>>)) \in Seq(Int)
        /\ Len(SubSeq(<<>>, 0 + 1, Len(<<>>))) = Len(<<>>) - 0
    <2>1. 0 \in Nat /\ 0 <= Len(<<>>)
      BY <1>1
    <2> QED BY <1>1, <2>1, TextParts
  <1>3. Len(<<>>) - 0 = 0
    BY <1>1
  <1> QED BY <1>2, <1>3, EmptySeq, Zenon

\* The prompt is opened, submitted or given up.
LEMMA OpenText ==
    ASSUME PromptInv, NEW kind \in {"command", "search"}, NEW is_hex \in BOOLEAN,
           OpenPrompt(kind, is_hex)
    PROVE  Text!Open
  <1>1. /\ prompt = "none" /\ prompt' = kind /\ line' = <<>> /\ half' = <<>>
        /\ cursor' = cursor
    BY Zenon DEF OpenPrompt, PromptInv, ClosedIsEmpty, HalfUnderCursor
  <1>2. line = <<>> /\ Len(line) = 0
    BY EmptySeq, Zenon DEF OpenPrompt, PromptInv, ClosedIsEmpty
  <1>3. cursor' = 0
    BY <1>1, <1>2 DEF PromptInv, PromptTypeOK
  <1>4. Position' = 0
    BY <1>1, <1>3, NoHalfNext
  <1>5. SubSeq(line', 1, Position') = <<>> /\ SubSeq(line', Position' + 1, Len(line')) = <<>>
    BY <1>1, <1>4, EmptyText, Zenon
  <1> QED BY <1>1, <1>5, Zenon DEF Text!Open

\* Closing a prompt closes the line of text.
LEMMA CloseText ==
    ASSUME PromptInv, Editing, NEW outcome \in {"none", "quitting"}, ClosePrompt(outcome)
    PROVE  Text!Close
  <1>1. /\ prompt \in {"command", "search"} /\ prompt' = outcome /\ line' = <<>>
        /\ half' = <<>> /\ cursor' = 0
    BY Zenon DEF ClosePrompt, Editing
  <1>2. Position' = 0
    BY <1>1, NoHalfNext, Zenon
  <1>3. SubSeq(line', 1, Position') = <<>> /\ SubSeq(line', Position' + 1, Len(line')) = <<>>
    BY <1>1, <1>2, EmptyText, Zenon
  <1> QED BY <1>1, <1>3 DEF Text!Close

\* A step of the cursor.
LEMMA MoveText ==
    ASSUME PromptInv, Editing, NEW to \in Nat, MoveCursor(to)
    PROVE  /\ to = Position => UNCHANGED Text!vars
           /\ to = Position - 1 => Text!Left
           /\ to = Position + 1 /\ to <= Len(line) => Text!Right
  <1>1. /\ prompt' = prompt /\ line' = line /\ cursor' = to /\ half' = <<>>
        /\ prompt \in {"command", "search"}
    BY Zenon DEF MoveCursor, Editing
  <1>2. Position' = to
    BY <1>1, NoHalfNext, Zenon
  <1>3. line \in Seq(Int) /\ Len(line) \in Nat /\ Position \in Nat /\ Position <= Len(line)
    BY Positions, Zenon
  <1>4. ASSUME to = Position PROVE UNCHANGED Text!vars
    BY <1>1, <1>2, <1>4, SameText, Zenon
  <1>5. ASSUME to = Position - 1 PROVE Text!Left
    <2>1. Position \in 1 .. Len(line) /\ to < Len(line) /\ to + 1 = Position
      BY <1>3, <1>5
    <2>2. /\ SubSeq(line, 1, Position) # <<>>
          /\ Len(SubSeq(line, 1, Position)) = Position
          /\ SubSeq(line, 1, Position)[Position] = line[Position]
          /\ SubSeq(SubSeq(line, 1, Position), 1, Position - 1) = SubSeq(line, 1, Position - 1)
      BY <1>3, <2>1, ShorterPrefix, ZenonT(30)
    <2>3. SubSeq(line, to + 1, Len(line)) = <<line[to + 1]>> \o SubSeq(line, to + 1 + 1, Len(line))
      BY <1>3, <2>1, TextStep, Zenon
    <2> QED BY <1>1, <1>2, <1>5, <2>1, <2>2, <2>3, Zenon DEF Text!Left
  <1>6. ASSUME to = Position + 1, to <= Len(line) PROVE Text!Right
    <2>1. Position < Len(line) /\ to \in 1 .. Len(line) /\ to - 1 = Position
      BY <1>3, <1>6
    <2>2. SubSeq(line, 1, to) = Append(SubSeq(line, 1, to - 1), line[to])
      BY <1>3, <2>1, ShorterPrefix, Zenon
    <2>3. /\ SubSeq(line, Position + 1, Len(line)) # <<>>
          /\ Head(SubSeq(line, Position + 1, Len(line))) = line[Position + 1]
          /\ Tail(SubSeq(line, Position + 1, Len(line))) =
               SubSeq(line, Position + 1 + 1, Len(line))
      BY <1>3, <2>1, TextStep, Zenon
    <2> QED BY <1>1, <1>2, <1>6, <2>1, <2>2, <2>3, Zenon DEF Text!Right
  <1> QED BY <1>4, <1>5, <1>6, Zenon

\* An item typed at the position.
LEMMA TypeText ==
    ASSUME PromptInv, Editing, NEW item \in Items, NEW to,
           Splice(Position, 0, <<item>>, to), Position' = Position + 1
    PROVE  Text!Type(item)
  <1>1. line \in Seq(Items) /\ Len(line) \in Nat /\ Position \in Nat /\ Position <= Len(line)
    BY LineType, Positions, Zenon
  <1>2. prompt' = prompt /\ line' = Spliced(line, Position, 0, <<item>>)
    BY Zenon DEF Splice
  <1>3. <<item>> \in Seq(Items) /\ Len(<<item>>) = 1
    OBVIOUS
  <1>4. 0 \in Nat /\ Position + 0 <= Len(line) /\ Position + 0 = Position
    BY <1>1
  <1>5. SplicedParts(Spliced(line, Position, 0, <<item>>), Items, line, Position, 0, <<item>>)
    BY <1>1, <1>3, <1>4, SplicedFacts, Zenon
  <1>6. /\ SubSeq(line', 1, Position + 1) = SubSeq(line, 1, Position) \o <<item>>
        /\ SubSeq(line', Position + 1 + 1, Len(line')) = SubSeq(line, Position + 1, Len(line))
    BY <1>2, <1>3, <1>4, <1>5, Zenon DEF SplicedParts
  <1>7. SubSeq(line, 1, Position) \in Seq(Items)
    BY <1>1, TextParts, Zenon
  <1>8. Append(SubSeq(line, 1, Position), item) = SubSeq(line, 1, Position) \o <<item>>
    BY <1>7, AppendIsConcat, Zenon
  <1>9. prompt \in {"command", "search"}
    BY Zenon DEF Editing
  <1> QED BY <1>2, <1>6, <1>8, <1>9, Zenon DEF Text!Type

\* An item removed before or behind the position.
LEMMA DeleteText ==
    ASSUME PromptInv, Editing, NEW at \in Nat, Splice(at, 1, <<>>, at), half' = <<>>,
           at < Len(line)
    PROVE  /\ at = Position - 1 => Text!DeleteBack
           /\ at = Position => Text!DeleteForward
  <1>1. line \in Seq(Items) /\ Len(line) \in Nat /\ Position \in Nat /\ Position <= Len(line)
    BY LineType, Positions, Zenon
  <1>2. /\ prompt' = prompt /\ line' = Spliced(line, at, 1, <<>>) /\ cursor' = at
        /\ prompt \in {"command", "search"}
    BY Zenon DEF Splice, Editing
  <1>3. <<>> \in Seq(Items) /\ Len(<<>>) = 0
    BY EmptySeq, Zenon
  <1>4. 1 \in Nat /\ at + 1 <= Len(line) /\ at + 0 = at
    BY <1>1
  <1>5. SplicedParts(Spliced(line, at, 1, <<>>), Items, line, at, 1, <<>>)
    BY <1>1, <1>3, <1>4, SplicedFacts, Zenon
  <1>6. /\ SubSeq(line', 1, at) = SubSeq(line, 1, at) \o <<>>
        /\ SubSeq(line', at + 1, Len(line')) = SubSeq(line, at + 1 + 1, Len(line))
    BY <1>2, <1>3, <1>4, <1>5, Zenon DEF SplicedParts
  <1>7. SubSeq(line, 1, at) \o <<>> = SubSeq(line, 1, at)
    <2>1. SubSeq(line, 1, at) \in Seq(Items)
      BY <1>1, TextParts
    <2> QED BY <2>1, ConcatEmptySeq, Zenon
  <1>8. Position' = at
    BY <1>2, NoHalfNext, Zenon
  <1>9. ASSUME at = Position - 1 PROVE Text!DeleteBack
    <2>1. Position \in 1 .. Len(line) /\ at + 1 = Position
      BY <1>1, <1>9
    <2>2. /\ SubSeq(line, 1, Position) # <<>>
          /\ Len(SubSeq(line, 1, Position)) = Position
          /\ SubSeq(SubSeq(line, 1, Position), 1, Position - 1) = SubSeq(line, 1, Position - 1)
      BY <1>1, <2>1, ShorterPrefix, Zenon
    <2> QED BY <1>2, <1>6, <1>7, <1>8, <1>9, <2>1, <2>2, Zenon DEF Text!DeleteBack
  <1>10. ASSUME at = Position PROVE Text!DeleteForward
    <2>1. /\ SubSeq(line, at + 1, Len(line)) # <<>>
          /\ Tail(SubSeq(line, at + 1, Len(line))) = SubSeq(line, at + 1 + 1, Len(line))
      BY <1>1, TextStep, Zenon
    <2> QED BY <1>2, <1>6, <1>7, <1>8, <1>10, <2>1, Zenon DEF Text!DeleteForward
  <1> QED BY <1>9, <1>10, Zenon

\* The second digit amends the item before the position.
LEMMA AmendText ==
    ASSUME PromptInv, Searching, half # <<>>, NEW byte \in Byte, CompleteByte(byte)
    PROVE  Text!Amend(byte)
  <1>1. /\ line \in Seq(Items) /\ Len(line) \in Nat /\ cursor \in Nat /\ cursor < Len(line)
        /\ Position = cursor + 1
    BY LineType, Positions, Zenon
  <1>2. /\ prompt' = prompt /\ line' = Spliced(line, cursor, 1, <<byte>>)
        /\ cursor' = cursor + 1 /\ half' = <<>> /\ prompt = "search"
    BY <1>1, Zenon DEF CompleteByte, Splice, Searching
  <1>3. <<byte>> \in Seq(Items) /\ Len(<<byte>>) = 1 /\ byte \in Items
    BY <1>2 DEF Items, Piece
  <1>4. /\ 1 \in Nat /\ cursor + 1 <= Len(line) /\ cursor + 1 \in 1 .. Len(line)
        /\ cursor + 1 - 1 = cursor /\ cursor <= Len(line) /\ cursor + 1 \in Nat
    BY <1>1
  <1>5. SplicedParts(Spliced(line, cursor, 1, <<byte>>), Items, line, cursor, 1, <<byte>>)
    BY <1>1, <1>3, <1>4, SplicedFacts, Zenon
  <1>6. /\ SubSeq(line', 1, cursor + 1) = SubSeq(line, 1, cursor) \o <<byte>>
        /\ SubSeq(line', cursor + 1 + 1, Len(line')) = SubSeq(line, cursor + 1 + 1, Len(line))
    BY <1>2, <1>3, <1>5, Zenon DEF SplicedParts
  <1>7. Append(SubSeq(line, 1, cursor), byte) = SubSeq(line, 1, cursor) \o <<byte>>
    <2>1. SubSeq(line, 1, cursor) \in Seq(Items)
      BY <1>1, <1>4, TextParts, Zenon
    <2> QED BY <1>3, <2>1, AppendIsConcat, Zenon
  <1>8. Position' = cursor + 1
    BY <1>2, <1>4, NoHalfNext, Zenon
  <1>9. /\ SubSeq(line, 1, cursor + 1) # <<>>
        /\ SubSeq(SubSeq(line, 1, cursor + 1), 1, Len(SubSeq(line, 1, cursor + 1)) - 1) =
             SubSeq(line, 1, cursor)
    BY <1>1, LastItem, Zenon
  <1>10. prompt \in {"command", "search"}
    BY <1>2, Zenon
  <1>11. /\ SubSeq(line, 1, Position) # <<>>
         /\ SubSeq(SubSeq(line, 1, Position), 1, Len(SubSeq(line, 1, Position)) - 1) =
              SubSeq(line, 1, cursor)
    BY <1>1, <1>9, Zenon
  <1>12. /\ SubSeq(line', 1, Position') = SubSeq(line, 1, cursor) \o <<byte>>
         /\ SubSeq(line', Position' + 1, Len(line')) = SubSeq(line, Position + 1, Len(line))
    BY <1>1, <1>6, <1>8, Zenon
  <1> QED BY <1>2, <1>7, <1>10, <1>11, <1>12, Zenon DEF Text!Amend

\* A character of a narrow line is one byte.
LEMMA NarrowChar ==
    ASSUME PromptInv, prompt = "command", ~wide, NEW at \in Nat, at < Len(line)
    PROVE  CharLength(at) = 1
  <1>1. /\ CharLength(at) \in Nat /\ CharLength(at) >= 1
        /\ \A k \in 1 .. CharLength(at) - 1 : ~IsBoundary(line, at + k)
    BY CharLengthFits, Zenon
  <1>2. Len(line) \in Nat /\ \A n \in 1 .. Len(line) : line[n] \notin Continuation
    BY Positions, Zenon DEF PromptInv, NarrowLine
  <1>3. IsBoundary(line, at + 1)
    <2>1. at + 1 = Len(line) \/ at + 1 + 1 \in 1 .. Len(line)
      BY <1>2
    <2> QED BY <1>2, <2>1, Zenon DEF IsBoundary
  <1>4. 1 \notin 1 .. CharLength(at) - 1
    BY <1>1, <1>3, Zenon
  <1> QED BY <1>1, <1>4

\* A panic leaves the text alone.
LEMMA PanicText ==
    ASSUME NEW call, PromptPanics(call)
    PROVE  UNCHANGED Text!vars
  <1>1. prompt' = prompt /\ line' = line /\ cursor' = cursor /\ half' = half
    BY Zenon DEF PromptPanics
  <1>2. Position' = Position
    BY <1>1, Zenon DEF Position
  <1> QED BY <1>1, <1>2, SameText, Zenon

\* Inserting a piece of a pattern is typing it.
LEMMA InsertText ==
    ASSUME PromptInv, Searching, NEW piece \in Piece, NEW to, NEW new_half,
           InsertPiece(Position, piece, to, new_half),
           (to = Position + 1 /\ new_half = <<>>) \/
           (to = Position /\ new_half = <<piece>>)
    PROVE  Text!Type(piece)
  <1>1. Len(line) \in Nat /\ Position \in Nat /\ Position <= Len(line) /\ Position + 1 \in Nat
    BY Positions
  <1>2. half' = new_half /\ Splice(Position, 0, <<piece>>, to)
    BY <1>1, Zenon DEF InsertPiece
  <1>3. Editing /\ piece \in Items
    BY Zenon DEF Searching, Items
  <1>4. cursor' = to
    BY <1>2, Zenon DEF Splice
  <1>5. Position' = Position + 1
    <2>1. CASE to = Position + 1 /\ new_half = <<>>
      BY <1>1, <1>2, <1>4, <2>1, NoHalfNext
    <2>2. CASE to = Position /\ new_half = <<piece>>
      <3>1. Len(<<piece>>) = 1
        BY Zenon
      <3>2. Position' = cursor' + Len(half')
        BY Zenon DEF Position
      <3> QED BY <1>2, <1>4, <2>2, <3>1, <3>2, Zenon
    <2> QED BY <2>1, <2>2, Zenon
  <1> QED BY <1>2, <1>3, <1>5, TypeText

\* A character of one byte in a command is typed as one.
LEMMA CharText ==
    ASSUME PromptInv, NEW ch \in Char, TypeChar(ch), ~wide'
    PROVE  [Text!Next]_(Text!vars)
  <1>1. /\ Editing /\ prompt = "command" /\ half = <<>> /\ Position = cursor
        /\ Position \in Nat /\ Position + 1 \in Nat
    BY Positions, NoHalf DEF TypeChar, Commanding
  <1>2. CASE ~IsBoundary(line, cursor)
    BY <1>2, PanicText, Zenon DEF TypeChar
  <1>3. CASE IsBoundary(line, cursor)
    <2>1. /\ wide' = (wide \/ Len(ch) > 1) /\ half' = <<>>
          /\ Splice(cursor, 0, ch, cursor + 1)
      BY <1>1, <1>3, Zenon DEF TypeChar
    <2>2. ch \in Seq(Nat) /\ ch # <<>>
      BY PromptAssumption, Zenon
    <2>3. Len(ch) = 1
      <3>1. ~(Len(ch) > 1)
        BY <2>1, Zenon
      <3>2. Len(ch) <= 1
        BY <2>2, <3>1, LenProperties
      <3> QED BY <2>2, <3>2, OneItem, Zenon
    <2>4. ch = <<ch[1]>> /\ ch[1] \in Nat
      BY <2>2, <2>3
    <2>5. ch[1] \in Items /\ ch[1] \in Item
      BY <1>1, <2>4, Zenon DEF Items, Item
    <2>6. Splice(Position, 0, <<ch[1]>>, cursor + 1) /\ cursor' = Position + 1
      BY <1>1, <2>1, <2>4, Zenon DEF Splice
    <2>7. Position' = Position + 1
      BY <1>1, <2>1, <2>6, NoHalfNext, Zenon
    <2>8. Text!Type(ch[1])
      BY <1>1, <2>5, <2>6, <2>7, TypeText, Zenon
    <2> QED BY <2>5, <2>8, Zenon DEF Text!Next
  <1> QED BY <1>2, <1>3, Zenon

\* Removing a character of a command removes an item of text or nothing.
LEMMA RemoveCharText ==
    ASSUME PromptInv, Commanding, ~wide', NEW call, NEW at \in Nat, RemoveChar(at, call),
           at = Position \/ at = Position - 1
    PROVE  [Text!Next]_(Text!vars)
  <1>1. Editing /\ prompt = "command" /\ half = <<>>
    BY NoHalf, Zenon DEF Commanding
  <1>2. CASE at < Len(line) /\ IsBoundary(line, at)
    <2>1. /\ Splice(at, CharLength(at), <<>>, at) /\ half' = <<>> /\ wide' = wide
      BY <1>1, <1>2, Zenon DEF RemoveChar
    <2>2. CharLength(at) = 1
      BY <1>1, <1>2, <2>1, NarrowChar, Zenon
    <2>3. Splice(at, 1, <<>>, at)
      BY <2>1, <2>2, Zenon
    <2> QED BY <1>1, <1>2, <2>1, <2>3, DeleteText, Zenon DEF Text!Next
  <1>3. CASE ~(at < Len(line) /\ IsBoundary(line, at))
    BY <1>3, PanicText, Zenon DEF RemoveChar
  <1> QED BY <1>2, <1>3, Zenon

\* Removing a piece of a pattern removes an item of text or nothing.
LEMMA RemovePieceText ==
    ASSUME PromptInv, Searching, NEW at \in Nat, RemovePiece(at),
           at = Position \/ (at = Position - 1 /\ at < Len(line))
    PROVE  [Text!Next]_(Text!vars)
  <1>1. CASE at < Len(line)
    <2>1. Splice(at, 1, <<>>, at) /\ half' = <<>> /\ Editing
      BY <1>1, Zenon DEF RemovePiece, Searching
    <2> QED BY <1>1, <2>1, DeleteText, Zenon DEF Text!Next
  <1>2. CASE ~(at < Len(line))
    <2>1. at = Position /\ MoveCursor(at) /\ Editing
      BY <1>2, Zenon DEF RemovePiece, Searching
    <2> QED BY <2>1, MoveText, Zenon
  <1> QED BY <1>1, <1>2, Zenon

\* Every key of either prompt is a key of the line editor.
LEMMA KeyText ==
    ASSUME PromptInv, PromptKey, ~wide'
    PROVE  [Text!Next]_(Text!vars)
  <1>1. /\ Len(line) \in Nat /\ cursor \in Nat
        /\ Position \in Nat /\ Position <= Len(line)
    BY Positions, Zenon
  <1>2. CASE Cancel \/ FinishCommand \/ FinishSearch
    BY <1>2, CloseText, Zenon DEF Cancel, FinishCommand, FinishSearch, Commanding, Searching, Text!Next
  <1>3. CASE CursorLeft
    <2>1. Editing /\ ((MoveCursor(Position - 1) /\ Position # 0) \/ MoveCursor(Position))
      BY <1>3, Zenon DEF CursorLeft
    <2>2. Position # 0 => Position - 1 \in Nat
      BY <1>1
    <2> QED BY <1>1, <2>1, <2>2, MoveText, Zenon DEF Text!Next
  <1>4. CASE CursorRight
    <2>1. Editing /\ ((MoveCursor(Position + 1) /\ Position < Len(line)) \/ MoveCursor(Position))
      BY <1>4, Zenon DEF CursorRight
    <2>2. Position < Len(line) => Position + 1 \in Nat /\ Position + 1 <= Len(line)
      BY <1>1
    <2> QED BY <1>1, <2>1, <2>2, MoveText, Zenon DEF Text!Next
  <1>5. CASE SwitchInputMode
    <2>1. prompt' = prompt /\ line' = line /\ cursor' = Position /\ half' = <<>>
      BY <1>5, Zenon DEF SwitchInputMode
    <2>2. Position' = Position
      BY <1>1, <2>1, NoHalfNext, Zenon
    <2> QED BY <2>1, <2>2, SameText, Zenon
  <1>6. CASE \E width \in Columns : OtherEvent(width)
    <2>1. prompt' = prompt /\ line' = line /\ cursor' = cursor /\ half' = half
      BY <1>6, Zenon DEF OtherEvent
    <2>2. Position' = Position
      BY <2>1, Zenon DEF Position
    <2> QED BY <2>1, <2>2, SameText, Zenon
  <1>7. CASE \E ch \in Char : TypeChar(ch)
    BY <1>7, CharText, Zenon
  <1>8. CASE RemoveLastChar
    <2>1. Position = cursor /\ Commanding /\ RemoveChar(cursor - 1, "remove_last")
      BY <1>8, NoHalf, Zenon DEF RemoveLastChar, Commanding
    <2>2. cursor - 1 \in Nat
      BY <1>1, <1>8 DEF RemoveLastChar
    <2> QED BY <2>1, <2>2, RemoveCharText, Zenon
  <1>9. CASE RemoveThisChar
    <2>1. Position = cursor /\ Commanding /\ RemoveChar(cursor, "remove_this")
      BY <1>9, NoHalf, Zenon DEF RemoveThisChar, Commanding
    <2> QED BY <1>1, <2>1, RemoveCharText, Zenon
  <1>10. CASE InsertNull \/ InsertWildcard
    <2>1. 0 \in Piece /\ Wildcard \in Piece
      <3>1. HexBase \in Nat /\ HexBase >= 1 /\ HexBase * HexBase >= 1
        BY PromptAssumption
      <3> QED BY <3>1 DEF Piece, Byte
    <2>2. Text!Type(0) \/ Text!Type(Wildcard)
      BY <1>10, <2>1, InsertText, Zenon DEF InsertNull, InsertWildcard
    <2> QED BY <2>1, <2>2, Zenon DEF Text!Next, Item
  <1>11. CASE RemoveLastPiece
    <2>1. Position - 1 \in Nat /\ Position - 1 < Len(line)
      BY <1>1, <1>11 DEF RemoveLastPiece
    <2> QED BY <1>11, <2>1, RemovePieceText, Zenon DEF RemoveLastPiece
  <1>12. CASE RemoveThisPiece
    BY <1>1, <1>12, RemovePieceText, Zenon DEF RemoveThisPiece
  <1>13. CASE \E byte \in Byte : TypeAscii(byte)
    <2>1. PICK byte \in Byte : TypeAscii(byte)
      BY <1>13, Zenon
    <2>2. /\ Searching /\ half = <<>> /\ byte \in Piece /\ cursor = Position
          /\ InsertPiece(cursor, byte, cursor + 1, half)
      BY <2>1, NoHalf, Zenon DEF TypeAscii, Piece
    <2>3. InsertPiece(Position, byte, Position + 1, <<>>)
      BY <2>2, Zenon
    <2>4. Text!Type(byte)
      BY <2>2, <2>3, InsertText, Zenon
    <2> QED BY <2>2, <2>4, Zenon DEF Text!Next, Item
  <1>14. CASE \E digit \in 0 .. HexBase - 1 : TypeDigit(digit)
    <2>1. PICK digit \in 0 .. HexBase - 1 : TypeDigit(digit)
      BY <1>14, Zenon
    <2>2. CASE half # <<>>
      <3>1. Searching /\ CompleteByte(half[1] + digit) /\ half[1] + digit \in Byte
        BY <2>1, <2>2, HalfValue, Zenon DEF TypeDigit
      <3>2. Text!Amend(half[1] + digit)
        BY <2>2, <3>1, AmendText, Zenon
      <3> QED BY <3>1, <3>2, Zenon DEF Text!Next, Item, Piece
    <2>3. CASE half = <<>>
      <3> DEFINE value == digit * HexBase
      <3>1. Searching /\ InsertPiece(cursor, value, cursor, <<value>>)
        BY <2>1, <2>3, Zenon DEF TypeDigit
      <3>2. value \in Byte
        <4>1. 0 \in 0 .. HexBase - 1
          BY PromptAssumption
        <4> QED BY <4>1, TwoDigits, Zenon
      <3> HIDE DEF value
      <3>3. value \in Piece /\ cursor = Position
        BY <2>3, <3>2, Positions, Zenon DEF Piece
      <3>4. InsertPiece(Position, value, Position, <<value>>)
        BY <3>1, <3>3, Zenon
      <3>5. Text!Type(value)
        BY <3>1, <3>3, <3>4, InsertText, Zenon
      <3> QED BY <3>3, <3>5, Zenon DEF Text!Next, Item
    <2> QED BY <2>2, <2>3, Zenon
  <1> QED BY <1>2, <1>3, <1>4, <1>5, <1>6, <1>7, <1>8, <1>9, <1>10, <1>11, <1>12, <1>13, <1>14, SMTT(30)
          DEF PromptKey

\* Every step of the prompts is a step of the line editor, or none.
LEMMA NextText == PromptInv /\ [PromptNext]_prompt_vars => (~wide' => [Text!Next]_(Text!vars))
  <1> SUFFICES ASSUME PromptInv, [PromptNext]_prompt_vars, ~wide' PROVE [Text!Next]_(Text!vars)
    BY Zenon
  <1>1. CASE OpenPrompt("command", FALSE) \/ \E is_hex \in BOOLEAN : OpenPrompt("search", is_hex)
    BY <1>1, OpenText, Zenon DEF Text!Next
  <1>2. CASE PromptKey
    BY <1>2, KeyText, Zenon
  <1>3. CASE UNCHANGED prompt_vars
    <2>1. prompt' = prompt /\ line' = line /\ cursor' = cursor /\ half' = half
      BY <1>3, Zenon DEF prompt_vars
    <2>2. Position' = Position
      BY <2>1, Zenon DEF Position
    <2> QED BY <2>1, <2>2, SameText, Zenon
  <1> QED BY <1>1, <1>2, <1>3, Zenon DEF PromptNext

\* At first no text is open.
LEMMA InitText == PromptInit => Text!Init
  <1> SUFFICES ASSUME PromptInit PROVE Text!Init
    BY Zenon
  <1>1. prompt = "none" /\ line = <<>> /\ cursor = 0 /\ half = <<>> /\ Len(half) = 0
    BY EmptySeq, Zenon DEF PromptInit
  <1>2. Position = 0
    BY <1>1 DEF Position
  <1>3. SubSeq(line, 1, Position) = <<>> /\ SubSeq(line, Position + 1, Len(line)) = <<>>
    BY <1>1, <1>2, EmptyText, Zenon
  <1> QED BY <1>1, <1>3 DEF Text!Init

-----------------------------------------------------------------------------
(* Theorems.                                                               *)

\* Every event at the prompts keeps the inductive invariant.
THEOREM PromptInductive == PromptSpec => []PromptInv
  BY PromptInitInv, PromptNextInv, PTL DEF PromptSpec

\* The cursor of either prompt stays in its line and the line holds what its
\* prompt can hold, for lines and terminals of every size.
THEOREM PromptTypeCorrect == PromptSpec => []PromptTypeOK
  <1>1. PromptInv => PromptTypeOK
    BY Zenon DEF PromptInv
  <1> QED BY <1>1, PromptInductive, PTL

\* The byte that the second digit completes is always the one the first digit
\* put into the pattern (insert_half_literal).
THEOREM HalfStaysUnderCursor == PromptSpec => []HalfUnderCursor
  <1>1. PromptInv => HalfUnderCursor
    BY Zenon DEF PromptInv
  <1> QED BY <1>1, PromptInductive, PTL

\* Every key of either prompt implements one step of the line editor, until a
\* character of several bytes is typed into a command line.
THEOREM PromptImplementsLineEditor == PromptSpec => EditsLikeText
  BY PromptInductive, InitText, NextText, PTL DEF PromptSpec, EditsLikeText

-----------------------------------------------------------------------------
(* The prompts inside the modes that open them.                            *)

\* A key of Normal or Split mode opens a prompt or leaves the prompts alone,
\* and a key of a prompt is nothing else.
LEMMA NextIsPromptNext == [Next]_vars => [PromptNext]_prompt_vars
  <1> SUFFICES ASSUME [Next]_vars PROVE [PromptNext]_prompt_vars
    BY Zenon
  <1>1. CASE NormalKey \/ SplitMode \/ SplitCount \/ SplitOther
    BY <1>1, Zenon DEF NormalKey, SplitMode, SplitCount, SplitOther
  <1>2. CASE CommandMode
    BY <1>2, Zenon DEF CommandMode, PromptNext
  <1>3. CASE \E is_hex \in BOOLEAN : CollapseMode(is_hex) \/ SplitSearch(is_hex)
    BY <1>3, Zenon DEF CollapseMode, SplitSearch, PromptNext
  <1>4. CASE \E width \in SplitWidths : SplitWidthKey(width)
    BY <1>4, Zenon DEF SplitWidthKey
  <1>5. CASE PromptEvent
    BY <1>5, Zenon DEF PromptEvent, PromptNext
  <1>6. CASE Stopped \/ UNCHANGED vars
    BY <1>6, Zenon DEF Stopped, vars
  <1> QED BY <1>1, <1>2, <1>3, <1>4, <1>5, <1>6, Zenon DEF Next

\* The modes use the prompts only as module Prompt says.
THEOREM ModesImplementPrompt == Spec => PromptSpec
  <1>1. Init => PromptInit
    BY Zenon DEF Init
  <1> QED BY <1>1, NextIsPromptNext, PTL DEF Spec, PromptSpec

\* Whatever modes opened them, both prompts edit one line of text.
THEOREM ModesEditLikeText == Spec => EditsLikeText
  BY ModesImplementPrompt, PromptImplementsLineEditor, PTL

=============================================================================
