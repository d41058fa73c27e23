---------------------------- MODULE HistoryProofs ---------------------------
(***************************************************************************)
(* Proofs about the history, for all texts, selections and chunks and for  *)
(* every algebra of deltas with the laws of module History.                *)
(***************************************************************************)
EXTENDS History, SequenceTheorems, TLAPS

-----------------------------------------------------------------------------
(* Prefixes and stacks.                                                    *)

\* The first n bytes of a text.
LEMMA PrefixFacts ==
    ASSUME NEW t \in Seq(Byte), NEW n \in 0 .. Len(t)
    PROVE  /\ Prefix(t, n) \in Seq(Byte)
           /\ Len(Prefix(t, n)) = n
           /\ \A x \in 1 .. n : Prefix(t, n)[x] = t[x]
           /\ n = Len(t) => Prefix(t, n) = t
  <1>1. n \in Int /\ n >= 0 /\ Len(t) \in Nat
    BY LenProperties
  <1>2. \A x \in 1 .. n : t[x] \in Byte
    BY <1>1, ElementOfSeq
  <1>3. /\ Prefix(t, n) \in Seq(Byte)
        /\ Len(Prefix(t, n)) = IF 1 <= n THEN n - 1 + 1 ELSE 0
        /\ \A x \in 1 .. n - 1 + 1 : Prefix(t, n)[x] = t[1 + x - 1]
    BY <1>1, <1>2, SubSeqProperties DEF Prefix
  <1>4. n = Len(t) => Prefix(t, n) = t
    BY SubSeqFull, Zenon DEF Prefix
  <1> QED BY <1>1, <1>3, <1>4

\* A text begins with its own prefixes, and a longer one with those of its
\* first part.
LEMMA PrefixOfPrefix ==
    ASSUME NEW t \in Seq(Byte), NEW m \in 0 .. Len(t), NEW n \in 0 .. m
    PROVE  Prefix(Prefix(t, m), n) = Prefix(t, n)
  <1>1. Len(t) \in Nat
    BY LenProperties, Zenon
  <1>2. Prefix(t, m) \in Seq(Byte) /\ Len(Prefix(t, m)) = m
        /\ \A x \in 1 .. m : Prefix(t, m)[x] = t[x]
    BY PrefixFacts, Zenon
  <1>3. n \in 0 .. Len(t) /\ n \in 0 .. Len(Prefix(t, m))
    BY <1>1, <1>2
  <1>4. /\ Prefix(t, n) \in Seq(Byte) /\ Len(Prefix(t, n)) = n
        /\ \A x \in 1 .. n : Prefix(t, n)[x] = t[x]
    BY <1>3, PrefixFacts, Zenon
  <1>5. /\ Prefix(Prefix(t, m), n) \in Seq(Byte) /\ Len(Prefix(Prefix(t, m), n)) = n
        /\ \A x \in 1 .. n : Prefix(Prefix(t, m), n)[x] = Prefix(t, m)[x]
    BY <1>2, <1>3, PrefixFacts, Zenon
  <1>6. \A x \in 1 .. n : Prefix(Prefix(t, m), n)[x] = Prefix(t, n)[x]
    BY <1>2, <1>4, <1>5
  <1> QED BY <1>4, <1>5, <1>6, SeqEqual, Zenon

\* Appending to a text keeps its prefixes.
LEMMA PrefixOfConcat ==
    ASSUME NEW t \in Seq(Byte), NEW u \in Seq(Byte), NEW n \in 0 .. Len(t)
    PROVE  Prefix(t \o u, n) = Prefix(t, n)
  <1>1. Len(t) \in Nat /\ Len(u) \in Nat
    BY LenProperties, Zenon
  <1>2. /\ t \o u \in Seq(Byte) /\ Len(t \o u) = Len(t) + Len(u)
        /\ \A x \in 1 .. Len(t) + Len(u) :
             (t \o u)[x] = IF x <= Len(t) THEN t[x] ELSE u[x - Len(t)]
    BY ConcatProperties, Zenon
  <1>3. n \in 0 .. Len(t \o u)
    BY <1>1, <1>2
  <1>4. /\ Prefix(t, n) \in Seq(Byte) /\ Len(Prefix(t, n)) = n
        /\ \A x \in 1 .. n : Prefix(t, n)[x] = t[x]
    BY PrefixFacts, Zenon
  <1>5. /\ Prefix(t \o u, n) \in Seq(Byte) /\ Len(Prefix(t \o u, n)) = n
        /\ \A x \in 1 .. n : Prefix(t \o u, n)[x] = (t \o u)[x]
    BY <1>2, <1>3, PrefixFacts, Zenon
  <1>6. \A x \in 1 .. n : (t \o u)[x] = t[x]
    <2> TAKE x \in 1 .. n
    <2>1. x \in 1 .. Len(t) + Len(u) /\ x <= Len(t)
      BY <1>1
    <2> QED BY <1>2, <2>1, Zenon
  <1>7. \A x \in 1 .. n : Prefix(t \o u, n)[x] = Prefix(t, n)[x]
    BY <1>4, <1>5, <1>6, Zenon
  <1> QED BY <1>4, <1>5, <1>7, SeqEqual, Zenon

\* Vec::pop.
LEMMA PopFacts ==
    ASSUME NEW S, NEW s \in Seq(S), s # <<>>
    PROVE  /\ Pop(s) \in Seq(S)
           /\ Len(Pop(s)) = Len(s) - 1
           /\ \A x \in 1 .. Len(s) - 1 : Pop(s)[x] = s[x]
           /\ Top(s) \in S
           /\ Len(s) \in Nat \ {0}
  <1>1. Len(s) \in Nat \ {0}
    BY EmptySeq, Zenon
  <1>2. \A x \in 1 .. Len(s) - 1 : s[x] \in S
    BY <1>1, ElementOfSeq
  <1>3. /\ Pop(s) \in Seq(S)
        /\ Len(Pop(s)) = IF 1 <= Len(s) - 1 THEN Len(s) - 1 - 1 + 1 ELSE 0
        /\ \A x \in 1 .. Len(s) - 1 - 1 + 1 : Pop(s)[x] = s[1 + x - 1]
    BY <1>1, <1>2, SubSeqProperties DEF Pop
  <1>4. Top(s) \in S
    BY <1>1, ElementOfSeq DEF Top
  <1>5. Len(Pop(s)) = Len(s) - 1
    <2> DEFINE n == Len(s)
               m == Len(Pop(s))
    <2>1. n \in Nat \ {0} /\ m = IF 1 <= n - 1 THEN n - 1 - 1 + 1 ELSE 0
      BY <1>1, <1>3, Zenon
    <2>2. m = n - 1
      <3> HIDE DEF n, m
      <3> QED BY <2>1
    <2> QED BY <2>2, Zenon
  <1>6. \A x \in 1 .. Len(s) - 1 : Pop(s)[x] = s[x]
    <2> TAKE x \in 1 .. Len(s) - 1
    <2>1. x \in 1 .. Len(s) - 1 - 1 + 1 /\ 1 + x - 1 = x
      BY <1>1
    <2> QED BY <1>3, <2>1, Zenon
  <1> QED BY <1>1, <1>3, <1>4, <1>5, <1>6, Zenon

\* A delta does the same to two texts that agree on the bytes it looks at.
LEMMA SameEffect ==
    ASSUME NEW d \in Delta, NEW t \in Text, NEW u \in Text,
           Base(d) <= Len(t), Base(d) <= Len(u),
           Prefix(t, Base(d)) = Prefix(u, Base(d))
    PROVE  Apply(d, t) = Apply(d, u)
  BY ApplyLaw

\* A stack leads on from any text that agrees on what its top looks at.
LEMMA MoveLeads ==
    ASSUME NEW stack \in Seq(Action), NEW snaps \in Seq(Snapshots),
           NEW t \in Text, NEW u \in Text, Leads(stack, snaps, t),
           stack # <<>> => /\ Base(Top(stack).delta) <= Len(u)
                           /\ Prefix(t, Base(Top(stack).delta)) =
                                Prefix(u, Base(Top(stack).delta))
    PROVE  Leads(stack, snaps, u)
  <1>1. Len(stack) = Len(snaps) /\ Len(stack) \in Nat
    BY LenProperties, Zenon DEF Leads
  <1>2. ASSUME NEW j \in 1 .. Len(stack)
        PROVE  /\ Base(stack[j].delta) <= Len(From(stack, snaps, u, j))
               /\ Apply(stack[j].delta, From(stack, snaps, u, j)) = snaps[j].text
               /\ stack[j].sel = snaps[j].sel
    <2>1. CASE j # Len(stack)
      BY <2>1, Zenon DEF Leads, From
    <2>2. CASE j = Len(stack)
      <3>1. stack # <<>> /\ Top(stack) = stack[j] /\ stack[j].delta \in Delta
        <4>1. Len(stack) # 0 /\ stack # <<>>
          BY <2>2, <1>1, EmptySeq
        <4>2. stack[j] \in Action
          BY ElementOfSeq, Zenon
        <4> QED BY <4>1, <4>2, <2>2, Zenon DEF Top, Action
      <3>2. /\ Base(stack[j].delta) <= Len(t)
            /\ Apply(stack[j].delta, t) = snaps[j].text
            /\ stack[j].sel = snaps[j].sel
        BY <2>2, Zenon DEF Leads, From
      <3>3. Apply(stack[j].delta, t) = Apply(stack[j].delta, u)
        BY <3>1, <3>2, SameEffect, Zenon
      <3> QED BY <2>2, <3>1, <3>2, <3>3, Zenon DEF From
    <2> QED BY <2>1, <2>2, Zenon
  <1> QED BY <1>1, <1>2, Zenon DEF Leads

\* Pushing an action that leads to the text the stack led on from.
LEMMA PushLeads ==
    ASSUME NEW stack \in Seq(Action), NEW snaps \in Seq(Snapshots),
           NEW a \in Action, NEW snap \in Snapshots, NEW t \in Text,
           Leads(stack, snaps, snap.text),
           Base(a.delta) <= Len(t), Apply(a.delta, t) = snap.text, a.sel = snap.sel
    PROVE  /\ Leads(Append(stack, a), Append(snaps, snap), t)
           /\ Exact(stack, snaps, snap.text) /\ Base(a.delta) = Len(t) =>
                Exact(Append(stack, a), Append(snaps, snap), t)
  <1> DEFINE n == Len(stack)
             stack1 == Append(stack, a)
             snaps1 == Append(snaps, snap)
  <1>1. n \in Nat /\ Len(snaps) = n
    BY LenProperties, Zenon DEF Leads
  <1>2. /\ Len(stack1) = n + 1 /\ Len(snaps1) = n + 1
        /\ stack1[n + 1] = a /\ snaps1[n + 1] = snap
        /\ \A x \in 1 .. n : stack1[x] = stack[x] /\ snaps1[x] = snaps[x]
    BY <1>1, AppendProperties
  <1> HIDE DEF stack1, snaps1
  <1>3. /\ From(stack1, snaps1, t, n + 1) = t
        /\ \A j \in 1 .. n : From(stack1, snaps1, t, j) = From(stack, snaps, snap.text, j)
    <2>1. From(stack1, snaps1, t, n + 1) = t
      BY <1>2, Zenon DEF From
    <2>2. ASSUME NEW j \in 1 .. n
          PROVE  From(stack1, snaps1, t, j) = From(stack, snaps, snap.text, j)
      <3>1. CASE j = n
        BY <3>1, <1>1, <1>2 DEF From
      <3>2. CASE j # n
        <4>1. j + 1 \in 1 .. n /\ j # n + 1
          BY <3>2, <1>1
        <4> QED BY <4>1, <3>2, <1>2, Zenon DEF From
      <3> QED BY <3>1, <3>2, Zenon
    <2> QED BY <2>1, <2>2, Zenon
  <1>4. ASSUME NEW j \in 1 .. n + 1
        PROVE  /\ Base(stack1[j].delta) <= Len(From(stack1, snaps1, t, j))
               /\ Apply(stack1[j].delta, From(stack1, snaps1, t, j)) = snaps1[j].text
               /\ stack1[j].sel = snaps1[j].sel
    <2>1. CASE j = n + 1
      BY <2>1, <1>2, <1>3, Zenon
    <2>2. CASE j \in 1 .. n
      BY <2>2, <1>2, <1>3, Zenon DEF Leads
    <2> QED BY <2>1, <2>2, <1>1
  <1>5. Leads(stack1, snaps1, t)
    BY <1>2, <1>4, Zenon DEF Leads
  <1>6. ASSUME Exact(stack, snaps, snap.text), Base(a.delta) = Len(t)
        PROVE  Exact(stack1, snaps1, t)
    <2>1. \A j \in 1 .. n : Base(stack1[j].delta) = Len(From(stack1, snaps1, t, j))
      BY <1>2, <1>3, <1>6, Zenon DEF Exact
    <2>2. Base(stack1[n + 1].delta) = Len(From(stack1, snaps1, t, n + 1))
      BY <1>2, <1>3, <1>6, Zenon
    <2> QED BY <2>1, <2>2, <1>1, <1>2 DEF Exact
  <1> QED BY <1>5, <1>6, Zenon DEF stack1, snaps1

\* Popping an action: the stack leads on from where the action leads.
LEMMA PopLeads ==
    ASSUME NEW stack \in Seq(Action), NEW snaps \in Seq(Snapshots), stack # <<>>,
           NEW t \in Text, Leads(stack, snaps, t)
    PROVE  /\ snaps # <<>>
           /\ Base(Top(stack).delta) <= Len(t)
           /\ Apply(Top(stack).delta, t) = Top(snaps).text
           /\ Top(stack).sel = Top(snaps).sel
           /\ Leads(Pop(stack), Pop(snaps), Top(snaps).text)
           /\ Exact(stack, snaps, t) =>
                /\ Base(Top(stack).delta) = Len(t)
                /\ Exact(Pop(stack), Pop(snaps), Top(snaps).text)
  <1> DEFINE n == Len(stack)
             stack1 == Pop(stack)
             snaps1 == Pop(snaps)
  <1>1. n \in Nat \ {0} /\ Len(snaps) = n
    BY PopFacts, Zenon DEF Leads
  <1>2. snaps # <<>>
    BY <1>1, EmptySeq, Zenon
  <1>3. /\ Len(stack1) = n - 1 /\ Len(snaps1) = n - 1
        /\ \A x \in 1 .. n - 1 : stack1[x] = stack[x] /\ snaps1[x] = snaps[x]
    BY <1>1, <1>2, PopFacts, Zenon
  <1> HIDE DEF stack1, snaps1
  <1>4. \A j \in 1 .. n - 1 : From(stack1, snaps1, Top(snaps).text, j) = From(stack, snaps, t, j)
    <2> TAKE j \in 1 .. n - 1
    <2>1. CASE j = n - 1
      BY <2>1, <1>1, <1>3 DEF From, Top
    <2>2. CASE j # n - 1
      <3>1. j + 1 \in 1 .. n - 1 /\ j # n
        BY <2>2, <1>1
      <3> QED BY <3>1, <2>2, <1>3, Zenon DEF From
    <2> QED BY <2>1, <2>2, Zenon
  <1>5. \A j \in 1 .. n - 1 : j \in 1 .. n
    BY <1>1
  <1>6. Leads(stack1, snaps1, Top(snaps).text)
    BY <1>3, <1>4, <1>5, Zenon DEF Leads
  <1>7. Exact(stack, snaps, t) => Exact(stack1, snaps1, Top(snaps).text)
    BY <1>3, <1>4, <1>5, Zenon DEF Exact
  <1>8. /\ From(stack, snaps, t, n) = t /\ n \in 1 .. n
        /\ Top(stack) = stack[n] /\ Top(snaps) = snaps[n]
    BY <1>1 DEF From, Top
  <1>9. /\ Base(Top(stack).delta) <= Len(t)
        /\ Apply(Top(stack).delta, t) = Top(snaps).text
        /\ Top(stack).sel = Top(snaps).sel
    BY <1>8, Zenon DEF Leads
  <1>10. Exact(stack, snaps, t) => Base(Top(stack).delta) = Len(t)
    BY <1>8, Zenon DEF Exact
  <1> QED BY <1>2, <1>6, <1>7, <1>9, <1>10, Zenon DEF stack1, snaps1

\* An empty stack leads nowhere.
LEMMA EmptyLeads ==
    ASSUME NEW t
    PROVE  Leads(<<>>, <<>>, t) /\ Exact(<<>>, <<>>, t)
  BY EmptySeq DEF Leads, Exact

-----------------------------------------------------------------------------
(* The steps.                                                              *)

\* There is a session exactly while there is a partial action.
LEMMA SessionIff ==
    ASSUME TypeOK
    PROVE  /\ session = <<>> <=> partial = <<>>
           /\ partial = <<>> => Settled = data
           /\ partial # <<>> => /\ Settled = session[1].text
                                /\ session[1] \in Snapshots
                                /\ partial[1] \in Action
           /\ Settled \in Text
  <1> USE DEF TypeOK
  <1>1. session = <<>> <=> partial = <<>>
    BY EmptySeq, Zenon
  <1>2. ASSUME partial # <<>>
        PROVE  session[1] \in Snapshots /\ partial[1] \in Action
    <2>1. Len(partial) = 1 /\ Len(session) = 1
      BY <1>2, EmptySeq, LenProperties
    <2>2. 1 \in 1 .. Len(partial) /\ 1 \in 1 .. Len(session)
      BY <2>1
    <2>3. session[1] \in Snapshots
      BY <2>2, ElementOfSeq, Zenon
    <2>4. partial[1] \in Action
      BY <2>2, ElementOfSeq, Zenon
    <2> QED BY <2>3, <2>4, Zenon
  <1> QED BY <1>1, <1>2, Zenon DEF Settled, Snapshots

\* What the inverse of a delta does, for a delta that fits the text exactly
\* or is shorter.
LEMMA InverseFacts ==
    ASSUME NEW d \in Delta, NEW t \in Text, Base(d) <= Len(t)
    PROVE  /\ Apply(d, t) \in Text
           /\ Len(Apply(d, t)) = Target(d)
           /\ Prefix(t, Base(d)) \in Text
           /\ Len(Prefix(t, Base(d))) = Base(d)
           /\ Invert(d, t) \in Delta
           /\ Base(Invert(d, t)) = Target(d)
           /\ Target(Invert(d, t)) = Base(d)
           /\ Apply(Invert(d, t), Apply(d, t)) = Prefix(t, Base(d))
           /\ Base(d) = Len(t) => Prefix(t, Base(d)) = t
  <1>1. t \in Seq(Byte) /\ Len(t) \in Nat /\ Base(d) \in Nat
    BY TextAssumption, LengthAssumption, LenProperties, Zenon
  <1>2. Base(d) \in 0 .. Len(t)
    BY <1>1
  <1> QED BY <1>1, <1>2, PrefixFacts, ApplyLaw, InvertLaw, Zenon

\* Initially there is nothing to undo.
LEMMA InitEstablishes == Init => IndInv
  <1> SUFFICES ASSUME Init PROVE IndInv
    BY Zenon
  <1> USE DEF Init
  <1>1. /\ <<>> \in Seq(Action) /\ <<>> \in Seq(Snapshots) /\ Len(<<>>) = 0
    BY EmptySeq, Zenon
  <1>2. TypeOK
    <2>1. /\ partial \in Seq(Action) /\ Len(partial) <= 1 /\ undo \in Seq(Action)
          /\ redo \in Seq(Action) /\ Len(session) = Len(partial)
      BY <1>1
    <2>2. /\ session \in Seq(Snapshots) /\ past \in Seq(Snapshots)
          /\ future \in Seq(Snapshots) /\ Len(future) = Len(redo)
      BY <1>1, Zenon
    <2> QED BY <2>1, <2>2, Zenon DEF TypeOK
  <1>3. Leads(undo, past, Settled) /\ Leads(redo, future, Settled)
        /\ Exact(undo, past, Settled) /\ Exact(redo, future, Settled)
    BY EmptyLeads, Zenon
  <1>4. Nested
    BY <1>1 DEF Nested
  <1> QED BY <1>2, <1>3, <1>4, Zenon DEF IndInv, PartialOnlyInInsert, UndoRestores, Unspoilt,
                                 FailsOnlyAfterLoad

\* A complete edit: its inverse leads back to the data it was made on.
LEMMA PerformFinalKeeps ==
    ASSUME IndInv, NEW delta \in Delta, NEW new_sel \in Sels,
           NEW new_mode \in {"normal", "insert"}, PerformFinal(delta, new_sel, new_mode)
    PROVE  IndInv'
  <1> DEFINE a == [delta |-> Invert(delta, data), sel |-> selection]
             snap == [text |-> data, sel |-> selection]
  <1>0. /\ TypeOK /\ PartialOnlyInInsert /\ UndoRestores /\ (~stale => Unspoilt)
        /\ FailsOnlyAfterLoad
    BY Zenon DEF IndInv
  <1>1. /\ status = "ok" /\ mode = "normal" /\ Base(delta) = Len(data)
        /\ undo' = Append(undo, a) /\ redo' = <<>>
        /\ data' = Apply(delta, data) /\ selection' = new_sel /\ mode' = new_mode
        /\ past' = Append(past, snap) /\ future' = <<>>
        /\ partial' = partial /\ status' = status /\ session' = session /\ stale' = stale
    BY Zenon DEF PerformFinal
  <1>2. partial = <<>> /\ session = <<>> /\ Settled = data
    BY <1>0, <1>1, SessionIff, Zenon DEF PartialOnlyInInsert
  <1>3. Settled' = data' /\ partial' = <<>>
    BY <1>1, <1>2, Zenon DEF Settled
  <1>4. data \in Text /\ Base(delta) <= Len(data) /\ Len(data) \in Nat
    BY <1>0, <1>1, TextAssumption, LenProperties DEF TypeOK
  <1>5. /\ data' \in Text /\ Len(data') = Base(a.delta)
        /\ a.delta \in Delta /\ Apply(a.delta, data') = data
    BY <1>1, <1>4, InverseFacts
  <1>6. a \in Action /\ snap \in Snapshots /\ a.sel = snap.sel /\ snap.text = data
        /\ undo \in Seq(Action) /\ past \in Seq(Snapshots)
    BY <1>0, <1>4, <1>5, Zenon DEF TypeOK, Action, Snapshots
  <1>7. Base(a.delta) <= Len(data')
    BY <1>5, LengthAssumption
  <1>8. Leads(undo, past, data)
    BY <1>0, <1>2, Zenon DEF UndoRestores
  <1> HIDE DEF a, snap
  <1>9. /\ Leads(undo', past', data')
        /\ Exact(undo, past, data) => Exact(undo', past', data')
    BY <1>1, <1>5, <1>6, <1>7, <1>8, PushLeads, Zenon
  <1>10. TypeOK'
    <2>1. undo' \in Seq(Action) /\ past' \in Seq(Snapshots)
      BY <1>1, <1>6, AppendProperties, Zenon
    <2>2. redo' \in Seq(Action) /\ future' \in Seq(Snapshots) /\ Len(future') = Len(redo')
      BY <1>1, EmptySeq, Zenon
    <2> QED BY <1>0, <1>1, <1>5, <2>1, <2>2, Zenon DEF TypeOK
  <1>11. UndoRestores'
    BY <1>3, <1>9, Zenon DEF UndoRestores
  <1>12. Nested'
    BY <1>1, EmptySeq DEF Nested
  <1>13. ~stale' => Unspoilt'
    BY <1>0, <1>1, <1>2, <1>3, <1>9, EmptyLeads, Zenon DEF Unspoilt
  <1> QED BY <1>0, <1>1, <1>3, <1>10, <1>11, <1>12, <1>13, Zenon DEF IndInv, PartialOnlyInInsert,
                                                             FailsOnlyAfterLoad

\* A panic leaves the history as it was.
LEMMA FailureKeeps ==
    ASSUME IndInv, stale, status' = "failed",
           UNCHANGED <<data, selection, mode, partial, undo, redo, session, past, future, stale>>
    PROVE  IndInv'
  <1>1. TypeOK'
    BY Zenon DEF IndInv, TypeOK
  <1>2. UndoRestores' /\ Nested' /\ stale'
    BY Zenon DEF IndInv, UndoRestores, Nested, Settled, Leads, From
  <1> QED BY <1>1, <1>2, Zenon DEF IndInv, PartialOnlyInInsert, FailsOnlyAfterLoad

\* A key of Insert mode that opens the partial action.
LEMMA FirstKeyKeeps ==
    ASSUME IndInv, NEW delta \in Delta, NEW new_sel \in Sels,
           PerformPartial(delta, new_sel), partial = <<>>
    PROVE  IndInv'
  <1> DEFINE a == [delta |-> Invert(delta, data), sel |-> selection]
             snap == [text |-> data, sel |-> selection]
  <1>0. /\ TypeOK /\ UndoRestores /\ Nested /\ (~stale => Unspoilt) /\ FailsOnlyAfterLoad
    BY Zenon DEF IndInv
  <1>1. /\ status = "ok" /\ mode = "insert" /\ Base(delta) = Len(data)
        /\ partial' = <<a>> /\ data' = Apply(delta, data) /\ selection' = new_sel
        /\ session' = <<snap>> /\ mode' = mode /\ undo' = undo /\ redo' = redo
        /\ past' = past /\ future' = future /\ status' = status /\ stale' = stale
    BY Zenon DEF PerformPartial, Replaced
  <1>2. session = <<>> /\ Settled = data
    BY <1>0, SessionIff, Zenon
  <1>3. Settled' = data
    BY <1>1, Zenon DEF Settled
  <1>4. data \in Text /\ Base(delta) <= Len(data) /\ Len(data) \in Nat
    BY <1>0, <1>1, TextAssumption, LenProperties DEF TypeOK
  <1>5. /\ data' \in Text /\ Len(data') = Base(a.delta)
        /\ a.delta \in Delta /\ Apply(a.delta, data') = data
    BY <1>1, <1>4, InverseFacts
  <1>6. a \in Action /\ snap \in Snapshots /\ a.sel = snap.sel /\ snap.text = data
    BY <1>0, <1>4, <1>5, Zenon DEF TypeOK, Action, Snapshots
  <1>7. Base(a.delta) <= Len(data')
    BY <1>5, LengthAssumption
  <1> HIDE DEF a, snap
  <1>8. partial'[1] = a /\ session'[1] = snap
    BY <1>1, Zenon
  <1>9. TypeOK'
    <2>1. <<a>> \in Seq(Action) /\ Len(<<a>>) = 1 /\ <<snap>> \in Seq(Snapshots)
          /\ Len(<<snap>>) = 1
      BY <1>6
    <2> QED BY <1>0, <1>1, <1>5, <2>1 DEF TypeOK
  <1>10. UndoRestores'
    BY <1>0, <1>1, <1>2, <1>3, <1>5, <1>6, <1>7, <1>8, Zenon DEF UndoRestores
  <1>11. Nested'
    BY <1>0, <1>1, Zenon DEF Nested
  <1>12. ~stale' => Unspoilt'
    BY <1>0, <1>1, <1>2, <1>3, <1>5, <1>8, Zenon DEF Unspoilt
  <1> QED BY <1>0, <1>1, <1>9, <1>10, <1>11, <1>12, Zenon DEF IndInv, PartialOnlyInInsert,
                                                      FailsOnlyAfterLoad

\* A later key of Insert mode: the inverse of this key chained with the
\* partial action leads back to the start of the session.
LEMMA NextKeyKeeps ==
    ASSUME IndInv, NEW delta \in Delta, NEW new_sel \in Sels,
           PerformPartial(delta, new_sel), partial # <<>>,
           Base(partial[1].delta) = Len(data)
    PROVE  IndInv'
  <1> DEFINE inv == Invert(delta, data)
             old == partial[1].delta
             a == [delta |-> Chain(inv, data, old), sel |-> partial[1].sel]
  <1>0. /\ TypeOK /\ UndoRestores /\ Nested /\ (~stale => Unspoilt) /\ FailsOnlyAfterLoad
    BY Zenon DEF IndInv
  <1>1. /\ status = "ok" /\ mode = "insert" /\ Base(delta) = Len(data)
        /\ partial' = <<a>> /\ data' = Apply(delta, data) /\ selection' = new_sel
        /\ session' = session /\ mode' = mode /\ undo' = undo /\ redo' = redo
        /\ past' = past /\ future' = future /\ status' = status /\ stale' = stale
    BY Zenon DEF PerformPartial, Replaced
  <1>2. /\ session # <<>> /\ Settled = session[1].text
        /\ partial[1] \in Action /\ session[1] \in Snapshots
    BY <1>0, SessionIff, Zenon
  <1>3. Settled' = Settled
    BY <1>1, <1>2, Zenon DEF Settled
  <1>4. data \in Text /\ Base(delta) <= Len(data) /\ Len(data) \in Nat
    BY <1>0, <1>1, TextAssumption, LenProperties DEF TypeOK
  <1>5. /\ data' \in Text /\ Len(data') = Base(inv) /\ Target(inv) = Base(delta)
        /\ inv \in Delta /\ Apply(inv, data') = data
    BY <1>1, <1>4, InverseFacts
  <1>6. old \in Delta /\ Base(old) = Target(inv) /\ partial[1].sel \in Sels
    BY <1>1, <1>2, <1>5, Zenon DEF Action
  <1>7. /\ a.delta \in Delta /\ Base(a.delta) = Base(inv)
        /\ Apply(a.delta, data') = Apply(old, data)
    <2>1. /\ Chain(inv, Apply(inv, data'), old) \in Delta
          /\ Base(Chain(inv, Apply(inv, data'), old)) = Base(inv)
          /\ Apply(Chain(inv, Apply(inv, data'), old), data') = Apply(old, Apply(inv, data'))
      <3> HIDE DEF inv, old
      <3> QED BY <1>5, <1>6, ChainLaw, Zenon
    <2> QED BY <1>5, <2>1, Zenon
  <1>8. Apply(old, data) = session[1].text /\ partial[1].sel = session[1].sel
    BY <1>0, Zenon DEF UndoRestores
  <1>9. a \in Action /\ a.sel = session[1].sel
    BY <1>6, <1>7, <1>8, Zenon DEF Action
  <1>10. Base(a.delta) = Len(data') /\ Base(a.delta) <= Len(data')
    BY <1>5, <1>7, LengthAssumption
  <1> HIDE DEF a, inv, old
  <1>11. partial'[1] = a /\ session'[1] = session[1]
    BY <1>1, Zenon
  <1>12. TypeOK'
    <2>1. <<a>> \in Seq(Action) /\ Len(<<a>>) = 1
      BY <1>9
    <2>2. Len(partial) = 1
      BY <1>0, EmptySeq, LenProperties DEF TypeOK
    <2> QED BY <1>0, <1>1, <1>5, <2>1, <2>2, Zenon DEF TypeOK
  <1>13. UndoRestores'
    BY <1>0, <1>1, <1>3, <1>7, <1>8, <1>9, <1>10, <1>11, Zenon DEF UndoRestores
  <1>14. Nested'
    BY <1>0, <1>1, Zenon DEF Nested
  <1>15. ~stale' => Unspoilt'
    BY <1>0, <1>1, <1>3, <1>10, <1>11, Zenon DEF Unspoilt
  <1> QED BY <1>0, <1>1, <1>12, <1>13, <1>14, <1>15, Zenon DEF IndInv, PartialOnlyInInsert,
                                                       FailsOnlyAfterLoad

\* Every key of Insert mode; one typed after a load may fail.
LEMMA PerformPartialKeeps ==
    ASSUME IndInv, NEW delta \in Delta, NEW new_sel \in Sels, PerformPartial(delta, new_sel)
    PROVE  IndInv'
  <1>1. CASE partial = <<>>
    BY <1>1, FirstKeyKeeps, Zenon
  <1>2. CASE partial # <<>> /\ Base(partial[1].delta) = Len(data)
    BY <1>2, NextKeyKeeps, Zenon
  <1>3. CASE partial # <<>> /\ Base(partial[1].delta) # Len(data)
    <2>1. stale
      BY <1>3, Zenon DEF IndInv, Unspoilt, TypeOK
    <2>2. /\ status' = "failed"
          /\ UNCHANGED <<data, selection, mode, partial, undo, redo, session, past, future, stale>>
      BY <1>3, Zenon DEF PerformPartial, Replaced
    <2> QED BY <2>1, <2>2, FailureKeeps, Zenon
  <1> QED BY <1>1, <1>2, <1>3, Zenon

\* Entering Insert mode and moving the selection touch neither data nor
\* history.
LEMMA SelectKeeps ==
    ASSUME IndInv, selection' \in Sels, mode' = mode \/ mode' = "insert",
           UNCHANGED <<data, partial, undo, redo, status, session, past, future, stale>>
    PROVE  IndInv'
  <1>1. TypeOK'
    BY Zenon DEF IndInv, TypeOK
  <1>2. /\ UndoRestores' /\ Nested' /\ (~stale' => Unspoilt') /\ FailsOnlyAfterLoad'
    BY DEF IndInv, UndoRestores, Nested, Settled, Leads, From, Unspoilt, Exact,
           FailsOnlyAfterLoad
  <1>3. PartialOnlyInInsert'
    BY Zenon DEF IndInv, PartialOnlyInInsert
  <1> QED BY <1>1, <1>2, <1>3, Zenon DEF IndInv

\* Leaving Insert mode: the partial action becomes one action of undo.
LEMMA ExitKeeps ==
    ASSUME IndInv, Exit
    PROVE  IndInv'
  <1>0. /\ TypeOK /\ UndoRestores /\ Nested /\ (~stale => Unspoilt) /\ FailsOnlyAfterLoad
    BY Zenon DEF IndInv
  <1>1. /\ status = "ok" /\ mode' = "normal" /\ partial' = <<>> /\ session' = <<>>
        /\ data' = data /\ selection' = selection /\ status' = status /\ stale' = stale
    BY Zenon DEF Exit, CommitPartial
  <1>2. Settled' = data /\ data \in Text /\ <<>> \in Seq(Action) /\ <<>> \in Seq(Snapshots)
        /\ Len(<<>>) = 0
    BY <1>0, <1>1, EmptySeq, Zenon DEF Settled, TypeOK
  <1>3. CASE partial = <<>>
    <2>1. undo' = undo /\ redo' = redo /\ past' = past /\ future' = future
      BY <1>3, Zenon DEF Exit, CommitPartial
    <2>2. Settled = data
      BY <1>0, <1>3, SessionIff, Zenon
    <2>3. TypeOK'
      BY <1>0, <1>1, <1>2, <2>1, SMTT(30) DEF TypeOK
    <2>4. UndoRestores' /\ Nested' /\ (~stale' => Unspoilt')
      BY <1>0, <1>1, <1>2, <2>1, <2>2, Zenon DEF UndoRestores, Nested, Unspoilt
    <2> QED BY <1>0, <1>1, <2>3, <2>4, Zenon DEF IndInv, PartialOnlyInInsert, FailsOnlyAfterLoad
  <1>4. CASE partial # <<>>
    <2> DEFINE a == partial[1]
               snap == session[1]
    <2>1. /\ undo' = Append(undo, a) /\ past' = Append(past, snap)
          /\ redo' = <<>> /\ future' = <<>>
      BY <1>4, Zenon DEF Exit, CommitPartial
    <2>2. a \in Action /\ snap \in Snapshots /\ Settled = snap.text
      BY <1>0, <1>4, SessionIff, Zenon
    <2>3. /\ Leads(undo, past, snap.text) /\ Base(a.delta) <= Len(data)
          /\ Apply(a.delta, data) = snap.text /\ a.sel = snap.sel
      BY <1>0, <1>4, <2>2, Zenon DEF UndoRestores
    <2>4. undo \in Seq(Action) /\ past \in Seq(Snapshots)
      BY <1>0, Zenon DEF TypeOK
    <2>5. ~stale => Exact(undo, past, snap.text) /\ Base(a.delta) = Len(data)
      BY <1>0, <1>4, <2>2, Zenon DEF Unspoilt
    <2> HIDE DEF a, snap
    <2>6. /\ Leads(undo', past', data)
          /\ ~stale => Exact(undo', past', data)
      BY <1>2, <2>1, <2>2, <2>3, <2>4, <2>5, PushLeads, Zenon
    <2>7. TypeOK'
      <3>1. undo' \in Seq(Action) /\ past' \in Seq(Snapshots)
        BY <2>1, <2>2, <2>4, AppendProperties, Zenon
      <3> QED BY <1>0, <1>1, <1>2, <2>1, <3>1 DEF TypeOK
    <2>8. UndoRestores'
      BY <1>1, <1>2, <2>6, Zenon DEF UndoRestores
    <2>9. Nested'
      BY <1>2, <2>1 DEF Nested
    <2>10. ~stale' => Unspoilt'
      BY <1>1, <1>2, <2>1, <2>6, EmptyLeads, Zenon DEF Unspoilt
    <2> QED BY <1>0, <1>1, <2>7, <2>8, <2>9, <2>10, Zenon DEF IndInv, PartialOnlyInInsert,
                                                      FailsOnlyAfterLoad
  <1> QED BY <1>3, <1>4, Zenon

\* A chunk loaded behind the history's back: every action only looks at
\* bytes that stay what they were.
LEMMA LoadKeeps ==
    ASSUME IndInv, NEW chunk \in Chunks, LoadNextChunk(chunk)
    PROVE  IndInv'
  <1>0. /\ TypeOK /\ UndoRestores /\ Nested /\ (~stale => Unspoilt) /\ FailsOnlyAfterLoad
        /\ PartialOnlyInInsert
    BY Zenon DEF IndInv
  <1>1. /\ status = "ok" /\ data' = data \o chunk /\ data' \in Text
        /\ selection' = selection /\ mode' = mode /\ partial' = partial /\ undo' = undo
        /\ redo' = redo /\ status' = status /\ session' = session /\ past' = past
        /\ future' = future
    BY Zenon DEF LoadNextChunk
  <1>2. stale' = (stale \/ undo # <<>> \/ redo # <<>> \/ partial # <<>>)
    BY Zenon DEF LoadNextChunk
  <1>3. data \in Text /\ data \in Seq(Byte) /\ chunk \in Seq(Byte) /\ Len(data) \in Nat
        /\ Len(data') \in Nat /\ Len(data) <= Len(data')
    <2>1. data \in Text /\ data \in Seq(Byte) /\ chunk \in Seq(Byte)
      BY <1>0, TextAssumption, Zenon DEF TypeOK
    <2> QED BY <1>1, <2>1, ConcatProperties, LenProperties
  <1>4. ASSUME NEW d \in Delta, Base(d) <= Len(data)
        PROVE  /\ Base(d) <= Len(data')
               /\ Prefix(data, Base(d)) = Prefix(data', Base(d))
    <2>1. Base(d) \in 0 .. Len(data) /\ Base(d) <= Len(data')
      BY <1>3, <1>4, LengthAssumption
    <2> QED BY <1>1, <1>3, <2>1, PrefixOfConcat, Zenon
  <1>5. undo \in Seq(Action) /\ past \in Seq(Snapshots)
    BY <1>0, Zenon DEF TypeOK
  <1>6. Leads(undo, past, Settled')
    <2>1. CASE session # <<>>
      BY <1>0, <1>1, <2>1, Zenon DEF Settled, UndoRestores
    <2>2. CASE session = <<>>
      <3>1. Settled = data /\ Settled' = data' /\ Leads(undo, past, data)
        BY <1>0, <1>1, <2>2, Zenon DEF Settled, UndoRestores
      <3>2. undo # <<>> => Top(undo).delta \in Delta /\ Base(Top(undo).delta) <= Len(data)
        <4> SUFFICES ASSUME undo # <<>>
                     PROVE  /\ Top(undo).delta \in Delta
                            /\ Base(Top(undo).delta) <= Len(data)
          BY Zenon
        <4>1. Top(undo) \in Action
          BY <1>5, PopFacts, Zenon
        <4>2. Base(Top(undo).delta) <= Len(data)
          BY <1>3, <1>5, <3>1, PopLeads, Zenon
        <4> QED BY <4>1, <4>2, Zenon DEF Action
      <3>3. undo # <<>> => /\ Base(Top(undo).delta) <= Len(data')
                           /\ Prefix(data, Base(Top(undo).delta)) =
                                Prefix(data', Base(Top(undo).delta))
        BY <3>2, <1>4, Zenon
      <3> QED BY <1>1, <1>3, <1>5, <3>1, <3>3, MoveLeads, Zenon
    <2> QED BY <2>1, <2>2, Zenon
  <1>7. partial # <<>> =>
          /\ Base(partial[1].delta) <= Len(data')
          /\ Apply(partial[1].delta, data') = session[1].text
          /\ partial[1].sel = session[1].sel
    <2> SUFFICES ASSUME partial # <<>>
                 PROVE  /\ Base(partial[1].delta) <= Len(data')
                        /\ Apply(partial[1].delta, data') = session[1].text
                        /\ partial[1].sel = session[1].sel
      BY Zenon
    <2>1. partial[1].delta \in Delta
      BY <1>0, SessionIff, Zenon DEF Action
    <2>2. /\ Base(partial[1].delta) <= Len(data)
          /\ Apply(partial[1].delta, data) = session[1].text
          /\ partial[1].sel = session[1].sel
      BY <1>0, Zenon DEF UndoRestores
    <2>3. Apply(partial[1].delta, data) = Apply(partial[1].delta, data')
      BY <1>1, <1>3, <1>4, <2>1, <2>2, SameEffect, Zenon
    <2> QED BY <1>4, <2>1, <2>2, <2>3, Zenon
  <1>8. UndoRestores'
    BY <1>1, <1>6, <1>7, Zenon DEF UndoRestores
  <1>9. TypeOK'
    <2>1. stale' \in BOOLEAN
      BY <1>2, Zenon
    <2> QED BY <1>0, <1>1, <2>1, Zenon DEF TypeOK
  <1>10. Nested'
    BY <1>0, <1>1, Zenon DEF Nested
  <1>11. ~stale' => Unspoilt'
    <2> SUFFICES ASSUME ~stale' PROVE Unspoilt'
      BY Zenon
    <2>1. undo = <<>> /\ redo = <<>> /\ partial = <<>>
      BY <1>2, Zenon
    <2>2. past = <<>> /\ future = <<>>
      BY <1>0, <1>6, <2>1, EmptySeq, Zenon DEF TypeOK, Leads
    <2> QED BY <1>1, <2>1, <2>2, EmptyLeads, Zenon DEF Unspoilt
  <1> QED BY <1>0, <1>1, <1>8, <1>9, <1>10, <1>11, Zenon DEF IndInv, PartialOnlyInInsert,
                                                     FailsOnlyAfterLoad

\* Undo.
LEMMA PerformUndoKeeps ==
    ASSUME IndInv, PerformUndo
    PROVE  IndInv'
  <1> DEFINE action == Top(undo)
             a == Inverted(action)
             snap == Undone(action)
  <1>0. /\ TypeOK /\ UndoRestores /\ Nested /\ (~stale => Unspoilt) /\ FailsOnlyAfterLoad
        /\ PartialOnlyInInsert
    BY Zenon DEF IndInv
  <1>1. status = "ok" /\ mode = "normal" /\ undo # <<>>
    BY Zenon DEF PerformUndo
  <1>2. partial = <<>> /\ session = <<>> /\ Settled = data /\ data \in Text
        /\ undo \in Seq(Action) /\ past \in Seq(Snapshots) /\ selection \in Sels
        /\ redo \in Seq(Action) /\ future \in Seq(Snapshots)
    BY <1>0, <1>1, SessionIff, Zenon DEF PartialOnlyInInsert, TypeOK
  <1>3. action \in Action /\ action.delta \in Delta /\ action.sel \in Sels
    <2>1. action \in Action
      BY <1>1, <1>2, PopFacts, Zenon
    <2> QED BY <2>1, Zenon DEF Action
  <1>4. Leads(undo, past, data)
    BY <1>0, <1>2, Zenon DEF UndoRestores
  <1>5. /\ past # <<>> /\ Base(action.delta) <= Len(data)
        /\ Apply(action.delta, data) = Top(past).text
        /\ Leads(Pop(undo), Pop(past), Top(past).text)
        /\ Exact(undo, past, data) => /\ Base(action.delta) = Len(data)
                                      /\ Exact(Pop(undo), Pop(past), Top(past).text)
    BY <1>1, <1>2, <1>4, PopLeads
  <1>6. ~stale => /\ Base(action.delta) = Len(data)
                  /\ Exact(Pop(undo), Pop(past), Top(past).text)
                  /\ Leads(redo, future, data) /\ Exact(redo, future, data)
    BY <1>0, <1>2, <1>5, Zenon DEF Unspoilt
  <1>7. CASE Misfit(action.delta)
    BY <1>6, <1>7, FailureKeeps, Zenon DEF Misfit, IndInv, TypeOK
  <1>8. CASE ~Misfit(action.delta)
    <2>1. /\ undo' = Pop(undo) /\ redo' = Append(redo, a)
          /\ past' = Pop(past) /\ future' = Append(future, snap)
          /\ data' = Apply(action.delta, data) /\ selection' = action.sel
          /\ mode' = mode /\ partial' = partial /\ status' = status /\ session' = session
          /\ stale' = stale
      BY <1>8, Zenon DEF PerformUndo, Exchange
    <2>2. Settled' = data'
      BY <1>2, <2>1, Zenon DEF Settled
    <2>3. /\ data' \in Text /\ a.delta \in Delta
          /\ Base(a.delta) = Target(action.delta) /\ Target(a.delta) = Base(action.delta)
          /\ Base(a.delta) = Len(data')
          /\ Apply(a.delta, data') = snap.text /\ snap.text \in Text
          /\ Base(action.delta) = Len(data) => snap.text = data
      <3>1. /\ a.delta = Invert(action.delta, data)
            /\ snap.text = Prefix(data, Base(action.delta))
        BY Zenon DEF Inverted, Undone
      <3>2. data' = Apply(action.delta, data) /\ Base(action.delta) <= Len(data)
        BY <1>5, <2>1, Zenon
      <3> HIDE DEF action, a, snap
      <3>3. /\ Apply(action.delta, data) \in Text
            /\ Len(Apply(action.delta, data)) = Target(action.delta)
            /\ Invert(action.delta, data) \in Delta
            /\ Base(Invert(action.delta, data)) = Target(action.delta)
            /\ Target(Invert(action.delta, data)) = Base(action.delta)
        BY <1>2, <1>3, <3>2, InverseFacts, Zenon
      <3>4. /\ Prefix(data, Base(action.delta)) \in Text
            /\ Len(Prefix(data, Base(action.delta))) = Base(action.delta)
            /\ Apply(Invert(action.delta, data), Apply(action.delta, data))
                  = Prefix(data, Base(action.delta))
            /\ Base(action.delta) = Len(data) => Prefix(data, Base(action.delta)) = data
        BY <1>2, <1>3, <3>2, InverseFacts, Zenon
      <3> QED BY <3>1, <3>2, <3>3, <3>4, Zenon
    <2>4. a \in Action /\ snap \in Snapshots /\ a.sel = snap.sel
      BY <1>2, <2>3, Zenon DEF Inverted, Undone, Action, Snapshots
    <2>5. /\ Base(a.delta) <= Len(data')
          /\ redo # <<>> => Base(action.delta) <= Base(Top(redo).delta)
      <3>1. Base(a.delta) \in Nat
        BY <2>3, LengthAssumption, Zenon
      <3>2. redo # <<>> => Base(action.delta) <= Base(Top(redo).delta)
        BY <1>0, <1>1, Zenon DEF Nested
      <3> HIDE DEF action, a, snap
      <3>3. Base(a.delta) = Len(data')
        BY <2>3, Zenon
      <3>4. Base(a.delta) <= Base(a.delta)
        BY <3>1, SMTT(30)
      <3> QED BY <3>2, <3>3, <3>4, Zenon
    <2> HIDE DEF action, a, snap
    <2>6. TypeOK'
      <3>1. undo' \in Seq(Action) /\ past' \in Seq(Snapshots)
        BY <1>1, <1>2, <1>5, <2>1, PopFacts, ZenonT(30)
      <3>2. /\ redo' \in Seq(Action) /\ future' \in Seq(Snapshots)
            /\ Len(redo') = Len(redo) + 1 /\ Len(future') = Len(future) + 1
        BY <1>2, <2>1, <2>4, AppendProperties, Zenon
      <3>3. Len(future') = Len(redo')
        BY <1>0, <3>2, Zenon DEF TypeOK
      <3> QED BY <1>0, <1>3, <2>1, <2>3, <3>1, <3>2, <3>3, Zenon DEF TypeOK
    <2>7. UndoRestores'
      BY <1>2, <1>5, <2>1, <2>2, Zenon DEF UndoRestores
    <2>8. ~stale' => Unspoilt'
      <3> SUFFICES ASSUME ~stale PROVE Unspoilt'
        BY <2>1, Zenon
      <3>1. snap.text = data
        BY <1>6, <2>3, Zenon
      <3>2. Leads(redo, future, snap.text) /\ Exact(redo, future, snap.text)
        BY <1>6, <3>1, Zenon
      <3>3. Leads(redo', future', data') /\ Exact(redo', future', data')
        BY <1>2, <2>1, <2>3, <2>4, <2>5, <3>2, PushLeads, Zenon
      <3> QED BY <1>2, <1>5, <1>6, <2>1, <2>2, <3>3, Zenon DEF Unspoilt
    <2>9. Nested'
      <3>1. /\ Len(redo) \in Nat /\ Len(redo') = Len(redo) + 1 /\ redo'[Len(redo) + 1] = a
            /\ \A j \in 1 .. Len(redo) : redo'[j] = redo[j]
        <4>1. Len(redo) \in Nat
          BY <1>2, LenProperties, Zenon
        <4>2. redo' = Append(redo, a) /\ redo \in Seq(Action) /\ a \in Action
          BY <1>2, <2>1, <2>4, Zenon
        <4> QED BY <4>1, <4>2, AppendProperties
      <3>2. Top(redo') = a
        BY <3>1, Zenon DEF Top
      <3>3. undo' # <<>> => Base(Top(undo').delta) <= Base(a.delta)
        <4> SUFFICES ASSUME undo' # <<>> PROVE Base(Top(undo').delta) <= Len(data')
          BY <2>3, Zenon
        <4>1. undo' \in Seq(Action) /\ past' \in Seq(Snapshots) /\ Leads(undo', past', data')
          BY <1>5, <2>1, <2>6, Zenon DEF TypeOK
        <4> QED BY <2>3, <4>1, PopLeads, Zenon
      <3>4. ASSUME NEW j \in 1 .. Len(redo)
            PROVE  Target(redo'[j + 1].delta) <= Base(redo'[j].delta)
        <4>1. CASE j = Len(redo)
          <5>1. redo # <<>> /\ Top(redo) = redo[j]
            BY <3>1, <4>1, EmptySeq, SMTT(30) DEF Top
          <5>2. Base(action.delta) <= Base(redo[j].delta)
            BY <2>5, <5>1, Zenon
          <5>3. redo'[j + 1] = a /\ redo'[j] = redo[j]
            BY <3>1, <4>1, Zenon
          <5> QED BY <5>2, <5>3, <2>3, Zenon
        <4>2. CASE j # Len(redo)
          <5>1. j \in 1 .. Len(redo) - 1 /\ j + 1 \in 1 .. Len(redo)
            BY <3>1, <4>2
          <5>2. Target(redo[j + 1].delta) <= Base(redo[j].delta)
            BY <1>0, <5>1, Zenon DEF Nested
          <5> QED BY <3>1, <5>1, <5>2, Zenon
        <4> QED BY <4>1, <4>2, Zenon
      <3>5. Len(redo') - 1 = Len(redo)
        BY <3>1
      <3> QED BY <3>2, <3>3, <3>4, <3>5, Zenon DEF Nested
    <2> QED BY <1>0, <2>1, <2>6, <2>7, <2>8, <2>9, Zenon DEF IndInv, PartialOnlyInInsert,
                                                     FailsOnlyAfterLoad
  <1> QED BY <1>7, <1>8, Zenon

\* Redo: the bytes the undone action needs are there, and undo leads back
\* from them.
LEMMA PerformRedoKeeps ==
    ASSUME IndInv, PerformRedo
    PROVE  IndInv'
  <1> DEFINE action == Top(redo)
             a == Inverted(action)
             snap == Undone(action)
  <1>0. /\ TypeOK /\ UndoRestores /\ Nested /\ (~stale => Unspoilt) /\ FailsOnlyAfterLoad
        /\ PartialOnlyInInsert
    BY Zenon DEF IndInv
  <1>1. status = "ok" /\ mode = "normal" /\ redo # <<>>
    BY Zenon DEF PerformRedo
  <1>2. partial = <<>> /\ session = <<>> /\ Settled = data /\ data \in Text
        /\ undo \in Seq(Action) /\ past \in Seq(Snapshots) /\ selection \in Sels
        /\ redo \in Seq(Action) /\ future \in Seq(Snapshots) /\ Len(future) = Len(redo)
    BY <1>0, <1>1, SessionIff, Zenon DEF PartialOnlyInInsert, TypeOK
  <1>3. action \in Action /\ action.delta \in Delta /\ action.sel \in Sels
    <2>1. action \in Action
      BY <1>1, <1>2, PopFacts, Zenon
    <2> QED BY <2>1, Zenon DEF Action
  <1>4. Leads(undo, past, data)
    BY <1>0, <1>2, Zenon DEF UndoRestores
  <1>5. ~stale => /\ Leads(redo, future, data) /\ Exact(redo, future, data)
                  /\ Exact(undo, past, data)
    BY <1>0, <1>2, Zenon DEF Unspoilt
  <1>6. ~stale => /\ Base(action.delta) = Len(data)
                  /\ Apply(action.delta, data) = Top(future).text
                  /\ Leads(Pop(redo), Pop(future), Top(future).text)
                  /\ Exact(Pop(redo), Pop(future), Top(future).text)
    BY <1>1, <1>2, <1>5, PopLeads, Zenon
  <1>7. CASE Misfit(action.delta)
    BY <1>6, <1>7, FailureKeeps, Zenon DEF Misfit, IndInv, TypeOK
  <1>8. CASE ~Misfit(action.delta)
    <2>1. /\ redo' = Pop(redo) /\ undo' = Append(undo, a)
          /\ future' = Pop(future) /\ past' = Append(past, snap)
          /\ data' = Apply(action.delta, data) /\ selection' = action.sel
          /\ mode' = mode /\ partial' = partial /\ status' = status /\ session' = session
          /\ stale' = stale /\ Base(action.delta) <= Len(data)
      BY <1>8, Zenon DEF PerformRedo, Exchange, Fits
    <2>2. Settled' = data'
      BY <1>2, <2>1, Zenon DEF Settled
    <2>3. /\ data' \in Text /\ a.delta \in Delta
          /\ Base(a.delta) = Target(action.delta) /\ Base(a.delta) = Len(data')
          /\ Apply(a.delta, data') = snap.text /\ snap.text \in Text
          /\ snap.text = Prefix(data, Base(action.delta))
          /\ Len(snap.text) = Base(action.delta)
          /\ Base(action.delta) = Len(data) => snap.text = data
      <3>1. /\ a.delta = Invert(action.delta, data)
            /\ snap.text = Prefix(data, Base(action.delta))
        BY Zenon DEF Inverted, Undone
      <3>2. data' = Apply(action.delta, data) /\ Base(action.delta) <= Len(data)
        BY <2>1, Zenon
      <3> HIDE DEF action, a, snap
      <3>3. /\ Apply(action.delta, data) \in Text
            /\ Len(Apply(action.delta, data)) = Target(action.delta)
            /\ Invert(action.delta, data) \in Delta
            /\ Base(Invert(action.delta, data)) = Target(action.delta)
            /\ Target(Invert(action.delta, data)) = Base(action.delta)
        BY <1>2, <1>3, <3>2, InverseFacts, Zenon
      <3>4. /\ Prefix(data, Base(action.delta)) \in Text
            /\ Len(Prefix(data, Base(action.delta))) = Base(action.delta)
            /\ Apply(Invert(action.delta, data), Apply(action.delta, data))
                  = Prefix(data, Base(action.delta))
            /\ Base(action.delta) = Len(data) => Prefix(data, Base(action.delta)) = data
        BY <1>2, <1>3, <3>2, InverseFacts, Zenon
      <3> QED BY <3>1, <3>2, <3>3, <3>4, Zenon
    <2>4. a \in Action /\ snap \in Snapshots /\ a.sel = snap.sel
      BY <1>2, <2>3, Zenon DEF Inverted, Undone, Action, Snapshots
    <2>5. Base(a.delta) <= Len(data') /\ Base(action.delta) \in Nat
      <3> HIDE DEF action, a, snap
      <3>1. Base(a.delta) \in Nat /\ Base(action.delta) \in Nat
        BY <1>3, <2>3, LengthAssumption, Zenon
      <3>2. Base(a.delta) = Len(data')
        BY <2>3, Zenon
      <3>3. Base(a.delta) <= Base(a.delta)
        BY <3>1
      <3> QED BY <3>1, <3>2, <3>3, Zenon
    <2>6. /\ undo # <<>> => Base(Top(undo).delta) <= Base(action.delta)
          /\ redo[Len(redo)] = action
      BY <1>0, <1>1, Zenon DEF Nested, Top
    <2> HIDE DEF action, a, snap
    <2>7. Leads(undo, past, snap.text)
      <3> SUFFICES ASSUME undo # <<>>
                   PROVE  /\ Base(Top(undo).delta) <= Len(snap.text)
                          /\ Prefix(data, Base(Top(undo).delta)) =
                               Prefix(snap.text, Base(Top(undo).delta))
        BY <1>2, <1>4, <2>3, MoveLeads, Zenon
      <3>1. Top(undo) \in Action
        BY <1>2, PopFacts, Zenon
      <3>2. Base(Top(undo).delta) \in Nat
        BY <3>1, LengthAssumption, Zenon DEF Action
      <3>3. /\ Base(action.delta) \in 0 .. Len(data)
            /\ Base(Top(undo).delta) \in 0 .. Base(action.delta)
            /\ data \in Seq(Byte)
        <4>1. data \in Seq(Byte)
          BY <1>2, TextAssumption, Zenon
        <4>2. Len(data) \in Nat
          BY <4>1, LenProperties, Zenon
        <4>3. Base(action.delta) <= Len(data) /\ Base(Top(undo).delta) <= Base(action.delta)
          BY <2>1, <2>6, Zenon
        <4> QED BY <2>5, <3>2, <4>1, <4>2, <4>3
      <3> QED BY <2>3, <2>6, <3>3, PrefixOfPrefix, Zenon
    <2>8. /\ Leads(undo', past', data')
          /\ Exact(undo, past, snap.text) => Exact(undo', past', data')
      BY <1>2, <2>1, <2>3, <2>4, <2>5, <2>7, PushLeads, Zenon
    <2>9. /\ redo' \in Seq(Action) /\ Len(redo) \in Nat \ {0} /\ Len(redo') = Len(redo) - 1
          /\ \A x \in 1 .. Len(redo) - 1 : redo'[x] = redo[x]
      BY <1>1, <1>2, <2>1, PopFacts, Zenon
    <2>10. TypeOK'
      <3>1. future # <<>>
        BY <1>2, <2>9, EmptySeq, Zenon
      <3>2. future' \in Seq(Snapshots) /\ Len(future') = Len(future) - 1
        BY <1>2, <2>1, <3>1, PopFacts, ZenonT(30)
      <3>3. undo' \in Seq(Action) /\ past' \in Seq(Snapshots)
        BY <1>2, <2>1, <2>4, AppendProperties, Zenon
      <3>4. Len(future') = Len(redo')
        BY <1>2, <2>9, <3>2, Zenon
      <3> QED BY <1>0, <1>3, <2>1, <2>3, <2>9, <3>2, <3>3, <3>4, Zenon DEF TypeOK
    <2>11. UndoRestores'
      BY <1>2, <2>1, <2>2, <2>8, Zenon DEF UndoRestores
    <2>12. ~stale' => Unspoilt'
      <3> SUFFICES ASSUME ~stale PROVE Unspoilt'
        BY <2>1, Zenon
      <3>1. Exact(undo', past', data')
        BY <1>5, <1>6, <2>3, <2>8, Zenon
      <3> QED BY <1>2, <1>6, <2>1, <2>2, <3>1, Zenon DEF Unspoilt
    <2>13. Nested'
      <3>1. Top(undo') = a
        BY <1>2, <2>1, AppendProperties DEF Top
      <3>2. redo' # <<>> => Target(action.delta) <= Base(Top(redo').delta)
        <4> SUFFICES ASSUME redo' # <<>>
                     PROVE  Target(action.delta) <= Base(Top(redo').delta)
          BY Zenon
        <4>1. Len(redo) - 1 \in 1 .. Len(redo) - 1 /\ Len(redo) - 1 + 1 = Len(redo)
          BY <2>9, EmptySeq
        <4>2. Top(redo') = redo[Len(redo) - 1] /\ redo[Len(redo) - 1 + 1] = action
          BY <2>6, <2>9, <4>1, Zenon DEF Top
        <4> QED BY <1>0, <4>1, <4>2, Zenon DEF Nested
      <3>3. \A j \in 1 .. Len(redo') - 1 : Target(redo'[j + 1].delta) <= Base(redo'[j].delta)
        <4> TAKE j \in 1 .. Len(redo') - 1
        <4>1. j \in 1 .. Len(redo) - 1 /\ j + 1 \in 1 .. Len(redo) - 1
          BY <2>9
        <4> QED BY <1>0, <2>9, <4>1, Zenon DEF Nested
      <3> QED BY <2>3, <3>1, <3>2, <3>3, Zenon DEF Nested
    <2> QED BY <1>0, <2>1, <2>10, <2>11, <2>12, <2>13, Zenon DEF IndInv, PartialOnlyInInsert,
                                                         FailsOnlyAfterLoad
  <1> QED BY <1>7, <1>8, Zenon

-----------------------------------------------------------------------------
(* The theorems.                                                           *)

\* Every step keeps the inductive invariant.
LEMMA NextKeeps == IndInv /\ [Next]_vars => IndInv'
  <1> SUFFICES ASSUME IndInv, [Next]_vars PROVE IndInv'
    BY Zenon
  <1>0. selection \in Sels
    BY Zenon DEF IndInv, TypeOK
  <1>1. ASSUME NEW new_sel \in Sels, NEW delta \in Delta, PerformPartial(delta, new_sel)
        PROVE  IndInv'
    BY <1>1, PerformPartialKeeps, Zenon
  <1>2. ASSUME NEW new_sel \in Sels, NEW delta \in Delta,
               NEW new_mode \in {"normal", "insert"}, PerformFinal(delta, new_sel, new_mode)
        PROVE  IndInv'
    BY <1>2, PerformFinalKeeps, Zenon
  <1>3. ASSUME NEW new_sel \in Sels, EnterInsert(new_sel)
        PROVE  IndInv'
    BY <1>3, SelectKeeps, Zenon DEF EnterInsert
  <1>4. ASSUME NEW new_sel \in Sels, MoveSelection(new_sel)
        PROVE  IndInv'
    BY <1>4, SelectKeeps, Zenon DEF MoveSelection
  <1>5. ASSUME Exit PROVE IndInv'
    BY <1>5, ExitKeeps, Zenon
  <1>6. ASSUME PerformUndo PROVE IndInv'
    BY <1>6, PerformUndoKeeps, Zenon
  <1>7. ASSUME PerformRedo PROVE IndInv'
    BY <1>7, PerformRedoKeeps, Zenon
  <1>8. ASSUME NEW chunk \in Chunks, LoadNextChunk(chunk) PROVE IndInv'
    BY <1>8, LoadKeeps, Zenon
  <1>9. ASSUME Failed \/ UNCHANGED vars PROVE IndInv'
    BY <1>0, <1>9, SelectKeeps, Zenon DEF Failed, vars
  <1> QED BY <1>1, <1>2, <1>3, <1>4, <1>5, <1>6, <1>7, <1>8, <1>9, Zenon DEF Next

\* The inductive invariant holds in every state.
THEOREM Inductive == Spec => []IndInv
  BY InitEstablishes, NextKeeps, PTL DEF Spec

\* The fields of the buffer and its history keep their types.
THEOREM TypeCorrect == Spec => []TypeOK
  <1>1. IndInv => TypeOK
    BY Zenon DEF IndInv
  <1> QED BY <1>1, Inductive, PTL

\* No partial action is open outside Insert mode.
THEOREM PartialClosed == Spec => []PartialOnlyInInsert
  <1>1. IndInv => PartialOnlyInInsert
    BY Zenon DEF IndInv
  <1> QED BY <1>1, Inductive, PTL

\* Undo leads back through every earlier text and selection, loads or not.
THEOREM UndoSound == Spec => []UndoRestores
  <1>1. IndInv => UndoRestores
    BY Zenon DEF IndInv
  <1> QED BY <1>1, Inductive, PTL

\* Redo leads through everything undone, as long as no chunk was loaded
\* under existing actions.
THEOREM RedoSound == Spec => []RedoRestores
  <1>1. IndInv => RedoRestores
    BY Zenon DEF IndInv, RedoRestores, Unspoilt
  <1> QED BY <1>1, Inductive, PTL

\* The history fails only after such a load.
THEOREM FailureNeedsLoad == Spec => []FailsOnlyAfterLoad
  <1>1. IndInv => FailsOnlyAfterLoad
    BY Zenon DEF IndInv
  <1> QED BY <1>1, Inductive, PTL

-----------------------------------------------------------------------------
(* The refinement.                                                         *)

\* A step of a fresh history is a step of the snapshot log.
LEMMA StepRefines ==
    ASSUME IndInv, ~stale', [Next]_vars
    PROVE  [Log!Next]_(Log!vars)
  <1> USE DEF Log!vars, Log!Snapshot
  <1>00. ~stale
    BY Zenon DEF Next, PerformPartial, Replaced, PerformFinal, EnterInsert, MoveSelection, Exit,
           CommitPartial, PerformUndo, PerformRedo, Misfit, Exchange, LoadNextChunk, Failed,
           vars, IndInv, TypeOK
  <1>0. TypeOK /\ PartialOnlyInInsert /\ UndoRestores /\ Unspoilt
        /\ FailsOnlyAfterLoad
    BY <1>00, Zenon DEF IndInv
  <1>1. /\ data \in Text /\ selection \in Sels
        /\ session = <<>> <=> partial = <<>>
        /\ undo \in Seq(Action) /\ past \in Seq(Snapshots)
        /\ redo \in Seq(Action) /\ future \in Seq(Snapshots)
    BY <1>0, SessionIff, Zenon DEF TypeOK
  <1>2. ASSUME mode = "normal"
        PROVE  session = <<>> /\ Settled = data
    BY <1>0, <1>1, <1>2, SessionIff, Zenon DEF PartialOnlyInInsert
  <1>3. ASSUME NEW new_sel \in Sels, NEW delta \in Delta, Base(delta) = Len(data)
        PROVE  Apply(delta, data) \in Text
    <2>1. Base(delta) <= Len(data)
      BY <1>3, LengthAssumption
    <2> QED BY <1>1, <2>1, InverseFacts, Zenon
  <1>4. ASSUME NEW new_sel \in Sels, NEW delta \in Delta, PerformPartial(delta, new_sel)
        PROVE  Log!Key(data', new_sel) /\ data' \in Text
    <2>1. ~(partial # <<>> /\ Base(partial[1].delta) # Len(data))
      BY <1>0, Zenon DEF Unspoilt
    <2>2. /\ Base(delta) = Len(data) /\ data' = Apply(delta, data) /\ selection' = new_sel
          /\ session' = IF partial = <<>> THEN <<[text |-> data, sel |-> selection]>>
                        ELSE session
          /\ past' = past /\ future' = future
      BY <1>4, <2>1, Zenon DEF PerformPartial, Replaced
    <2> QED BY <1>1, <1>3, <2>2, Zenon DEF Log!Key
  <1>5. ASSUME NEW new_sel \in Sels, NEW delta \in Delta, NEW new_mode,
               PerformFinal(delta, new_sel, new_mode)
        PROVE  Log!Change(data', new_sel) /\ data' \in Text
    BY <1>2, <1>3, <1>5, Zenon DEF PerformFinal, Log!Change
  <1>6. ASSUME NEW new_sel \in Sels, EnterInsert(new_sel) \/ MoveSelection(new_sel)
        PROVE  Log!Select(new_sel)
    BY <1>6, Zenon DEF EnterInsert, MoveSelection, Log!Select
  <1>7. ASSUME Exit
        PROVE  Log!Close \/ UNCHANGED Log!vars
    BY <1>1, <1>7, Zenon DEF Exit, CommitPartial, Log!Close
  <1>8. ASSUME PerformUndo
        PROVE  Log!Undo
    <2> DEFINE action == Top(undo)
    <2>1. mode = "normal" /\ undo # <<>> /\ session = <<>> /\ Settled = data
      BY <1>2, <1>8, Zenon DEF PerformUndo
    <2>2. Leads(undo, past, data) /\ Exact(undo, past, data)
      BY <1>0, <2>1, Zenon DEF UndoRestores, Unspoilt
    <2>3. /\ past # <<>> /\ Base(action.delta) = Len(data)
          /\ Apply(action.delta, data) = Top(past).text /\ action.sel = Top(past).sel
      BY <1>1, <2>1, <2>2, PopLeads
    <2>4. Prefix(data, Base(action.delta)) = data
      BY <1>1, <2>3, SubSeqFull, TextAssumption, Zenon DEF Prefix
    <2>5. /\ past' = Pop(past) /\ future' = Append(future, Undone(action))
          /\ data' = Apply(action.delta, data) /\ selection' = action.sel
          /\ session' = session
      BY <1>8, <2>3, Zenon DEF PerformUndo, Exchange, Misfit
    <2> HIDE DEF action
    <2>6. Undone(action) = [text |-> data, sel |-> selection]
      BY <2>4, Zenon DEF Undone
    <2> QED BY <2>1, <2>3, <2>5, <2>6, Zenon DEF Log!Undo, Log!Front, Log!Top, Top, Pop
  <1>9. ASSUME PerformRedo
        PROVE  Log!Redo
    <2> DEFINE action == Top(redo)
    <2>1. mode = "normal" /\ redo # <<>> /\ session = <<>> /\ Settled = data
      BY <1>2, <1>9, Zenon DEF PerformRedo
    <2>2. Leads(redo, future, data) /\ Exact(redo, future, data)
      BY <1>0, <2>1, Zenon DEF Unspoilt
    <2>3. /\ future # <<>> /\ Base(action.delta) = Len(data)
          /\ Apply(action.delta, data) = Top(future).text /\ action.sel = Top(future).sel
      BY <1>1, <2>1, <2>2, PopLeads, Zenon
    <2>4. Prefix(data, Base(action.delta)) = data
      BY <1>1, <2>3, SubSeqFull, TextAssumption, Zenon DEF Prefix
    <2>5. /\ future' = Pop(future) /\ past' = Append(past, Undone(action))
          /\ data' = Apply(action.delta, data) /\ selection' = action.sel
          /\ session' = session
      BY <1>9, <2>3, Zenon DEF PerformRedo, Exchange, Misfit
    <2> HIDE DEF action
    <2>6. Undone(action) = [text |-> data, sel |-> selection]
      BY <2>4, Zenon DEF Undone
    <2> QED BY <2>1, <2>3, <2>5, <2>6, Zenon DEF Log!Redo, Log!Front, Log!Top, Top, Pop
  <1>10. ASSUME Failed \/ UNCHANGED vars
         PROVE  UNCHANGED Log!vars
    BY <1>10, Zenon DEF Failed, vars
  <1>11. ASSUME NEW chunk \in Chunks, LoadNextChunk(chunk)
         PROVE  Log!Load(data') /\ data' \in Text
    <2>1. undo = <<>> /\ redo = <<>> /\ partial = <<>>
      BY <1>11, Zenon DEF LoadNextChunk
    <2>2. session = <<>> /\ past = <<>> /\ future = <<>>
      <3>1. Len(undo) = Len(past) /\ Len(redo) = Len(future)
        BY <1>0, Zenon DEF UndoRestores, Leads, TypeOK
      <3> QED BY <1>1, <2>1, <3>1, EmptySeq, Zenon
    <2>3. data \in Seq(Byte) /\ chunk \in Seq(Byte) /\ data' = data \o chunk /\ data' \in Text
      BY <1>1, <1>11, TextAssumption, Zenon DEF LoadNextChunk
    <2>4. Len(data) <= Len(data') /\ SubSeq(data', 1, Len(data)) = data
      <3>1. Len(data') = Len(data) + Len(chunk) /\ Len(data) \in Nat /\ Len(chunk) \in Nat
        BY <2>3, ConcatProperties, LenProperties, Zenon
      <3>2. Prefix(data', Len(data)) = Prefix(data, Len(data))
        BY <2>3, <3>1, PrefixOfConcat
      <3>3. Prefix(data, Len(data)) = data
        BY <2>3, SubSeqFull, Zenon DEF Prefix
      <3> QED BY <3>1, <3>2, <3>3 DEF Prefix
    <2> QED BY <1>11, <2>2, <2>3, <2>4, Zenon DEF LoadNextChunk, Log!Load
  <1> QED
    BY <1>4, <1>5, <1>6, <1>7, <1>8, <1>9, <1>10, <1>11, Zenon DEF Next, Log!Next

\* Deltas and chaining implement the snapshot log, undo, redo and Insert
\* sessions doing what a copy of every state would, until a chunk is loaded
\* under existing actions.
THEOREM HistoryImplementsLog == Spec => RefinesLog
  <1>1. Init => Log!Init
    BY Zenon DEF Init, Log!Init
  <1>2. IndInv /\ [Next]_vars => [~stale' => [Log!Next]_(Log!vars)]_vars
    BY StepRefines, Zenon
  <1>3. Spec => []IndInv
    BY Inductive, Zenon
  <1> QED BY <1>1, <1>2, <1>3, PTL DEF Spec, RefinesLog

\* While no chunk is loaded under existing actions, the history is the log.
THEOREM FreshHistoryIsLog == Spec /\ []~stale => Log!Spec
  <1>1. Init => Log!Init
    BY Zenon DEF Init, Log!Init
  <1>2. IndInv /\ ~stale' /\ [Next]_vars => [Log!Next]_(Log!vars)
    BY StepRefines, Zenon
  <1>3. Spec => []IndInv
    BY Inductive, Zenon
  <1> QED BY <1>1, <1>2, <1>3, PTL DEF Spec, Log!Spec

=============================================================================
