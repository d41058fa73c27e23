------------------------------- MODULE Deltas -------------------------------
(***************************************************************************)
(* The algebra behind undo: Action::invert and Action::chain of            *)
(* history.rs, on top of the parts of xi-rope they call.  A delta rebuilds *)
(* a text byte by byte, copying a byte of the old text or inserting a new  *)
(* one; intervals of the code are taken apart into single bytes.  A subset *)
(* of a text is a sequence of counts, one per byte, as in xi-rope.         *)
(***************************************************************************)
EXTENDS Integers, Sequences, SequencesExt

\* The sequence f, evaluated once: TLC would otherwise evaluate f[n] anew at
\* every use.
Strict(f) == SubSeq(f, 1, Len(f))

Copy(at) == <<"copy", at>>
Insert(byte) == <<"insert", byte>>

-----------------------------------------------------------------------------
(* xi_rope::multiset::Subset                                               *)

Zeros(subset, n) == Len(SelectSeq(SubSeq(subset, 1, n), LAMBDA c : c = 0))
NonZeros(subset, n) == n - Zeros(subset, n)

\* complement_iter, and delete_from (Rope::without_subset).
Kept(subset) == SelectSeq([n \in DOMAIN subset |-> n], LAMBDA n : subset[n] = 0)
Without(text, subset) ==
    LET kept == Kept(subset) IN Strict([n \in DOMAIN kept |-> text[kept[n]]])

Complement(subset) == Strict([n \in DOMAIN subset |-> IF subset[n] = 0 THEN 1 ELSE 0])

SubsetUnion(subset, other) == Strict([n \in DOMAIN subset |-> subset[n] + other[n]])

\* A subset of what other leaves, as a subset of what other is about.
TransformExpand(subset, other) ==
    Strict([n \in DOMAIN other |->
        IF other[n] = 0 THEN subset[Zeros(other, n)] ELSE 0])

TransformUnion(subset, other) ==
    Strict([n \in DOMAIN other |->
        IF other[n] = 0 THEN subset[Zeros(other, n)] ELSE other[n]])

TransformShrink(subset, other) == Without(subset, other)

-----------------------------------------------------------------------------
(* xi_rope::delta::Delta                                                   *)

DeltaApply(delta, text) ==
    Strict([e \in DOMAIN delta.els |->
        IF delta.els[e][1] = "copy" THEN text[delta.els[e][2]] ELSE delta.els[e][2]])

(***************************************************************************)
(* factor: first only insert, then only delete.  inserts[n] are the bytes  *)
(* that go in front of byte n, inserts[base + 1] the ones at the end; an   *)
(* insertion comes right behind the last byte copied before it.            *)
(***************************************************************************)
LastCopied(els, e) ==
    FoldLeft(LAMBDA last, el : IF el[1] = "copy" THEN el[2] ELSE last, 0, SubSeq(els, 1, e))

Inserts(delta) ==
    Strict([n \in 1 .. delta.base + 1 |->
        LET here == SelectSeq([e \in DOMAIN delta.els |-> e],
                              LAMBDA e : /\ delta.els[e][1] = "insert"
                                         /\ LastCopied(delta.els, e) = n - 1)
        IN  Strict([x \in DOMAIN here |-> delta.els[here[x]][2]])])

Deletions(delta) ==
    Strict([n \in 1 .. delta.base |-> IF Contains(delta.els, Copy(n)) THEN 0 ELSE 1])

\* InsertDelta::inserted_subset: which bytes of the union are new.
InsertedSubset(inserts) ==
    FlattenSeq([n \in DOMAIN inserts |->
        [x \in DOMAIN inserts[n] |-> 1] \o (IF n = Len(inserts) THEN <<>> ELSE <<0>>)])

ApplyInserts(inserts, text) ==
    FlattenSeq([n \in DOMAIN inserts |->
        inserts[n] \o (IF n = Len(inserts) THEN <<>> ELSE <<text[n]>>)])

\* InsertDelta::transform_expand(xform, true): an insertion moves to right
\* before the next byte that xform keeps.
ExpandInserts(inserts, xform) ==
    Strict([n \in 1 .. Len(xform) + 1 |->
        IF n = Len(xform) + 1 \/ xform[n] = 0
        THEN inserts[Zeros(xform, n - 1) + 1]
        ELSE <<>>])

\* Delta::synthesize: from the union without from_dels to the union without
\* to_dels, taking the bytes that have to come back from tombstones.
Synthesize(tombstones, from_dels, to_dels) ==
    [base |-> Zeros(from_dels, Len(from_dels)),
     els  |-> LET kept == Kept(to_dels)
              IN  Strict([e \in DOMAIN kept |->
                      IF from_dels[kept[e]] = 0
                      THEN Copy(Zeros(from_dels, kept[e]))
                      ELSE Insert(tombstones[NonZeros(from_dels, kept[e])])])]

-----------------------------------------------------------------------------
(* history.rs                                                              *)

ActionInvert(delta, base_rope) ==
    LET ins_subset == InsertedSubset(Inserts(delta))
        deletions == Deletions(delta)
        deleted_now == Without(base_rope, Complement(deletions))
        deletions_from_base == TransformExpand(deletions, ins_subset)
    IN  Synthesize(deleted_now, deletions_from_base, ins_subset)

\* << inserts_in_union, deletes_from_union, inserts_in_prefinal >>
SubsetsForChain(delta, next) ==
    LET inserts_in_mid_union == InsertedSubset(Inserts(delta))
        deletes_from_mid_union == TransformExpand(Deletions(delta), inserts_in_mid_union)
        new_inserts == InsertedSubset(ExpandInserts(Inserts(next), deletes_from_mid_union))
        new_deletes == TransformExpand(
                           TransformExpand(Deletions(next), deletes_from_mid_union),
                           new_inserts)
        deletes_from_union ==
            SubsetUnion(TransformExpand(deletes_from_mid_union, new_inserts), new_deletes)
        inserts_in_union ==
            SubsetUnion(TransformExpand(inserts_in_mid_union, new_inserts), new_inserts)
        inserts_in_mid_text == TransformShrink(inserts_in_mid_union, deletes_from_mid_union)
    IN  << inserts_in_union,
           deletes_from_union,
           TransformUnion(inserts_in_mid_text, InsertedSubset(Inserts(next))) >>

\* One delta that does what delta and then next do.
ActionChain(delta, after_self, next) ==
    LET after_next == ApplyInserts(Inserts(next), after_self)
        subsets == SubsetsForChain(delta, next)
        tombstones == Without(after_next, Complement(subsets[3]))
    IN  Synthesize(tombstones, subsets[1], subsets[2])

=============================================================================
