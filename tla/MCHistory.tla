----------------------------- MODULE MCHistory ------------------------------
(***************************************************************************)
(* The history with coarse deltas: a delta just names the text it leads    *)
(* to, the coarsest algebra with the laws of module History.  The deltas   *)
(* of module Deltas, all of them between texts of up to MCMaxText bytes,   *)
(* have the laws too (RealDeltaLaws).                                      *)
(***************************************************************************)
EXTENDS History, SequencesExt

CONSTANT MCMaxText

MCText == BoundedSeq(Byte, MCMaxText)

D == INSTANCE Deltas

Increasing(els) ==
    \A a, b \in DOMAIN els :
        a < b /\ els[a][1] = "copy" /\ els[b][1] = "copy" => els[a][2] < els[b][2]

RealDelta ==
    UNION {{[base |-> n, els |-> els] :
               els \in {els \in BoundedSeq({D!Copy(x) : x \in 1 .. n} \cup
                                            {D!Insert(b) : b \in Byte}, MCMaxText) :
                          Increasing(els)}} :
           n \in 0 .. MCMaxText}

Real == INSTANCE History WITH
            Delta <- RealDelta,
            Base <- LAMBDA d : d.base,
            Target <- LAMBDA d : Len(d.els),
            Apply <- D!DeltaApply,
            Invert <- D!ActionInvert,
            Chain <- D!ActionChain

ASSUME RealDeltaLaws == Real!ApplyLaw /\ Real!InvertLaw /\ Real!ChainLaw

MCCoarseDelta == [base : 0 .. MCMaxText, text : MCText]
MCCoarseBase(d) == d.base
MCCoarseTarget(d) == Len(d.text)
MCCoarseApply(d, t) == d.text
MCCoarseInvert(d, t) == [base |-> Len(d.text), text |-> Prefix(t, d.base)]
MCCoarseChain(d, t, e) == [base |-> d.base, text |-> e.text]

MCChunks == {<<b>> : b \in Byte}

Symmetry == Permutations(Byte) \cup Permutations(Sels)

=============================================================================
