------------------------------- MODULE Options -------------------------------
(***************************************************************************)
(* DecoderOptions as the two kinds of API read them: the permissive ones    *)
(* normalize whatever they are given (src/ft8/options.go), the checked ones *)
(* first validate it (src/ft8/checked.go).  The AP call hints go through    *)
(* normalizeAPCallHints (src/ft8/ap_hints.go) either way.                   *)
(*                                                                          *)
(* Options are a record with one function for the fields that are float64s, *)
(* one for those that are ints, the blocks, the hints, and the set of the   *)
(* bools that are true.  A float64 is told apart only by what a comparison  *)
(* with 0 and with infinity shows.                                          *)
(***************************************************************************)
EXTENDS Integers, Sequences, SequencesExt

CONSTANTS
    IntHalf,        \* half the number of values of an int (2^63 on the platforms of the build)
    MaxAPCallHints, \* ft8MaxAPCallHints (200)
    Spellings,      \* what may stand in APCallHint.Call
    UpperCall,      \* the call a spelling is trimmed and upper-cased to
    N28,            \* pack28 of that call, Unpackable if it has none
    Unpackable

ASSUME OptionsAssumption ==
    /\ IntHalf \in Nat \ {0} /\ MaxAPCallHints \in Nat \ {0}
    /\ DOMAIN UpperCall = Spellings /\ DOMAIN N28 = Spellings
------------------------------------------------------------------------------
FrameSamples == 3456
BufferSamples == 180000
Nyquist == 6000
MaxBlocks == 4
MaxAPCallHypotheses == 8

Floats == {"negative", "zero", "positive", "1.4", "infinite", "nan"}
Positive(x) == x \in {"positive", "1.4", "infinite"}        \* x > 0 in Go

FloatDefault == [SyncMin |-> "default", LLRWinsorFactor |-> "zero",
                 CostasMinGeo |-> "zero", CostasMinBlock |-> "zero"]
IntDefault == [MaxCandidates |-> 1000, MinFreqHz |-> 200, MaxFreqHz |-> 3200,
               HardSyncMin |-> 8, CostasMinWins |-> 0, MaxAPCallHypotheses |-> 2]

\* The largest value validation lets through; the frequencies have their own rule.
IntLimit == [MaxCandidates |-> 1000, HardSyncMin |-> 21, CostasMinWins |-> 21,
             MaxAPCallHypotheses |-> MaxAPCallHypotheses]

APCallHint == [call : Spellings, source : STRING]
ZeroOptions == [floats |-> [f \in DOMAIN FloatDefault |-> "zero"],
                ints |-> [f \in DOMAIN IntDefault |-> 0],
                blocks |-> <<>>, hints |-> <<>>, flags |-> {}]

DeepDecoderOptions ==
    [ZeroOptions EXCEPT !.floats.SyncMin = "1.4", !.ints.MaxCandidates = 300,
                        !.ints.HardSyncMin = 6, !.blocks = <<50, 41, 43>>,
                        !.flags = {"EnableOSD", "EnableBroadAP"}]

decoderOptionsEmpty(o) ==
    /\ \A f \in DOMAIN FloatDefault : o.floats[f] = "zero"
    /\ \A f \in DOMAIN IntDefault : o.ints[f] = 0
    /\ o.blocks = <<>> /\ o.hints = <<>> /\ o.flags = {}

\* A product of ints as the machine computes it; the samples of a block count can
\* come out negative, or positive and few.
Wrapped(n) == ((n + IntHalf) % (2 * IntHalf)) - IntHalf
Samples(block) == Wrapped(block * FrameSamples)
Overflows(block) == block * FrameSamples >= IntHalf
------------------------------------------------------------------------------
\* No check for a block count that was given before.
NormalizeBlockCountsRepeating(blocks) ==
    LET kept == SelectSeq(blocks, LAMBDA b : b > 0 /\ Samples(b) <= BufferSamples)
    IN  IF kept = <<>> THEN <<50>>
        ELSE SubSeq(kept, 1, IF Len(kept) < MaxBlocks THEN Len(kept) ELSE MaxBlocks)

\* The first four block counts that are usable and new; the full slot if none is.
NormalizeBlockCounts(blocks) ==
    LET keep(out, b) == IF b <= 0 \/ Samples(b) > BufferSamples
                            \/ Len(out) = MaxBlocks \/ Contains(out, b)
                        THEN out ELSE Append(out, b)
        out == FoldLeft(keep, <<>>, blocks)
    IN  IF out = <<>> THEN <<50>> ELSE out

\* What is kept of a hint; its weight is left out.
apCallHint(h) == [call |-> UpperCall[h.call], n28 |-> N28[h.call],
                  source |-> IF h.source = "" THEN "hint" ELSE h.source]

\* Seen calls are told apart as they are spelled.
NormalizeAPCallHintsSpelled(hints) ==
    LET keep(out, h) ==
          IF \/ N28[h.call] = Unpackable \/ Len(out) = MaxAPCallHints
             \/ \E i \in DOMAIN out : out[i].call = h.call
          THEN out
          ELSE Append(out, apCallHint(h))
    IN  FoldLeft(keep, <<>>, hints)

\* In the caller's order, those that pack, each once, up to the limit.
NormalizeAPCallHints(hints) ==
    LET keep(out, h) ==
          IF \/ N28[h.call] = Unpackable \/ Len(out) = MaxAPCallHints
             \/ \E i \in DOMAIN out : out[i].n28 = N28[h.call]
          THEN out
          ELSE Append(out, apCallHint(h))
    IN  FoldLeft(keep, <<>>, hints)

\* Only the number of hypotheses is capped: the other ints may exceed what a
\* checked API would accept.
NormalizeInt(f, v) ==
    IF v <= 0 THEN IntDefault[f]
    ELSE IF f = "MaxAPCallHypotheses" /\ v > MaxAPCallHypotheses
         THEN MaxAPCallHypotheses ELSE v

NormalizeDecoderOptions(o) ==
    [floats |-> [f \in DOMAIN FloatDefault |->
                    IF Positive(o.floats[f]) THEN o.floats[f] ELSE FloatDefault[f]],
     ints |-> [f \in DOMAIN IntDefault |-> NormalizeInt(f, o.ints[f])],
     blocks |-> IF o.blocks = <<>> THEN <<50>> ELSE NormalizeBlockCounts(o.blocks),
     hints |-> NormalizeAPCallHints(o.hints),
     flags |-> o.flags]
------------------------------------------------------------------------------
\* validateDecoderBlocks: whether it returns nil.
ValidBlocks(blocks) ==
    /\ Len(blocks) <= MaxBlocks
    /\ \A i \in DOMAIN blocks : blocks[i] > 0 /\ Samples(blocks[i]) <= BufferSamples
    /\ IsInjective(blocks)

\* The frequency limits compared as given, a zero taken for the value zero.
ValidFrequenciesRaw(o) ==
    /\ o.ints.MinFreqHz >= 0 /\ o.ints.MaxFreqHz >= 0
    /\ o.ints.MaxFreqHz > 0 => o.ints.MinFreqHz < o.ints.MaxFreqHz
    /\ o.ints.MaxFreqHz <= Nyquist

\* The frequency limits are compared with the defaults in place.
ValidFrequencies(o) ==
    LET limit(f) == IF o.ints[f] > 0 THEN o.ints[f] ELSE IntDefault[f]
    IN  /\ o.ints.MinFreqHz >= 0 /\ o.ints.MaxFreqHz >= 0
        /\ limit("MinFreqHz") < limit("MaxFreqHz") /\ limit("MaxFreqHz") <= Nyquist

\* validateDecoderOptions: whether it returns nil.  The hints are not looked at.
ValidOptions(o) ==
    /\ \A f \in DOMAIN FloatDefault : o.floats[f] \in {"zero", "positive", "1.4"}
    /\ \A f \in DOMAIN IntLimit : o.ints[f] \in 0..IntLimit[f]
    /\ ValidFrequencies(o)
    /\ ValidBlocks(o.blocks)
==============================================================================
