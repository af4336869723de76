----------------------------- MODULE OptionsSpec -----------------------------
(***************************************************************************)
(* A caller fills in a DecoderOptions (src/ft8/options.go) field by field,  *)
(* and what the options a search runs with have to do with those it was     *)
(* given.                                                                   *)
(***************************************************************************)
EXTENDS Options, FiniteSets

CONSTANTS
    FloatValues,    \* the values tried in the float64 fields
    IntValues,      \* the values tried in the int fields
    BlockValues,    \* the values tried in Blocks
    Hints,          \* the AP call hints tried
    MaxEdits        \* the bound on what is set and added, a scalar field counting twice

ASSUME EditsAssumption ==
    /\ FloatValues \subseteq Floats /\ IntValues \subseteq Int /\ BlockValues \subseteq Int
    /\ Hints \subseteq APCallHint /\ MaxEdits \in Nat

VARIABLES
    options,    \* the DecoderOptions
    edits       \* the entries added to its lists and twice the fields set

optionVars == <<options, edits>>
------------------------------------------------------------------------------
\* Nothing set, or the deep options as the package hands them out.
InitOptions == options \in {ZeroOptions, DeepDecoderOptions} /\ edits = 0

Edit(cost) == edits + cost <= MaxEdits /\ edits' = edits + cost

SetFloat == Edit(2) /\ \E f \in DOMAIN FloatDefault, x \in FloatValues :
                         options' = [options EXCEPT !.floats[f] = x]

SetInt == Edit(2) /\ \E f \in DOMAIN IntDefault, v \in IntValues :
                       options' = [options EXCEPT !.ints[f] = v]

AddBlock == Edit(1) /\ \E b \in BlockValues :
                         options' = [options EXCEPT !.blocks = Append(@, b)]

AddHint == Edit(1) /\ \E h \in Hints :
                        options' = [options EXCEPT !.hints = Append(@, h)]

SetFlag == Edit(2) /\ \E f \in {"EnableOSD", "EnableBroadAP"} :
                        options' = [options EXCEPT !.flags = @ \cup {f}]

EditOptions == SetFloat \/ SetInt \/ AddBlock \/ AddHint \/ SetFlag
------------------------------------------------------------------------------
\* One to four distinct block counts, each with its own buffer and baseline slot,
\* that fit the buffer as long as their samples fit an int; and no more hypotheses
\* than the selection array has room for.
Runnable(o) ==
    /\ Len(o.blocks) \in 1..MaxBlocks /\ IsInjective(o.blocks)
    /\ \A i \in DOMAIN o.blocks :
         /\ o.blocks[i] > 0
         /\ Overflows(o.blocks[i]) \/ o.blocks[i] * FrameSamples <= BufferSamples
    /\ o.ints.MaxAPCallHypotheses \in 1..MaxAPCallHypotheses

\* The i-th hint is the first for its call, however it is spelled.
FirstOfCall(h, i) ==
    /\ N28[h[i].call] # Unpackable
    /\ \A j \in 1..(i - 1) : N28[h[j].call] # N28[h[i].call]

\* Of each call that packs the first hint in the caller's order, with its source,
\* until there are as many as are allowed.
HintsAsGiven(o, given) ==
    LET firsts == {i \in DOMAIN given.hints : FirstOfCall(given.hints, i)}
        kept   == {i \in firsts : Cardinality({j \in firsts : j < i}) < MaxAPCallHints}
        place(i) == Cardinality({j \in kept : j <= i})
    IN  /\ Len(o.hints) = Cardinality(kept)
        /\ \A i \in kept : o.hints[place(i)] = apCallHint(given.hints[i])

\* Hints none of which is dropped: each packs, to a call of its own, and there are
\* not too many.
NoHintDropped(hints) ==
    /\ Len(hints) <= MaxAPCallHints
    /\ \A i \in DOMAIN hints : FirstOfCall(hints, i)

\* Every field of `given` that was set, in order for the blocks, defaults
\* elsewhere, and a frequency range that can be searched.  The hints are all there
\* if none need be dropped: which ones are, validation does not tell.
AsGiven(o, given) ==
    /\ \A f \in DOMAIN FloatDefault :
         o.floats[f] = IF given.floats[f] = "zero" THEN FloatDefault[f] ELSE given.floats[f]
    /\ \A f \in DOMAIN IntDefault :
         o.ints[f] = IF given.ints[f] = 0 THEN IntDefault[f] ELSE given.ints[f]
    /\ o.blocks = IF given.blocks = <<>> THEN <<50>> ELSE given.blocks
    /\ o.flags = given.flags
    /\ o.ints.MinFreqHz < o.ints.MaxFreqHz
    /\ NoHintDropped(given.hints) =>
         o.hints = [i \in DOMAIN given.hints |-> apCallHint(given.hints[i])]
==============================================================================
