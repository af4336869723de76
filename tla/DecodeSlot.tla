------------------------------ MODULE DecodeSlot ------------------------------
(***************************************************************************)
(* One receive slot: decodeMessagesCoreWithDiagnostics in                   *)
(* src/ft8/decode.go, with the sample buffers it borrows                    *)
(* (src/ft8/audio.go), the downsampler whose spectrum it caches             *)
(* (src/ft8/refine.go), the noise baseline it computes at most once per     *)
(* buffer (src/ft8/snr.go) and the A7 hints it tries last (src/ft8/a7.go).  *)
(* A candidate is one step of CandidateOutcome, which DecodeCandidate       *)
(* implements.                                                              *)
(*                                                                          *)
(* Samples are told apart by what they hold: [blocks, taken] is the input   *)
(* cut to that many blocks with the first taken decoded signals subtracted. *)
(***************************************************************************)
EXTENDS Unpack, Functions, FiniteSets

CONSTANTS
    Payloads,       \* the payloads of the codewords a candidate may yield
    MaxRejected,    \* the bound on rejected codewords per candidate
    MaxUnpacked,    \* and so on the codewords unpacked in the slot
    BlockLists,     \* what options.blocks[0..blockCount-1] may be, normalized
    MaxFound,       \* the bound on the candidates one search returns
    Hints,          \* the A7 hints, each the texts a7CandidateMessages makes of it
    Buffers         \* the buffers decodeBlockPool has or would make

FullSlot == 50      \* the block count whose residual A7 works on

NoBuffer == "none"

ASSUME SlotAssumption ==
    /\ Payloads \subseteq Payload
    /\ MaxRejected \in Nat /\ MaxFound \in Nat
    /\ \A list \in BlockLists : list \in Seq(Nat \ {0}) /\ IsInjective(list)
    /\ Hints \in Seq(SUBSET MessageText)
    /\ NoBuffer \notin Buffers

\* The bounds fit: no slot unpacks more codewords than its two passes over each
\* block count can find.
ASSUME UnpackedAssumption ==
    /\ MaxUnpacked \in Nat
    /\ \A list \in BlockLists : (MaxRejected + 1) * (MaxFound * (2 * Len(list))) <= MaxUnpacked

VARIABLES
    blocks,     \* options.blocks[0..blockCount-1]
    pc,         \* the statement of the function that is next
    bi,         \* blockIndex + 1
    pass,       \* pass, 0 or 1
    left,       \* candidates of this search not yet decoded
    pool,       \* how often each buffer lies in decodeBlockPool
    samples,    \* what each buffer holds
    dd,         \* the buffer of the current block count
    fullDD,     \* the buffer kept for A7, or NoBuffer
    ds,         \* the downsampler: whether it holds a spectrum, and of what
    baseline,   \* per block count: the samples the noise baseline was computed from
    subtract,   \* the payloads decoded in this pass, to be subtracted
    seen,       \* the texts returned so far
    out,        \* the messages returned so far
    hint,       \* the A7 hints already tried
    decodedIn,  \* auxiliary: signals decoded so far with each block count
    calls22,    \* the callsign table (hashes)
    diag        \* the DecodeDiagnostics counters of this function

vars == <<blocks, pc, bi, pass, left, pool, samples, dd, fullDD, ds, baseline,
          subtract, seen, out, hint, decodedIn, calls22, diag>>

Stale == [blocks |-> 0, taken |-> 0]        \* whatever an earlier user left
NotYet == [blocks |-> 0, taken |-> 1]       \* a baseline not computed

Candidate == INSTANCE CandidateOutcome
               WITH result <- out, table <- calls22, decided <- diag.CandidatesAnalyzed
------------------------------------------------------------------------------
ZeroDiag == [BlocksSearched |-> 0, CandidateSearches |-> 0, CandidatesFound |-> 0,
             CandidatesAnalyzed |-> 0, DecodedCandidates |-> 0, DuplicateMessages |-> 0,
             Subtractions |-> 0, A7Hints |-> Len(Hints), A7Decoded |-> 0,
             UniqueMessages |-> 0]

\* A message as returned: its text, the block count it was found in, the
\* samples its symbols were read from and those its noise was measured on.
Message(text, count, spectrum, noise, a7) ==
    [text |-> text, blocks |-> count, spectrum |-> spectrum, noise |-> noise, a7 |-> a7]

\* lazySpectrumBaseline.ensure: computed from the buffer on first use only.
Ensured(b, buffer) ==
    IF b = NotYet THEN samples[buffer] ELSE b

\* downsampler.downsample: the spectrum is computed when asked for or missing.
Downsampled(d, recompute, buffer) ==
    IF recompute \/ ~d.initialized
    THEN [initialized |-> TRUE, spectrum |-> samples[buffer]] ELSE d
------------------------------------------------------------------------------
Init == /\ blocks \in BlockLists
        /\ pc = "block" /\ bi = 1 /\ pass = 0 /\ left = 0
        /\ pool = [b \in Buffers |-> 1]
        /\ samples = [b \in Buffers |-> Stale]
        /\ dd = NoBuffer /\ fullDD = NoBuffer
        /\ ds = [initialized |-> FALSE, spectrum |-> Stale]
        /\ baseline = [i \in DOMAIN blocks |-> NotYet]
        /\ subtract = <<>> /\ seen = {} /\ out = <<>> /\ hint = 0
        /\ decodedIn = [i \in DOMAIN blocks |-> 0]
        /\ calls22 = <<>>
        /\ diag = ZeroDiag

KeepDD == blocks[bi] = FullSlot /\ Hints # <<>>

\* decodeBlocks: a pooled buffer is cleared and filled.
BeginBlock ==
    /\ pc = "block" /\ bi <= Len(blocks)
    /\ \E b \in {c \in Buffers : pool[c] > 0} :
         /\ pool' = [pool EXCEPT ![b] = @ - 1]
         /\ samples' = [samples EXCEPT ![b] = [blocks |-> blocks[bi], taken |-> 0]]
         /\ dd' = b
         /\ fullDD' = IF KeepDD THEN b ELSE fullDD
    /\ diag' = [diag EXCEPT !.BlocksSearched = @ + 1]
    /\ pass' = 0
    /\ pc' = "search"
    /\ UNCHANGED <<blocks, bi, left, ds, baseline, subtract, seen, out, hint,
                   decodedIn, calls22>>

\* findCandidates returns a list; getDownsampler returns one with no spectrum.
Search ==
    /\ pc = "search"
    /\ \E n \in 0..MaxFound :
         /\ left' = n
         /\ diag' = [diag EXCEPT !.CandidateSearches = @ + 1, !.CandidatesFound = @ + n]
    /\ ds' = [ds EXCEPT !.initialized = FALSE]
    /\ subtract' = <<>>
    /\ pc' = "first"
    /\ UNCHANGED <<blocks, bi, pass, pool, samples, dd, fullDD, baseline, seen,
                   out, hint, decodedIn, calls22>>

\* What decoding a candidate does to the spectrum, the table and the counters.
Analyse(o) ==
    /\ left' = left - 1
    /\ ds' = Downsampled(ds, pc = "first", dd)
    /\ calls22' = o.table
    /\ decodedIn' = [decodedIn EXCEPT ![bi] = IF o.result.ok THEN @ + 1 ELSE @]
    /\ pc' = "candidates"

CandidateFails ==
    /\ pc \in {"first", "candidates"} /\ left > 0
    /\ \E o \in Candidate!Outcomes(calls22) :
         /\ ~o.result.ok
         /\ Analyse(o)
    /\ diag' = [diag EXCEPT !.CandidatesAnalyzed = @ + 1]
    /\ UNCHANGED <<blocks, bi, pass, pool, samples, dd, fullDD, baseline,
                   subtract, seen, out, hint>>

\* Only signals with a new text are subtracted.
CandidateRepeatsUnsubtracted ==
    /\ pc \in {"first", "candidates"} /\ left > 0
    /\ \E o \in Candidate!Outcomes(calls22) :
         /\ o.result.ok
         /\ o.result.text \in seen
         /\ Analyse(o)
    /\ diag' = [diag EXCEPT !.CandidatesAnalyzed = @ + 1, !.DecodedCandidates = @ + 1,
                            !.DuplicateMessages = @ + 1]
    /\ UNCHANGED <<blocks, bi, pass, pool, samples, dd, fullDD, baseline,
                   subtract, seen, out, hint>>

\* A repeated text that is not counted as one.
CandidateRepeatsUncounted ==
    /\ pc \in {"first", "candidates"} /\ left > 0
    /\ \E o \in Candidate!Outcomes(calls22) :
         /\ o.result.ok
         /\ o.result.text \in seen
         /\ Analyse(o)
         /\ subtract' = Append(subtract, o.result.payload)
    /\ diag' = [diag EXCEPT !.CandidatesAnalyzed = @ + 1, !.DecodedCandidates = @ + 1]
    /\ UNCHANGED <<blocks, bi, pass, pool, samples, dd, fullDD, baseline, seen,
                   out, hint>>

\* The text was returned before: the signal is still subtracted.
CandidateRepeats ==
    /\ pc \in {"first", "candidates"} /\ left > 0
    /\ \E o \in Candidate!Outcomes(calls22) :
         /\ o.result.ok
         /\ o.result.text \in seen
         /\ Analyse(o)
         /\ subtract' = Append(subtract, o.result.payload)
    /\ diag' = [diag EXCEPT !.CandidatesAnalyzed = @ + 1, !.DecodedCandidates = @ + 1,
                            !.DuplicateMessages = @ + 1]
    /\ UNCHANGED <<blocks, bi, pass, pool, samples, dd, fullDD, baseline, seen,
                   out, hint>>

\* The signal subtracted at once, while the pass still reads the samples.
CandidateDecodesSubtracting ==
    /\ pc \in {"first", "candidates"} /\ left > 0
    /\ \E o \in Candidate!Outcomes(calls22) :
         /\ o.result.ok
         /\ o.result.text \notin seen
         /\ Analyse(o)
         /\ samples' = [samples EXCEPT ![dd].taken = @ + 1]
         /\ seen' = seen \cup {o.result.text}
         /\ baseline' = [baseline EXCEPT ![bi] = Ensured(@, dd)]
         /\ out' = Append(out, Message(o.result.text, blocks[bi], ds'.spectrum,
                                       baseline'[bi], FALSE))
    /\ diag' = [diag EXCEPT !.CandidatesAnalyzed = @ + 1, !.DecodedCandidates = @ + 1]
    /\ UNCHANGED <<blocks, bi, pass, pool, dd, fullDD, subtract, hint>>

\* A new text: its SNR needs the noise baseline, computed now if never before.
CandidateDecodes ==
    /\ pc \in {"first", "candidates"} /\ left > 0
    /\ \E o \in Candidate!Outcomes(calls22) :
         /\ o.result.ok
         /\ o.result.text \notin seen
         /\ Analyse(o)
         /\ subtract' = Append(subtract, o.result.payload)
         /\ seen' = seen \cup {o.result.text}
         /\ baseline' = [baseline EXCEPT ![bi] = Ensured(@, dd)]
         /\ out' = Append(out, Message(o.result.text, blocks[bi], ds'.spectrum,
                                       baseline'[bi], FALSE))
    /\ diag' = [diag EXCEPT !.CandidatesAnalyzed = @ + 1, !.DecodedCandidates = @ + 1]
    /\ UNCHANGED <<blocks, bi, pass, pool, samples, dd, fullDD, hint>>

\* Nothing to subtract: the second pass would find the same.
EndPassEmpty ==
    /\ pc \in {"first", "candidates"} /\ left = 0
    /\ subtract = <<>>
    /\ pc' = "end"
    /\ UNCHANGED <<blocks, bi, pass, left, pool, samples, dd, fullDD, ds, baseline,
                   subtract, seen, out, hint, decodedIn, calls22, diag>>

\* Subtraction without first preserving the baseline.
SubtractAllUnpreserved ==
    /\ pc \in {"first", "candidates"} /\ left = 0
    /\ subtract # <<>>
    /\ samples' = [samples EXCEPT ![dd].taken = @ + Len(subtract)]
    /\ subtract' = <<>>
    /\ diag' = [diag EXCEPT !.Subtractions = @ + Len(subtract)]
    /\ pass' = 1
    /\ pc' = IF pass = 0 THEN "search" ELSE "end"
    /\ UNCHANGED <<blocks, bi, left, pool, dd, fullDD, ds, baseline, seen, out,
                   hint, decodedIn, calls22>>

\* The baseline of the first pass is preserved, then every signal decoded in
\* the pass, repeated texts included, is subtracted from the samples.
SubtractAll ==
    /\ pc \in {"first", "candidates"} /\ left = 0
    /\ subtract # <<>>
    /\ baseline' = IF pass = 0 THEN [baseline EXCEPT ![bi] = Ensured(@, dd)] ELSE baseline
    /\ samples' = [samples EXCEPT ![dd].taken = @ + Len(subtract)]
    /\ subtract' = <<>>
    /\ diag' = [diag EXCEPT !.Subtractions = @ + Len(subtract)]
    /\ pass' = 1
    /\ pc' = IF pass = 0 THEN "search" ELSE "end"
    /\ UNCHANGED <<blocks, bi, left, pool, dd, fullDD, ds, seen, out, hint,
                   decodedIn, calls22>>

\* Every buffer given back, kept or not.
EndBlockPutAll ==
    /\ pc = "end"
    /\ pool' = [pool EXCEPT ![dd] = @ + 1]
    /\ dd' = NoBuffer
    /\ bi' = bi + 1
    /\ pc' = "block"
    /\ UNCHANGED <<blocks, pass, left, samples, fullDD, ds, baseline,
                   subtract, seen, out, hint, decodedIn, calls22, diag>>

EndBlock ==
    /\ pc = "end"
    /\ pool' = IF KeepDD THEN pool ELSE [pool EXCEPT ![dd] = @ + 1]
    /\ dd' = NoBuffer
    /\ bi' = bi + 1
    /\ pc' = "block"
    /\ UNCHANGED <<blocks, pass, left, samples, fullDD, ds, baseline,
                   subtract, seen, out, hint, decodedIn, calls22, diag>>
------------------------------------------------------------------------------
FullIndex == CHOOSE i \in DOMAIN blocks : blocks[i] = FullSlot

\* decodeA7HintsWithBaseline takes a new downsampler to the kept buffer.
BeginA7 ==
    /\ pc = "block" /\ bi > Len(blocks)
    /\ Hints # <<>> /\ fullDD # NoBuffer
    /\ ds' = [initialized |-> FALSE, spectrum |-> Stale]
    /\ pc' = "a7"
    /\ UNCHANGED <<blocks, bi, pass, left, pool, samples, dd, fullDD, baseline,
                   subtract, seen, out, hint, decodedIn, calls22, diag>>

\* A7 skipped for want of hints alone.
SkipA7Unhinted ==
    /\ pc = "block" /\ bi > Len(blocks)
    /\ Hints = <<>>
    /\ pc' = "return"
    /\ UNCHANGED <<blocks, bi, pass, left, pool, samples, dd, fullDD, ds, baseline,
                   subtract, seen, out, hint, decodedIn, calls22, diag>>

SkipA7 ==
    /\ pc = "block" /\ bi > Len(blocks)
    /\ Hints = <<>> \/ fullDD = NoBuffer
    /\ pc' = "return"
    /\ UNCHANGED <<blocks, bi, pass, left, pool, samples, dd, fullDD, ds, baseline,
                   subtract, seen, out, hint, decodedIn, calls22, diag>>

\* The next hint is analysed; the spectrum is computed for the first one.
TryHint ==
    /\ pc = "a7" /\ hint < Len(Hints)
    /\ hint' = hint + 1
    /\ ds' = Downsampled(ds, hint = 0, fullDD)
    /\ UNCHANGED <<blocks, pc, bi, pass, left, pool, samples, dd, fullDD, subtract,
                   decodedIn, calls22>>

\* None of its messages fits the residual, or the one that does was returned.
HintFails ==
    /\ TryHint
    /\ UNCHANGED <<blocks, baseline, seen, out, diag>>

\* A7 results that are not checked against the texts already returned.
HintDecodesUnchecked ==
    /\ TryHint
    /\ \E text \in Hints[hint + 1] :
         /\ seen' = seen \cup {text}
         /\ baseline' = [baseline EXCEPT ![FullIndex] = Ensured(@, fullDD)]
         /\ out' = Append(out, Message(text, FullSlot, ds'.spectrum,
                                       baseline'[FullIndex], TRUE))
    /\ diag' = [diag EXCEPT !.A7Decoded = @ + 1]

\* A7 results saved in the callsign table as if they had been unpacked.
HintDecodesSaving ==
    /\ pc = "a7" /\ hint < Len(Hints)
    /\ hint' = hint + 1
    /\ ds' = Downsampled(ds, hint = 0, fullDD)
    /\ \E text \in Hints[hint + 1] \ seen :
         /\ seen' = seen \cup {text}
         /\ calls22' = Save(calls22, text.calls[2].call)
         /\ baseline' = [baseline EXCEPT ![FullIndex] = Ensured(@, fullDD)]
         /\ out' = Append(out, Message(text, FullSlot, ds'.spectrum,
                                       baseline'[FullIndex], TRUE))
    /\ diag' = [diag EXCEPT !.A7Decoded = @ + 1]
    /\ UNCHANGED <<blocks, pc, bi, pass, left, pool, samples, dd, fullDD,
                   subtract, decodedIn>>

HintDecodes ==
    /\ TryHint
    /\ \E text \in Hints[hint + 1] \ seen :
         /\ seen' = seen \cup {text}
         /\ baseline' = [baseline EXCEPT ![FullIndex] = Ensured(@, fullDD)]
         /\ out' = Append(out, Message(text, FullSlot, ds'.spectrum,
                                       baseline'[FullIndex], TRUE))
    /\ diag' = [diag EXCEPT !.A7Decoded = @ + 1]

EndA7 ==
    /\ pc = "a7" /\ hint = Len(Hints)
    /\ pc' = "return"
    /\ UNCHANGED <<blocks, bi, pass, left, pool, samples, dd, fullDD, ds, baseline,
                   subtract, seen, out, hint, decodedIn, calls22, diag>>

Return ==
    /\ pc = "return"
    /\ pool' = IF fullDD = NoBuffer THEN pool ELSE [pool EXCEPT ![fullDD] = @ + 1]
    /\ fullDD' = NoBuffer
    /\ diag' = [diag EXCEPT !.UniqueMessages = Len(out)]
    /\ pc' = "done"
    /\ UNCHANGED <<blocks, bi, pass, left, samples, dd, ds, baseline,
                   subtract, seen, out, hint, decodedIn, calls22>>
------------------------------------------------------------------------------
Next == \/ BeginBlock \/ Search
        \/ CandidateFails \/ CandidateRepeats \/ CandidateDecodes
        \/ EndPassEmpty \/ SubtractAll \/ EndBlock
        \/ BeginA7 \/ SkipA7 \/ HintFails \/ HintDecodes \/ EndA7
        \/ Return

Spec == Init /\ [][Next]_vars
------------------------------------------------------------------------------
Contents == [blocks : Nat, taken : Nat]

\* A buffer is in the pool at most once and never while the decode still uses
\* it, the one kept for A7 included; a finished decode has given all back.
BuffersOwned ==
    /\ \A b \in Buffers : pool[b] <= 1
    /\ \A b \in {dd, fullDD} \ {NoBuffer} : pool[b] = 0
    /\ pc = "done" => \A b \in Buffers : pool[b] = 1

\* Symbols are read from the spectrum of the samples as they are now: neither
\* another buffer's, nor those of before a subtraction.
SpectrumFresh ==
    /\ pc = "candidates" => ds.initialized /\ ds.spectrum = samples[dd]
    /\ pc = "a7" /\ hint > 0 => ds.initialized /\ ds.spectrum = samples[fullDD]

\* Whatever pass or A7 hint found it, a message's noise was measured on the
\* samples of its own block count before any signal was subtracted.
NoisePreSubtraction ==
    \A i \in DOMAIN out : out[i].noise = [blocks |-> out[i].blocks, taken |-> 0]

\* A7 hints are tried on the full slot with every signal decoded from it, and
\* no other, subtracted.
A7OnResidual ==
    pc = "a7" => /\ blocks[FullIndex] = FullSlot
                 /\ samples[fullDD] = [blocks |-> FullSlot, taken |-> decodedIn[FullIndex]]

\* No text is returned twice, by whatever block count, pass or hint.
TextsUnique ==
    /\ \A i, j \in DOMAIN out : out[i].text = out[j].text => i = j
    /\ seen = {out[i].text : i \in DOMAIN out}

\* The counters of the report fit together at every point of the decode.
CountersAgree ==
    /\ diag.CandidatesFound = diag.CandidatesAnalyzed + left
    /\ diag.DecodedCandidates = diag.Subtractions + Len(subtract)
    /\ Len(out) = diag.DecodedCandidates - diag.DuplicateMessages + diag.A7Decoded
    /\ diag.CandidateSearches <= 2 * diag.BlocksSearched
    /\ pc = "done" => diag.UniqueMessages = Len(out) /\ left = 0 /\ subtract = <<>>

\* The Decoder sees one step: the texts returned and the table left behind.
\* A7 has a say only if the full slot is among the block counts.
Slot == INSTANCE SlotOutcome
          WITH returned <- pc = "done",
               texts <- IF pc = "done" THEN [i \in DOMAIN out |-> out[i].text] ELSE <<>>,
               table <- IF pc = "done" THEN calls22 ELSE <<>>,
               hints <- IF FullSlot \in Range(blocks) THEN Hints ELSE <<>>

RefinesSlotOutcome == Slot!Spec
==============================================================================
