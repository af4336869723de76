--------------------------- MODULE DecodeSlotProofs ---------------------------
(***************************************************************************)
(* One slot's buffers, spectrum, noise baselines and texts, for any list of *)
(* block counts, any hints and any number of candidates.                    *)
(***************************************************************************)
EXTENDS DecodeSlot, UnpackLemmas

InBlock == pc \in {"search", "first", "candidates", "end"}
Decoding == pc \in {"first", "candidates"}
Clean(k) == [blocks |-> blocks[k], taken |-> 0]

\* A block count is over, or has not begun, unless it is the current one.
Idle(k) == k # bi \/ ~InBlock

Control ==
    /\ pc \in {"block", "search", "first", "candidates", "end",
               "a7", "return", "done"}
    /\ blocks \in BlockLists
    /\ bi \in Nat /\ 1 <= bi /\ bi <= Len(blocks) + 1
    /\ InBlock => bi <= Len(blocks)
    /\ pc \in {"a7", "return", "done"} => bi = Len(blocks) + 1
    /\ pass \in {0, 1}
    /\ hint \in Nat
    /\ pc \notin {"a7", "return", "done"} => hint = 0
    /\ ~Decoding => subtract = <<>>

\* Exactly the buffers in use are out of the pool; the one kept is that of the
\* full slot, which has begun.
Ownership ==
    /\ pool = [b \in Buffers |-> IF b \in {dd, fullDD} THEN 0 ELSE 1]
    /\ IF InBlock THEN dd \in Buffers /\ (dd = fullDD <=> KeepDD) ELSE dd = NoBuffer
    /\ fullDD \in Buffers \cup {NoBuffer}
    /\ fullDD # NoBuffer =>
         /\ Hints # <<>>
         /\ \E k \in DOMAIN blocks : blocks[k] = FullSlot /\ (k < bi \/ (k = bi /\ InBlock))
    /\ pc = "a7" => fullDD # NoBuffer
    /\ pc = "done" => fullDD = NoBuffer

\* What the buffers and baselines hold.
Holdings ==
    /\ samples \in [Buffers -> Contents]
    /\ decodedIn \in [DOMAIN blocks -> Nat]
    /\ baseline \in [DOMAIN blocks -> Contents]
    /\ \A k \in DOMAIN blocks : baseline[k] \in {NotYet, Clean(k)}
    /\ \A k \in DOMAIN blocks : k > bi \/ (k = bi /\ ~InBlock) => decodedIn[k] = 0
    /\ InBlock => /\ samples[dd].blocks = blocks[bi]
                  /\ samples[dd].taken + Len(subtract) = decodedIn[bi]
                  /\ baseline[bi] = NotYet => samples[dd].taken = 0 /\ pass = 0
    /\ fullDD # NoBuffer =>
         \A k \in DOMAIN blocks : blocks[k] = FullSlot /\ Idle(k) =>
           /\ samples[fullDD] = [blocks |-> FullSlot, taken |-> decodedIn[k]]
           /\ baseline[k] = NotYet => decodedIn[k] = 0

Spectrum ==
    /\ ds \in [initialized : BOOLEAN, spectrum : Contents]
    /\ SpectrumFresh

Returned ==
    /\ \E S : subtract \in Seq(S)
    /\ \E S : out \in Seq(S)
    /\ NoisePreSubtraction
    /\ TextsUnique

IInv == Control /\ Ownership /\ Holdings /\ Spectrum /\ Returned
------------------------------------------------------------------------------
\* Block counts are positive and distinct.
LEMMA BlocksDistinct ==
    ASSUME Control
    PROVE  /\ Len(blocks) \in Nat /\ DOMAIN blocks = 1..Len(blocks)
           /\ \A k \in DOMAIN blocks : blocks[k] \in Nat \ {0}
           /\ \A j, k \in DOMAIN blocks : blocks[j] = blocks[k] => j = k
<1>1. blocks \in Seq(Nat \ {0}) /\ IsInjective(blocks)
  BY SlotAssumption DEF SlotAssumption, Control
<1> QED BY <1>1, LenProperties DEF IsInjective

\* The current block count is one of them.
LEMMA Current ==
    ASSUME Control
    PROVE  /\ InBlock => bi \in DOMAIN blocks
           /\ \A k \in DOMAIN blocks : k > bi => k # bi
<1>1. Len(blocks) \in Nat /\ DOMAIN blocks = 1..Len(blocks)
  BY BlocksDistinct
<1>2. bi \in Nat /\ 1 <= bi /\ (InBlock => bi <= Len(blocks))
  BY DEF Control
<1> QED BY <1>1, <1>2

\* A sequence stays one whatever is appended to it.
LEMMA AppendAny ==
    ASSUME NEW S, NEW s \in Seq(S), NEW e
    PROVE  /\ Append(s, e) \in Seq(S \cup {e})
           /\ Len(s) \in Nat /\ DOMAIN s = 1..Len(s)
           /\ Len(Append(s, e)) = Len(s) + 1 /\ DOMAIN Append(s, e) = 1..(Len(s) + 1)
           /\ \A i \in 1..Len(s) : Append(s, e)[i] = s[i]
           /\ Append(s, e)[Len(s) + 1] = e
<1>1. Len(s) \in Nat /\ s \in [1..Len(s) -> S] /\ DOMAIN s = 1..Len(s)
  BY LenProperties
<1>2. s \in Seq(S \cup {e})
  BY <1>1
<1>3. /\ Append(s, e) \in Seq(S \cup {e}) /\ Len(Append(s, e)) = Len(s) + 1
      /\ \A i \in 1..Len(s) : Append(s, e)[i] = s[i]
      /\ Append(s, e)[Len(s) + 1] = e
  BY <1>2, AppendProperties
<1> QED BY <1>1, <1>3, LenProperties

LEMMA InitOK == Init => IInv
<1> SUFFICES ASSUME Init PROVE IInv
  OBVIOUS
<1>1. Control
  <2>1. blocks \in Seq(Nat \ {0})
    BY SlotAssumption DEF SlotAssumption, Init
  <2> QED BY <2>1, LenProperties DEF Init, Control, InBlock, Decoding
<1>2. Ownership
  BY SlotAssumption DEF Init, Ownership, InBlock, SlotAssumption
<1>3. Holdings
  BY <1>1, BlocksDistinct DEF Init, Holdings, InBlock, Contents, Stale, NotYet
<1>4. Spectrum
  BY DEF Init, Spectrum, SpectrumFresh, Contents, Stale
<1>5. Returned
  <2>1. <<>> \in Seq({})
    OBVIOUS
  <2> QED BY <2>1 DEF Init, Returned, NoisePreSubtraction, TextsUnique
<1> QED BY <1>1, <1>2, <1>3, <1>4, <1>5 DEF IInv

\* The sequences stay sequences: what an action leaves alone, or empties.
LEMMA ReturnedKept ==
    ASSUME Returned, out' = out, seen' = seen, subtract' \in {subtract, <<>>}
    PROVE  Returned'
<1>1. \E S : subtract' \in Seq(S)
  <2>1. <<>> \in Seq({})
    OBVIOUS
  <2> QED BY <2>1 DEF Returned
<1> QED BY <1>1 DEF Returned, NoisePreSubtraction, TextsUnique

LEMMA BeginBlockOK == IInv /\ BeginBlock => IInv'
<1> SUFFICES ASSUME IInv, BeginBlock PROVE IInv'
  OBVIOUS
<1> USE DEF IInv
<1>1. /\ Len(blocks) \in Nat /\ DOMAIN blocks = 1..Len(blocks)
      /\ \A k \in DOMAIN blocks : blocks[k] \in Nat \ {0}
      /\ \A j, k \in DOMAIN blocks : blocks[j] = blocks[k] => j = k
  BY BlocksDistinct
<1>2. PICK b \in Buffers :
        /\ pool[b] > 0
        /\ pool' = [pool EXCEPT ![b] = @ - 1]
        /\ samples' = [samples EXCEPT ![b] = [blocks |-> blocks[bi], taken |-> 0]]
        /\ dd' = b
        /\ fullDD' = IF KeepDD THEN b ELSE fullDD
  BY DEF BeginBlock
<1>3. /\ pc = "block" /\ bi <= Len(blocks) /\ bi \in DOMAIN blocks /\ pc' = "search" /\ pass' = 0
      /\ UNCHANGED <<blocks, bi, left, ds, baseline, subtract, seen, out, hint, decodedIn>>
      /\ ~InBlock /\ InBlock' /\ ~Decoding /\ ~Decoding'
  BY <1>1 DEF BeginBlock, Control, InBlock, Decoding
<1>4. dd = NoBuffer /\ b # fullDD /\ b # NoBuffer
  BY <1>2, <1>3, SlotAssumption DEF Ownership, SlotAssumption
<1>5. KeepDD => fullDD = NoBuffer
  BY <1>1, <1>3 DEF KeepDD, Ownership, InBlock
<1>6. KeepDD' = KeepDD
  BY <1>3 DEF KeepDD
<1>7. Control'
  BY <1>3 DEF Control, InBlock, Decoding
<1>8. Ownership'
  <2>1. pool' = [c \in Buffers |-> IF c \in {dd', fullDD'} THEN 0 ELSE 1]
    <3>1. pool[b] = 1 /\ \A c \in Buffers : pool[c] = IF c = fullDD THEN 0 ELSE 1
      BY <1>2, <1>4, SlotAssumption DEF Ownership, SlotAssumption
    <3>2. pool' = [c \in Buffers |-> IF c = b THEN 0 ELSE pool[c]]
      BY <1>2, <3>1 DEF Ownership
    <3>3. \A c \in Buffers : c # NoBuffer
      BY SlotAssumption DEF SlotAssumption
    <3>4. \A c \in Buffers : c \in {dd', fullDD'} <=> c = b \/ c = fullDD
      BY <1>2, <1>5, <3>3
    <3> QED BY <3>1, <3>2, <3>4
  <2>2. dd' \in Buffers /\ (dd' = fullDD' <=> KeepDD')
    BY <1>2, <1>4, <1>6
  <2>3. fullDD' # NoBuffer =>
          /\ Hints # <<>>
          /\ \E k \in DOMAIN blocks : blocks[k] = FullSlot /\ (k < bi \/ (k = bi /\ InBlock'))
    BY <1>2, <1>3 DEF Ownership, KeepDD
  <2> QED BY <1>2, <1>3, <2>1, <2>2, <2>3 DEF Ownership
<1>9. Holdings'
  <2>1. samples' \in [Buffers -> Contents]
    BY <1>1, <1>2, <1>3 DEF Holdings, Contents
  <2>2. samples'[dd'] = [blocks |-> blocks[bi], taken |-> 0]
    BY <1>2 DEF Holdings
  <2>3. subtract' = <<>> /\ Len(subtract') = 0 /\ decodedIn[bi] = 0
    BY <1>3 DEF Control, Holdings, InBlock
  <2>4. fullDD' # NoBuffer =>
          \A k \in DOMAIN blocks : blocks[k] = FullSlot /\ k # bi =>
            /\ samples'[fullDD'] = [blocks |-> FullSlot, taken |-> decodedIn[k]]
            /\ baseline[k] = NotYet => decodedIn[k] = 0
    <3>1. CASE KeepDD
      BY <1>1, <1>3, <3>1 DEF KeepDD
    <3>2. CASE ~KeepDD
      BY <1>2, <1>4, <3>2 DEF Holdings, Idle, Ownership
    <3> QED BY <3>1, <3>2
  <2>5. \A k \in DOMAIN blocks : k > bi => decodedIn[k] = 0
    BY DEF Holdings
  <2> QED BY <1>3, <2>1, <2>2, <2>3, <2>4, <2>5 DEF Holdings, Idle, Clean
<1>10. Spectrum'
  BY <1>3 DEF Spectrum, SpectrumFresh
<1>11. Returned'
  BY <1>3, ReturnedKept
<1> QED BY <1>7, <1>8, <1>9, <1>10, <1>11

LEMMA SearchOK == IInv /\ Search => IInv'
<1> SUFFICES ASSUME IInv, Search PROVE IInv'
  OBVIOUS
<1> USE DEF IInv
<1>1. /\ pc = "search" /\ pc' = "first"
      /\ ds' = [ds EXCEPT !.initialized = FALSE] /\ subtract' = <<>>
      /\ UNCHANGED <<blocks, bi, pass, pool, samples, dd, fullDD, baseline, seen, out, hint, decodedIn>>
      /\ InBlock /\ InBlock' /\ ~Decoding /\ Decoding'
  BY DEF Search, InBlock, Decoding
<1>2. subtract = <<>>
  BY <1>1 DEF Control
<1>3. Control'
  BY <1>1 DEF Control
<1>4. Ownership'
  BY <1>1 DEF Ownership, KeepDD
<1>5. Holdings'
  BY <1>1, <1>2 DEF Holdings, Idle, Clean
<1>6. Spectrum'
  BY <1>1 DEF Spectrum, SpectrumFresh
<1>7. Returned'
  BY <1>1, ReturnedKept
<1> QED BY <1>3, <1>4, <1>5, <1>6, <1>7

\* A candidate's symbols are read from the samples as they are.
LEMMA AnalyseOK ==
    ASSUME IInv, Decoding, NEW o, Analyse(o)
    PROVE  /\ pc' = "candidates" /\ InBlock /\ bi \in DOMAIN blocks /\ dd \in Buffers
           /\ ds' = [initialized |-> TRUE, spectrum |-> samples[dd]]
           /\ samples[dd] \in Contents
           /\ ~o.result.ok => decodedIn' = decodedIn
           /\ o.result.ok => decodedIn' = [decodedIn EXCEPT ![bi] = @ + 1]
<1> USE DEF IInv
<1>1. InBlock /\ bi \in DOMAIN blocks /\ dd \in Buffers
  <2>1. InBlock
    BY DEF Decoding, InBlock
  <2>2. bi \in DOMAIN blocks
    BY <2>1, Current
  <2> QED BY <2>1, <2>2 DEF Ownership
<1>2. samples[dd] \in Contents
  BY <1>1 DEF Holdings
<1>3. ds' = [initialized |-> TRUE, spectrum |-> samples[dd]]
  <2>1. CASE pc = "first" \/ ~ds.initialized
    BY <2>1 DEF Analyse, Downsampled
  <2>2. CASE pc = "candidates" /\ ds.initialized
    BY <2>2 DEF Analyse, Downsampled, Spectrum, SpectrumFresh
  <2> QED BY <2>1, <2>2 DEF Decoding
<1>4. ~o.result.ok => decodedIn' = decodedIn
  BY <1>1 DEF Analyse, Holdings
<1>5. o.result.ok => decodedIn' = [decodedIn EXCEPT ![bi] = @ + 1]
  BY DEF Analyse
<1> QED BY <1>1, <1>2, <1>3, <1>4, <1>5 DEF Analyse

LEMMA CandidateFailsOK == IInv /\ CandidateFails => IInv'
<1> SUFFICES ASSUME IInv, CandidateFails PROVE IInv'
  OBVIOUS
<1> USE DEF IInv
<1>1. PICK o \in Candidate!Outcomes(calls22) : ~o.result.ok /\ Analyse(o)
  BY DEF CandidateFails
<1>2. /\ Decoding
      /\ UNCHANGED <<blocks, bi, pass, pool, samples, dd, fullDD, baseline, subtract, seen, out, hint>>
  BY DEF CandidateFails, Decoding
<1>3. /\ pc' = "candidates" /\ InBlock /\ bi \in DOMAIN blocks /\ dd \in Buffers
      /\ ds' = [initialized |-> TRUE, spectrum |-> samples[dd]] /\ samples[dd] \in Contents
      /\ decodedIn' = decodedIn
  BY <1>1, <1>2, AnalyseOK
<1>4. InBlock' /\ Decoding'
  BY <1>3 DEF InBlock, Decoding
<1>5. Control'
  BY <1>2, <1>3, <1>4 DEF Control, InBlock, Decoding
<1>6. Ownership'
  BY <1>2, <1>3, <1>4 DEF Ownership, KeepDD
<1>7. Holdings'
  BY <1>2, <1>3, <1>4 DEF Holdings, Idle, Clean
<1>8. Spectrum'
  BY <1>2, <1>3 DEF Spectrum, SpectrumFresh
<1>9. Returned'
  BY <1>2, ReturnedKept
<1> QED BY <1>5, <1>6, <1>7, <1>8, <1>9

\* A decoded signal joins those to be subtracted.
LEMMA DecodedOK ==
    ASSUME IInv, Decoding, NEW o, o.result.ok, Analyse(o), NEW e,
           subtract' = Append(subtract, e),
           UNCHANGED <<blocks, bi, pass, pool, samples, dd, fullDD, hint>>,
           baseline' \in {baseline, [baseline EXCEPT ![bi] = Ensured(@, dd)]}
    PROVE  /\ Control' /\ Ownership' /\ Holdings' /\ Spectrum'
           /\ \E S : subtract' \in Seq(S)
<1> USE DEF IInv
<1>1. /\ pc' = "candidates" /\ InBlock /\ bi \in DOMAIN blocks /\ dd \in Buffers
      /\ ds' = [initialized |-> TRUE, spectrum |-> samples[dd]] /\ samples[dd] \in Contents
      /\ decodedIn' = [decodedIn EXCEPT ![bi] = @ + 1]
  BY AnalyseOK
<1>2. InBlock' /\ Decoding' /\ pc # "end"
  BY <1>1 DEF InBlock, Decoding
<1>3. PICK S : subtract \in Seq(S)
  BY DEF Returned
<1>4. subtract' \in Seq(S \cup {e}) /\ Len(subtract') = Len(subtract) + 1 /\ Len(subtract) \in Nat
  BY <1>3, AppendAny
<1>5. Control'
  BY <1>1, <1>2 DEF Control, InBlock, Decoding
<1>6. Ownership'
  BY <1>1, <1>2 DEF Ownership, KeepDD
<1>7. Spectrum'
  BY <1>1 DEF Spectrum, SpectrumFresh
<1>8. /\ baseline' \in [DOMAIN blocks -> Contents]
      /\ \A k \in DOMAIN blocks : baseline'[k] \in {baseline[k], Clean(k)}
      /\ \A k \in DOMAIN blocks : baseline'[k] = NotYet => baseline[k] = NotYet
  <2>1. Ensured(baseline[bi], dd) \in {baseline[bi], Clean(bi)}
    BY <1>1 DEF Ensured, Holdings, Clean, Contents
  <2>2. Clean(bi) \in Contents /\ Clean(bi) # NotYet
    BY <1>1, BlocksDistinct DEF Clean, Contents, NotYet
  <2> QED BY <1>1, <2>1, <2>2 DEF Holdings
<1>9. Holdings'
  <2>1. /\ decodedIn' \in [DOMAIN blocks -> Nat] /\ decodedIn'[bi] = decodedIn[bi] + 1
        /\ \A k \in DOMAIN blocks : k # bi => decodedIn'[k] = decodedIn[k]
    BY <1>1 DEF Holdings
  <2>2. \A k \in DOMAIN blocks : baseline'[k] \in {NotYet, Clean(k)}
    BY <1>8 DEF Holdings
  <2>3. samples[dd].taken + Len(subtract') = decodedIn'[bi]
    BY <1>1, <1>4, <2>1 DEF Holdings, Contents
  <2>4. \A k \in DOMAIN blocks : k > bi => decodedIn'[k] = 0
    <3>1. \A k \in DOMAIN blocks : k > bi => k # bi
      BY Current
    <3> QED BY <2>1, <3>1 DEF Holdings
  <2>5. baseline'[bi] = NotYet => samples[dd].taken = 0 /\ pass = 0
    BY <1>1, <1>8 DEF Holdings
  <2>6. fullDD # NoBuffer =>
          \A k \in DOMAIN blocks : blocks[k] = FullSlot /\ k # bi =>
            /\ samples[fullDD] = [blocks |-> FullSlot, taken |-> decodedIn'[k]]
            /\ baseline'[k] = NotYet => decodedIn'[k] = 0
    BY <1>8, <2>1 DEF Holdings, Idle
  <2> QED BY <1>1, <1>2, <1>8, <2>1, <2>2, <2>3, <2>4, <2>5, <2>6 DEF Holdings, Idle, Clean
<1> QED BY <1>4, <1>5, <1>6, <1>7, <1>9

LEMMA CandidateRepeatsOK == IInv /\ CandidateRepeats => IInv'
<1> SUFFICES ASSUME IInv, CandidateRepeats PROVE IInv'
  OBVIOUS
<1>1. PICK o \in Candidate!Outcomes(calls22) :
        o.result.ok /\ Analyse(o) /\ subtract' = Append(subtract, o.result.payload)
  BY DEF CandidateRepeats
<1>2. /\ Decoding
      /\ UNCHANGED <<blocks, bi, pass, pool, samples, dd, fullDD, baseline, seen, out, hint>>
  BY DEF CandidateRepeats, Decoding
<1>3. Control' /\ Ownership' /\ Holdings' /\ Spectrum' /\ \E S : subtract' \in Seq(S)
  BY <1>1, <1>2, DecodedOK
<1>4. Returned'
  BY <1>2, <1>3 DEF IInv, Returned, NoisePreSubtraction, TextsUnique
<1> QED BY <1>3, <1>4 DEF IInv

\* A message joins those returned if its text is new and its noise was measured
\* on clean samples.
LEMMA AppendReturned ==
    ASSUME Returned, NEW message, message.text \notin seen,
           message.noise = [blocks |-> message.blocks, taken |-> 0],
           out' = Append(out, message), seen' = seen \cup {message.text},
           \E S : subtract' \in Seq(S)
    PROVE  Returned'
<1>1. PICK S : out \in Seq(S)
  BY DEF Returned
<1>2. /\ out' \in Seq(S \cup {message})
      /\ Len(out) \in Nat /\ DOMAIN out = 1..Len(out) /\ DOMAIN out' = 1..(Len(out) + 1)
      /\ \A i \in 1..Len(out) : out'[i] = out[i]
      /\ out'[Len(out) + 1] = message
  BY <1>1, AppendAny
<1>3. \A i \in DOMAIN out' : i \in DOMAIN out \/ i = Len(out) + 1
  BY <1>2
<1>4. NoisePreSubtraction'
  BY <1>2, <1>3 DEF Returned, NoisePreSubtraction
<1>5. \A i \in DOMAIN out : out[i].text # message.text
  BY DEF Returned, TextsUnique
<1>6. \A i, j \in DOMAIN out' : out'[i].text = out'[j].text => i = j
  BY <1>2, <1>3, <1>5 DEF Returned, TextsUnique
<1>7. seen' = {out'[i].text : i \in DOMAIN out'}
  BY <1>2, <1>3 DEF Returned, TextsUnique
<1> QED BY <1>2, <1>4, <1>6, <1>7 DEF Returned, TextsUnique

LEMMA CandidateDecodesOK == IInv /\ CandidateDecodes => IInv'
<1> SUFFICES ASSUME IInv, CandidateDecodes PROVE IInv'
  OBVIOUS
<1>1. PICK o \in Candidate!Outcomes(calls22) :
        /\ o.result.ok /\ o.result.text \notin seen /\ Analyse(o)
        /\ subtract' = Append(subtract, o.result.payload)
        /\ seen' = seen \cup {o.result.text}
        /\ baseline' = [baseline EXCEPT ![bi] = Ensured(@, dd)]
        /\ out' = Append(out, Message(o.result.text, blocks[bi], ds'.spectrum,
                                      baseline'[bi], FALSE))
  BY DEF CandidateDecodes
<1>2. Decoding /\ UNCHANGED <<blocks, bi, pass, pool, samples, dd, fullDD, hint>>
  BY DEF CandidateDecodes, Decoding
<1>3. Control' /\ Ownership' /\ Holdings' /\ Spectrum' /\ \E S : subtract' \in Seq(S)
  BY <1>1, <1>2, DecodedOK
<1>4. baseline'[bi] = Clean(bi)
  <2>1. bi \in DOMAIN blocks /\ InBlock
    BY <1>1, <1>2, AnalyseOK
  <2>2. baseline'[bi] = Ensured(baseline[bi], dd)
    BY <1>1, <2>1 DEF IInv, Holdings
  <2>3. dd \in Buffers
    BY <2>1 DEF IInv, Ownership
  <2> QED BY <2>1, <2>2, <2>3 DEF IInv, Holdings, Ensured, Clean, Contents
<1>5. Returned'
  <2> DEFINE message == Message(o.result.text, blocks[bi], ds'.spectrum, baseline'[bi], FALSE)
  <2>1. /\ message.text = o.result.text /\ message.blocks = blocks[bi]
        /\ message.noise = baseline'[bi]
    BY DEF Message
  <2> HIDE DEF message
  <2>2. out' = Append(out, message)
    BY <1>1 DEF message
  <2> QED BY <1>1, <1>3, <1>4, <2>1, <2>2, AppendReturned DEF IInv, Clean
<1> QED BY <1>3, <1>5 DEF IInv

LEMMA EndPassEmptyOK == IInv /\ EndPassEmpty => IInv'
<1> SUFFICES ASSUME IInv, EndPassEmpty PROVE IInv'
  OBVIOUS
<1> USE DEF IInv
<1>1. /\ subtract = <<>> /\ pc' = "end" /\ InBlock /\ InBlock' /\ Decoding
      /\ UNCHANGED <<blocks, bi, pass, pool, samples, dd, fullDD, ds, baseline,
                     subtract, seen, out, hint, decodedIn>>
  BY DEF EndPassEmpty, InBlock, Decoding
<1>2. Control'
  BY <1>1 DEF Control, InBlock, Decoding
<1>3. Ownership'
  BY <1>1 DEF Ownership, KeepDD
<1>4. Holdings'
  BY <1>1 DEF Holdings, Idle, Clean
<1>5. Spectrum'
  BY <1>1 DEF Spectrum, SpectrumFresh
<1>6. Returned'
  BY <1>1, ReturnedKept
<1> QED BY <1>2, <1>3, <1>4, <1>5, <1>6

LEMMA SubtractAllOK == IInv /\ SubtractAll => IInv'
<1> SUFFICES ASSUME IInv, SubtractAll PROVE IInv'
  OBVIOUS
<1> USE DEF IInv
<1>1. /\ baseline' = IF pass = 0 THEN [baseline EXCEPT ![bi] = Ensured(@, dd)] ELSE baseline
      /\ samples' = [samples EXCEPT ![dd].taken = @ + Len(subtract)]
      /\ subtract' = <<>> /\ pass' = 1 /\ pc' \in {"search", "end"}
      /\ InBlock /\ InBlock' /\ Decoding /\ ~Decoding'
      /\ UNCHANGED <<blocks, bi, pool, dd, fullDD, ds, seen, out, hint, decodedIn>>
  BY DEF SubtractAll, InBlock, Decoding
<1>2. bi \in DOMAIN blocks /\ dd \in Buffers
  BY <1>1, Current DEF Ownership
<1>3. Len(subtract) \in Nat
  BY LenProperties DEF Returned
<1>4. Control'
  BY <1>1 DEF Control, InBlock, Decoding
<1>5. Ownership'
  BY <1>1 DEF Ownership, KeepDD
<1>6. /\ baseline' \in [DOMAIN blocks -> Contents] /\ baseline'[bi] # NotYet
      /\ \A k \in DOMAIN blocks : baseline'[k] \in {NotYet, Clean(k)}
      /\ \A k \in DOMAIN blocks : baseline'[k] = NotYet => baseline[k] = NotYet
  <2>1. Clean(bi) \in Contents /\ Clean(bi) # NotYet
    BY <1>2, BlocksDistinct DEF Clean, Contents, NotYet
  <2>2. CASE pass = 0
    <3>1. Ensured(baseline[bi], dd) = Clean(bi)
      BY <1>1, <1>2 DEF Ensured, Holdings, Clean, Contents
    <3> QED BY <1>1, <1>2, <2>1, <2>2, <3>1 DEF Holdings
  <2>3. CASE pass # 0
    BY <1>1, <1>2, <2>3 DEF Holdings
  <2> QED BY <2>2, <2>3
<1>7. /\ samples' \in [Buffers -> Contents]
      /\ samples'[dd].blocks = blocks[bi] /\ samples'[dd].taken = decodedIn[bi]
      /\ \A b \in Buffers : b # dd => samples'[b] = samples[b]
  <2>1. samples[dd] \in Contents
    BY <1>2 DEF Holdings
  <2>2. samples' = [samples EXCEPT ![dd] = [samples[dd] EXCEPT !.taken = @ + Len(subtract)]]
    BY <1>1
  <2>3. [samples[dd] EXCEPT !.taken = @ + Len(subtract)] \in Contents
    BY <1>3, <2>1 DEF Contents
  <2> QED BY <1>1, <1>2, <2>1, <2>2, <2>3 DEF Holdings, Contents
<1>8. Holdings'
  <2>1. Len(subtract') = 0
    BY <1>1
  <2>2. decodedIn[bi] \in Nat
    BY <1>2 DEF Holdings
  <2>3. fullDD # NoBuffer =>
          \A k \in DOMAIN blocks : blocks[k] = FullSlot /\ k # bi =>
            /\ samples'[fullDD] = [blocks |-> FullSlot, taken |-> decodedIn[k]]
            /\ baseline'[k] = NotYet => decodedIn[k] = 0
    <3> SUFFICES ASSUME fullDD # NoBuffer, NEW k \in DOMAIN blocks, blocks[k] = FullSlot, k # bi
                 PROVE  /\ samples'[fullDD] = [blocks |-> FullSlot, taken |-> decodedIn[k]]
                        /\ baseline'[k] = NotYet => decodedIn[k] = 0
      OBVIOUS
    <3>1. fullDD \in Buffers /\ fullDD # dd
      BY <1>1, <1>2, BlocksDistinct DEF Ownership, KeepDD
    <3> QED BY <1>6, <1>7, <3>1 DEF Holdings, Idle
  <2>4. samples'[dd].taken + Len(subtract') = decodedIn[bi]
    BY <1>7, <2>1, <2>2
  <2>5. \A k \in DOMAIN blocks : k > bi => decodedIn[k] = 0
    BY DEF Holdings
  <2>6. decodedIn \in [DOMAIN blocks -> Nat]
    BY DEF Holdings
  <2> QED BY <1>1, <1>6, <1>7, <2>3, <2>4, <2>5, <2>6 DEF Holdings, Idle, Clean
<1>9. Spectrum'
  BY <1>1 DEF Spectrum, SpectrumFresh
<1>10. Returned'
  BY <1>1, ReturnedKept
<1> QED BY <1>4, <1>5, <1>8, <1>9, <1>10

\* The next block count is no later than the end of the list.
LEMMA NextIndex ==
    ASSUME Control, InBlock, bi' = bi + 1
    PROVE  /\ bi \in DOMAIN blocks /\ bi' \in Nat /\ 1 <= bi' /\ bi' <= Len(blocks) + 1
           /\ \A k \in DOMAIN blocks : k >= bi' => k > bi
           /\ \A k \in DOMAIN blocks : k < bi \/ k = bi => k < bi'
<1>1. Len(blocks) \in Nat /\ DOMAIN blocks = 1..Len(blocks)
  BY BlocksDistinct
<1>2. bi \in Nat /\ 1 <= bi /\ bi <= Len(blocks)
  BY DEF Control
<1> QED BY <1>1, <1>2

\* A block count that is over leaves the residual it kept with all its signals
\* subtracted.
LEMMA KeptWhenOver ==
    ASSUME Control, Ownership, Holdings, InBlock, subtract = <<>>,
           NEW k \in DOMAIN blocks, blocks[k] = FullSlot, fullDD # NoBuffer
    PROVE  /\ samples[fullDD] = [blocks |-> FullSlot, taken |-> decodedIn[k]]
           /\ baseline[k] = NotYet => decodedIn[k] = 0
<1>1. CASE k # bi
  BY <1>1 DEF Holdings, Idle
<1>2. CASE k = bi
  <2>1. dd = fullDD /\ dd \in Buffers
    BY <1>2 DEF Ownership, KeepDD
  <2>2. samples[dd] \in Contents /\ decodedIn[bi] \in Nat
    BY <1>2, <2>1 DEF Holdings
  <2>3. Len(subtract) = 0
    OBVIOUS
  <2>4. /\ samples[dd].blocks = blocks[bi] /\ samples[dd].taken + Len(subtract) = decodedIn[bi]
        /\ baseline[bi] = NotYet => samples[dd].taken = 0
    BY DEF Holdings
  <2>5. samples[dd].taken \in Nat /\ samples[dd].taken = decodedIn[bi]
    BY <2>2, <2>3, <2>4 DEF Contents
  <2>6. samples[dd] = [blocks |-> FullSlot, taken |-> decodedIn[bi]]
    BY <1>2, <2>2, <2>4, <2>5 DEF Contents
  <2> QED BY <1>2, <2>1, <2>4, <2>5, <2>6
<1> QED BY <1>1, <1>2

LEMMA EndBlockOK == IInv /\ EndBlock => IInv'
<1> SUFFICES ASSUME IInv, EndBlock PROVE IInv'
  OBVIOUS
<1> USE DEF IInv
<1>1. /\ pc = "end" /\ pc' = "block" /\ bi' = bi + 1 /\ dd' = NoBuffer
      /\ pool' = IF KeepDD THEN pool ELSE [pool EXCEPT ![dd] = @ + 1]
      /\ InBlock /\ ~InBlock' /\ ~Decoding /\ ~Decoding'
      /\ UNCHANGED <<blocks, pass, samples, fullDD, ds, baseline,
                     subtract, seen, out, hint, decodedIn>>
  BY DEF EndBlock, InBlock, Decoding
<1>2. /\ bi \in DOMAIN blocks /\ bi' \in Nat /\ 1 <= bi' /\ bi' <= Len(blocks) + 1
      /\ \A k \in DOMAIN blocks : k >= bi' => k > bi
      /\ \A k \in DOMAIN blocks : k < bi \/ k = bi => k < bi'
  BY <1>1, NextIndex
<1>3. Control'
  BY <1>1, <1>2 DEF Control
<1>4. Ownership'
  <2>1. dd \in Buffers /\ dd # NoBuffer /\ (dd = fullDD <=> KeepDD)
    BY <1>1, SlotAssumption DEF Ownership, SlotAssumption
  <2>2. pool' = [b \in Buffers |-> IF b = fullDD THEN 0 ELSE 1]
    <3>1. CASE KeepDD
      BY <1>1, <2>1, <3>1 DEF Ownership
    <3>2. CASE ~KeepDD
      <4>1. pool' = [pool EXCEPT ![dd] = @ + 1] /\ dd # fullDD
        BY <1>1, <2>1, <3>2
      <4>2. pool = [b \in Buffers |-> IF b \in {dd, fullDD} THEN 0 ELSE 1]
        BY DEF Ownership
      <4>3. pool[dd] = 0
        BY <2>1, <4>2
      <4>4. pool' = [b \in Buffers |-> IF b = dd THEN 1 ELSE pool[b]]
        BY <4>1, <4>2, <4>3
      <4> QED BY <4>1, <4>2, <4>4
    <3> QED BY <3>1, <3>2
  <2>3. \A b \in Buffers : b # NoBuffer
    BY SlotAssumption DEF SlotAssumption
  <2>4. pool' = [b \in Buffers |-> IF b \in {dd', fullDD'} THEN 0 ELSE 1]
    BY <1>1, <2>2, <2>3
  <2>5. fullDD # NoBuffer =>
          Hints # <<>> /\ \E k \in DOMAIN blocks : blocks[k] = FullSlot /\ k < bi'
    BY <1>2 DEF Ownership
  <2>6. fullDD \in Buffers \cup {NoBuffer}
    BY DEF Ownership
  <2>7. fullDD' # NoBuffer =>
          \E k \in DOMAIN blocks' :
            blocks'[k] = FullSlot /\ (k < bi' \/ (k = bi' /\ InBlock'))
    <3> SUFFICES ASSUME fullDD' # NoBuffer
                 PROVE  \E k \in DOMAIN blocks' :
                          blocks'[k] = FullSlot /\ (k < bi' \/ (k = bi' /\ InBlock'))
      OBVIOUS
    <3>1. blocks' = blocks /\ fullDD' = fullDD
      BY <1>1
    <3>2. PICK j \in DOMAIN blocks : blocks[j] = FullSlot /\ j < bi'
      BY <2>5, <3>1
    <3>3. j \in DOMAIN blocks' /\ blocks'[j] = FullSlot
      BY <3>1, <3>2
    <3> QED BY <3>2, <3>3
  <2>8. pc' # "a7" /\ pc' # "done" /\ fullDD' = fullDD
    BY <1>1
  <2> QED BY <1>1, <2>4, <2>5, <2>6, <2>7, <2>8 DEF Ownership
<1>5. Holdings'
  <2>1. subtract = <<>>
    BY <1>1 DEF Control
  <2>2. \A k \in DOMAIN blocks : k >= bi' => decodedIn[k] = 0
    BY <1>2 DEF Holdings
  <2>3. \A k \in DOMAIN blocks : k > bi' \/ k = bi' => k >= bi'
    <3>1. Len(blocks) \in Nat /\ DOMAIN blocks = 1..Len(blocks)
      BY BlocksDistinct
    <3> QED BY <1>2, <3>1
  <2>4. fullDD # NoBuffer =>
          \A k \in DOMAIN blocks : blocks[k] = FullSlot =>
            /\ samples[fullDD] = [blocks |-> FullSlot, taken |-> decodedIn[k]]
            /\ baseline[k] = NotYet => decodedIn[k] = 0
    BY <1>1, <2>1, KeptWhenOver
  <2> QED BY <1>1, <2>2, <2>3, <2>4 DEF Holdings, Clean
<1>6. Spectrum'
  BY <1>1 DEF Spectrum, SpectrumFresh
<1>7. Returned'
  BY <1>1, ReturnedKept
<1> QED BY <1>3, <1>4, <1>5, <1>6, <1>7

\* The steps between the blocks, A7 and the return, which move no samples.
LEMMA ControlOnlyOK ==
    ASSUME IInv, ~InBlock, ~InBlock', ~Decoding, ~Decoding',
           UNCHANGED <<blocks, bi, pass, samples, dd, baseline, subtract, seen, out, decodedIn>>
    PROVE  /\ fullDD' \in {fullDD, NoBuffer} => Holdings'
           /\ Returned'
<1> USE DEF IInv
<1>1. fullDD' \in {fullDD, NoBuffer} => Holdings'
  BY DEF Holdings, Idle, Clean
<1> QED BY <1>1, ReturnedKept

LEMMA BeginA7OK == IInv /\ BeginA7 => IInv'
<1> SUFFICES ASSUME IInv, BeginA7 PROVE IInv'
  OBVIOUS
<1> USE DEF IInv
<1>1. /\ pc = "block" /\ bi > Len(blocks) /\ fullDD # NoBuffer
      /\ ds' = [initialized |-> FALSE, spectrum |-> Stale] /\ pc' = "a7"
      /\ ~InBlock /\ ~InBlock' /\ ~Decoding /\ ~Decoding'
      /\ UNCHANGED <<blocks, bi, pass, pool, samples, dd, fullDD, baseline,
                     subtract, seen, out, hint, decodedIn>>
  BY DEF BeginA7, InBlock, Decoding
<1>2. Len(blocks) \in Nat
  BY BlocksDistinct
<1>3. bi = Len(blocks) + 1 /\ hint = 0
  BY <1>1, <1>2 DEF Control
<1>4. Control'
  BY <1>1, <1>2, <1>3 DEF Control
<1>5. Ownership'
  BY <1>1 DEF Ownership
<1>6. Spectrum'
  BY <1>1, <1>3 DEF Spectrum, SpectrumFresh, Contents, Stale
<1>7. Holdings' /\ Returned'
  BY <1>1, ControlOnlyOK
<1> QED BY <1>4, <1>5, <1>6, <1>7

LEMMA SkipA7OK == IInv /\ SkipA7 => IInv'
<1> SUFFICES ASSUME IInv, SkipA7 PROVE IInv'
  OBVIOUS
<1> USE DEF IInv
<1>1. /\ pc = "block" /\ bi > Len(blocks) /\ pc' = "return"
      /\ ~InBlock /\ ~InBlock' /\ ~Decoding /\ ~Decoding'
      /\ UNCHANGED <<blocks, bi, pass, pool, samples, dd, fullDD, ds, baseline,
                     subtract, seen, out, hint, decodedIn>>
  BY DEF SkipA7, InBlock, Decoding
<1>2. Len(blocks) \in Nat
  BY BlocksDistinct
<1>3. bi = Len(blocks) + 1
  BY <1>1, <1>2 DEF Control
<1>4. Control'
  BY <1>1, <1>2, <1>3 DEF Control
<1>5. Ownership'
  BY <1>1 DEF Ownership
<1>6. Spectrum'
  BY <1>1 DEF Spectrum, SpectrumFresh
<1>7. Holdings' /\ Returned'
  BY <1>1, ControlOnlyOK
<1> QED BY <1>4, <1>5, <1>6, <1>7

\* A hint reads the residual's own spectrum.
LEMMA TryHintOK ==
    ASSUME IInv, TryHint, UNCHANGED blocks
    PROVE  /\ Control' /\ Ownership' /\ Spectrum'
           /\ pc = "a7" /\ ~InBlock /\ ~InBlock' /\ ~Decoding /\ ~Decoding'
<1> USE DEF IInv
<1>1. /\ pc = "a7" /\ hint' = hint + 1 /\ ds' = Downsampled(ds, hint = 0, fullDD)
      /\ UNCHANGED <<pc, bi, pass, pool, samples, dd, fullDD, subtract>>
      /\ ~InBlock /\ ~InBlock' /\ ~Decoding /\ ~Decoding'
  BY DEF TryHint, InBlock, Decoding
<1>2. fullDD \in Buffers /\ samples[fullDD] \in Contents /\ hint \in Nat
  BY <1>1 DEF Ownership, Holdings, Control
<1>3. ds' = [initialized |-> TRUE, spectrum |-> samples[fullDD]]
  <2>1. CASE hint = 0 \/ ~ds.initialized
    BY <1>1, <2>1 DEF Downsampled
  <2>2. CASE hint > 0 /\ ds.initialized
    BY <1>1, <2>2 DEF Downsampled, Spectrum, SpectrumFresh
  <2> QED BY <1>2, <2>1, <2>2
<1>4. Control'
  BY <1>1, <1>2 DEF Control
<1>5. Ownership'
  BY <1>1 DEF Ownership
<1>6. Spectrum'
  <2>1. ds' \in [initialized : BOOLEAN, spectrum : Contents]
    BY <1>2, <1>3
  <2>2. pc' = "a7" /\ samples' = samples /\ fullDD' = fullDD
    BY <1>1
  <2>3. ds'.initialized /\ ds'.spectrum = samples[fullDD]
    BY <1>3
  <2> QED BY <2>1, <2>2, <2>3 DEF Spectrum, SpectrumFresh
<1> QED BY <1>1, <1>4, <1>5, <1>6

LEMMA HintFailsOK == IInv /\ HintFails => IInv'
<1> SUFFICES ASSUME IInv, HintFails PROVE IInv'
  OBVIOUS
<1>1. /\ TryHint
      /\ UNCHANGED <<blocks, bi, pass, samples, dd, fullDD, baseline, subtract, seen, out,
                     decodedIn>>
  BY DEF HintFails, TryHint
<1>2. /\ Control' /\ Ownership' /\ Spectrum'
      /\ pc = "a7" /\ ~InBlock /\ ~InBlock' /\ ~Decoding /\ ~Decoding'
  BY <1>1, TryHintOK
<1>3. Holdings' /\ Returned'
  BY <1>1, <1>2, ControlOnlyOK
<1> QED BY <1>2, <1>3 DEF IInv

\* A7 finds the full slot among the block counts, with its residual.
LEMMA FullSlotKept ==
    ASSUME IInv, pc = "a7"
    PROVE  /\ FullIndex \in DOMAIN blocks /\ blocks[FullIndex] = FullSlot
           /\ fullDD \in Buffers
           /\ samples[fullDD] = [blocks |-> FullSlot, taken |-> decodedIn[FullIndex]]
           /\ baseline[FullIndex] = NotYet => decodedIn[FullIndex] = 0
<1> USE DEF IInv
<1>1. ~InBlock /\ fullDD # NoBuffer /\ fullDD \in Buffers
  BY DEF InBlock, Ownership
<1>2. \E k \in DOMAIN blocks : blocks[k] = FullSlot
  BY <1>1 DEF Ownership
<1>3. FullIndex \in DOMAIN blocks /\ blocks[FullIndex] = FullSlot
  BY <1>2 DEF FullIndex
<1> HIDE DEF FullIndex
<1> QED BY <1>1, <1>3 DEF Holdings, Idle

LEMMA HintDecodesOK == IInv /\ HintDecodes => IInv'
<1> SUFFICES ASSUME IInv, HintDecodes PROVE IInv'
  OBVIOUS
<1>1. PICK text \in Hints[hint + 1] \ seen :
        /\ seen' = seen \cup {text}
        /\ baseline' = [baseline EXCEPT ![FullIndex] = Ensured(@, fullDD)]
        /\ out' = Append(out, Message(text, FullSlot, ds'.spectrum, baseline'[FullIndex], TRUE))
  BY DEF HintDecodes
<1>2. TryHint /\ UNCHANGED <<blocks, bi, pass, samples, dd, fullDD, subtract, decodedIn>>
  BY DEF HintDecodes, TryHint
<1>3. /\ Control' /\ Ownership' /\ Spectrum'
      /\ pc = "a7" /\ ~InBlock /\ ~InBlock' /\ ~Decoding /\ ~Decoding'
  BY <1>2, TryHintOK
<1>4. /\ FullIndex \in DOMAIN blocks /\ blocks[FullIndex] = FullSlot
      /\ fullDD \in Buffers
      /\ samples[fullDD] = [blocks |-> FullSlot, taken |-> decodedIn[FullIndex]]
      /\ baseline[FullIndex] = NotYet => decodedIn[FullIndex] = 0
  BY <1>3, FullSlotKept
<1> DEFINE full == FullIndex
<1> HIDE DEF full
<1>5. Ensured(baseline[full], fullDD) = Clean(full)
  BY <1>4 DEF full, IInv, Holdings, Ensured, Clean
<1>6. Clean(full) \in Contents /\ Clean(full) # NotYet
  BY <1>4, BlocksDistinct DEF full, IInv, Clean, Contents, NotYet
<1>7. /\ baseline' = [baseline EXCEPT ![full] = Clean(full)] /\ baseline'[full] = Clean(full)
      /\ baseline' \in [DOMAIN blocks -> Contents]
      /\ \A k \in DOMAIN blocks : baseline'[k] \in {baseline[k], Clean(k)}
      /\ \A k \in DOMAIN blocks : baseline'[k] = NotYet => baseline[k] = NotYet
  BY <1>1, <1>4, <1>5, <1>6 DEF full, IInv, Holdings
<1>8. Holdings'
  <2>1. \A k \in DOMAIN blocks : baseline'[k] \in {NotYet, Clean(k)}
    BY <1>7 DEF IInv, Holdings
  <2>2. fullDD # NoBuffer =>
          \A k \in DOMAIN blocks : blocks[k] = FullSlot =>
            /\ samples[fullDD] = [blocks |-> FullSlot, taken |-> decodedIn[k]]
            /\ baseline'[k] = NotYet => decodedIn[k] = 0
    BY <1>3, <1>7 DEF IInv, Holdings, Idle
  <2> QED BY <1>2, <1>3, <1>7, <2>1, <2>2 DEF IInv, Holdings, Idle, Clean
<1>9. Returned'
  <2> DEFINE message == Message(text, FullSlot, ds'.spectrum, baseline'[FullIndex], TRUE)
  <2>1. /\ message.text = text /\ message.blocks = FullSlot
        /\ message.noise = baseline'[FullIndex]
    BY DEF Message
  <2> HIDE DEF message
  <2>2. out' = Append(out, message)
    BY <1>1 DEF message
  <2>3. message.noise = [blocks |-> message.blocks, taken |-> 0]
    BY <1>4, <1>7, <2>1 DEF full, Clean
  <2>4. \E S : subtract' \in Seq(S)
    BY <1>2 DEF IInv, Returned
  <2> QED BY <1>1, <2>1, <2>2, <2>3, <2>4, AppendReturned DEF IInv
<1> QED BY <1>3, <1>8, <1>9 DEF IInv

LEMMA EndA7OK == IInv /\ EndA7 => IInv'
<1> SUFFICES ASSUME IInv, EndA7 PROVE IInv'
  OBVIOUS
<1> USE DEF IInv
<1>1. /\ pc = "a7" /\ pc' = "return"
      /\ ~InBlock /\ ~InBlock' /\ ~Decoding /\ ~Decoding'
      /\ UNCHANGED <<blocks, bi, pass, pool, samples, dd, fullDD, ds, baseline,
                     subtract, seen, out, hint, decodedIn>>
  BY DEF EndA7, InBlock, Decoding
<1>2. Control'
  BY <1>1 DEF Control
<1>3. Ownership'
  BY <1>1 DEF Ownership
<1>4. Spectrum'
  BY <1>1 DEF Spectrum, SpectrumFresh
<1>5. Holdings' /\ Returned'
  BY <1>1, ControlOnlyOK
<1> QED BY <1>2, <1>3, <1>4, <1>5

LEMMA ReturnOK == IInv /\ Return => IInv'
<1> SUFFICES ASSUME IInv, Return PROVE IInv'
  OBVIOUS
<1> USE DEF IInv
<1>1. /\ pc = "return" /\ pc' = "done" /\ fullDD' = NoBuffer
      /\ pool' = IF fullDD = NoBuffer THEN pool ELSE [pool EXCEPT ![fullDD] = @ + 1]
      /\ ~InBlock /\ ~InBlock' /\ ~Decoding /\ ~Decoding'
      /\ UNCHANGED <<blocks, bi, pass, samples, dd, ds, baseline,
                     subtract, seen, out, hint, decodedIn>>
  BY DEF Return, InBlock, Decoding
<1>2. Control'
  BY <1>1 DEF Control
<1>3. Ownership'
  <2>1. dd = NoBuffer /\ \A b \in Buffers : b # NoBuffer
    BY <1>1, SlotAssumption DEF Ownership, SlotAssumption
  <2>2. pool' = [b \in Buffers |-> 1]
    <3>1. CASE fullDD = NoBuffer
      BY <1>1, <2>1, <3>1 DEF Ownership
    <3>2. CASE fullDD # NoBuffer
      BY <1>1, <2>1, <3>2 DEF Ownership
    <3> QED BY <3>1, <3>2
  <2>3. pool' = [b \in Buffers |-> IF b \in {dd', fullDD'} THEN 0 ELSE 1]
    BY <1>1, <2>1, <2>2
  <2> QED BY <1>1, <2>1, <2>3 DEF Ownership
<1>4. Spectrum'
  BY <1>1 DEF Spectrum, SpectrumFresh
<1>5. Holdings' /\ Returned'
  BY <1>1, ControlOnlyOK
<1> QED BY <1>2, <1>3, <1>4, <1>5

LEMMA StutterOK == IInv /\ UNCHANGED vars => IInv'
<1> SUFFICES ASSUME IInv, UNCHANGED vars PROVE IInv'
  OBVIOUS
<1>1. /\ UNCHANGED <<blocks, pc, bi, pass, pool, samples, dd, fullDD, ds, baseline,
                     subtract, seen, out, hint, decodedIn>>
      /\ InBlock' = InBlock /\ Decoding' = Decoding /\ KeepDD' = KeepDD
  BY DEF vars, InBlock, Decoding, KeepDD
<1> USE DEF IInv
<1>2. Control'
  BY <1>1 DEF Control
<1>3. Ownership'
  BY <1>1 DEF Ownership
<1>4. Holdings'
  BY <1>1 DEF Holdings, Idle, Clean
<1>5. Spectrum'
  BY <1>1 DEF Spectrum, SpectrumFresh
<1>6. Returned'
  BY <1>1, ReturnedKept
<1> QED BY <1>2, <1>3, <1>4, <1>5, <1>6
------------------------------------------------------------------------------
LEMMA Inductive == Spec => []IInv
<1>1. IInv /\ [Next]_vars => IInv'
  BY BeginBlockOK, SearchOK, CandidateFailsOK, CandidateRepeatsOK, CandidateDecodesOK,
     EndPassEmptyOK, SubtractAllOK, EndBlockOK, BeginA7OK, SkipA7OK, HintFailsOK,
     HintDecodesOK, EndA7OK, ReturnOK, StutterOK DEF Next
<1> QED BY <1>1, InitOK, PTL DEF Spec

\* Whatever the block counts, the candidates and the hints, a buffer is in the
\* pool only when the decode has done with it, and all are back when it is over
\* (decodeBlockPool, decode.go).
THEOREM BuffersAlwaysOwned == Spec => []BuffersOwned
<1>1. IInv => BuffersOwned
  <2> SUFFICES ASSUME IInv PROVE BuffersOwned
    OBVIOUS
  <2>1. \A b \in Buffers : pool[b] = IF b \in {dd, fullDD} THEN 0 ELSE 1
    BY DEF IInv, Ownership
  <2>2. {dd, fullDD} \ {NoBuffer} \subseteq Buffers
    BY DEF IInv, Ownership
  <2>3. pc = "done" => dd = NoBuffer /\ fullDD = NoBuffer
    BY DEF IInv, Ownership, InBlock
  <2>4. \A b \in Buffers : b # NoBuffer
    BY SlotAssumption DEF SlotAssumption
  <2> QED BY <2>1, <2>2, <2>3, <2>4 DEF BuffersOwned
<1> QED BY <1>1, Inductive, PTL

\* Every returned message's noise was measured on the samples of its own block
\* count before anything was subtracted from them (lazySpectrumBaseline, snr.go).
THEOREM NoiseAlwaysPreSubtraction == Spec => []NoisePreSubtraction
<1>1. IInv => NoisePreSubtraction
  BY DEF IInv, Returned
<1> QED BY <1>1, Inductive, PTL

\* The downsampler's cached spectrum is never of another buffer or of samples
\* that have changed since (downsampler.downsample, refine.go).
THEOREM SpectrumAlwaysFresh == Spec => []SpectrumFresh
<1>1. IInv => SpectrumFresh
  BY DEF IInv, Spectrum
<1> QED BY <1>1, Inductive, PTL

\* A7 looks at the full slot with all its decoded signals subtracted, and no
\* others (decodeA7HintsWithBaseline, a7.go).
THEOREM A7AlwaysOnResidual == Spec => []A7OnResidual
<1>1. IInv => A7OnResidual
  BY FullSlotKept DEF A7OnResidual
<1> QED BY <1>1, Inductive, PTL

\* No text is returned twice.
THEOREM TextsAlwaysUnique == Spec => []TextsUnique
<1>1. IInv => TextsUnique
  BY DEF IInv, Returned
<1> QED BY <1>1, Inductive, PTL
------------------------------------------------------------------------------
DiagFields == {"BlocksSearched", "CandidateSearches", "CandidatesFound", "CandidatesAnalyzed",
               "DecodedCandidates", "DuplicateMessages", "Subtractions", "A7Hints",
               "A7Decoded", "UniqueMessages"}
Diag == [DiagFields -> Nat]

\* The searches the current block count may still make.
SearchesLeft == CASE pc = "search" -> 2 - pass
                  [] Decoding -> 1 - pass
                  [] OTHER -> 0

\* What the counters add up to, with found candidates still to analyse, decoded
\* signals still to subtract, returned messages, searches still allowed and block
\* counts begun.
Fits(d, found, decoded, returned, searches, begun) ==
    /\ d.CandidatesFound = d.CandidatesAnalyzed + found
    /\ d.CandidatesFound <= MaxFound * d.CandidateSearches
    /\ d.DecodedCandidates = d.Subtractions + decoded
    /\ returned + d.DuplicateMessages = d.DecodedCandidates + d.A7Decoded
    /\ d.CandidateSearches + searches <= 2 * d.BlocksSearched
    /\ d.BlocksSearched = begun

Begun == IF InBlock THEN bi ELSE bi - 1

Tallies ==
    /\ diag \in Diag
    /\ left \in Nat
    /\ ~Decoding => left = 0
    /\ Fits(diag, left, Len(subtract), Len(out), SearchesLeft, Begun)
    /\ pc = "done" => diag.UniqueMessages = Len(out)

LEMMA CountUp ==
    ASSUME NEW d \in Diag, NEW c \in DiagFields, NEW n \in Nat
    PROVE  LET e == [d EXCEPT ![c] = @ + n]
           IN  e \in Diag /\ e[c] = d[c] + n /\ \A f \in DiagFields \ {c} : e[f] = d[f]
  BY DEF Diag

\* Each kind of update of the counters keeps their account.
LEMMA CountsFit ==
    ASSUME NEW d \in Diag, NEW found \in Nat, NEW decoded \in Nat, NEW returned \in Nat,
           NEW searches \in Nat, NEW begun \in Nat,
           Fits(d, found, decoded, returned, searches, begun)
    PROVE  /\ LET e == [d EXCEPT !.BlocksSearched = @ + 1]
              IN  searches = 0 => e \in Diag /\ Fits(e, found, decoded, returned, 2, begun + 1)
           /\ LET e == [d EXCEPT !.CandidatesAnalyzed = @ + 1]
              IN  found > 0 => e \in Diag /\ Fits(e, found - 1, decoded, returned, searches, begun)
           /\ LET e == [d EXCEPT !.CandidatesAnalyzed = @ + 1, !.DecodedCandidates = @ + 1,
                                 !.DuplicateMessages = @ + 1]
              IN  found > 0 => e \in Diag /\ Fits(e, found - 1, decoded + 1, returned, searches, begun)
           /\ LET e == [d EXCEPT !.CandidatesAnalyzed = @ + 1, !.DecodedCandidates = @ + 1]
              IN  found > 0 => e \in Diag
                                 /\ Fits(e, found - 1, decoded + 1, returned + 1, searches, begun)
           /\ LET e == [d EXCEPT !.Subtractions = @ + decoded]
              IN  e \in Diag /\ Fits(e, found, 0, returned, searches, begun)
           /\ LET e == [d EXCEPT !.A7Decoded = @ + 1]
              IN  e \in Diag /\ Fits(e, found, decoded, returned + 1, searches, begun)
           /\ Fits(d, found, decoded, returned, 0, begun)
<1>1. /\ d.BlocksSearched \in Nat /\ d.CandidateSearches \in Nat /\ d.CandidatesFound \in Nat
      /\ d.CandidatesAnalyzed \in Nat /\ d.DecodedCandidates \in Nat /\ d.DuplicateMessages \in Nat
      /\ d.Subtractions \in Nat /\ d.A7Decoded \in Nat /\ d.UniqueMessages \in Nat
  BY DEF Diag, DiagFields
<1>2. LET e == [d EXCEPT !.BlocksSearched = @ + 1]
      IN  searches = 0 => e \in Diag /\ Fits(e, found, decoded, returned, 2, begun + 1)
  <2> DEFINE e == [d EXCEPT !.BlocksSearched = @ + 1]
  <2>1. /\ e \in Diag
        /\ e.BlocksSearched = d.BlocksSearched + 1
        /\ e.CandidateSearches = d.CandidateSearches
        /\ e.CandidatesFound = d.CandidatesFound
        /\ e.CandidatesAnalyzed = d.CandidatesAnalyzed
        /\ e.DecodedCandidates = d.DecodedCandidates
        /\ e.DuplicateMessages = d.DuplicateMessages
        /\ e.Subtractions = d.Subtractions /\ e.A7Decoded = d.A7Decoded
    BY <1>1 DEF Diag, DiagFields
  <2> HIDE DEF e
  <2>2. searches = 0 => e \in Diag /\ Fits(e, found, decoded, returned, 2, begun + 1)
    BY <1>1, <2>1 DEF Fits
  <2> QED BY <2>2 DEF e
<1>3. LET e == [d EXCEPT !.CandidatesAnalyzed = @ + 1]
      IN  found > 0 => e \in Diag /\ Fits(e, found - 1, decoded, returned, searches, begun)
  <2> DEFINE e == [d EXCEPT !.CandidatesAnalyzed = @ + 1]
  <2>1. /\ e \in Diag
        /\ e.CandidatesAnalyzed = d.CandidatesAnalyzed + 1
        /\ e.BlocksSearched = d.BlocksSearched
        /\ e.CandidateSearches = d.CandidateSearches
        /\ e.CandidatesFound = d.CandidatesFound
        /\ e.DecodedCandidates = d.DecodedCandidates
        /\ e.DuplicateMessages = d.DuplicateMessages
        /\ e.Subtractions = d.Subtractions /\ e.A7Decoded = d.A7Decoded
    BY <1>1 DEF Diag, DiagFields
  <2> HIDE DEF e
  <2>2. found > 0 => e \in Diag /\ Fits(e, found - 1, decoded, returned, searches, begun)
    BY <1>1, <2>1 DEF Fits
  <2> QED BY <2>2 DEF e
<1>4. LET e == [d EXCEPT !.CandidatesAnalyzed = @ + 1, !.DecodedCandidates = @ + 1,
                          !.DuplicateMessages = @ + 1]
      IN  found > 0 => e \in Diag /\ Fits(e, found - 1, decoded + 1, returned, searches, begun)
  <2> DEFINE one == [d EXCEPT !["CandidatesAnalyzed"] = @ + 1]
             two == [one EXCEPT !["DecodedCandidates"] = @ + 1]
             e == [two EXCEPT !["DuplicateMessages"] = @ + 1]
  <2>1. /\ one \in Diag /\ one["CandidatesAnalyzed"] = d["CandidatesAnalyzed"] + 1
        /\ \A f \in DiagFields \ {"CandidatesAnalyzed"} : one[f] = d[f]
    BY CountUp DEF DiagFields
  <2> HIDE DEF one
  <2>2. /\ two \in Diag /\ two["DecodedCandidates"] = one["DecodedCandidates"] + 1
        /\ \A f \in DiagFields \ {"DecodedCandidates"} : two[f] = one[f]
    BY <2>1, CountUp DEF DiagFields
  <2> HIDE DEF two
  <2>3. /\ e \in Diag /\ e["DuplicateMessages"] = two["DuplicateMessages"] + 1
        /\ \A f \in DiagFields \ {"DuplicateMessages"} : e[f] = two[f]
    BY <2>2, CountUp DEF DiagFields
  <2> HIDE DEF e
  <2>4. /\ e.CandidatesAnalyzed = d.CandidatesAnalyzed + 1
        /\ e.DecodedCandidates = d.DecodedCandidates + 1
        /\ e.DuplicateMessages = d.DuplicateMessages + 1
        /\ \A f \in {"BlocksSearched", "CandidateSearches", "CandidatesFound", "Subtractions",
                     "A7Decoded"} : e[f] = d[f]
    BY <2>1, <2>2, <2>3 DEF DiagFields
  <2>5. found > 0 => e \in Diag /\ Fits(e, found - 1, decoded + 1, returned, searches, begun)
    BY <1>1, <2>3, <2>4 DEF Fits
  <2> QED BY <2>5 DEF e, two, one
<1>5. LET e == [d EXCEPT !.CandidatesAnalyzed = @ + 1, !.DecodedCandidates = @ + 1]
      IN  found > 0 => /\ e \in Diag
                       /\ Fits(e, found - 1, decoded + 1, returned + 1, searches, begun)
  <2> DEFINE one == [d EXCEPT !["CandidatesAnalyzed"] = @ + 1]
             e == [one EXCEPT !["DecodedCandidates"] = @ + 1]
  <2>1. /\ one \in Diag /\ one["CandidatesAnalyzed"] = d["CandidatesAnalyzed"] + 1
        /\ \A f \in DiagFields \ {"CandidatesAnalyzed"} : one[f] = d[f]
    BY CountUp DEF DiagFields
  <2> HIDE DEF one
  <2>2. /\ e \in Diag /\ e["DecodedCandidates"] = one["DecodedCandidates"] + 1
        /\ \A f \in DiagFields \ {"DecodedCandidates"} : e[f] = one[f]
    BY <2>1, CountUp DEF DiagFields
  <2> HIDE DEF e
  <2>3. /\ e.CandidatesAnalyzed = d.CandidatesAnalyzed + 1
        /\ e.DecodedCandidates = d.DecodedCandidates + 1
        /\ \A f \in {"BlocksSearched", "CandidateSearches", "CandidatesFound", "Subtractions",
                     "DuplicateMessages", "A7Decoded"} : e[f] = d[f]
    BY <2>1, <2>2 DEF DiagFields
  <2>4. (returned + 1) + e.DuplicateMessages = e.DecodedCandidates + e.A7Decoded
    <3>1. returned + d.DuplicateMessages = d.DecodedCandidates + d.A7Decoded
      BY DEF Fits
    <3> QED BY <1>1, <2>3, <3>1
  <2>5. found > 0 => /\ e \in Diag
                     /\ Fits(e, found - 1, decoded + 1, returned + 1, searches, begun)
    BY <1>1, <2>2, <2>3, <2>4 DEF Fits
  <2> QED BY <2>5 DEF e, one
<1>6. LET e == [d EXCEPT !.Subtractions = @ + decoded]
      IN  e \in Diag /\ Fits(e, found, 0, returned, searches, begun)
  <2> DEFINE e == [d EXCEPT !.Subtractions = @ + decoded]
  <2>1. /\ e \in Diag
        /\ e.Subtractions = d.Subtractions + decoded
        /\ e.BlocksSearched = d.BlocksSearched
        /\ e.CandidateSearches = d.CandidateSearches
        /\ e.CandidatesFound = d.CandidatesFound
        /\ e.CandidatesAnalyzed = d.CandidatesAnalyzed
        /\ e.DecodedCandidates = d.DecodedCandidates
        /\ e.DuplicateMessages = d.DuplicateMessages /\ e.A7Decoded = d.A7Decoded
    BY <1>1 DEF Diag, DiagFields
  <2> HIDE DEF e
  <2>2. e \in Diag /\ Fits(e, found, 0, returned, searches, begun)
    BY <1>1, <2>1 DEF Fits
  <2> QED BY <2>2 DEF e
<1>7. LET e == [d EXCEPT !.A7Decoded = @ + 1]
      IN  e \in Diag /\ Fits(e, found, decoded, returned + 1, searches, begun)
  <2> DEFINE e == [d EXCEPT !.A7Decoded = @ + 1]
  <2>1. /\ e \in Diag
        /\ e.A7Decoded = d.A7Decoded + 1 /\ e.BlocksSearched = d.BlocksSearched
        /\ e.CandidateSearches = d.CandidateSearches
        /\ e.CandidatesFound = d.CandidatesFound
        /\ e.CandidatesAnalyzed = d.CandidatesAnalyzed
        /\ e.DecodedCandidates = d.DecodedCandidates
        /\ e.DuplicateMessages = d.DuplicateMessages
        /\ e.Subtractions = d.Subtractions
    BY <1>1 DEF Diag, DiagFields
  <2> HIDE DEF e
  <2>2. (returned + 1) + e.DuplicateMessages = e.DecodedCandidates + e.A7Decoded
    <3>1. returned + d.DuplicateMessages = d.DecodedCandidates + d.A7Decoded
      BY DEF Fits
    <3> QED BY <1>1, <2>1, <3>1
  <2>3. e \in Diag /\ Fits(e, found, decoded, returned + 1, searches, begun)
    BY <2>1, <2>2 DEF Fits
  <2> QED BY <2>3 DEF e
<1>8. Fits(d, found, decoded, returned, 0, begun)
  BY <1>1 DEF Fits
<1> QED BY <1>2, <1>3, <1>4, <1>5, <1>6, <1>7, <1>8

\* A candidate analysed is counted, and as a message, a repetition or neither.
LEMMA AnalysedTallies ==
    ASSUME IInv, Tallies, Decoding, left > 0, NEW o, Analyse(o), UNCHANGED <<bi, pass>>
    PROVE  /\ left' \in Nat /\ left' = left - 1 /\ pc' = "candidates" /\ Decoding'
           /\ SearchesLeft' = SearchesLeft /\ Begun' = Begun
           /\ \A e : /\ Len(Append(subtract, e)) = Len(subtract) + 1
                     /\ Len(Append(out, e)) = Len(out) + 1
<1>1. left' = left - 1 /\ pc' = "candidates" /\ left' \in Nat
  BY DEF Analyse, Tallies
<1>2. Decoding' /\ Begun' = Begun /\ SearchesLeft' = SearchesLeft
  BY <1>1 DEF Decoding, Begun, InBlock, SearchesLeft
<1>3. PICK S, T : subtract \in Seq(S) /\ out \in Seq(T)
  BY DEF IInv, Returned
<1> QED BY <1>1, <1>2, <1>3, AppendAny

LEMMA TalliesKept == IInv /\ Tallies /\ [Next]_vars => Tallies'
<1> SUFFICES ASSUME IInv, Tallies, [Next]_vars PROVE Tallies'
  OBVIOUS
<1>1. /\ diag \in Diag /\ left \in Nat /\ bi \in Nat \ {0} /\ pass \in {0, 1}
      /\ Len(subtract) \in Nat /\ Len(out) \in Nat /\ MaxFound \in Nat
      /\ SearchesLeft \in Nat /\ Begun \in Nat
      /\ Fits(diag, left, Len(subtract), Len(out), SearchesLeft, Begun)
  <2>1. /\ diag \in Diag /\ left \in Nat /\ bi \in Nat /\ 1 <= bi /\ pass \in {0, 1}
        /\ Len(subtract) \in Nat /\ Len(out) \in Nat /\ MaxFound \in Nat
    BY LenProperties, SlotAssumption DEF SlotAssumption, IInv, Control, Returned, Tallies
  <2> QED BY <2>1 DEF SearchesLeft, Begun, Tallies
<1>2. CASE BeginBlock
  <2>1. /\ pc = "block" /\ pc' = "search" /\ pass' = 0
        /\ diag' = [diag EXCEPT !.BlocksSearched = @ + 1]
        /\ UNCHANGED <<left, bi, subtract, out>>
    BY <1>2 DEF BeginBlock
  <2>2. /\ ~Decoding /\ SearchesLeft = 0 /\ SearchesLeft' = 2 /\ Begun' = Begun + 1
    BY <1>1, <2>1 DEF InBlock, Decoding, SearchesLeft, Begun
  <2>3. diag' \in Diag /\ Fits(diag', left, Len(subtract), Len(out), 2, Begun + 1)
    BY <1>1, <2>1, <2>2, CountsFit
  <2> QED BY <2>1, <2>2, <2>3 DEF Tallies
<1>3. CASE Search
  <2>1. PICK n \in 0..MaxFound :
          /\ left' = n
          /\ diag' = [diag EXCEPT !.CandidateSearches = @ + 1, !.CandidatesFound = @ + n]
    BY <1>3 DEF Search
  <2>2. /\ pc = "search" /\ pc' = "first" /\ subtract' = <<>>
        /\ UNCHANGED <<bi, pass, out>>
    BY <1>3 DEF Search
  <2>3. /\ ~Decoding /\ Decoding' /\ Begun' = Begun
        /\ SearchesLeft = 2 - pass /\ SearchesLeft' = 1 - pass
    BY <2>2 DEF Begun, InBlock, Decoding, SearchesLeft
  <2>4. subtract = <<>> /\ left = 0
    BY <2>3 DEF IInv, Control, Tallies
  <2>5. /\ diag.CandidateSearches \in Nat /\ diag.CandidatesFound \in Nat
        /\ diag.CandidatesAnalyzed \in Nat /\ diag.BlocksSearched \in Nat
    BY <1>1 DEF Diag, DiagFields
  <2>6. /\ diag' \in Diag
        /\ diag'.CandidateSearches = diag.CandidateSearches + 1
        /\ diag'.CandidatesFound = diag.CandidatesFound + n
        /\ diag'.CandidatesAnalyzed = diag.CandidatesAnalyzed
        /\ diag'.BlocksSearched = diag.BlocksSearched
        /\ diag'.DecodedCandidates = diag.DecodedCandidates
        /\ diag'.DuplicateMessages = diag.DuplicateMessages
        /\ diag'.Subtractions = diag.Subtractions /\ diag'.A7Decoded = diag.A7Decoded
    <3> DEFINE one == [diag EXCEPT !["CandidateSearches"] = @ + 1]
               two == [one EXCEPT !["CandidatesFound"] = @ + n]
    <3>1. /\ one \in Diag /\ one["CandidateSearches"] = diag["CandidateSearches"] + 1
          /\ \A f \in DiagFields \ {"CandidateSearches"} : one[f] = diag[f]
      BY <1>1, CountUp DEF DiagFields
    <3>2. diag' = two
      BY <1>1, <2>1 DEF Diag
    <3> HIDE DEF one
    <3>3. /\ two \in Diag /\ two["CandidatesFound"] = one["CandidatesFound"] + n
          /\ \A f \in DiagFields \ {"CandidatesFound"} : two[f] = one[f]
      BY <1>1, <3>1, CountUp DEF DiagFields
    <3> HIDE DEF two
    <3> QED BY <3>1, <3>2, <3>3 DEF DiagFields
  <2> DEFINE limit == MaxFound * diag.CandidateSearches
  <2>7. MaxFound * (diag.CandidateSearches + 1) = limit + MaxFound /\ limit \in Nat
    BY <1>1, <2>5
  <2>8. diag.CandidatesFound <= limit
    BY <1>1 DEF Fits
  <2> HIDE DEF limit
  <2>9. diag'.CandidatesFound <= MaxFound * diag'.CandidateSearches
    BY <1>1, <2>5, <2>6, <2>7, <2>8
  <2>10. /\ diag.CandidatesFound = diag.CandidatesAnalyzed + left
         /\ diag.CandidateSearches + SearchesLeft <= 2 * diag.BlocksSearched
         /\ diag.DecodedCandidates = diag.Subtractions + Len(subtract)
         /\ Len(out) + diag.DuplicateMessages = diag.DecodedCandidates + diag.A7Decoded
         /\ diag.BlocksSearched = Begun
    BY <1>1 DEF Fits
  <2>11. /\ diag'.CandidatesFound = diag'.CandidatesAnalyzed + n
         /\ diag'.CandidateSearches + (1 - pass) <= 2 * diag'.BlocksSearched
    BY <1>1, <2>3, <2>4, <2>5, <2>6, <2>10
  <2>12. Fits(diag', n, Len(subtract'), Len(out), 1 - pass, Begun)
    BY <2>2, <2>4, <2>6, <2>9, <2>10, <2>11 DEF Fits
  <2> QED BY <2>1, <2>2, <2>3, <2>6, <2>12 DEF Tallies
<1>4. CASE CandidateFails
  <2>1. PICK o \in Candidate!Outcomes(calls22) : Analyse(o)
    BY <1>4 DEF CandidateFails
  <2>2. /\ Decoding /\ left > 0 /\ UNCHANGED <<bi, pass, subtract, out>>
        /\ diag' = [diag EXCEPT !.CandidatesAnalyzed = @ + 1]
    BY <1>4 DEF CandidateFails, Decoding
  <2>3. /\ left' \in Nat /\ left' = left - 1 /\ pc' = "candidates" /\ Decoding'
        /\ SearchesLeft' = SearchesLeft /\ Begun' = Begun
    BY <2>1, <2>2, AnalysedTallies
  <2>4. diag' \in Diag /\ Fits(diag', left - 1, Len(subtract), Len(out), SearchesLeft, Begun)
    BY <1>1, <2>2, CountsFit
  <2> QED BY <2>2, <2>3, <2>4 DEF Tallies
<1>5. CASE CandidateRepeats
  <2>1. PICK o \in Candidate!Outcomes(calls22) :
          Analyse(o) /\ subtract' = Append(subtract, o.result.payload)
    BY <1>5 DEF CandidateRepeats
  <2>2. /\ Decoding /\ left > 0 /\ UNCHANGED <<bi, pass, out>>
        /\ diag' = [diag EXCEPT !.CandidatesAnalyzed = @ + 1, !.DecodedCandidates = @ + 1,
                                !.DuplicateMessages = @ + 1]
    BY <1>5 DEF CandidateRepeats, Decoding
  <2>3. /\ left' \in Nat /\ left' = left - 1 /\ pc' = "candidates" /\ Decoding'
        /\ SearchesLeft' = SearchesLeft /\ Begun' = Begun
        /\ Len(subtract') = Len(subtract) + 1
    BY <2>1, <2>2, AnalysedTallies
  <2>4. diag' \in Diag /\ Fits(diag', left - 1, Len(subtract) + 1, Len(out), SearchesLeft, Begun)
    BY <1>1, <2>2, CountsFit
  <2> QED BY <2>2, <2>3, <2>4 DEF Tallies
<1>6. CASE CandidateDecodes
  <2>1. PICK o \in Candidate!Outcomes(calls22) :
          /\ Analyse(o) /\ subtract' = Append(subtract, o.result.payload)
          /\ \E message : out' = Append(out, message)
    BY <1>6 DEF CandidateDecodes
  <2>2. /\ Decoding /\ left > 0 /\ UNCHANGED <<bi, pass>>
        /\ diag' = [diag EXCEPT !.CandidatesAnalyzed = @ + 1, !.DecodedCandidates = @ + 1]
    BY <1>6 DEF CandidateDecodes, Decoding
  <2>3. /\ left' \in Nat /\ left' = left - 1 /\ pc' = "candidates" /\ Decoding'
        /\ SearchesLeft' = SearchesLeft /\ Begun' = Begun
        /\ Len(subtract') = Len(subtract) + 1 /\ Len(out') = Len(out) + 1
    BY <2>1, <2>2, AnalysedTallies
  <2>4. /\ diag' \in Diag
        /\ Fits(diag', left - 1, Len(subtract) + 1, Len(out) + 1, SearchesLeft, Begun)
    BY <1>1, <2>2, CountsFit
  <2> QED BY <2>3, <2>4 DEF Tallies
<1>7. CASE EndPassEmpty
  <2>1. /\ Decoding /\ left = 0 /\ pc' = "end" /\ UNCHANGED <<left, bi, subtract, out, diag>>
    BY <1>7 DEF EndPassEmpty, Decoding
  <2>2. ~Decoding' /\ SearchesLeft' = 0 /\ Begun' = Begun
    BY <2>1 DEF InBlock, Decoding, SearchesLeft, Begun
  <2>3. Fits(diag, left, Len(subtract), Len(out), 0, Begun)
    BY <1>1, CountsFit
  <2> QED BY <1>1, <2>1, <2>2, <2>3 DEF Tallies
<1>8. CASE SubtractAll
  <2>1. /\ Decoding /\ left = 0 /\ subtract' = <<>> /\ pass' = 1
        /\ pc' = (IF pass = 0 THEN "search" ELSE "end")
        /\ diag' = [diag EXCEPT !.Subtractions = @ + Len(subtract)]
        /\ UNCHANGED <<left, bi, out>>
    BY <1>8 DEF SubtractAll, Decoding
  <2>2. ~Decoding' /\ SearchesLeft' = SearchesLeft /\ Begun' = Begun
    BY <1>1, <2>1 DEF InBlock, Decoding, SearchesLeft, Begun
  <2>3. Len(subtract') = 0
    BY <2>1
  <2>4. diag' \in Diag /\ Fits(diag', left, 0, Len(out), SearchesLeft, Begun)
    BY <1>1, <2>1, CountsFit
  <2> QED BY <1>1, <2>1, <2>2, <2>3, <2>4 DEF Tallies, Decoding
<1>9. CASE EndBlock
  <2>1. pc = "end" /\ bi' = bi + 1 /\ pc' = "block" /\ UNCHANGED <<left, subtract, out, diag>>
    BY <1>9 DEF EndBlock
  <2>2. /\ ~Decoding /\ ~Decoding' /\ SearchesLeft' = SearchesLeft
        /\ Begun' = Begun
    BY <1>1, <2>1 DEF InBlock, Decoding, SearchesLeft, Begun
  <2> QED BY <1>1, <2>1, <2>2 DEF Tallies
<1>10. CASE BeginA7 \/ SkipA7 \/ HintFails \/ EndA7
  <2>1. /\ pc \in {"block", "a7"} /\ pc' \in {"a7", "return"}
        /\ UNCHANGED <<left, bi, subtract, out, diag>>
    BY <1>10 DEF BeginA7, SkipA7, HintFails, TryHint, EndA7
  <2>2. ~Decoding /\ ~Decoding' /\ SearchesLeft' = SearchesLeft /\ Begun' = Begun
    BY <2>1 DEF InBlock, Decoding, SearchesLeft, Begun
  <2> QED BY <1>1, <2>1, <2>2 DEF Tallies
<1>11. CASE HintDecodes
  <2>1. /\ pc = "a7" /\ pc' = "a7" /\ UNCHANGED <<left, bi, subtract>>
        /\ diag' = [diag EXCEPT !.A7Decoded = @ + 1]
        /\ \E message : out' = Append(out, message)
    BY <1>11 DEF HintDecodes, TryHint
  <2>2. ~Decoding /\ ~Decoding' /\ SearchesLeft' = SearchesLeft /\ Begun' = Begun
    BY <2>1 DEF InBlock, Decoding, SearchesLeft, Begun
  <2>3. Len(out') = Len(out) + 1
    BY <2>1, AppendAny DEF IInv, Returned
  <2>4. diag' \in Diag /\ Fits(diag', left, Len(subtract), Len(out) + 1, SearchesLeft, Begun)
    BY <1>1, <2>1, CountsFit
  <2> QED BY <2>1, <2>2, <2>3, <2>4 DEF Tallies
<1>12. CASE Return
  <2>1. /\ pc = "return" /\ pc' = "done" /\ UNCHANGED <<left, bi, subtract, out>>
        /\ diag' = [diag EXCEPT !.UniqueMessages = Len(out)]
    BY <1>12 DEF Return
  <2>2. ~Decoding /\ ~Decoding' /\ SearchesLeft' = SearchesLeft /\ Begun' = Begun
    BY <2>1 DEF InBlock, Decoding, SearchesLeft, Begun
  <2>3. /\ diag' \in Diag /\ diag'.UniqueMessages = Len(out)
        /\ Fits(diag', left, Len(subtract), Len(out), SearchesLeft, Begun)
    <3>1. /\ diag' \in Diag /\ diag'.UniqueMessages = Len(out)
          /\ \A f \in DiagFields \ {"UniqueMessages"} : diag'[f] = diag[f]
      BY <1>1, <2>1 DEF Diag, DiagFields
    <3> QED BY <1>1, <3>1 DEF Fits, DiagFields
  <2> QED BY <2>1, <2>2, <2>3 DEF Tallies
<1>13. CASE UNCHANGED vars
  <2>1. UNCHANGED <<pc, pass, left, bi, subtract, out, diag>>
    BY <1>13 DEF vars
  <2>2. Decoding' = Decoding /\ SearchesLeft' = SearchesLeft /\ Begun' = Begun
    BY <2>1 DEF InBlock, Decoding, SearchesLeft, Begun
  <2> QED BY <2>1, <2>2 DEF Tallies
<1> QED BY <1>2, <1>3, <1>4, <1>5, <1>6, <1>7, <1>8, <1>9, <1>10, <1>11, <1>12, <1>13 DEF Next

LEMMA TalliesInductive == Spec => [](IInv /\ Tallies)
<1>1. Init => Tallies
  <2> SUFFICES ASSUME Init PROVE Tallies
    OBVIOUS
  <2>1. Len(Hints) \in Nat /\ MaxFound \in Nat
    BY LenProperties, SlotAssumption DEF SlotAssumption
  <2>2. ~Decoding /\ SearchesLeft = 0 /\ Begun = 0
    BY DEF Init, InBlock, Decoding, SearchesLeft, Begun
  <2>3. Len(out) = 0 /\ Len(subtract) = 0 /\ left = 0 /\ pc # "done" /\ diag = ZeroDiag
    BY DEF Init
  <2>4. ZeroDiag \in Diag /\ Fits(ZeroDiag, 0, 0, 0, 0, 0)
    BY <2>1 DEF ZeroDiag, Diag, DiagFields, Fits
  <2> QED BY <2>2, <2>3, <2>4 DEF Tallies
<1> QED BY <1>1, TalliesKept, Inductive, PTL DEF Spec

\* The counters of the report fit together at every point of the decode
\* (decodeMessagesCoreWithDiagnostics, decode.go).
THEOREM CountersAlwaysAgree == Spec => []CountersAgree
<1>1. IInv /\ Tallies => CountersAgree
  <2> SUFFICES ASSUME IInv, Tallies PROVE CountersAgree
    OBVIOUS
  <2>1. diag \in Diag /\ left \in Nat /\ pass \in {0, 1} /\ Len(subtract) \in Nat /\ Len(out) \in Nat
    BY LenProperties DEF IInv, Control, Returned, Tallies
  <2>2. SearchesLeft \in Nat
    BY <2>1 DEF SearchesLeft
  <2>3. pc = "done" => ~Decoding
    BY DEF Decoding
  <2>4. /\ diag.CandidateSearches \in Nat /\ diag.BlocksSearched \in Nat
        /\ diag.DecodedCandidates \in Nat /\ diag.DuplicateMessages \in Nat
        /\ diag.A7Decoded \in Nat
    BY <2>1 DEF Diag, DiagFields
  <2>5. Fits(diag, left, Len(subtract), Len(out), SearchesLeft, Begun)
    BY DEF Tallies
  <2>6. /\ Len(out) = diag.DecodedCandidates - diag.DuplicateMessages + diag.A7Decoded
        /\ diag.CandidateSearches <= 2 * diag.BlocksSearched
    <3>1. /\ Len(out) + diag.DuplicateMessages = diag.DecodedCandidates + diag.A7Decoded
          /\ diag.CandidateSearches + SearchesLeft <= 2 * diag.BlocksSearched
      BY <2>5, Zenon DEF Fits
    <3>2. Len(out) \in Nat
      BY <2>1
    <3>3. Len(out) = diag.DecodedCandidates - diag.DuplicateMessages + diag.A7Decoded
      BY <2>4, <3>1, <3>2
    <3>4. diag.CandidateSearches <= 2 * diag.BlocksSearched
      BY <2>2, <2>4, <3>1
    <3> QED BY <3>3, <3>4, Zenon
  <2>7. pc = "done" => diag.UniqueMessages = Len(out) /\ left = 0 /\ subtract = <<>>
    BY <2>3 DEF IInv, Control, Tallies
  <2> QED BY <2>5, <2>6, <2>7 DEF CountersAgree, Fits
<1> QED BY <1>1, TalliesInductive, PTL
------------------------------------------------------------------------------
\* The abstract candidate and the abstract slot unpack as this module does.
LEMMA SameCandidate ==
    /\ \A p, t : Candidate!Unpack77(p, t) = Unpack77(p, t)
    /\ \A x : Candidate!Filtered(x) = Filtered(x)
<1>1. ASSUME NEW p, NEW t PROVE Candidate!Unpack77(p, t) = Unpack77(p, t)
  BY Zenon DEF
        Candidate!Unpack77, Unpack77, Candidate!UnpackStandard,
        UnpackStandard, Candidate!UnpackType4, UnpackType4,
        Candidate!UnpackFieldDay, UnpackFieldDay, Candidate!Unpack28,
        Unpack28, Candidate!AddPortableSuffix, AddPortableSuffix,
        Candidate!Lookup22, Lookup22, Candidate!Lookup12, Lookup12,
        Candidate!Hash12, Hash12, Candidate!Hits, Hits, Candidate!First,
        First, Candidate!Save, Save, Candidate!MoveToFront, MoveToFront,
        Candidate!PushFront, PushFront, Candidate!Plain, Plain,
        Candidate!Bracketed, Bracketed, Candidate!Text, Text,
        Candidate!NoText, NoText, Candidate!Failed, Failed,
        Candidate!Unpacked, Unpacked, Candidate!FreeTails, FreeTails
<1>2. \A x : Candidate!Filtered(x) = Filtered(x)
  BY Zenon DEF Candidate!Filtered, Filtered
<1> QED BY <1>1, <1>2

LEMMA SameSlot ==
    /\ \A p, t : Slot!Unpack77(p, t) = Unpack77(p, t)
    /\ \A x : Slot!Filtered(x) = Filtered(x)
<1>1. ASSUME NEW p, NEW t PROVE Slot!Unpack77(p, t) = Unpack77(p, t)
  BY Zenon DEF
        Slot!Unpack77, Unpack77, Slot!UnpackStandard, UnpackStandard,
        Slot!UnpackType4, UnpackType4, Slot!UnpackFieldDay, UnpackFieldDay,
        Slot!Unpack28, Unpack28, Slot!AddPortableSuffix, AddPortableSuffix,
        Slot!Lookup22, Lookup22, Slot!Lookup12, Lookup12, Slot!Hash12, Hash12,
        Slot!Hits, Hits, Slot!First, First, Slot!Save, Save, Slot!MoveToFront,
        MoveToFront, Slot!PushFront, PushFront, Slot!Plain, Plain,
        Slot!Bracketed, Bracketed, Slot!Text, Text, Slot!NoText, NoText,
        Slot!Failed, Failed, Slot!Unpacked, Unpacked, Slot!FreeTails,
        FreeTails
<1>2. \A x : Slot!Filtered(x) = Filtered(x)
  BY Zenon DEF Slot!Filtered, Filtered
<1> QED BY <1>1, <1>2

\* The recursive definitions of what codewords and hints lead to are ones a
\* function satisfies.
LEMMA TablesStep ==
    ASSUME NEW t
    PROVE  Candidate!Reached(t) = [n \in 0..MaxRejected |->
              IF n = 0 THEN {t} ELSE Candidate!OneMore(Candidate!Reached(t)[n-1])]
<1> DEFINE Steps(f, m) ==
      f = [n \in 0..m |-> IF n = 0 THEN {t} ELSE Candidate!OneMore(f[n-1])]
           stuck == {m \in Nat : ~\E f : Steps(f, m)}
<1>1. MaxRejected \in Nat
  BY SlotAssumption DEF SlotAssumption
<1>2. ASSUME stuck # {} PROVE FALSE
  <2>1. PICK m \in stuck : \A n \in stuck : m <= n
    BY <1>2, LeastNat
  <2>2. m \in Nat /\ ~\E f : Steps(f, m)
    OBVIOUS
  <2>3. CASE m = 0
    <3>1. Steps([n \in 0..0 |-> {t}], 0)
      OBVIOUS
    <3> QED BY <2>2, <2>3, <3>1
  <2>4. CASE m # 0
    <3>1. m - 1 \in Nat /\ ~(m <= m - 1)
      BY <2>2, <2>4
    <3>2. m - 1 \notin stuck
      BY <2>1, <3>1
    <3>3. PICK f : Steps(f, m - 1)
      BY <3>1, <3>2
    <3> DEFINE g == [n \in 0..m |-> IF n = m THEN Candidate!OneMore(f[m-1]) ELSE f[n]]
    <3>4. \A n \in 0..(m - 1) : f[n] = IF n = 0 THEN {t} ELSE Candidate!OneMore(f[n-1])
      BY <3>3
    <3>5. \A n \in 0..m : g[n] = IF n = 0 THEN {t} ELSE Candidate!OneMore(g[n-1])
      <4> TAKE n \in 0..m
      <4>1. CASE n = m
        BY <2>2, <2>4, <4>1
      <4>2. CASE n # m
        <5>1. n \in 0..(m - 1) /\ (n # 0 => n - 1 \in 0..m /\ n - 1 # m)
          BY <2>2, <4>2
        <5> QED BY <3>4, <4>2, <5>1
      <4> QED BY <4>1, <4>2
    <3>6. Steps(g, m)
      BY <3>5
    <3> HIDE DEF g
    <3> QED BY <2>2, <3>6
  <2> QED BY <2>3, <2>4
<1>3. PICK f : Steps(f, MaxRejected)
  BY <1>1, <1>2
<1> HIDE DEF stuck
<1>4. Steps(Candidate!Reached(t), MaxRejected)
  BY <1>3 DEF Candidate!Reached
<1> QED BY <1>4

LEMMA CodewordsStep ==
    ASSUME NEW t
    PROVE  Slot!Reached(t) = [n \in 0..MaxUnpacked |->
              IF n = 0 THEN {[table |-> t, texts |-> <<>>]}
              ELSE Slot!OneCodeword(Slot!Reached(t)[n-1])]
<1> DEFINE Steps(f, m) ==
      f = [n \in 0..m |-> IF n = 0 THEN {[table |-> t, texts |-> <<>>]} ELSE Slot!OneCodeword(f[n-1])]
           stuck == {m \in Nat : ~\E f : Steps(f, m)}
<1>1. MaxUnpacked \in Nat
  BY UnpackedAssumption DEF UnpackedAssumption
<1>2. ASSUME stuck # {} PROVE FALSE
  <2>1. PICK m \in stuck : \A n \in stuck : m <= n
    BY <1>2, LeastNat
  <2>2. m \in Nat /\ ~\E f : Steps(f, m)
    OBVIOUS
  <2>3. CASE m = 0
    <3>1. Steps([n \in 0..0 |-> {[table |-> t, texts |-> <<>>]}], 0)
      OBVIOUS
    <3> QED BY <2>2, <2>3, <3>1
  <2>4. CASE m # 0
    <3>1. m - 1 \in Nat /\ ~(m <= m - 1)
      BY <2>2, <2>4
    <3>2. m - 1 \notin stuck
      BY <2>1, <3>1
    <3>3. PICK f : Steps(f, m - 1)
      BY <3>1, <3>2
    <3> DEFINE g == [n \in 0..m |-> IF n = m THEN Slot!OneCodeword(f[m-1]) ELSE f[n]]
    <3>4. \A n \in 0..(m - 1) : f[n] = IF n = 0 THEN {[table |-> t, texts |-> <<>>]} ELSE Slot!OneCodeword(f[n-1])
      BY <3>3
    <3>5. \A n \in 0..m : g[n] = IF n = 0 THEN {[table |-> t, texts |-> <<>>]} ELSE Slot!OneCodeword(g[n-1])
      <4> TAKE n \in 0..m
      <4>1. CASE n = m
        BY <2>2, <2>4, <4>1
      <4>2. CASE n # m
        <5>1. n \in 0..(m - 1) /\ (n # 0 => n - 1 \in 0..m /\ n - 1 # m)
          BY <2>2, <4>2
        <5> QED BY <3>4, <4>2, <5>1
      <4> QED BY <4>1, <4>2
    <3>6. Steps(g, m)
      BY <3>5
    <3> HIDE DEF g
    <3> QED BY <2>2, <3>6
  <2> QED BY <2>3, <2>4
<1>3. PICK f : Steps(f, MaxUnpacked)
  BY <1>1, <1>2
<1> HIDE DEF stuck
<1>4. Steps(Slot!Reached(t), MaxUnpacked)
  BY <1>3 DEF Slot!Reached
<1> QED BY <1>4

LEMMA HintsStep ==
    ASSUME NEW S, NEW given \in Seq(S), NEW outcomes
    PROVE  Slot!Tried(outcomes, given) = [n \in 0..Len(given) |->
              IF n = 0 THEN outcomes
              ELSE Slot!OneHint(Slot!Tried(outcomes, given)[n-1], given[n])]
<1> DEFINE Steps(f, m) ==
      f = [n \in 0..m |-> IF n = 0 THEN outcomes ELSE Slot!OneHint(f[n-1], given[n])]
           stuck == {m \in Nat : ~\E f : Steps(f, m)}
<1>1. Len(given) \in Nat
  BY LenProperties
<1>2. ASSUME stuck # {} PROVE FALSE
  <2>1. PICK m \in stuck : \A n \in stuck : m <= n
    BY <1>2, LeastNat
  <2>2. m \in Nat /\ ~\E f : Steps(f, m)
    OBVIOUS
  <2>3. CASE m = 0
    <3>1. Steps([n \in 0..0 |-> outcomes], 0)
      OBVIOUS
    <3> QED BY <2>2, <2>3, <3>1
  <2>4. CASE m # 0
    <3>1. m - 1 \in Nat /\ ~(m <= m - 1)
      BY <2>2, <2>4
    <3>2. m - 1 \notin stuck
      BY <2>1, <3>1
    <3>3. PICK f : Steps(f, m - 1)
      BY <3>1, <3>2
    <3> DEFINE g == [n \in 0..m |-> IF n = m THEN Slot!OneHint(f[m-1], given[m]) ELSE f[n]]
    <3>4. \A n \in 0..(m - 1) : f[n] = IF n = 0 THEN outcomes ELSE Slot!OneHint(f[n-1], given[n])
      BY <3>3
    <3>5. \A n \in 0..m : g[n] = IF n = 0 THEN outcomes ELSE Slot!OneHint(g[n-1], given[n])
      <4> TAKE n \in 0..m
      <4>1. CASE n = m
        BY <2>2, <2>4, <4>1
      <4>2. CASE n # m
        <5>1. n \in 0..(m - 1) /\ (n # 0 => n - 1 \in 0..m /\ n - 1 # m)
          BY <2>2, <4>2
        <5> QED BY <3>4, <4>2, <5>1
      <4> QED BY <4>1, <4>2
    <3>6. Steps(g, m)
      BY <3>5
    <3> HIDE DEF g
    <3> QED BY <2>2, <3>6
  <2> QED BY <2>3, <2>4
<1>3. PICK f : Steps(f, Len(given))
  BY <1>1, <1>2
<1> HIDE DEF stuck
<1>4. Steps(Slot!Tried(outcomes, given), Len(given))
  BY <1>3 DEF Slot!Tried
<1> QED BY <1>4

\* Trying another codeword, or another hint, keeps the outcomes there were.
LEMMA CodewordsGrow ==
    ASSUME NEW t, NEW n \in 0..MaxUnpacked, NEW m \in n..MaxUnpacked
    PROVE  Slot!Reached(t)[n] \subseteq Slot!Reached(t)[m]
<1> DEFINE C == Slot!Reached(t)
           lost == {k \in Nat : k \in n..MaxUnpacked /\ ~(C[n] \subseteq C[k])}
<1>1. MaxUnpacked \in Nat /\ n \in Nat /\ n <= MaxUnpacked /\ m \in Nat
  BY UnpackedAssumption DEF UnpackedAssumption
<1>2. \A k \in 0..MaxUnpacked : k # 0 => C[k] = Slot!OneCodeword(C[k-1])
  BY CodewordsStep
<1> HIDE DEF C
<1>3. \A k \in 0..MaxUnpacked : k # 0 => C[k-1] \subseteq C[k]
  BY <1>2 DEF Slot!OneCodeword
<1>4. ASSUME lost # {} PROVE FALSE
  <2>1. PICK k \in lost : \A l \in lost : k <= l
    BY <1>4, LeastNat
  <2>2. k # n /\ k \in 0..MaxUnpacked /\ k # 0 /\ k - 1 \in Nat /\ k - 1 \in n..MaxUnpacked
    BY <1>1, <2>1
  <2>3. k - 1 \notin lost
    BY <2>1, <2>2
  <2>4. C[n] \subseteq C[k-1]
    BY <2>2, <2>3
  <2> QED BY <1>3, <2>1, <2>2, <2>4
<1>5. C[n] \subseteq C[m]
  BY <1>1, <1>4
<1> QED BY <1>5 DEF C

LEMMA HintsGrow ==
    ASSUME NEW S, NEW given \in Seq(S), NEW outcomes, NEW m \in 0..Len(given)
    PROVE  outcomes \subseteq Slot!Tried(outcomes, given)[m]
<1> DEFINE C == Slot!Tried(outcomes, given)
           lost == {k \in Nat : k \in 0..Len(given) /\ ~(outcomes \subseteq C[k])}
<1>1. Len(given) \in Nat /\ m \in Nat
  BY LenProperties
<1>2. /\ C[0] = outcomes
      /\ \A k \in 0..Len(given) : k # 0 => C[k] = Slot!OneHint(C[k-1], given[k])
  BY <1>1, HintsStep
<1> HIDE DEF C
<1>3. \A k \in 0..Len(given) : k # 0 => C[k-1] \subseteq C[k]
  BY <1>2 DEF Slot!OneHint
<1>4. ASSUME lost # {} PROVE FALSE
  <2>1. PICK k \in lost : \A l \in lost : k <= l
    BY <1>4, LeastNat
  <2>2. k \in 0..Len(given) /\ k # 0 /\ k - 1 \in Nat /\ k - 1 \in 0..Len(given)
    BY <1>1, <1>2, <2>1
  <2>3. k - 1 \notin lost
    BY <2>1, <2>2
  <2>4. outcomes \subseteq C[k-1]
    BY <2>2, <2>3
  <2> QED BY <1>3, <2>1, <2>2, <2>4
<1>5. outcomes \subseteq C[m]
  BY <1>1, <1>4
<1> QED BY <1>5 DEF C

\* What the abstract slot would have so far: a table and the texts returned.
SoFar(t, texts) == [table |-> t, texts |-> texts]

New(text, texts) == \A i \in DOMAIN texts : texts[i] # text

LEMMA UnpackingIs ==
    ASSUME NEW p, NEW t, NEW texts
    PROVE  LET got == Unpack77(p, t)
           IN  Slot!Unpacking(p, SoFar(t, texts))
                 = SoFar(got.table, IF got.ok /\ ~Filtered(got.text) /\ New(got.text, texts)
                                    THEN Append(texts, got.text) ELSE texts)
<1>1. SoFar(t, texts).table = t /\ SoFar(t, texts).texts = texts
  BY DEF SoFar
<1>2. Slot!Unpack77(p, t) = Unpack77(p, t) /\ \A x : Slot!Filtered(x) = Filtered(x)
  BY SameSlot
<1> QED BY <1>1, <1>2, Zenon DEF Slot!Unpacking, SoFar, New

\* The codewords one candidate throws away are codewords of the slot.
LEMMA RejectsUnpacked ==
    ASSUME NEW t, NEW texts, NEW n \in Nat, n + MaxRejected <= MaxUnpacked,
           SoFar(t, texts) \in Slot!Reached(<<>>)[n],
           NEW k \in 0..MaxRejected, NEW s \in Candidate!Reached(t)[k]
    PROVE  SoFar(s, texts) \in Slot!Reached(<<>>)[n + k]
<1> DEFINE C == Slot!Reached(<<>>)
           R == Candidate!Reached(t)
           lost == {m \in Nat : m <= MaxRejected
                                  /\ ~(\A u \in R[m] : SoFar(u, texts) \in C[n + m])}
<1>1. MaxRejected \in Nat /\ MaxUnpacked \in Nat
  BY SlotAssumption, UnpackedAssumption DEF SlotAssumption, UnpackedAssumption
<1>2. R[0] = {t} /\ \A m \in 0..MaxRejected : m # 0 => R[m] = Candidate!OneMore(R[m-1])
  BY <1>1, TablesStep
<1>3. \A m \in 0..MaxUnpacked : m # 0 => C[m] = Slot!OneCodeword(C[m-1])
  BY CodewordsStep
<1>4. SoFar(t, texts) \in C[n]
  OBVIOUS
<1> HIDE DEF C, R
<1>5. ASSUME lost # {} PROVE FALSE
  <2>1. PICK m \in lost : \A l \in lost : m <= l
    BY <1>5, LeastNat
  <2>2. m \in Nat /\ m <= MaxRejected
    OBVIOUS
  <2>3. PICK u \in R[m] : SoFar(u, texts) \notin C[n + m]
    BY <2>1
  <2>4. m # 0
    <3>1. n + 0 = n
      OBVIOUS
    <3> QED BY <1>2, <1>4, <2>3, <3>1
  <2>5. m - 1 \in Nat /\ m - 1 <= MaxRejected /\ ~(m <= m - 1) /\ m \in 0..MaxRejected
    BY <1>1, <2>2, <2>4
  <2>6. m - 1 \notin lost
    BY <2>1, <2>5
  <2>7. \A v \in R[m-1] : SoFar(v, texts) \in C[n + (m - 1)]
    BY <2>5, <2>6
  <2>8. C[n + m] = Slot!OneCodeword(C[n + (m - 1)])
    <3>1. n + m \in 0..MaxUnpacked /\ n + m # 0 /\ (n + m) - 1 = n + (m - 1)
      BY <1>1, <2>2, <2>4
    <3> QED BY <1>3, <3>1
  <2>9. u \in Candidate!OneMore(R[m-1])
    BY <1>2, <2>3, <2>4, <2>5
  <2>10. CASE u \in R[m-1]
    BY <2>3, <2>7, <2>8, <2>10 DEF Slot!OneCodeword
  <2>11. CASE u \notin R[m-1]
    <3>1. PICK v \in R[m-1], p \in Payloads : Candidate!Rejects(p, v) /\ u = Candidate!Leaves(p, v)
      BY <2>9, <2>11 DEF Candidate!OneMore
    <3>2. /\ u = Unpack77(p, v).table
          /\ ~Unpack77(p, v).ok \/ Filtered(Unpack77(p, v).text)
      BY <3>1, SameCandidate DEF Candidate!Rejects, Candidate!Leaves
    <3>3. Slot!Unpacking(p, SoFar(v, texts)) = SoFar(u, texts)
      BY <3>2, UnpackingIs
    <3>4. Slot!Unpacking(p, SoFar(v, texts)) \in Slot!OneCodeword(C[n + (m - 1)])
      BY <2>7 DEF Slot!OneCodeword
    <3> QED BY <2>3, <2>8, <3>3, <3>4
  <2> QED BY <2>10, <2>11
<1>6. \A u \in R[k] : SoFar(u, texts) \in C[n + k]
  BY <1>1, <1>5
<1> QED BY <1>6 DEF C, R

\* Nor does the candidate unpack anything else: its outcome is one of the slot.
LEMMA CandidateUnpacked ==
    ASSUME NEW t, NEW texts, NEW n \in Nat, n + (MaxRejected + 1) <= MaxUnpacked,
           SoFar(t, texts) \in Slot!Reached(<<>>)[n],
           NEW o \in Candidate!Outcomes(t)
    PROVE  SoFar(o.table, IF o.result.ok /\ New(o.result.text, texts)
                          THEN Append(texts, o.result.text) ELSE texts)
             \in Slot!Reached(<<>>)[n + (MaxRejected + 1)]
<1> DEFINE C == Slot!Reached(<<>>)
<1>1. /\ MaxRejected \in Nat /\ MaxUnpacked \in Nat
      /\ n + MaxRejected \in Nat /\ n + MaxRejected <= MaxUnpacked
      /\ n + (MaxRejected + 1) \in 0..MaxUnpacked /\ n + (MaxRejected + 1) # 0
      /\ (n + (MaxRejected + 1)) - 1 = n + MaxRejected
      /\ MaxRejected \in 0..MaxRejected
  BY SlotAssumption, UnpackedAssumption DEF SlotAssumption, UnpackedAssumption
<1>2. \A s \in Candidate!AfterRejects(t) : SoFar(s, texts) \in C[n + MaxRejected]
  BY <1>1, RejectsUnpacked DEF Candidate!AfterRejects
<1>3. C[n + (MaxRejected + 1)] = Slot!OneCodeword(C[n + MaxRejected])
  <2>1. \A m \in 0..MaxUnpacked : m # 0 => C[m] = Slot!OneCodeword(C[m-1])
    BY CodewordsStep
  <2> HIDE DEF C
  <2> QED BY <1>1, <2>1
<1> HIDE DEF C
<1>4. CASE \E s \in Candidate!AfterRejects(t) :
             o = [result |-> Candidate!NoResult, table |-> s]
  <2>1. ~o.result.ok /\ o.table \in Candidate!AfterRejects(t)
    BY <1>4 DEF Candidate!NoResult
  <2> QED BY <1>2, <1>3, <2>1 DEF Slot!OneCodeword, C
<1>5. CASE \E s \in Candidate!AfterRejects(t), p \in Payloads :
             /\ ~Candidate!Rejects(p, s)
             /\ o = [result |-> Candidate!Result(p, Candidate!Unpack77(p, s).text),
                     table |-> Candidate!Leaves(p, s)]
  <2>1. PICK s \in Candidate!AfterRejects(t), p \in Payloads :
             /\ ~Candidate!Rejects(p, s)
             /\ o = [result |-> Candidate!Result(p, Candidate!Unpack77(p, s).text),
                     table |-> Candidate!Leaves(p, s)]
    BY <1>5
  <2>2. Unpack77(p, s).ok /\ ~Filtered(Unpack77(p, s).text)
    BY <2>1, SameCandidate DEF Candidate!Rejects
  <2>3. o.result.ok /\ o.result.text = Unpack77(p, s).text /\ o.table = Unpack77(p, s).table
    BY <2>1, SameCandidate DEF Candidate!Result, Candidate!Leaves
  <2>4. Slot!Unpacking(p, SoFar(s, texts))
          = SoFar(o.table, IF o.result.ok /\ New(o.result.text, texts)
                           THEN Append(texts, o.result.text) ELSE texts)
    BY <2>2, <2>3, UnpackingIs
  <2>5. Slot!Unpacking(p, SoFar(s, texts)) \in Slot!OneCodeword(C[n + MaxRejected])
    BY <1>2 DEF Slot!OneCodeword
  <2> QED BY <1>3, <2>4, <2>5 DEF C
<1> QED BY <1>4, <1>5 DEF Candidate!Outcomes

TextsOut == [i \in DOMAIN out |-> out[i].text]
HintsGiven == IF FullSlot \in Range(blocks) THEN Hints ELSE <<>>
Unpacked77 == (MaxRejected + 1) * diag.CandidatesAnalyzed

\* What the decode has so far is something the abstract slot reaches with the
\* codewords unpacked, or the hints tried, so far.
OutcomeReached ==
    /\ pc \notin {"a7", "return", "done"} =>
         SoFar(calls22, TextsOut) \in Slot!Reached(<<>>)[Unpacked77]
    /\ pc = "a7" => /\ hint <= Len(Hints)
                    /\ SoFar(calls22, TextsOut) \in Slot!Tried(Slot!Fresh, Hints)[hint]
    /\ pc = "return" => SoFar(calls22, TextsOut) \in Slot!AfterHints(Slot!Fresh, HintsGiven)

LEMMA TimesMonotonic ==
    ASSUME NEW a \in Nat, NEW b \in Nat, NEW c \in Nat, b <= c
    PROVE  a * b <= a * c
<1>1. c - b \in Nat /\ c = b + (c - b)
  OBVIOUS
<1>2. \A d \in Nat : a * (b + d) = a * b + a * d /\ a * d \in Nat /\ a * b \in Nat
  OBVIOUS
<1>3. a * (b + (c - b)) = a * b + a * (c - b) /\ a * (c - b) \in Nat /\ a * b \in Nat
  BY <1>1, <1>2
<1> DEFINE d == c - b
           more == a * d
           less == a * b
<1>4. a * c = less + more /\ more \in Nat /\ less \in Nat
  BY <1>1, <1>3
<1> HIDE DEF more, less
<1>5. less <= less + more
  BY <1>4
<1> QED BY <1>4, <1>5 DEF less

\* The bound on the codewords of a slot leaves room for those of every
\* candidate still to analyse.
LEMMA RoomToUnpack ==
    ASSUME IInv, Tallies
    PROVE  /\ Unpacked77 \in 0..MaxUnpacked
           /\ left > 0 => /\ Unpacked77 + (MaxRejected + 1) <= MaxUnpacked
                          /\ (MaxRejected + 1) * (diag.CandidatesAnalyzed + 1)
                               = Unpacked77 + (MaxRejected + 1)
<1>1. /\ MaxRejected + 1 \in Nat /\ MaxFound \in Nat /\ MaxUnpacked \in Nat
      /\ Len(blocks) \in Nat
      /\ (MaxRejected + 1) * (MaxFound * (2 * Len(blocks))) <= MaxUnpacked
  BY SlotAssumption, UnpackedAssumption, BlocksDistinct
     DEF SlotAssumption, UnpackedAssumption, IInv, Control
<1>2. /\ diag.CandidatesAnalyzed \in Nat /\ diag.CandidatesFound \in Nat
      /\ diag.CandidateSearches \in Nat /\ diag.BlocksSearched \in Nat /\ left \in Nat
  BY DEF Tallies, Diag, DiagFields
<1>3. diag.CandidateSearches <= 2 * Len(blocks)
  <2>1. SearchesLeft \in Nat /\ Begun <= Len(blocks)
    BY <1>1 DEF IInv, Control, SearchesLeft, Begun
  <2>2. /\ diag.CandidateSearches + SearchesLeft <= 2 * diag.BlocksSearched
        /\ diag.BlocksSearched = Begun
    BY Zenon DEF Tallies, Fits
  <2>3. Len(blocks) \in Nat
    BY <1>1
  <2> QED BY <1>2, <2>1, <2>2, <2>3
<1>4. diag.CandidatesFound <= MaxFound * (2 * Len(blocks))
  <2>1. MaxFound * diag.CandidateSearches <= MaxFound * (2 * Len(blocks))
    BY <1>1, <1>2, <1>3, TimesMonotonic
  <2> DEFINE most == MaxFound * (2 * Len(blocks))
             some == MaxFound * diag.CandidateSearches
  <2>2. diag.CandidatesFound <= some /\ some \in Nat /\ most \in Nat
    <3>1. diag.CandidatesFound <= some
      BY Zenon DEF Tallies, Fits
    <3>2. some \in Nat /\ most \in Nat
      BY <1>1, <1>2
    <3> QED BY <3>1, <3>2, Zenon
  <2> HIDE DEF most, some
  <2>3. some <= most
    BY <2>1 DEF some, most
  <2>4. diag.CandidatesFound <= most
    BY <1>2, <2>2, <2>3
  <2> QED BY <2>4 DEF most
<1> DEFINE most == MaxFound * (2 * Len(blocks))
<1>5. most \in Nat
  BY <1>1
<1>6. ASSUME NEW n \in Nat, n <= most
      PROVE  (MaxRejected + 1) * n <= MaxUnpacked /\ (MaxRejected + 1) * n \in Nat
  <2>1. (MaxRejected + 1) * n <= (MaxRejected + 1) * most
    BY <1>1, <1>5, <1>6, TimesMonotonic
  <2> DEFINE all == (MaxRejected + 1) * most
             these == (MaxRejected + 1) * n
  <2>2. all <= MaxUnpacked /\ all \in Nat /\ these \in Nat
    BY <1>1, <1>5
  <2> HIDE DEF most, all, these
  <2>3. these <= all
    BY <2>1 DEF all, these
  <2>4. these <= MaxUnpacked
    BY <1>1, <2>2, <2>3
  <2> QED BY <2>2, <2>4 DEF these
<1>7. diag.CandidatesFound = diag.CandidatesAnalyzed + left /\ diag.CandidatesFound <= most
  BY <1>4 DEF Tallies, Fits
<1> HIDE DEF most
<1>8. Unpacked77 \in 0..MaxUnpacked
  <2>1. diag.CandidatesAnalyzed <= most
    BY <1>2, <1>5, <1>7
  <2> QED BY <1>1, <1>2, <1>6, <2>1 DEF Unpacked77
<1>9. ASSUME left > 0
      PROVE  /\ Unpacked77 + (MaxRejected + 1) <= MaxUnpacked
             /\ (MaxRejected + 1) * (diag.CandidatesAnalyzed + 1) = Unpacked77 + (MaxRejected + 1)
  <2>1. diag.CandidatesAnalyzed + 1 \in Nat /\ diag.CandidatesAnalyzed + 1 <= most
    BY <1>2, <1>5, <1>7, <1>9
  <2>2. (MaxRejected + 1) * (diag.CandidatesAnalyzed + 1) <= MaxUnpacked
    BY <1>6, <2>1
  <2>3. \A a, b \in Nat : a * (b + 1) = a * b + a
    OBVIOUS
  <2>4. (MaxRejected + 1) * (diag.CandidatesAnalyzed + 1) = Unpacked77 + (MaxRejected + 1)
    BY <1>1, <1>2, <2>3 DEF Unpacked77
  <2> QED BY <2>2, <2>4
<1> QED BY <1>8, <1>9

\* The texts seen are the texts returned.
LEMMA TextsSeen ==
    ASSUME Returned
    PROVE  /\ \A text : New(text, TextsOut) <=> text \notin seen
           /\ Slot!Range(TextsOut) = seen
  BY DEF Returned, TextsUnique, New, TextsOut, Slot!Range

LEMMA TextsGrow ==
    ASSUME Returned, NEW message, out' = Append(out, message)
    PROVE  TextsOut' = Append(TextsOut, message.text)
<1>1. PICK S : out \in Seq(S)
  BY DEF Returned
<1>2. /\ Len(out) \in Nat /\ DOMAIN out = 1..Len(out) /\ DOMAIN out' = 1..(Len(out) + 1)
      /\ \A i \in 1..Len(out) : out'[i] = out[i]
      /\ out'[Len(out) + 1] = message
  BY <1>1, AppendAny
<1>3. TextsOut \in [1..Len(out) -> seen]
  BY <1>2 DEF TextsOut, Returned, TextsUnique
<1>4. TextsOut \in Seq(seen) /\ Len(TextsOut) = Len(out)
  BY <1>2, <1>3, FunctionIsSequence
<1> DEFINE more == Append(TextsOut, message.text)
<1>5. /\ more \in Seq(seen \cup {message.text})
      /\ DOMAIN more = 1..(Len(out) + 1)
      /\ \A i \in 1..Len(out) : more[i] = TextsOut[i]
      /\ more[Len(out) + 1] = message.text
  BY <1>4, AppendAny
<1>6. \A i \in 1..Len(out) : TextsOut[i] = out[i].text
  BY <1>2 DEF TextsOut
<1> DEFINE n == Len(out) + 1
<1>7. more \in [1..n -> seen \cup {message.text}]
  BY <1>5, LenProperties
<1> HIDE DEF more
<1>8. \A i \in 1..n : more[i] = out'[i].text
  BY <1>2, <1>5, <1>6
<1>9. TextsOut' = [i \in 1..n |-> out'[i].text]
  BY <1>2 DEF TextsOut
<1>10. TextsOut' = more
  BY <1>7, <1>8, <1>9
<1> QED BY <1>10 DEF more

\* A step that unpacks nothing and tries no hint keeps what was reached.
LEMMA OutcomeAlone ==
    ASSUME OutcomeReached, calls22' = calls22, out' = out, diag'.CandidatesAnalyzed = diag.CandidatesAnalyzed,
           pc \notin {"a7", "return", "done"}, pc' \notin {"a7", "return", "done"}
    PROVE  OutcomeReached'
<1>1. TextsOut' = TextsOut /\ Unpacked77' = Unpacked77
  BY DEF TextsOut, Unpacked77
<1> QED BY <1>1 DEF OutcomeReached

LEMMA HintsGivenTyped ==
    /\ Hints \in Seq(SUBSET MessageText) /\ HintsGiven \in Seq(SUBSET MessageText)
    /\ Len(Hints) \in Nat /\ Len(HintsGiven) \in Nat
<1>1. Hints \in Seq(SUBSET MessageText)
  BY SlotAssumption DEF SlotAssumption
<1>2. HintsGiven \in Seq(SUBSET MessageText)
  BY <1>1, EmptySeq DEF HintsGiven
<1> QED BY <1>1, <1>2, LenProperties

\* The codewords of the candidates are all those the abstract slot begins with.
LEMMA BlocksOver ==
    ASSUME IInv, Tallies, OutcomeReached, pc = "block"
    PROVE  SoFar(calls22, TextsOut) \in Slot!Fresh
<1>1. Unpacked77 \in 0..MaxUnpacked /\ MaxUnpacked \in Unpacked77..MaxUnpacked
  BY RoomToUnpack, UnpackedAssumption DEF UnpackedAssumption
<1>2. SoFar(calls22, TextsOut) \in Slot!Reached(<<>>)[Unpacked77]
  BY DEF OutcomeReached
<1>3. Slot!Reached(<<>>)[Unpacked77] \subseteq Slot!Reached(<<>>)[MaxUnpacked]
  BY <1>1, CodewordsGrow
<1> QED BY <1>2, <1>3 DEF Slot!Fresh, Slot!AfterCodewords

\* One candidate is one outcome of the abstract candidate.
LEMMA CandidateReached ==
    ASSUME IInv, Tallies, OutcomeReached, Decoding, left > 0,
           NEW o \in Candidate!Outcomes(calls22), calls22' = o.table,
           pc' = "candidates", diag'.CandidatesAnalyzed = diag.CandidatesAnalyzed + 1,
           TextsOut' = IF o.result.ok /\ New(o.result.text, TextsOut)
                       THEN Append(TextsOut, o.result.text) ELSE TextsOut
    PROVE  OutcomeReached'
<1>1. /\ Unpacked77 \in Nat /\ Unpacked77 + (MaxRejected + 1) <= MaxUnpacked
      /\ (MaxRejected + 1) * (diag.CandidatesAnalyzed + 1) = Unpacked77 + (MaxRejected + 1)
  BY RoomToUnpack
<1>2. SoFar(calls22, TextsOut) \in Slot!Reached(<<>>)[Unpacked77]
  BY DEF OutcomeReached, Decoding
<1>3. SoFar(o.table, IF o.result.ok /\ New(o.result.text, TextsOut)
                     THEN Append(TextsOut, o.result.text) ELSE TextsOut)
        \in Slot!Reached(<<>>)[Unpacked77 + (MaxRejected + 1)]
  BY <1>1, <1>2, CandidateUnpacked
<1>4. Unpacked77' = Unpacked77 + (MaxRejected + 1)
  BY <1>1 DEF Unpacked77
<1>5. SoFar(calls22', TextsOut') \in Slot!Reached(<<>>)[Unpacked77']
  BY <1>3, <1>4
<1> QED BY <1>5 DEF OutcomeReached

\* One hint tried is one hint of the abstract slot.
LEMMA HintReached ==
    ASSUME IInv, OutcomeReached, pc = "a7", hint < Len(Hints), pc' = pc,
           hint' = hint + 1, calls22' = calls22,
           \/ TextsOut' = TextsOut
           \/ \E text \in Hints[hint + 1] \ seen : TextsOut' = Append(TextsOut, text)
    PROVE  OutcomeReached'
<1> DEFINE T == Slot!Tried(Slot!Fresh, Hints)
<1>1. hint \in Nat /\ Len(Hints) \in Nat
  BY HintsGivenTyped DEF IInv, Control
<1>2. T = [n \in 0..Len(Hints) |-> IF n = 0 THEN Slot!Fresh ELSE Slot!OneHint(T[n-1], Hints[n])]
  BY HintsGivenTyped, HintsStep
<1>3. SoFar(calls22, TextsOut) \in T[hint]
  BY DEF OutcomeReached
<1> HIDE DEF T
<1>4. T[hint + 1] = Slot!OneHint(T[hint], Hints[hint + 1])
  BY <1>1, <1>2
<1>5. CASE TextsOut' = TextsOut
  <2>1. SoFar(calls22', TextsOut') \in T[hint + 1]
    BY <1>3, <1>4, <1>5 DEF Slot!OneHint
  <2> QED BY <1>1, <2>1 DEF OutcomeReached, T
<1>6. ASSUME NEW text \in Hints[hint + 1] \ seen, TextsOut' = Append(TextsOut, text)
      PROVE  OutcomeReached'
  <2> DEFINE r == SoFar(calls22, TextsOut)
             with == {[r EXCEPT !.texts = Append(@, x)] : x \in Hints[hint + 1] \ Slot!Range(r.texts)}
  <2>1. text \notin Slot!Range(TextsOut)
    BY <1>6, TextsSeen DEF IInv
  <2>2. \A t, u, v : /\ SoFar(t, u).texts = u
                     /\ [SoFar(t, u) EXCEPT !.texts = Append(@, v)] = SoFar(t, Append(u, v))
    <3> TAKE t, u, v
    <3>1. SoFar(t, u).texts = u
      BY DEF SoFar
    <3> DEFINE w == Append(u, v)
    <3>2. [SoFar(t, u) EXCEPT !.texts = Append(@, v)] = [SoFar(t, u) EXCEPT !.texts = w]
      BY <3>1
    <3> HIDE DEF w
    <3>3. [SoFar(t, u) EXCEPT !.texts = w] = SoFar(t, w)
      BY DEF SoFar
    <3> QED BY <3>1, <3>2, <3>3 DEF w
  <2>3. r.texts = TextsOut /\ [r EXCEPT !.texts = Append(@, text)] = SoFar(calls22', TextsOut')
    BY <1>6, <2>2
  <2>4. SoFar(calls22', TextsOut') \in with
    <3>1. text \in Hints[hint + 1] \ Slot!Range(r.texts)
      BY <2>1, <2>3
    <3>2. [r EXCEPT !.texts = Append(@, text)] \in with
      BY <3>1
    <3> QED BY <2>3, <3>2
  <2>5. with \in {{[q EXCEPT !.texts = Append(@, x)] :
                    x \in Hints[hint + 1] \ Slot!Range(q.texts)} : q \in T[hint]}
    BY <1>3
  <2> HIDE DEF r, with
  <2>6. SoFar(calls22', TextsOut') \in T[hint + 1]
    BY <1>4, <2>4, <2>5 DEF Slot!OneHint
  <2> QED BY <1>1, <2>6 DEF OutcomeReached, T
<1> QED BY <1>5, <1>6

LEMMA OutcomeKept == IInv /\ Tallies /\ OutcomeReached /\ [Next]_vars => OutcomeReached'
<1> SUFFICES ASSUME IInv, Tallies, OutcomeReached, [Next]_vars PROVE OutcomeReached'
  OBVIOUS
<1>1. /\ DOMAIN diag = DiagFields
      /\ {"CandidatesAnalyzed", "BlocksSearched", "CandidateSearches", "CandidatesFound",
          "Subtractions", "DecodedCandidates", "DuplicateMessages"} \subseteq DiagFields
  BY DEF Tallies, Diag, DiagFields
<1>2. CASE BeginBlock \/ Search \/ EndPassEmpty \/ SubtractAll \/ EndBlock
  <2>1. /\ pc \notin {"a7", "return", "done"} /\ pc' \notin {"a7", "return", "done"}
        /\ calls22' = calls22 /\ out' = out
    BY <1>2 DEF BeginBlock, Search, EndPassEmpty, SubtractAll, EndBlock
  <2>2. diag'.CandidatesAnalyzed = diag.CandidatesAnalyzed
    BY <1>1, <1>2 DEF BeginBlock, Search, EndPassEmpty, SubtractAll, EndBlock
  <2> QED BY <2>1, <2>2, OutcomeAlone
<1>3. CASE CandidateFails
  <2>1. PICK o \in Candidate!Outcomes(calls22) : ~o.result.ok /\ Analyse(o)
    BY <1>3 DEF CandidateFails
  <2>2. Decoding /\ left > 0 /\ TextsOut' = TextsOut
    BY <1>3 DEF CandidateFails, Decoding, TextsOut
  <2>3. diag'.CandidatesAnalyzed = diag.CandidatesAnalyzed + 1
    BY <1>1, <1>3 DEF CandidateFails
  <2>4. calls22' = o.table /\ pc' = "candidates"
    BY <2>1 DEF Analyse
  <2> QED BY <2>1, <2>2, <2>3, <2>4, CandidateReached
<1>4. CASE CandidateRepeats
  <2>1. PICK o \in Candidate!Outcomes(calls22) :
          o.result.ok /\ o.result.text \in seen /\ Analyse(o)
    BY <1>4 DEF CandidateRepeats
  <2>2. Decoding /\ left > 0 /\ TextsOut' = TextsOut
    BY <1>4 DEF CandidateRepeats, Decoding, TextsOut
  <2>3. diag'.CandidatesAnalyzed = diag.CandidatesAnalyzed + 1
    BY <1>1, <1>4 DEF CandidateRepeats
  <2>4. calls22' = o.table /\ pc' = "candidates"
    BY <2>1 DEF Analyse
  <2>5. ~New(o.result.text, TextsOut)
    BY <2>1, TextsSeen DEF IInv
  <2> QED BY <2>1, <2>2, <2>3, <2>4, <2>5, CandidateReached
<1>5. CASE CandidateDecodes
  <2>1. PICK o \in Candidate!Outcomes(calls22) :
          /\ o.result.ok /\ o.result.text \notin seen /\ Analyse(o)
          /\ out' = Append(out, Message(o.result.text, blocks[bi], ds'.spectrum,
                                        baseline'[bi], FALSE))
    BY <1>5 DEF CandidateDecodes
  <2>2. Decoding /\ left > 0
    BY <1>5 DEF CandidateDecodes, Decoding
  <2>3. diag'.CandidatesAnalyzed = diag.CandidatesAnalyzed + 1
    BY <1>1, <1>5 DEF CandidateDecodes
  <2>4. calls22' = o.table /\ pc' = "candidates"
    BY <2>1 DEF Analyse
  <2>5. New(o.result.text, TextsOut)
    BY <2>1, TextsSeen DEF IInv
  <2>6. TextsOut' = Append(TextsOut, o.result.text)
    BY <2>1, TextsGrow DEF IInv, Message
  <2> QED BY <2>1, <2>2, <2>3, <2>4, <2>5, <2>6, CandidateReached
<1>6. ASSUME pc = "block", calls22' = calls22, out' = out, UNCHANGED blocks
      PROVE  /\ SoFar(calls22', TextsOut') \in Slot!Fresh
             /\ Slot!Fresh \subseteq Slot!AfterHints(Slot!Fresh, HintsGiven')
  <2>1. TextsOut' = TextsOut /\ HintsGiven' = HintsGiven
    BY <1>6 DEF TextsOut, HintsGiven
  <2>2. Len(HintsGiven) \in 0..Len(HintsGiven)
    BY HintsGivenTyped
  <2>3. Slot!Fresh \subseteq Slot!AfterHints(Slot!Fresh, HintsGiven)
    BY <2>2, HintsGivenTyped, HintsGrow DEF Slot!AfterHints
  <2> QED BY <1>6, <2>1, <2>3, BlocksOver
<1>7. CASE BeginA7
  <2>1. /\ pc = "block" /\ pc' = "a7" /\ calls22' = calls22 /\ out' = out /\ UNCHANGED <<blocks, hint>>
    BY <1>7 DEF BeginA7
  <2>2. hint' = 0
    BY <2>1 DEF IInv, Control
  <2>3. Slot!Fresh = Slot!Tried(Slot!Fresh, Hints)[0]
    <3>1. 0 \in 0..Len(Hints)
      BY HintsGivenTyped
    <3> DEFINE T == Slot!Tried(Slot!Fresh, Hints)
    <3>2. T = [n \in 0..Len(Hints) |->
                 IF n = 0 THEN Slot!Fresh ELSE Slot!OneHint(T[n-1], Hints[n])]
      BY HintsGivenTyped, HintsStep
    <3> HIDE DEF T
    <3>3. T[0] = Slot!Fresh
      BY <3>1, <3>2
    <3> QED BY <3>3 DEF T
  <2> QED BY <1>6, <2>1, <2>2, <2>3, HintsGivenTyped DEF OutcomeReached
<1>8. CASE SkipA7
  <2>1. pc = "block" /\ pc' = "return" /\ calls22' = calls22 /\ out' = out /\ UNCHANGED blocks
    BY <1>8 DEF SkipA7
  <2> QED BY <1>6, <2>1 DEF OutcomeReached
<1>9. CASE HintFails
  <2>1. /\ pc = "a7" /\ hint < Len(Hints) /\ pc' = pc /\ hint' = hint + 1 /\ calls22' = calls22
        /\ TextsOut' = TextsOut
    BY <1>9 DEF HintFails, TryHint, TextsOut
  <2> QED BY <2>1, HintReached
<1>10. CASE HintDecodes
  <2>1. PICK text \in Hints[hint + 1] \ seen :
          out' = Append(out, Message(text, FullSlot, ds'.spectrum, baseline'[FullIndex], TRUE))
    BY <1>10 DEF HintDecodes
  <2>2. pc = "a7" /\ hint < Len(Hints) /\ pc' = pc /\ hint' = hint + 1 /\ calls22' = calls22
    BY <1>10 DEF HintDecodes, TryHint
  <2>3. TextsOut' = Append(TextsOut, text)
    BY <2>1, TextsGrow DEF IInv, Message
  <2> QED BY <2>1, <2>2, <2>3, HintReached
<1>11. CASE EndA7
  <2>1. /\ pc = "a7" /\ pc' = "return" /\ hint = Len(Hints)
        /\ calls22' = calls22 /\ TextsOut' = TextsOut /\ HintsGiven' = HintsGiven
    BY <1>11 DEF EndA7, TextsOut, HintsGiven
  <2>2. HintsGiven = Hints
    <3>1. FullSlot \in Range(blocks)
      BY <2>1, FullSlotKept DEF Range
    <3> QED BY <3>1 DEF HintsGiven
  <2> QED BY <2>1, <2>2 DEF OutcomeReached, Slot!AfterHints
<1>12. CASE Return
  <2>1. pc' = "done"
    BY <1>12 DEF Return
  <2> QED BY <2>1 DEF OutcomeReached
<1>13. CASE UNCHANGED vars
  <2>1. /\ pc' = pc /\ hint' = hint /\ calls22' = calls22 /\ TextsOut' = TextsOut
        /\ HintsGiven' = HintsGiven /\ Unpacked77' = Unpacked77
    BY <1>13 DEF vars, TextsOut, HintsGiven, Unpacked77
  <2> QED BY <2>1 DEF OutcomeReached
<1> QED BY <1>2, <1>3, <1>4, <1>5, <1>7, <1>8, <1>9, <1>10, <1>11, <1>12, <1>13 DEF Next

LEMMA SlotTexts == Slot!MessageText = MessageText
  BY Zenon DEF Slot!MessageText, MessageText, Slot!Shown, Shown, Slot!Tails, Tails,
               Slot!Tails4, Tails4, Slot!FreeTails, FreeTails

\* The Decoder that called sees the return and nothing else.
LEMMA ReturnSeen ==
    ASSUME IInv, OutcomeReached, [Next]_vars
    PROVE  [Slot!Return]_(Slot!vars)
<1> DEFINE seenTexts == IF pc = "done" THEN TextsOut ELSE <<>>
           seenTable == IF pc = "done" THEN calls22 ELSE <<>>
<1>1. ASSUME HintsGiven' = HintsGiven, (pc = "done")' = (pc = "done"),
             seenTexts' = seenTexts, seenTable' = seenTable
      PROVE  UNCHANGED Slot!vars
  BY <1>1 DEF Slot!vars, HintsGiven, TextsOut
<1>2. HintsGiven' = HintsGiven
  BY DEF Next, vars, HintsGiven, BeginBlock, Search, CandidateFails, CandidateRepeats,
         CandidateDecodes, EndPassEmpty, SubtractAll, EndBlock, BeginA7, SkipA7, HintFails,
         HintDecodes, TryHint, EndA7, Return
<1>3. CASE Return
  <2>1. pc = "return" /\ pc' = "done" /\ calls22' = calls22 /\ TextsOut' = TextsOut
    BY <1>3 DEF Return, TextsOut
  <2>2. SoFar(calls22, TextsOut) \in Slot!AfterHints(Slot!Fresh, HintsGiven)
    BY <2>1 DEF OutcomeReached
  <2>3. \E r \in Slot!AfterHints(Slot!Fresh, HintsGiven) :
          seenTexts' = r.texts /\ seenTable' = r.table
    BY <2>1, <2>2 DEF SoFar
  <2> QED BY <1>2, <2>1, <2>3 DEF Slot!Return, HintsGiven, TextsOut
<1>4. CASE UNCHANGED vars
  <2>1. (pc = "done")' = (pc = "done") /\ TextsOut' = TextsOut /\ calls22' = calls22
    BY <1>4 DEF vars, TextsOut
  <2> QED BY <1>1, <1>2, <2>1
<1>5. CASE ~Return /\ ~UNCHANGED vars
  <2>1. pc # "done" /\ pc' # "done"
    BY <1>5 DEF Next, BeginBlock, Search, CandidateFails, CandidateRepeats, Analyse,
         CandidateDecodes, EndPassEmpty, SubtractAll, EndBlock, BeginA7, SkipA7, HintFails,
         HintDecodes, TryHint, EndA7
  <2> QED BY <1>1, <1>2, <2>1
<1> QED BY <1>3, <1>4, <1>5

\* To the Decoder a slot is one step: texts without repetition, each unpacked
\* through the table as it then was or taken from an A7 hint after all of those,
\* and a table that has gone through the codewords alone
\* (decodeMessagesCoreWithDiagnostics, decode.go).
THEOREM ImplementsSlotOutcome == Spec => RefinesSlotOutcome
<1>1. Init => OutcomeReached /\ Slot!Init
  <2> SUFFICES ASSUME Init PROVE OutcomeReached /\ Slot!Init
    OBVIOUS
  <2>1. pc = "block" /\ calls22 = <<>> /\ out = <<>> /\ diag.CandidatesAnalyzed = 0
    BY DEF Init, ZeroDiag
  <2>2. TextsOut = <<>>
    BY <2>1 DEF TextsOut
  <2>3. Unpacked77 = 0 /\ 0 \in 0..MaxUnpacked
    BY <2>1, SlotAssumption, UnpackedAssumption DEF SlotAssumption, UnpackedAssumption, Unpacked77
  <2> DEFINE C == Slot!Reached(<<>>)
  <2>4. C = [n \in 0..MaxUnpacked |->
               IF n = 0 THEN {[table |-> <<>>, texts |-> <<>>]} ELSE Slot!OneCodeword(C[n-1])]
    BY CodewordsStep
  <2> HIDE DEF C
  <2>5. SoFar(calls22, TextsOut) \in C[Unpacked77]
    BY <2>1, <2>2, <2>3, <2>4 DEF SoFar
  <2>6. OutcomeReached
    BY <2>1, <2>5 DEF OutcomeReached, C
  <2>7. Slot!Init
    BY <2>1, SlotTexts, HintsGivenTyped DEF Slot!Init, HintsGiven
  <2> QED BY <2>6, <2>7
<1>2. Spec => []OutcomeReached
  BY <1>1, OutcomeKept, TalliesInductive, PTL DEF Spec
<1> QED BY <1>1, <1>2, Inductive, ReturnSeen, PTL DEF Spec, RefinesSlotOutcome, Slot!Spec
==============================================================================
