# A TLA+ development of go-ft8

`src/ft8` decodes FT8, the amateur radio mode in which every station transmits
in 15-second slots. This directory holds TLA+ modules of the decoder's logic,
TLC configurations that check them on small instances, and TLAPS proofs.

What is modelled is the *control* of the decoder: what is kept from message to
message, candidate to candidate and slot to slot, in which order it is read and
written, and what each early return leaves behind; and the *discrete* algorithms:
packing, checksum, code and tones, the search for the nearest codeword, the
selection of candidates and hints. What the signal holds is nondeterministic: a
peak may have any strength, a gate may pass or reject, an iteration may leave any
checks unsatisfied. The floating-point arithmetic itself (FFTs, synchronisation,
the values of belief propagation) is outside.

## The system

| Part | State | Operations | Talks to |
|---|---|---|---|
| Decoder (`a7.go`) | `seq`, `history[2]`, hash table, options twice | `Decode*` in permissive and checked forms, `SetAPCallHints` | one slot decode per call |
| Slot decode (`decode.go`) | sample buffer, kept buffer, seen texts, messages, baseline per block count | block counts × two passes, subtraction, A7 phase | candidate search, candidate decode, pools |
| Candidate decode (`decode.go`) | none of its own | gates, metric passes, AP passes, call-hint passes | LDPC, unpacking, diagnostics |
| Unpacking (`unpack.go`, `field_day.go`) | none | one handler per message type | hash table |
| Hash table (`unpack.go`) | `calls22`, newest first | `Save`, `Lookup12`, `Lookup22` | |
| A7 hints (`a7.go`) | none | parse texts into hints, texts of a hint | Decoder, slot decode |
| AP call hints (`ap_hints.go`) | normalized list | normalize, score, select the best | candidate decode |
| Options (`options.go`, `checked.go`) | none | validate, normalize | every API |
| Diagnostics (`diagnostics.go`) | counters | record attempt, success, rejection | candidate and slot decode |
| Structured results (`result.go`) | none | merge a strict and a deep list | slot decode twice |
| Downsampler (`refine.go`) | spectrum of the last samples, `initialized` | downsample | slot decode, A7 |
| Noise baseline (`snr.go`) | `sbase`, `computed` | ensure | slot decode, A7 |
| Pools (`audio.go`, `refine.go`, `snr.go`, `sync.go`) | free buffers | Get, Put | every decode at once |
| Tables made on first use (`subtract.go`, `snr.go`, `osd.go`) | five `sync.Once` | make, wait | every decode at once |
| Packing and encoding (`pack.go`, `field_day.go`, `encode.go`, `osd.go`) | none | words to payload fields, checksum, parity bits, tones, and the canonical text back | unpacking without a table |
| Candidate search (`sync.go`, `spectrogram.go`) | scratch | peaks of each bin, suppression of near ones, order, limits | slot decode, pools |
| Soft metrics (`metrics.go`, `refine.go`) | symbols of one candidate | five metrics of each bit | candidate decode |
| LDPC/OSD/CRC (`ldpc.go`, `ldpc_matrix.go`, `osd.go`) | up to 31 iterations, two saved sums | propagate, stop, search the nearest codeword | candidate decode |
| Subtraction (`subtract.go`) | scratch, the slot's samples in place | one signal out of the samples | slot decode, pools |
| FFT plans | scratch only | numerical | |

The hard behaviours are: a hash table read and written by messages that may
still be thrown away; caches (spectrum, baseline) over samples that are
subtracted in place; a buffer whose life crosses the block counts; the same text
arriving by several routes; hints that feed back into the next slot but one;
options kept in two copies; counters spread over a cascade of early returns;
memory that passes from decode to decode with what was left in it; one code
written down in three tables; and searches that prune, cache and reorder.
There is no persistence and no messaging. Concurrency is confined to the shared
pools and the tables made on first use.

What makes each part correct, and where it is stated:

| Part | Correct when |
|---|---|
| Hash table | it answers with the most recent call of a hash, never outgrows its limit, and has each hash once (`RefinesRecentCalls`, `LookupsAnswerNewest`, `TableOK`) |
| Unpacking | a hash resolves to a call heard *before* (`ResolvesEarlierCalls`) |
| Candidate decode, diagnostics | every attempt, AP pass and candidate is counted once, the cascade stops at the first success and always ends (`AttemptsAccounted`, `APAccounted`, `CandidatesAccounted`, `CandidatesEnd`), and nothing but the result and the table reaches the caller (`RefinesCandidateOutcome`) |
| Slot decode | buffers go back once, caches match the samples, noise is measured before subtraction, A7 sees the residual, texts are unique, counters agree (the properties of `slot`) |
| A7 hints, Decoder | hints come from the same cadence, guesses have a source there and come once, a CQ is guessed only with a grid, errors change nothing, both copies of the options agree (the properties of `decoder`) |
| Options | what validation accepts is what runs; what runs is runnable as long as no block count overflows; of the hints the caller's first are kept (`AcceptedAsGiven`, `NormalizedRunnable`, `HintsByPriority`) |
| Structured results | one row per text, labelled and with copies from the lists that have it, in the order of the lists (`OneRowPerText`, `LabelsTellSource`, `MergeKeepsOrder`) |
| Packing and encoding | what is sent says what was given, stays when sent again, and is what the receiver tests for (`TextSaysWhatWasGiven`, `CanonicalTextStays`, `SentIsAccepted`) |
| Soft metrics | a symbol that came in is heard as it was sent, whatever is missing around it (`HeardAsSent`) |
| Candidate search | no two near candidates are decoded, and no strict peak loses its place to a weaker one (`Spaced`, `StrongestDecoded`) |
| AP hint selection | the hypotheses tried are the best there are, best first (`BestHypotheses`) |
| LDPC and OSD | the search answers with the nearest word it may look at; an attempt fails only when everything was tried (`NearestOfSearch`, `FailsOnlyWhenExhausted`) |
| Pools, subtraction | no object has two users; what is read from shared memory was written by the reader, in bounds; every decode returns (`OneUser`, `OwnDataRead`, `EveryDecodeReturns`) |

## Modules

    HashTable ── HashTableSpec ──(implements)──> RecentCalls
        │
      Unpack
        ├── CandidateOutcome <──(implements)── DecodeCandidate
        │         └──(used by)──> DecodeSlot ──(implements)──> SlotOutcome
        └── A7Hints ── Decoder <──(used by)── SlotOutcome
    Options ── OptionsSpec ── Structured      Options ── Decoder
    LdpcTables ── Codeword ─┐
           StandardMessage ─┴─ Transmission
    CandidateSearch   HintSelection   Osd ── Ldpc   Pools

The proofs are in modules of their own: UnpackLemmas (any well-formed table, and
what messages do to it) and on top of it HashTableProofs and DecodeCandidateProofs;
DecodeSlotProofs, DecoderProofs (with the options and results of the structured
APIs), StandardMessageProofs, PoolsProofs and SelectionProofs (candidates, hints and
the attempts and searches for a codeword). The
`MC` modules give the constants their values. A slot is one step of SlotOutcome
for the Decoder and for Structured, a candidate one step of CandidateOutcome for
DecodeSlot. CandidateSearch, HintSelection and Ldpc are what those leave open:
which candidates a pass has, which hypotheses are tried, and whether a word is
found. Pools is DecodeSlot seen from the memory: it keeps the buffers of several
decodes and forgets what they say.

* **HashTable** has the operators on tables (`Save` with `MoveToFront` and
  `PushFront`, the lookups, `WellFormed`); **HashTableSpec** is one table under
  any sequence of saves. `calls22[0]` of the code is index 1. The 22-bit hash is
  a constant function `Hash22`; a 12-bit hash is its top bits, since `hashCall`
  shifts one 64-bit product. **RecentCalls** is the promise: the `MaxHash` most
  recently heard hashes, each with its last call.
* **Unpack** translates the handlers of `unpack77WithHashes`. A payload is a
  record of fields, a text is the calls shown (plain or in brackets) and a tail.
  Every handler returns the table too, also when it fails: standard messages
  save the second call before they look at the grid, type 4 messages look up
  before they save, Field Day only looks up.
* **DecodeCandidate** is `decodeCandidateVariantsForMetricSet` and all below it.
  `plan` is the list of passes still to try; each call of `decodeLLRPass` is one
  step, one action per way it ends. `diag` has the counters of those functions.
  **CandidateOutcome** is what the caller relies on: nothing or one codeword
  that passes, and a table that went through what was found on the way.
* **DecodeSlot** is `decodeMessagesCoreWithDiagnostics` statement by statement
  (`pc`), with buffers and their contents told apart by block count and number
  of signals subtracted. A candidate is one step of CandidateOutcome. `decodedIn`
  is auxiliary. The block counts are such that their samples do not overflow; what
  others lead to is in Structured. **SlotOutcome** is the promise to the Decoder: texts without
  repetition and a table, no buffers or passes.
* **A7Hints** has `parseA7Hint`, `collectA7Hints` and `a7CandidateMessages` with
  the guard on CQs. `GuessTails` bounds the 206 texts of a hint. `RR73` counts as
  a grid because `isGrid4` accepts it. `StandardCalls` are the calls `callOK` accepts,
  of which a hint can be made; `Packed` are those `pack28` packs, of six characters at
  most: a hint of a longer call is kept, and none of its texts can be tried. Free text
  that happens to look like calls gives a hint in the code and none here.
* **Decoder** is the stateful decoder; a slot is one step of SlotOutcome. `heard`
  (the texts of the last two periods) and `given` are auxiliary. A text is *guessed*
  (`Guessed`) if no codeword carries it in full: only A7 can have returned it.
  `CallerWritesBlocks` is the caller, not the decoder: `rawOptions.Blocks` shares
  its slice.
* **Options** has normalization, validation, the deep options and the test for
  empty ones; **OptionsSpec** is a caller that fills in the fields, and says what
  a search's options have to do with those given. **Structured** composes it with
  the structured APIs: the options are filled in, one call is made, permissive or
  checked, of the package or of a Decoder, and the lists of one or two searches
  are merged. `searched` records the normalized options of each search, `ended` how the
  call ended: a block count whose number of samples overflows to a negative one makes
  `decodeBlocks` panic (`Panics`). A message is tagged with the mode of the search that
  found it, which the code does not keep: for a Decoder that is the mode its options
  were made for (`ModeOf`), not the one its rows are labelled with.
* **StandardMessage** packs the words of a message into the fields of a payload
  (`pack77StandardMessage` with the Field Day branch before it) and unpacks them
  with no callsign table, as `EncodeStandardMessage` does for its canonical text.
  A word is a record of what the packer's tests tell apart, a character its place
  in an alphabet; so the arithmetic of the fields, and their widths, are the
  code's own. It is the counterpart of Unpack, which abstracts the fields and
  keeps the table.
* **LdpcTables** has the tables of the code as they stand in the source;
  **Codeword** goes from 77 bits to 174 and to 79 tones, and from tones to the
  soft metrics and the tests of a word. A word is the set of its 1 bits, its sum
  with another the symmetric difference. The checksum is solved for by the
  elimination of `solveCRC14` and tested by the register of `crc14OK`. What came in
  of a symbol is its tone or nothing: without noise a magnitude counts the symbols
  that have the tones of a guess. Normalization only scales a metric and is left
  out. **Transmission** composes both with StandardMessage: compose, send, hear.
* **CandidateSearch** is `findCandidates` from the two peaks of each bin on.
  Frequencies are bins, times are lags. `tdiff < 0.04` is a comparison of two
  rounded times one lag apart; `RoundedBelow` lists, for the arithmetic of the
  source in float64, the lags for which it comes out true. The properties use the
  same list, so they would not find a slip in it.
* **HintSelection** is `selectAPCallHintHypotheses` with the insertion sort; the
  scores of a hypothesis by either metric are any of a few levels.
* **Ldpc** is `decode17491BP` and the hybrid after it: the iterations with the
  stop rule, the two sums saved, the searches. **Osd** is `osd17491`, statement by
  statement as far as its result goes: order, bounded pivot search with its column
  swaps, known bits, the search by one or two flips with the cached differences,
  the pruning, and the order undone. `Codewords`, `Searched` and `Distance` say
  what it is for without any of these. Sizes are constants.
* **Pools** is the loop of `decode.go` for several decodes, reduced to what it
  takes, puts back, writes and reads. `memory[o][place]` is the decode that wrote a
  place since the object was taken. A pool may drop objects and make new ones,
  whose contents are not relied on.

Operators whose names extend another's (`PushFrontLong`, `EndBlockPutAll`, ...) and
which no specification uses are deliberate faults. Each stands before the
definition it could be mistaken for; put in its place, the property named in
PROJECT.json fails. They show that the property depends on that line of the code.

## Runs

| Run | Question | Bounds |
|---|---|---|
| `hash_table` | is the slice a well-formed most-recent store? | capacity 3 with colliding 12- and 22-bit hashes: every hit position and the cut occur |
| `candidate` | do counters, hash resolution and the cascade fit together? does a candidate do what CandidateOutcome says? | two candidates (the second sees the table of the first), one codeword thrown away in each, one pass of each kind |
| `slot` | are buffers, caches, subtraction, counters and texts right in every order? does the pipeline keep the promise of SlotOutcome? | blocks 50 and 41, or 47 alone (no A7); two candidates a search, so at most sixteen codewords; two hints |
| `decoder` | do hints keep the cadence over any number of slots, whichever methods are mixed? is what is guessed of a station heard there, once each, a CQ only with a grid? | two codewords and two texts a slot of three standard messages and a type 4 CQ of a call too long to pack; guesses end with RR73 or the hint's own grid; no blocks or repeated ones, malformed captures; no bound on slots |
| `request` | does a checked API run what it accepted? is what runs runnable? is the merge a union with true labels? | an int of 24 bits, and block counts whose samples come out negative and too few; lists up to five entries, or two scalar fields at their limits with one entry, and between; lists of up to three texts when at most one list entry is set |
| `encode` | does what is sent say what was given, and does the canonical text stay? does the receiver's test accept it, and hear each symbol? | up to five words at both sides of every limit of every field; 19 messages heard from 7 starts by each of 4 metrics: whole at both ends of the range of starts, cut before the samples by 1, 2 and 9 symbols, and behind by 1 and 2 |
| `pools` | has an object one user, is stale memory never read, does every decode return? | two decodes, of two blocks and of one; two candidates a pass; buffers of five samples with frames of four that begin before, within and behind them; a frequency range whose tones do not fit |
| `select` | are near candidates kept apart, the strongest kept, and the best hints chosen? does OSD find the nearest word it may look at? does an attempt fail only when all was tried? | one of three at a time: four bins, three lags of which two are near, four strengths, up to six peaks, two returned; two hints in two fields, all limits from 0 to past the cap; a code of 8 bits, 4 of the message, 9 soft words and 3 sets of known bits: no basis, no flip, one and two flips, a nearer word pruned, a nearer word barred by a known bit; eight iterations with the limits of the rule reduced alike |
| `decoder_rejected_slot`, `decoder_shared_blocks`, `encode_dropped`, `request_wrapped_blocks` | disagreements with the repository's own text (below) | as above |

Two candidates a search are what the slot's hazards need: one to decode and one
after it that must still see the spectrum of before the subtraction; one new and
one repeated; a codeword that is filtered out between two others. Two block
counts let the full slot's buffer outlive its block. The capacity 2 of the tables
of `candidate` and `slot` is less than the calls heard, so that calls are
forgotten there too.

In `select` the numbers of unsatisfied checks are those about the 15 of the rule, the
iteration limits keep their order (stale limit < least iteration < last). The
four bins give chains: a peak that suppresses another and is suppressed by
a third, in either order. Bins 2 and 3 are near the QSO frequency (which the
decoder always gives as 0), bins 4 and 5 are not. The module of `encode` also has
TLC evaluate `OneEdgeEach`, a statement about the tables alone: every bit has three
checks and `initLDPCNmBitEdge` gives each of them an edge of its own.

Fairness: DecodeCandidate assumes that a function goes on to its next statement (weak
fairness of the steps other than starting a candidate): it is sequential code that
takes no lock and waits for nothing. Pools assumes the same of each goroutine that
has a step to take (weak fairness of `Step(d)`, not of `Call`), which is what Go's
scheduler gives; a decode that waits for a table has no step until the maker is done.
The other modules claim safety only.

`pools` and `hash_table` check for deadlock. The other runs set `CHECK_DEADLOCK FALSE` because
each model really stops: the functions return, and the callers stop at their
bounds.

### Disagreements found

1. *A rejected slot shifts the cadence* (`decoder_rejected_slot`). `a7.go` says
   hints "come from the previous slot with the same even/odd cadence".
   `DecodeMessagesChecked` leaves `seq` alone when it rejects a slot, as its own
   comment promises, so the following slots use the other cadence's hints. As
   long as no slot was rejected the property holds (`decoder`,
   `HintsWhileNoneRejected`).
2. *`Blocks` is shared with the caller* (`decoder_shared_blocks`), unlike
   `APCallHints`, so later checked calls validate something else than "the
   original options".
3. *A word is dropped* (`encode_dropped`). Of four fields the third is looked at
   only if the last is a grid, and then only to see whether it is `R`:
   "K1ABC W9XYZ TNX 73" is accepted and sent as "K1ABC W9XYZ 73", and
   "K1ABC W9XYZ R -10" loses its `R`. `TextSaysWhatWasGiven` (`encode`) says that
   nothing else is ever lost.
4. *A huge block count is accepted* (`request_wrapped_blocks`). `block*3456` is an
   int, in `validateDecoderBlocks` (`checked.go:148`) and `normalizeBlockCounts` alike.
   A count such as 2668799779702193 has a negative product, passes both, and
   `decodeBlocks` slices with it and panics (`audio.go:39`), in the checked APIs too; a
   count just over 2^64/3456 is taken for a few samples. The check is to reject an
   entry that "exceeds the 15-second decoder buffer". No other option makes a call panic
   (`request`, `NormalizedRunnable`).

Smaller ones have no run of their own:
* a checked API accepts hints that do not pack, repeat a call or are more than 200,
  and `normalizeAPCallHints` drops them (`ap_hints.go:52`): validation does not look at
  `APCallHints`, although `ErrInvalidDecoderOptions` "identifies decoder options that
  would be silently normalized or ignored by permissive decode APIs"
  (`checked.go:16`). The repository's README has it that such hints are ignored, so the
  comment may only be too broad. `AsGiven` says it as it is: the hints are all there
  if none of them has to be dropped (`NoHintDropped`); `HintsByPriority` says which
  are kept otherwise;
* the methods of a Decoder made with options of its own label every row strict
  (`a7.go:102`), with the deep options too, although they promise to use "this decoder's
  configured mode" and to return "mode-labeled results". `LabelsTellSource` excepts
  just these Decoders (`OwnOptions`);
* `APCallHints`, "the number of normalized call hints supplied to the decoder"
  (`diagnostics.go`), is set only when a candidate gets as far as the hint passes,
  as `RecordAPHintScored` shows.

## Proofs

Everything below is proved for every value of the constants, from the named
assumptions of the modules (`HashAssumption` and the like); those only say what
the constants are.

`UnpackLemmas` says what saving does to any table. `PushFrontWellFormed` and
`MoveToFrontWellFormed` each treat one shape of save: the first needs that no
entry has the hash, the second that the entry replaced is the only one with it
(`FirstHit`), which is what makes distinct hashes inductive. `SaveWellFormed`
joins them, and `UnpackKeepsWellFormed` lifts that to messages, whatever payload
is unpacked and whether it succeeds or not. The first entry with a hash is the least
of a set of numbers (`LeastNat`); arguments over data are made with such least
elements, since the library's induction theorems cannot be used here.

`HashTableProofs` proves of HashTableSpec
* `TableAlwaysOK`: the table stays well formed;
* `LookupsAlwaysNewest`: a lookup answers the last call heard with the hash, or
  nothing if more than `MaxHash` others were heard since. The table is what is
  left when the calls heard are put in front one after another (`ReadsAsHeard`);
* `ImplementsRecentCalls`: HashTableSpec implements RecentCalls. A save takes one
  call out at most and puts one in front (`PutInFront`, `Surviving`), which is the
  step of the promise whichever of the two branches of `Save` was taken.

`DecodeCandidateProofs` proves of DecodeCandidate
* `AttemptsAlwaysAccounted`: every LDPC attempt ends one way. Each early return of
  `decodeLLRPass` is an instance of `AttemptEnds`: an attempt with any one end
  keeps both sums;
* `CandidatesAlwaysAccounted`: the counters of candidates. The invariant
  `PassesTried` relates the plan that is left to the counters of the metric passes;
* `APAlwaysAccounted`: the counters by kind of AP pass add up to the total. The
  total is a sum over a set of kinds; `SumRaised` says that adding one to one of
  them adds one to the sum. It is derived from the definition of `SumFunction`: a
  function with its recursion exists (`SumExists`), so the chosen one has it.
  The invariant `APTold` says it for attempts and for each way they end;
* `ResolvesOnlyEarlierCalls`: a hash resolves to a call heard before. What the table
  holds was saved earlier, and a type 4 message looks up before it saves;
* `ImplementsCandidateOutcome`: a candidate is one step of CandidateOutcome, which
  needs that the table went through codewords that were found and thrown away
  (`Reachable`).

`DecodeSlotProofs` proves of DecodeSlot, for all block lists, hints, codewords and
numbers of candidates, `BuffersOwned`, `NoisePreSubtraction`, `SpectrumFresh`,
`A7OnResidual`, `TextsUnique`, `CountersAgree`, and that it implements SlotOutcome.
The first five share the invariant `IInv`:
* `Control`: where the decode is; outside a pass nothing waits to be subtracted;
* `Ownership`: exactly the buffers in use are out of the pool, and the one in use
  is the one kept for A7 just when `KeepDD` says so;
* `Holdings`: a buffer holds its own block count with as many signals taken out
  as were decoded less those still to be subtracted, and *while a baseline is
  not computed nothing has been subtracted*. That is the heart of it: in a pass
  that decodes something the baseline is computed before the subtraction, and in
  one that does not there is no second pass, so A7 may compute it late;
* `Spectrum`, `Returned`: the cache and the texts.

Distinct block counts (`SlotAssumption`; normalization guarantees it, see
`NormalizedRunnable`) are what keeps the full slot's buffer unique.
`CountersAlwaysAgree` rests on `Tallies`: each counter is what the part of the slot
done so far accounts for (`Fits`), and the candidates still to come are no more than
the limit of a search for each search left (`SearchesLeft`).
`ImplementsSlotOutcome` carries `SoFar`: the texts and the table so far are those of
the codewords unpacked, thrown away or not, and single steps of the promise reach them
(`Reached`). The promise bounds the codewords of a slot by `MaxUnpacked`;
`UnpackedAssumption` says that this is as many as the searches of a slot can
find (`RoomToUnpack`), so that the bound excludes no slot.

`DecoderProofs` proves of Decoder `HintsAlwaysOfCadence`, `OneGuessAlwaysPerExchange`,
`GuessedCQsAlwaysHaveGrid`, `OptionsAlwaysMatch` and `ErrorsAlwaysKeepState`.
`HintsFromSameCadence` becomes inductive with the
range of `seq` (`Cadence`): a decode writes one of the two histories and turns
`seq` to the other, so what was written is next read two decodes later. The
two about guesses rest on `HistoryWorth`, that no hint of either history repeats another,
which needs an argument over the fold of `collectA7Hints` (`CollectSteps`): every prefix
of the texts leaves such a list, and each hint in it is of one of those texts
(`CollectedHaveSource`). `ResultsGuess` says what a slot makes of them: no text
unpacked from a codeword is a guess, since a text in full is the same with any table
(`InFullOfAnyTable`), and each hint adds one text at most, one of its own. Of a CQ
the guard of `decodeA7Candidate` then says that its hint had a grid, and `Cadence` that the
text it was parsed from was heard one turn before.

It also proves all that is checked of Structured: `NormalizedAlwaysRunnable`,
`AcceptedAlwaysAsGiven`, `HintsAlwaysByPriority`, `OneRowAlwaysPerText`,
`LabelsAlwaysTellSource` and `MergeAlwaysKeepsOrder`, for options with any values, lists
of any length, any texts and any width of an int; assumed are only that the numbers
tried are integers and that the texts of a slot are finitely many. The invariant is
`AskInv`: the options are well formed; once a call is made, `searched` is the normalized
options of each of its searches, or nothing if one was rejected; what is returned is
a merge of two lists without repetition, of the strict and the deep search unless a
Decoder has options of its own; and a call that panicked was given a count that makes it. Most of it is about three loops of the code
that build a list from another. A fold is a function from sets that
the library chooses; `FoldExists` and `FoldIterates` show once that there is one
and that it is a loop (`Iterates`), and each loop has its own invariant on the prefixes:
* block counts (`BlocksKeptUsable`, `ValidBlocksKept`): what is kept so far is distinct
  and fits unless it overflows (`FitsUnlessOverflows`); of valid counts nothing is
  dropped. The product that is tested is the wrapped one, in normalization and validation
  alike, and only a count that overflows has a negative one (`NegativeOverflows`);
* hints (`OneMoreHint`): what is kept of a prefix is, at the places counted by
  `Cardinality`, the first hint of each call, until the list is full, from where on
  nothing changes although the count goes on;
* the merge (`MergedStep`): the rows are those of the strict list, in its order and never
  moved, then one for each deep text that was new, in the order of the deep list; a
  deep message that is there already changes only the labels of its row and its deep
  copy, which is the message with that text (`FoundIsOnly`).

`PoolsProofs` proves of Pools, for any number of decodes, objects, blocks, samples
and bins,
* `OneUserAlways`: what comes from a pool is referred to by nobody (`GetKeeps`), what
  is put back was referred to by the putter alone (`PutKeeps`), and keeping the full
  slot's buffer renames the reference (`KeepBlockKeeps`);
* `OwnDataAlwaysRead`: what is read from shared memory was written by the reader
  since it took the object, and lies within it. The invariant `Written` says for each
  place of the program which parts of its objects are written by then; for a
  subtraction it is the arithmetic of `WindowInBuffer` and `CampAllWritten`, for every
  onset: the window lies in the buffer, and clearing before and behind it writes all
  that the FFT reads. The proof showed that the first bin of a frequency range has to
  be at least 1 (`sync.go` clamps it), or the smoothing reads below the spectrum.

`SelectionProofs` proves of CandidateSearch `SpacedAlways` and `StrongestAlways`, for
any bins, lags, strengths and limits, and of HintSelection `BestAlwaysKept`. The
invariant of the first says that a pair of near peaks is *settled* once it is compared,
one of the two being 0 from then on (`PairsSettled`), although the one that
suppressed may be suppressed later itself; that a peak stronger than all near it is
as it was found until it is returned (`StrictKept`); and that what is returned is
near nothing that is left (`OutSpaced`) and not weaker than it (`OutBest`).
`NearSymmetric` is where the rounding of times matters: whether a pair is near
depends on both lags, but on neither first. That of the second (`HintInv`): the
list is sorted, has no hypothesis twice, and none that was left out or dropped beats one in
it; so what falls off the end of a full list can never be missed later.

Of Ldpc it proves `AttemptsAlwaysExhausted`, for any iteration limits that leave room for
the `MaxSaved` iterations whose sums are saved (the code's are 30 and 10, and 2), any stale
limit and any numbers of unsatisfied checks. `AttemptInv` says what the counter means
(`CountsStale`: in the last `stale` iterations no check was gained) and which sums are
saved before iteration n (`SavedBefore`): the rule that gives up early looks only after
the least iteration, when both have been saved, so the hybrid always has two to try.

`SearchAlwaysNearest` is the statement about OSD, for any code, any size of word, pivot
window and pruning limits, any soft words and any known bits: whatever it answers
is the nearest of the codewords it may look at, measured bit by bit in the order of
the message (`Searched`, `Distance`), and it finds nothing only if the elimination gave up
or a nearest word has a wrong CRC. The argument has four parts.
* *Folds.* The model's sums and loops are folds of the community modules, defined by a
  CHOOSE of a recursive function. `FoldOfExists` says that such a function exists and
  `FoldIterates` that its last value is that of a sequence of steps, so invariants of a
  loop are carried along that sequence. `WeightCounts` makes a weight the size of a set,
  hence independent of the order of the bits (`WeightReordered`), and `EncodeParity`
  makes a sum of rows a parity, hence a word changes by one row when one bit of
  its message does (`EncodeToggles`).
* *Elimination.* `Reduced(s, k)`: the order is a permutation of the bits, the first k columns
  are those of the identity, and the rows, read as bits, span the code that the
  generator spans. `DiagonalReduces` proves it of a step: the swap of two columns is
  undone by the swap of their bits, and adding a row to others leads to no new words and
  can be taken back (`SpanWithin`).
* *Search.* On the identity the basis of a codeword is its message, so the word that
  differs from the hard decisions there in one bit or two is the one that the search
  makes (`PairIsWord`, `NearIsPair`). The invariant of the loop is `Nearest`, the best of the
  pairs so far, with `Cached`: the differences kept are those of the first bit of the pair
  just looked at, *if that bit is not known*. That exception is what skipping known
  bits amounts to, and it is harmless because all pairs of a first bit that is known are
  skipped; a pruned pair keeps the differences, too. `PairsAreBlocks`, the order of the pairs,
  is what the cache relies on: every pair of two bits follows one of the same first bit.
* *Back to bits.* `WrongReordered` and `DistanceReordered` undo the order.

`StandardMessageProofs` proves that an accepted message says what was given
(`TextAlwaysSays`) and that its canonical text stays (`CanonicalTextAlwaysStays`), for
every text, of which the run tries the corners (the second with no word for two after the
first, as the property says). It starts with the arithmetic of the
fields: `CallFieldsReturn` (every callsign field the packer writes fits 28 bits and
unpacks to the same word: tokens, numbers, letters and all 6-character callsigns),
`TailsReturn` (the same of grids, reports and endings in 15 bits) and
`ExchangesReturn` (transmitters and class of a Field Day message); they rest on one lemma
for each radix (`LettersReturn`, `CharsReturn`, `GridsReturn`) and one for the wrapped
reports (`ReportsReturn`). From the fields to the words: `FieldsSay` says what becomes of
a text in which `CQ` and what follows it were joined, `StandardShown` and
`FieldDayShown` what the receiver shows of the fields. The inductive invariant is `Typed`:
the words are well formed, and `encoded` is what encoding them gives.
That the canonical text stays is not the same fact twice: the text that is shown is cut into
fields anew, and it could be cut elsewhere. It is not, because no word that may end a
message, nor `R`, goes into a callsign field (`TailsAreNoCalls`), so that a `CQ`
is joined with the word it was joined with before (`StandardStays`).

Only model-checked:
* liveness (`CandidatesEnd`, `EveryDecodeReturns`), which the provers do
  not do under fairness;
* `GuessesHaveSource`: a source is looked for only in the tables kept at the ends of the
  slots, so it is a statement about the instance;
* the checksum, the code and the metrics (`SentIsAccepted`, `HeardAsSent`), which are
  computations on the tables of the source;
* `TypeOK` of DecodeSlot, which asks of the table that any number of rejected
  codewords may have gone through it, a recursive function.

## Not modelled

* The floating-point arithmetic: FFTs, the Costas sums, the search for frequency and
  time, noise in the soft metrics, the values of belief propagation, the waveform
  that is subtracted, the baseline's fit and the SNR. TLA+ has no floating-point
  numbers; their results are nondeterministic choices, or levels.
* Two variants of the soft metrics: `Normed`, the Single metric divided by its larger
  magnitude (the same sign, so the same hard decision), and the set computed from
  squared magnitudes. `Codeword` has Single, Double, Triple and Best.
* The spelling of messages: blanks, case and signs; in Unpack also the alphabets,
  grids and reports.
* Three of the five tables made on first use (SNR window, subtraction ramps, OSD
  generator): they wait and are made as the pulse is, with no other state.
* `ErrorsKeepState` apart, which error a checked API returns and what it says.
* The wrappers of the FFT libraries and `internal/pfft`, a wrapper of a vendored C
  library.

## Plan

What could be added, most useful first:

1. *Model.* Unpacking by the fields of StandardMessage *with* the table of Unpack,
   so that the two share one module; DecodeSlot with the candidates of
   CandidateSearch; OSD at a larger size with known bits from the AP profiles.
2. *Proofs.* `SentIsAccepted`: that each parity check holds of each row of the generator is a
   computation on the tables, from which `EncodeToggles` would carry it to every message.
