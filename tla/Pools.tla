-------------------------------- MODULE Pools --------------------------------
(***************************************************************************)
(* Decodes that run at once and the memory they share: the pools of block   *)
(* buffers (src/ft8/audio.go), downsamplers (refine.go), spectra            *)
(* (spectrogram.go, sync.go), baseline scratch (snr.go), subtraction        *)
(* scratch and FFT plans (subtract.go), and the tables made on first use.   *)
(* A decode is the loop of decode.go; what it finds is left open.           *)
(*                                                                          *)
(* A pool may drop an object, and make a new one although it has others:    *)
(* the new one takes the name of one that was dropped, and as New is not    *)
(* relied on for more than the size, what an object holds when it comes     *)
(* from a pool is whatever was left in it.                                  *)
(***************************************************************************)
EXTENDS Integers, FiniteSets

CONSTANTS
    Decodes,        \* the decodes that may run at the same time
    Copies,         \* the objects of each kind, as many as the decodes can hold at once
    BufferSamples,  \* samples of a block buffer (180000)
    SignalSamples,  \* samples of a frame (151680)
    FFTSamples,     \* samples of a subtraction's FFT (155520)
    Onsets,         \* the first samples tried for a frame
    NBins,          \* bins of a spectrum (1920)
    ToneSpan,       \* bins from the lowest to the highest tone (12)
    Ranges,         \* the pairs of first and last bins tried
    MaxBlocks,      \* of each decode, the bound on its blocks
    MaxCandidates   \* the bound on the candidates of a pass

ASSUME PoolsAssumption ==
    /\ Copies \in Nat /\ MaxBlocks \in [Decodes -> Nat] /\ MaxCandidates \in Nat
    /\ BufferSamples \in Nat /\ SignalSamples \in Nat /\ FFTSamples \in Nat
    /\ SignalSamples < FFTSamples /\ Onsets \subseteq Int
    /\ NBins \in Nat /\ ToneSpan \in Nat /\ Ranges \subseteq Int \X Int

VARIABLES
    pool,           \* how often each object is in its pool
    held,           \* held[d][slot]: the object a variable of decode d refers to
    memory,         \* memory[o][place]: the decode that wrote a place of an object
    initialized,    \* the downsamplers whose spectrum is computed
    once,           \* of each table made on first use: New, the decode at it, Done
    local           \* the other variables of each decode

vars == <<pool, held, memory, initialized, once, local>>
------------------------------------------------------------------------------
Kinds == {"block", "downsampler", "spectra", "baseline", "subtraction", "plan"}
Slots == Kinds \cup {"kept"}            \* "kept" is fullDD
Objects == Kinds \X (1..Copies)
NoObject == <<"none", 0>>
Nobody == "nobody"                      \* wrote what was left from an earlier use
New == "new"
Done == "done"
Tables == {"filter", "pulse"}

\* Of the two arrays of a subtraction, camp has a place per sample, cref has one.
Cref == FFTSamples
Places(kind) ==
    CASE kind = "block" -> 0..(BufferSamples - 1)
      [] kind = "spectra" -> 1..NBins
      [] kind = "subtraction" -> 0..FFTSamples
      [] kind \in {"downsampler", "baseline"} -> {0}
      [] kind = "plan" -> {}

Idle == [pc |-> "idle", left |-> 0, range |-> <<1, 0>>, pass |-> 1, candidates |-> 0,
         recompute |-> FALSE, found |-> 0, baseline |-> FALSE, back |-> "idle", nstart |-> 0]

Init == /\ pool = [o \in Objects |-> 1]
        /\ held = [d \in Decodes |-> [slot \in Slots |-> NoObject]]
        /\ memory = [o \in Objects |-> [place \in Places(o[1]) |-> Nobody]]
        /\ initialized = {}
        /\ once = [table \in Tables |-> New]
        /\ local = [d \in Decodes |-> Idle]

At(d, pc) == local[d].pc = pc
Goto(d, pc) == local' = [local EXCEPT ![d].pc = pc]

\* Get and Put of a sync.Pool.  The objects of a pool are alike: it is the one
\* with the lowest number that is taken.
Get(d, slot) ==
    LET ready == {o \in Objects : o[1] = slot /\ pool[o] > 0}
    IN  \E o \in ready :
          /\ \A p \in ready : o[2] <= p[2]
          /\ pool' = [pool EXCEPT ![o] = @ - 1]
          /\ held' = [held EXCEPT ![d][slot] = o]

Put(d, slot) ==
    LET o == held[d][slot]
    IN  /\ pool' = [pool EXCEPT ![o] = @ + 1]
        /\ held' = [held EXCEPT ![d][slot] = NoObject]
        /\ memory' = [memory EXCEPT ![o] = [place \in Places(o[1]) |-> Nobody]]
        /\ initialized' = initialized \ {o}

\* A decode writes places of an object it refers to.
Write(d, o, places) ==
    memory' = [memory EXCEPT ![o] = [place \in Places(o[1]) |->
                                       IF place \in places THEN d ELSE memory[o][place]]]

Return(d) == local' = [local EXCEPT ![d] = Idle]

Thinks == UNCHANGED <<pool, held, memory, initialized>>
------------------------------------------------------------------------------
(* A table made on first use: one decode makes it, the others wait.        *)

OnceBegins(d, table) == once[table] = New /\ once' = [once EXCEPT ![table] = d]
OnceEnds(d, table) == once[table] = d /\ once' = [once EXCEPT ![table] = Done]
------------------------------------------------------------------------------
(* The loop over the blocks and what it keeps.                              *)

Call(d) ==
    /\ At(d, "idle") /\ Thinks /\ UNCHANGED once
    /\ \E blocks \in 1..MaxBlocks[d], range \in Ranges :
         local' = [local EXCEPT ![d] = [Idle EXCEPT !.pc = "block", !.left = blocks,
                                                    !.range = range]]

\* decodeBlocks: all of the buffer is cleared, then the samples are copied.
DecodeBlocks(d) ==
    /\ At(d, "block") /\ Get(d, "block")
    /\ Write(d, held'[d]["block"], Places("block"))
    /\ local' = [local EXCEPT ![d].pc = "search", ![d].pass = 1, ![d].baseline = FALSE]
    /\ UNCHANGED <<initialized, once>>

\* The bins that a frame may begin in, from 1, the last ones left to its higher
\* tones.
First(d) == IF local[d].range[1] < 1 THEN 1 ELSE local[d].range[1]
Last(d) == IF local[d].range[2] + ToneSpan > NBins THEN NBins - ToneSpan ELSE local[d].range[2]

\* findCandidates without a range, or without a sample that is not zero.
FindNothing(d) ==
    /\ At(d, "search") /\ Thinks /\ UNCHANGED once
    /\ local' = [local EXCEPT ![d].pc = "downsampler", ![d].candidates = 0]

\* computeRange
Spectra(d) == First(d)..(Last(d) + ToneSpan)

ComputeSpectra(d) ==
    /\ At(d, "search") /\ First(d) <= Last(d)
    /\ Get(d, "spectra") /\ Write(d, held'[d]["spectra"], Spectra(d))
    /\ Goto(d, "peaks") /\ UNCHANGED <<initialized, once>>

FindCandidates(d) ==
    /\ At(d, "peaks") /\ Put(d, "spectra") /\ UNCHANGED once
    /\ \E n \in 0..MaxCandidates :
         local' = [local EXCEPT ![d].pc = "downsampler", ![d].candidates = n]
------------------------------------------------------------------------------
(* The candidates of a pass.                                                *)

GetDownsampler(d) ==
    /\ At(d, "downsampler") /\ Get(d, "downsampler")
    /\ initialized' = initialized \ {held'[d]["downsampler"]}
    /\ local' = [local EXCEPT ![d].pc = "candidate", ![d].recompute = TRUE, ![d].found = 0]
    /\ UNCHANGED <<memory, once>>

Recomputes(d) == local[d].recompute \/ held[d]["downsampler"] \notin initialized

Downsample(d) ==
    /\ At(d, "candidate") /\ local[d].candidates > 0 /\ UNCHANGED <<pool, held, once>>
    /\ IF Recomputes(d)
       THEN /\ Write(d, held[d]["downsampler"], {0})
            /\ initialized' = initialized \cup {held[d]["downsampler"]}
       ELSE UNCHANGED <<memory, initialized>>
    /\ local' = [local EXCEPT ![d].pc = "metrics", ![d].recompute = FALSE]

\* Its metrics are read; it fails, or decodes to a text that was seen, or to a new
\* one, whose SNR needs the noise.
Verdict(d) ==
    /\ At(d, "metrics") /\ Thinks /\ UNCHANGED once
    /\ \/ local' = [local EXCEPT ![d].pc = "candidate", ![d].candidates = @ - 1]
       \/ local' = [local EXCEPT ![d].pc = "candidate", ![d].candidates = @ - 1,
                                 ![d].found = @ + 1]
       \/ /\ ~local[d].baseline
          /\ local' = [local EXCEPT ![d].pc = "baseline", ![d].candidates = @ - 1,
                                    ![d].found = @ + 1, ![d].back = "candidate"]

PutDownsampler(d) ==
    /\ At(d, "candidate") /\ local[d].candidates = 0
    /\ Put(d, "downsampler") /\ UNCHANGED once
    /\ IF local[d].found = 0 THEN Goto(d, "end")
       ELSE IF local[d].pass = 1 /\ ~local[d].baseline
       THEN local' = [local EXCEPT ![d].pc = "baseline", ![d].back = "subtract"]
       ELSE Goto(d, "subtract")
------------------------------------------------------------------------------
(* spectrumBaseline, of the block or of the one that is kept.               *)

FillBaseline(d) ==
    /\ At(d, "baseline") /\ Get(d, "baseline") /\ Write(d, held'[d]["baseline"], {0})
    /\ Goto(d, "transform") /\ UNCHANGED <<initialized, once>>

SpectrumBaseline(d) ==
    /\ At(d, "transform") /\ Put(d, "baseline") /\ UNCHANGED once
    /\ local' = [local EXCEPT ![d].pc = local[d].back, ![d].baseline = TRUE,
                           ![d].back = "idle"]
------------------------------------------------------------------------------
(* subtractFT8                                                              *)

\* initSubtractFilter takes a plan from the pool, too.
InitSubtractFilter(d) ==
    /\ At(d, "subtract") /\ local[d].found > 0
    /\ \/ once["filter"] = Done /\ Goto(d, "scratch") /\ Thinks /\ UNCHANGED once
       \/ /\ OnceBegins(d, "filter") /\ Get(d, "plan") /\ Goto(d, "filter")
          /\ UNCHANGED <<memory, initialized>>

SubtractFilterMade(d) ==
    /\ At(d, "filter") /\ OnceEnds(d, "filter") /\ Put(d, "plan") /\ Goto(d, "scratch")

GetScratch(d) ==
    /\ At(d, "scratch") /\ Get(d, "subtraction") /\ Goto(d, "pulse")
    /\ UNCHANGED <<memory, initialized, once>>

\* genFT8WaveComplexInto makes the pulse, when it is the first, and writes cref.
InitPulse(d) ==
    /\ At(d, "pulse") /\ OnceBegins(d, "pulse") /\ Thinks /\ UNCHANGED local

Wave(d) ==
    /\ At(d, "pulse") /\ once' = [once EXCEPT !["pulse"] = Done]
    /\ once["pulse"] \in {d, Done}
    /\ Write(d, held[d]["subtraction"], {Cref})
    /\ \E n \in Onsets : local' = [local EXCEPT ![d].pc = "align", ![d].nstart = n]
    /\ UNCHANGED <<pool, held, initialized>>

\* The part of a frame from sample n that lies in the buffer.
ValidStart(n) == IF n < 0 THEN -n ELSE 0
ValidEnd(n) == IF BufferSamples - n < SignalSamples THEN BufferSamples - n ELSE SignalSamples
Valid(n) == ValidStart(n)..(ValidEnd(n) - 1)

\* No part of the frame is in the buffer.
NothingToSubtract(d) ==
    /\ At(d, "align") /\ ValidStart(local[d].nstart) >= ValidEnd(local[d].nstart)
    /\ Goto(d, "return") /\ Thinks /\ UNCHANGED once

\* What is behind the frame is left as it was.
MixedUncleared(n) == 0..(ValidEnd(n) - 1)

\* The places of camp that are written: cleared before and behind the valid part.
Mixed(n) == (0..(ValidStart(n) - 1)) \cup Valid(n) \cup (ValidEnd(n)..(FFTSamples - 1))

Mix(d) ==
    /\ At(d, "align") /\ ValidStart(local[d].nstart) < ValidEnd(local[d].nstart)
    /\ Get(d, "plan") /\ Write(d, held[d]["subtraction"], Mixed(local[d].nstart))
    /\ Goto(d, "transforms") /\ UNCHANGED <<initialized, once>>

\* Both FFTs and the filter, in place.
Filter(d) ==
    /\ At(d, "transforms") /\ Write(d, held[d]["subtraction"], 0..(FFTSamples - 1))
    /\ Goto(d, "difference") /\ UNCHANGED <<pool, held, initialized, once>>

Window(n) == {n + i : i \in Valid(n)}

\* What is left of the samples, and the plan goes back.
Difference(d) ==
    /\ At(d, "difference") /\ Put(d, "plan") /\ Goto(d, "return") /\ UNCHANGED once

PutScratch(d) ==
    /\ At(d, "return") /\ Put(d, "subtraction") /\ UNCHANGED once
    /\ local' = [local EXCEPT ![d].pc = "subtract", ![d].found = @ - 1,
                           ![d].nstart = 0]

\* Another pass as long as the last one found something.
EndPassUnbounded(d) ==
    /\ At(d, "subtract") /\ local[d].found = 0 /\ Thinks /\ UNCHANGED once
    /\ local' = [local EXCEPT ![d].pc = "search", ![d].pass = 2]

\* All are subtracted; there are two passes.
EndPass(d) ==
    /\ At(d, "subtract") /\ local[d].found = 0 /\ Thinks /\ UNCHANGED once
    /\ IF local[d].pass = 1
       THEN local' = [local EXCEPT ![d].pc = "search", ![d].pass = 2]
       ELSE Goto(d, "end")
------------------------------------------------------------------------------
(* The end of a block and of a decode.                                      *)

NextBlock(d) == IF local[d].left > 1 THEN "block" ELSE "a7"

PutDecodeBlocks(d) ==
    /\ At(d, "end") /\ Put(d, "block") /\ UNCHANGED once
    /\ local' = [local EXCEPT ![d].pc = NextBlock(d), ![d].left = @ - 1]

\* keepDD is forgotten: the buffer that is kept goes back, too.
KeepBlockAndPut(d) ==
    /\ At(d, "end") /\ held[d]["kept"] = NoObject
    /\ held' = [held EXCEPT ![d]["kept"] = held[d]["block"], ![d]["block"] = NoObject]
    /\ pool' = [pool EXCEPT ![held[d]["block"]] = @ + 1]
    /\ local' = [local EXCEPT ![d].pc = NextBlock(d), ![d].left = @ - 1]
    /\ UNCHANGED <<memory, initialized, once>>

\* The buffer of the full slot, of which there is one at most, is kept if there
\* are A7 hints; from here on it is fullDD alone that refers to it.
KeepBlock(d) ==
    /\ At(d, "end") /\ held[d]["kept"] = NoObject
    /\ held' = [held EXCEPT ![d]["kept"] = held[d]["block"], ![d]["block"] = NoObject]
    /\ local' = [local EXCEPT ![d].pc = NextBlock(d), ![d].left = @ - 1]
    /\ UNCHANGED <<pool, memory, initialized, once>>

\* A7 hints work on the kept buffer with a downsampler of their own.
A7(d) ==
    /\ At(d, "a7") /\ held[d]["kept"] # NoObject /\ Thinks /\ UNCHANGED once
    /\ \/ Goto(d, "putKept")
       \/ local' = [local EXCEPT ![d].pc = "baseline", ![d].back = "putKept"]

PutFullSlot(d) ==
    At(d, "putKept") /\ Put(d, "kept") /\ Return(d) /\ UNCHANGED once

NoA7(d) ==
    At(d, "a7") /\ held[d]["kept"] = NoObject /\ Return(d) /\ Thinks /\ UNCHANGED once
------------------------------------------------------------------------------
Step(d) ==
    \/ DecodeBlocks(d) \/ FindNothing(d) \/ ComputeSpectra(d) \/ FindCandidates(d)
    \/ GetDownsampler(d) \/ Downsample(d) \/ Verdict(d) \/ PutDownsampler(d)
    \/ FillBaseline(d) \/ SpectrumBaseline(d)
    \/ InitSubtractFilter(d) \/ SubtractFilterMade(d) \/ GetScratch(d) \/ InitPulse(d)
    \/ Wave(d) \/ NothingToSubtract(d) \/ Mix(d) \/ Filter(d)
    \/ Difference(d) \/ PutScratch(d) \/ EndPass(d)
    \/ PutDecodeBlocks(d) \/ KeepBlock(d) \/ A7(d) \/ PutFullSlot(d) \/ NoA7(d)

Next == \E d \in Decodes : Call(d) \/ Step(d)

Spec == Init /\ [][Next]_vars

\* A goroutine that can go on does.
FairSpec == Spec /\ \A d \in Decodes : WF_vars(Step(d))
------------------------------------------------------------------------------
\* An object is in its pool once, or one variable of one decode refers to it:
\* no two decodes ever work in the same memory.
OneUser ==
    /\ \A o \in Objects : pool[o] <= 1
    /\ \A d \in Decodes, slot \in Slots : held[d][slot] # NoObject =>
         /\ pool[held[d][slot]] = 0
         /\ \A e \in Decodes, other \in Slots :
              held[e][other] = held[d][slot] => e = d /\ other = slot

\* The places, of which objects, that the next step of a decode reads.
Reads(d) ==
    LET all(slot) == {slot} \X Places(IF slot = "kept" THEN "block" ELSE slot)
        n == local[d].nstart
    IN  CASE At(d, "search") -> all("block")
          [] At(d, "peaks") -> {"spectra"} \X (First(d)..(Last(d) + ToneSpan))
          [] At(d, "candidate") /\ local[d].candidates > 0 ->
               IF Recomputes(d) THEN all("block") ELSE all("downsampler")
          [] At(d, "metrics") -> all("downsampler")
          [] At(d, "baseline") ->
               all(IF local[d].back = "putKept" THEN "kept" ELSE "block")
          [] At(d, "transform") -> all("baseline")
          [] At(d, "align") -> ({"block"} \X Window(n)) \cup {<<"subtraction", Cref>>}
          [] At(d, "transforms") -> {"subtraction"} \X (0..(FFTSamples - 1))
          [] At(d, "difference") -> ({"block"} \X Window(n))
                                      \cup ({"subtraction"} \X (Valid(n) \cup {Cref}))
          [] At(d, "a7") /\ held[d]["kept"] # NoObject -> all("kept")
          [] OTHER -> {}

\* Whatever a decode reads from memory that came from a pool is in bounds, and it
\* has written it itself since the object was taken: nothing of another decode,
\* or of an earlier block or candidate, gets into its messages.
OwnDataRead ==
    \A d \in Decodes : \A read \in Reads(d) :
      LET o == held[d][read[1]]
      IN  o # NoObject /\ read[2] \in DOMAIN memory[o] /\ memory[o][read[2]] = d

\* Every decode returns, whatever the others do and whoever makes the tables.
EveryDecodeReturns == \A d \in Decodes : ~At(d, "idle") ~> At(d, "idle")
==============================================================================
