----------------------------- MODULE PoolsProofs -----------------------------
(***************************************************************************)
(* Proofs about Pools, for any number of decodes, objects, samples and      *)
(* bins: no two users of one object, subtractions that stay in bounds, and  *)
(* no decode that reads what it has not written.                            *)
(***************************************************************************)
EXTENDS Pools, TLAPS

HeldOK == /\ pool \in [Objects -> Nat]
          /\ held \in [Decodes -> [Slots -> Objects \cup {NoObject}]]

Inv == HeldOK /\ OneUser

LEMMA NoObjectIsNone == NoObject \notin Objects
  BY DEF NoObject, Objects

\* A decode takes an object that nobody refers to.
LEMMA GetKeeps ==
  ASSUME Inv, NEW d \in Decodes, NEW slot \in Kinds, Get(d, slot)
  PROVE  Inv'
  <1>1. PICK o \in Objects : /\ pool[o] > 0
                             /\ pool' = [pool EXCEPT ![o] = @ - 1]
                             /\ held' = [held EXCEPT ![d][slot] = o]
    BY DEF Get
  <1>2. slot \in Slots
    BY DEF Slots
  <1>3. HeldOK'
    BY <1>1, <1>2 DEF Inv, HeldOK
  <1>4. pool[o] = 1 /\ \A e \in Decodes, other \in Slots : held[e][other] # o
    BY <1>1, NoObjectIsNone DEF Inv, HeldOK, OneUser
  <1>5. \A p \in Objects : pool'[p] = IF p = o THEN 0 ELSE pool[p]
    BY <1>1, <1>4 DEF Inv, HeldOK
  <1>6. \A e \in Decodes, other \in Slots :
          held'[e][other] = IF e = d /\ other = slot THEN o ELSE held[e][other]
    BY <1>1, <1>2 DEF Inv, HeldOK
  <1>7. OneUser'
    BY <1>4, <1>5, <1>6, <1>2 DEF Inv, HeldOK, OneUser
  <1> QED
    BY <1>3, <1>7 DEF Inv

\* A decode puts back what it refers to, and no longer does.
LEMMA PutKeeps ==
  ASSUME Inv, NEW d \in Decodes, NEW slot \in Slots, Put(d, slot)
  PROVE  Inv'
  <1> DEFINE o == held[d][slot]
  <1>1. /\ pool' = [pool EXCEPT ![o] = @ + 1]
        /\ held' = [held EXCEPT ![d][slot] = NoObject]
    BY DEF Put
  <1>2. o \in Objects \cup {NoObject}
    BY DEF Inv, HeldOK
  <1>3. /\ DOMAIN pool' = Objects
        /\ \A p \in Objects : pool'[p] = IF p = o THEN pool[p] + 1 ELSE pool[p]
    BY <1>1, <1>2, NoObjectIsNone DEF Inv, HeldOK
  <1>4. HeldOK'
    <2>1. \A p \in Objects : pool[p] + 1 \in Nat /\ pool[p] \in Nat
      BY DEF Inv, HeldOK
    <2>2. pool' = [p \in Objects |-> pool'[p]]
      BY <1>1, <1>3 DEF Inv, HeldOK
    <2>3. pool' \in [Objects -> Nat]
      BY <1>3, <2>1, <2>2
    <2>4. held' \in [Decodes -> [Slots -> Objects \cup {NoObject}]]
      BY <1>1 DEF Inv, HeldOK
    <2> QED
      BY <2>3, <2>4 DEF HeldOK
  <1>5. \A e \in Decodes, other \in Slots :
          held'[e][other] = IF e = d /\ other = slot THEN NoObject ELSE held[e][other]
    BY <1>1 DEF Inv, HeldOK
  <1>6. o \in Objects => pool[o] = 0
    BY NoObjectIsNone DEF Inv, OneUser
  <1> HIDE DEF o
  <1>7. \A p \in Objects : pool'[p] <= 1
    BY <1>3, <1>6 DEF Inv, HeldOK, OneUser
  <1>8. ASSUME NEW e \in Decodes, NEW other \in Slots, held'[e][other] # NoObject
        PROVE  /\ pool'[held'[e][other]] = 0
               /\ \A f \in Decodes, another \in Slots :
                    held'[f][another] = held'[e][other] => f = e /\ another = other
    <2>1. held'[e][other] = held[e][other] /\ ~(e = d /\ other = slot)
      BY <1>5, <1>8
    <2>2. held[e][other] \in Objects /\ pool[held[e][other]] = 0
      BY <1>8, <2>1 DEF Inv, HeldOK, OneUser
    <2>3. held[e][other] # o
      BY <1>8, <2>1 DEF Inv, OneUser, o
    <2>4. pool'[held'[e][other]] = 0
      BY <2>1, <2>2, <2>3, <1>3
    <2>5. ASSUME NEW f \in Decodes, NEW another \in Slots,
                 held'[f][another] = held'[e][other]
          PROVE  f = e /\ another = other
      BY <2>5, <2>1, <1>5, <1>8 DEF Inv, OneUser
    <2> QED
      BY <2>4, <2>5
  <1>9. OneUser'
    BY <1>7, <1>8 DEF OneUser
  <1> QED
    BY <1>4, <1>9 DEF Inv

\* The buffer of the full slot changes from one variable to the other.
LEMMA KeepBlockKeeps ==
  ASSUME Inv, NEW d \in Decodes, KeepBlock(d)
  PROVE  Inv'
  <1> DEFINE o == held[d]["block"]
  <1>1. held' = [held EXCEPT ![d]["kept"] = o, ![d]["block"] = NoObject] /\ pool' = pool
    BY DEF KeepBlock
  <1>2. "kept" \in Slots /\ "block" \in Slots
    BY DEF Slots, Kinds
  <1>3. o \in Objects \cup {NoObject}
    BY <1>2 DEF Inv, HeldOK
  <1>4. HeldOK'
    BY <1>1, <1>2, <1>3 DEF Inv, HeldOK
  <1>5. \A e \in Decodes, other \in Slots :
          held'[e][other] = IF e = d /\ other = "kept" THEN o
                            ELSE IF e = d /\ other = "block" THEN NoObject ELSE held[e][other]
    BY <1>1, <1>2 DEF Inv, HeldOK
  <1>6. /\ held[d]["kept"] = NoObject
        /\ o # NoObject => pool[o] = 0
        /\ o # NoObject => \A e \in Decodes, other \in Slots :
             held[e][other] = o => e = d /\ other = "block"
    BY <1>2 DEF Inv, OneUser, KeepBlock
  <1> HIDE DEF o
  <1>7. ASSUME NEW e \in Decodes, NEW other \in Slots, held'[e][other] # NoObject
        PROVE  /\ pool'[held'[e][other]] = 0
               /\ \A f \in Decodes, another \in Slots :
                    held'[f][another] = held'[e][other] => f = e /\ another = other
    <2>1. CASE e = d /\ other = "kept"
      <3>1. held'[e][other] = o
        BY <1>5, <2>1
      <3>2. \A f \in Decodes, another \in Slots :
              held'[f][another] = o => f = d /\ another = "kept"
        BY <1>5, <1>6, <1>7, <3>1
      <3> QED
        BY <1>1, <1>6, <1>7, <2>1, <3>1, <3>2
    <2>2. CASE ~(e = d /\ other = "kept")
      <3>1. held'[e][other] = held[e][other] /\ ~(e = d /\ other = "block")
        BY <1>5, <1>7, <2>2
      <3>2. held[e][other] # o
        BY <1>6, <1>7, <3>1
      <3>3. pool[held[e][other]] = 0
        BY <1>7, <3>1 DEF Inv, OneUser
      <3>4. \A f \in Decodes, another \in Slots :
              held[f][another] = held[e][other] => f = e /\ another = other
        BY <1>7, <3>1 DEF Inv, OneUser
      <3>5. \A f \in Decodes, another \in Slots :
              held'[f][another] = held'[e][other] => f = e /\ another = other
        BY <1>5, <1>7, <3>1, <3>2, <3>4
      <3> QED
        BY <1>1, <3>1, <3>3, <3>5
    <2> QED
      BY <2>1, <2>2
  <1>8. OneUser'
    BY <1>1, <1>7 DEF Inv, OneUser
  <1> QED
    BY <1>4, <1>8 DEF Inv

LEMMA OtherwiseKept ==
  ASSUME Inv, UNCHANGED <<pool, held>>
  PROVE  Inv'
  BY DEF Inv, HeldOK, OneUser

\* Every step of a decode takes one object, puts one back, or does neither.
LEMMA StepKeeps ==
  ASSUME Inv, NEW d \in Decodes, Call(d) \/ Step(d)
  PROVE  Inv'
  <1>1. CASE \E slot \in Kinds : Get(d, slot)
    BY <1>1, GetKeeps
  <1>2. CASE \E slot \in Slots : Put(d, slot)
    BY <1>2, PutKeeps
  <1>3. CASE KeepBlock(d)
    BY <1>3, KeepBlockKeeps
  <1>4. CASE UNCHANGED <<pool, held>>
    BY <1>4, OtherwiseKept
  <1>5. \/ DecodeBlocks(d) \/ ComputeSpectra(d) \/ GetDownsampler(d) \/ FillBaseline(d)
        \/ GetScratch(d) \/ Mix(d)
        => \E slot \in Kinds : Get(d, slot)
    BY DEF DecodeBlocks, ComputeSpectra, GetDownsampler, FillBaseline, GetScratch, Mix, Kinds
  <1>6. \/ FindCandidates(d) \/ PutDownsampler(d) \/ SpectrumBaseline(d)
        \/ SubtractFilterMade(d) \/ Difference(d) \/ PutScratch(d) \/ PutDecodeBlocks(d)
        \/ PutFullSlot(d)
        => \E slot \in Slots : Put(d, slot)
    BY DEF FindCandidates, PutDownsampler, SpectrumBaseline, SubtractFilterMade, Difference,
           PutScratch, PutDecodeBlocks, PutFullSlot, Slots, Kinds
  <1>7. InitSubtractFilter(d) => Get(d, "plan") \/ UNCHANGED <<pool, held>>
    BY DEF InitSubtractFilter, Thinks
  <1>8. \/ Call(d) \/ FindNothing(d) \/ Downsample(d) \/ Verdict(d) \/ InitPulse(d)
        \/ Wave(d) \/ NothingToSubtract(d) \/ Filter(d) \/ EndPass(d) \/ A7(d) \/ NoA7(d)
        => UNCHANGED <<pool, held>>
    BY DEF Call, FindNothing, Downsample, Verdict, InitPulse, Wave, NothingToSubtract, Filter,
           EndPass, A7, NoA7, Thinks
  <1> QED
    BY <1>1, <1>2, <1>3, <1>4, <1>5, <1>6, <1>7, <1>8 DEF Step, Kinds

\* However many decodes run at once and wherever they are interrupted, an object
\* of a pool is used by one variable of one of them, or is in the pool once
\* (decodeBlocks, getDownsampler and the deferred Puts).
THEOREM OneUserAlways == Spec => []OneUser
  <1>1. Init => Inv
    BY NoObjectIsNone DEF Init, Inv, HeldOK, OneUser
  <1>2. Inv /\ [Next]_vars => Inv'
    BY StepKeeps, OtherwiseKept DEF Next, vars
  <1> QED
    BY <1>1, <1>2, PTL DEF Spec, Inv
------------------------------------------------------------------------------
\* Wherever a frame begins, the samples a subtraction reads and changes are in
\* the buffer, and the bits of the reference it uses are in cref.
THEOREM WindowInBuffer ==
  ASSUME NEW n \in Int
  PROVE  /\ Window(n) \subseteq 0..(BufferSamples - 1)
         /\ Valid(n) \subseteq 0..(SignalSamples - 1)
  BY PoolsAssumption DEF Window, Valid, ValidStart, ValidEnd

\* Unless there is nothing to subtract, every element of camp is written before
\* the FFT: what an earlier subtraction left there has no part in this one.
THEOREM CampAllWritten ==
  ASSUME NEW n \in Int, ValidStart(n) < ValidEnd(n)
  PROVE  Mixed(n) = 0..(FFTSamples - 1)
  BY PoolsAssumption DEF Mixed, Valid, ValidStart, ValidEnd
------------------------------------------------------------------------------
Kind(slot) == IF slot = "kept" THEN "block" ELSE slot

LocalFields == {"pc", "left", "range", "pass", "candidates", "recompute", "found", "baseline",
                "back", "nstart"}

\* The objects a decode refers to are of the right kinds, with their places.
ObjectShapes ==
    /\ \A d \in Decodes, slot \in Slots :
         held[d][slot] # NoObject => held[d][slot][1] = Kind(slot)
    /\ DOMAIN memory = Objects
    /\ \A o \in Objects : DOMAIN memory[o] = Places(o[1])

LocalShape(d) == /\ DOMAIN local[d] = LocalFields
                 /\ local[d].range \in Int \X Int
                 /\ local[d].nstart \in Int

Shapes == ObjectShapes /\ DOMAIN local = Decodes /\ \A d \in Decodes : LocalShape(d)

\* Decode d refers to an object by this variable, and has written these places.
Holding(d, slot, places) ==
    /\ held[d][slot] # NoObject
    /\ \A place \in places : /\ place \in DOMAIN memory[held[d][slot]]
                             /\ memory[held[d][slot]][place] = d

ComputesBaseline(d) == local[d].pc \in {"baseline", "transform"}

\* A block is being worked on, a candidate is, a subtraction is.
InBlock(d) ==
    \/ local[d].pc \in {"search", "peaks", "downsampler", "candidate", "metrics", "subtract",
                        "filter", "scratch", "pulse", "align", "transforms", "difference",
                        "return", "end"}
    \/ ComputesBaseline(d) /\ local[d].back # "putKept"
InPass(d) ==
    local[d].pc \in {"candidate", "metrics"} \/ (ComputesBaseline(d) /\ local[d].back = "candidate")
InSubtraction(d) == local[d].pc \in {"pulse", "align", "transforms", "difference", "return"}

\* What a decode has written of each object it refers to, wherever it is.
Written(d) ==
    /\ ComputesBaseline(d) => local[d].back \in {"candidate", "subtract", "putKept"}
    /\ InBlock(d) => Holding(d, "block", Places("block"))
    /\ held[d]["kept"] # NoObject => Holding(d, "kept", Places("block"))
    /\ \/ local[d].pc = "putKept"
       \/ ComputesBaseline(d) /\ local[d].back = "putKept"
       => held[d]["kept"] # NoObject
    /\ local[d].pc = "peaks" => Holding(d, "spectra", Spectra(d))
    /\ InPass(d) => /\ held[d]["downsampler"] # NoObject
                    /\ Recomputes(d) \/ Holding(d, "downsampler", {0})
    /\ local[d].pc = "metrics" => Holding(d, "downsampler", {0})
    /\ local[d].pc = "transform" => Holding(d, "baseline", {0})
    /\ InSubtraction(d) => held[d]["subtraction"] # NoObject
    /\ local[d].pc \in {"align", "transforms", "difference"} => Holding(d, "subtraction", {Cref})
    /\ local[d].pc \in {"transforms", "difference"} =>
         Holding(d, "subtraction", 0..(FFTSamples - 1))

\* A variable of a decode refers to the same object as before, and the object
\* holds the same.
Same(d, slot) ==
    /\ held'[d][slot] = held[d][slot]
    /\ held[d][slot] # NoObject => /\ memory'[held[d][slot]] = memory[held[d][slot]]
                                   /\ held[d][slot] \in initialized' <=> held[d][slot] \in initialized

\* A step changes no variable but these of decode d, and no object but theirs.
Touches(d, slots) ==
    /\ \A e \in Decodes, other \in Slots :
         ~(e = d /\ other \in slots) => held'[e][other] = held[e][other]
    /\ \A o \in Objects :
         (\A slot \in slots : o # held[d][slot] /\ o # held'[d][slot]) =>
           memory'[o] = memory[o] /\ (o \in initialized' <=> o \in initialized)

LEMMA Untouched ==
  ASSUME Inv, Inv', NEW d \in Decodes, NEW slots \in SUBSET Slots, Touches(d, slots)
  PROVE  \A e \in Decodes, other \in Slots : ~(e = d /\ other \in slots) => Same(e, other)
  <1> SUFFICES ASSUME NEW e \in Decodes, NEW other \in Slots, ~(e = d /\ other \in slots)
               PROVE  Same(e, other)
    OBVIOUS
  <1>1. held'[e][other] = held[e][other]
    BY DEF Touches
  <1>2. ASSUME held[e][other] # NoObject
        PROVE  /\ memory'[held[e][other]] = memory[held[e][other]]
               /\ held[e][other] \in initialized' <=> held[e][other] \in initialized
    <2>1. held[e][other] \in Objects
      BY <1>2 DEF Inv, HeldOK
    <2>2. ASSUME NEW slot \in slots
          PROVE  held[e][other] # held[d][slot] /\ held[e][other] # held'[d][slot]
      BY <1>1, <1>2 DEF Inv, OneUser
    <2> QED BY <2>1, <2>2 DEF Touches
  <1> QED BY <1>1, <1>2 DEF Same

LEMMA SameHolds ==
  ASSUME NEW d, NEW slot, Same(d, slot)
  PROVE  /\ \A places : Holding(d, slot, places) => Holding(d, slot, places)'
         /\ held[d][slot] # NoObject <=> held'[d][slot] # NoObject
  BY DEF Same, Holding

\* What the others do changes nothing of what a decode has written.
LEMMA WrittenElsewhere ==
  ASSUME NEW d \in Decodes, Written(d), local'[d] = local[d], \A slot \in Slots : Same(d, slot)
  PROVE  Written(d)'
  <1>1. {"block", "kept", "spectra", "downsampler", "baseline", "subtraction"} \subseteq Slots
    BY DEF Slots, Kinds
  <1>2. \A slot \in Slots : /\ \A places : Holding(d, slot, places) => Holding(d, slot, places)'
                            /\ held[d][slot] # NoObject <=> held'[d][slot] # NoObject
    BY SameHolds
  <1>3. Recomputes(d) /\ held[d]["downsampler"] # NoObject => Recomputes(d)'
    BY <1>1 DEF Same, Recomputes
  <1>4. /\ ComputesBaseline(d)' = ComputesBaseline(d) /\ InBlock(d)' = InBlock(d)
        /\ InPass(d)' = InPass(d) /\ InSubtraction(d)' = InSubtraction(d)
        /\ Spectra(d)' = Spectra(d)
    BY DEF ComputesBaseline, InBlock, InPass, InSubtraction, Spectra, First, Last
  <1> QED
    BY <1>1, <1>2, <1>3, <1>4 DEF Written

\* The object that a decode takes is of the right kind.
LEMMA GetTakes ==
  ASSUME Inv, Shapes, NEW d \in Decodes, NEW slot \in Kinds, Get(d, slot)
  PROVE  /\ held'[d][slot] \in Objects /\ held'[d][slot] # NoObject /\ held'[d][slot][1] = slot
         /\ \A e \in Decodes, other \in Slots :
              ~(e = d /\ other = slot) => held'[e][other] = held[e][other]
         /\ \A e \in Decodes, other \in Slots :
              held'[e][other] # NoObject => held'[e][other][1] = Kind(other)
  <1>1. PICK o \in Objects : o[1] = slot /\ held' = [held EXCEPT ![d][slot] = o]
    BY DEF Get
  <1>2. slot \in Slots /\ Kind(slot) = slot
    BY DEF Slots, Kinds, Kind
  <1>3. \A e \in Decodes, other \in Slots :
          held'[e][other] = IF e = d /\ other = slot THEN o ELSE held[e][other]
    BY <1>1, <1>2 DEF Inv, HeldOK
  <1> QED
    BY <1>1, <1>2, <1>3, NoObjectIsNone DEF Shapes, ObjectShapes

\* The object that is put back is not referred to any more, and the others are
\* as they were.
LEMMA PutLeaves ==
  ASSUME Inv, Shapes, NEW d \in Decodes, NEW slot \in Slots, Put(d, slot)
  PROVE  /\ held'[d][slot] = NoObject
         /\ Touches(d, {slot})
         /\ \A e \in Decodes, other \in Slots :
              held'[e][other] # NoObject => held'[e][other][1] = Kind(other)
         /\ DOMAIN memory' = Objects
         /\ \A o \in Objects : DOMAIN memory'[o] = Places(o[1])
  <1> DEFINE o == held[d][slot]
  <1>1. /\ held' = [held EXCEPT ![d][slot] = NoObject]
        /\ memory' = [memory EXCEPT ![o] = [place \in Places(o[1]) |-> Nobody]]
        /\ initialized' = initialized \ {o}
    BY DEF Put
  <1>2. \A e \in Decodes, other \in Slots :
          held'[e][other] = IF e = d /\ other = slot THEN NoObject ELSE held[e][other]
    BY <1>1 DEF Inv, HeldOK
  <1>3. \A p \in Objects : p # o => memory'[p] = memory[p] /\ (p \in initialized' <=> p \in initialized)
    BY <1>1 DEF Shapes, ObjectShapes
  <1>4. DOMAIN memory' = Objects /\ \A p \in Objects : DOMAIN memory'[p] = Places(p[1])
    BY <1>1 DEF Shapes, ObjectShapes
  <1>5. Touches(d, {slot})
    BY <1>2, <1>3 DEF Touches
  <1> QED
    BY <1>2, <1>4, <1>5 DEF Shapes, ObjectShapes

\* What a decode writes is all that changes.
LEMMA WriteWrites ==
  ASSUME Shapes, NEW d, NEW o \in Objects, NEW places \in SUBSET Places(o[1]), Write(d, o, places)
  PROVE  /\ DOMAIN memory' = Objects
         /\ \A p \in Objects : DOMAIN memory'[p] = Places(p[1])
         /\ \A p \in Objects : p # o => memory'[p] = memory[p]
         /\ \A place \in places : memory'[o][place] = d
         /\ \A place \in Places(o[1]) : memory[o][place] = d => memory'[o][place] = d
  <1>1. memory' = [memory EXCEPT ![o] = [place \in Places(o[1]) |->
                                           IF place \in places THEN d ELSE memory[o][place]]]
    BY DEF Write
  <1>2. memory'[o] = [place \in Places(o[1]) |-> IF place \in places THEN d ELSE memory[o][place]]
    BY <1>1 DEF Shapes, ObjectShapes
  <1>3. DOMAIN memory' = Objects /\ \A p \in Objects : p # o => memory'[p] = memory[p]
    BY <1>1 DEF Shapes, ObjectShapes
  <1> QED
    BY <1>2, <1>3 DEF Shapes, ObjectShapes

LEMMA PlacesAre ==
  /\ Places("block") = 0..(BufferSamples - 1) /\ Places("spectra") = 1..NBins
  /\ Places("subtraction") = 0..FFTSamples /\ Places("downsampler") = {0}
  /\ Places("baseline") = {0}
  BY DEF Places

\* A decode changes no variables but its own, and these keep their shape.
LEMMA LocalKept ==
  ASSUME Shapes, NEW d \in Decodes, Call(d) \/ Step(d)
  PROVE  /\ DOMAIN local' = Decodes
         /\ \A e \in Decodes \ {d} : local'[e] = local[e]
         /\ LocalShape(d)'
  <1> USE DEF LocalShape
  <1>1. DOMAIN local = Decodes /\ LocalShape(d)
    BY DEF Shapes, ObjectShapes
  <1>2. DOMAIN Idle = LocalFields /\ Idle.range \in Int \X Int /\ Idle.nstart \in Int
    BY DEF Idle, LocalFields
  <1>3. {"pc", "left", "range", "pass", "candidates", "recompute", "found", "baseline", "back",
         "nstart"} \subseteq LocalFields
    BY DEF LocalFields
  <1>4. CASE Call(d)
    <2>1. PICK blocks \in 1..MaxBlocks[d], range \in Ranges :
            local' = [local EXCEPT ![d] = [Idle EXCEPT !.pc = "block", !.left = blocks,
                                                       !.range = range]]
      BY <1>4 DEF Call
    <2>2. range \in Int \X Int
      BY PoolsAssumption DEF PoolsAssumption
    <2> QED
      BY <1>1, <1>2, <1>3, <2>1, <2>2
  <1>5. CASE PutFullSlot(d) \/ NoA7(d)
    BY <1>1, <1>2, <1>5 DEF PutFullSlot, NoA7, Return
  <1>6. CASE Wave(d)
    <2>1. PICK n \in Onsets : local' = [local EXCEPT ![d].pc = "align", ![d].nstart = n]
      BY <1>6 DEF Wave
    <2>2. n \in Int
      BY PoolsAssumption DEF PoolsAssumption
    <2> QED
      BY <1>1, <1>3, <2>1, <2>2
  <1>7. CASE PutScratch(d)
    BY <1>1, <1>3, <1>7 DEF PutScratch
  <1>8. CASE \/ DecodeBlocks(d) \/ FindNothing(d) \/ ComputeSpectra(d) \/ FindCandidates(d)
             \/ GetDownsampler(d) \/ Downsample(d)
    BY <1>1, <1>3, <1>8 DEF DecodeBlocks, FindNothing, ComputeSpectra, FindCandidates, GetDownsampler,
       Downsample, Goto
  <1>9. CASE Verdict(d)
    BY <1>1, <1>3, <1>9 DEF Verdict
  <1>10. CASE PutDownsampler(d) \/ FillBaseline(d) \/ SpectrumBaseline(d)
    BY <1>1, <1>3, <1>10 DEF PutDownsampler, FillBaseline, SpectrumBaseline, Goto
  <1>11. CASE \/ InitSubtractFilter(d) \/ SubtractFilterMade(d) \/ GetScratch(d) \/ InitPulse(d)
              \/ NothingToSubtract(d) \/ Mix(d) \/ Filter(d) \/ Difference(d)
    BY <1>1, <1>3, <1>11 DEF InitSubtractFilter, SubtractFilterMade, GetScratch, InitPulse,
       NothingToSubtract, Mix, Filter, Difference, Goto
  <1>12. CASE EndPass(d) \/ PutDecodeBlocks(d) \/ KeepBlock(d) \/ A7(d)
    BY <1>1, <1>3, <1>12 DEF EndPass, PutDecodeBlocks, KeepBlock, A7, Goto
  <1> QED
    BY <1>4, <1>5, <1>6, <1>7, <1>8, <1>9, <1>10, <1>11, <1>12 DEF Step

\* What a step has to leave of the rest, and to have written itself.
StepOK(d) ==
    /\ ObjectShapes'
    /\ \E slots \in SUBSET Slots : Touches(d, slots)
    /\ Written(d)'

\* The steps that take no object and write none, that put one back, that take one,
\* and that write one they have.
Thinking(d) ==
    \/ Call(d) \/ FindNothing(d) \/ Verdict(d) \/ InitPulse(d)
    \/ NothingToSubtract(d) \/ EndPass(d) \/ A7(d) \/ NoA7(d)
    \/ (InitSubtractFilter(d) /\ Goto(d, "scratch"))

Putting(d) ==
    \/ FindCandidates(d) \/ PutDownsampler(d) \/ SpectrumBaseline(d)
    \/ SubtractFilterMade(d) \/ Difference(d) \/ PutScratch(d) \/ PutDecodeBlocks(d)
    \/ PutFullSlot(d)

Taking(d) ==
    \/ DecodeBlocks(d) \/ ComputeSpectra(d) \/ GetDownsampler(d) \/ FillBaseline(d)
    \/ GetScratch(d) \/ (InitSubtractFilter(d) /\ Get(d, "plan"))

Writing(d) ==
    \/ Downsample(d) \/ Wave(d) \/ Mix(d) \/ Filter(d) \/ KeepBlock(d)

\* Steps that touch no object.
LEMMA ThinkingOK ==
  ASSUME Inv, Shapes, NEW d \in Decodes, Written(d), LocalShape(d), LocalShape(d)',
         DOMAIN local' = Decodes, UNCHANGED <<held, memory, initialized>>,
         Thinking(d)
  PROVE  StepOK(d)
  <1>1. ObjectShapes'
    BY DEF Shapes, ObjectShapes
  <1>2. Touches(d, {})
    BY DEF Touches
  <1>3. \A slot \in Slots : /\ \A places : Holding(d, slot, places) => Holding(d, slot, places)'
                            /\ held[d][slot] # NoObject <=> held'[d][slot] # NoObject
    BY DEF Holding
  <1>4. {"block", "kept", "spectra", "downsampler", "baseline", "subtraction"} \subseteq Slots
    BY DEF Slots, Kinds
  <1>5. {"pc", "left", "range", "pass", "candidates", "recompute", "found", "baseline", "back",
         "nstart"} \subseteq DOMAIN local[d]
    BY DEF LocalShape, LocalFields
  <1>6. DOMAIN local = Decodes
    BY DEF Shapes
  <1>7. CASE Call(d)
    <2>1. local'[d].pc = "block"
      BY <1>6, <1>7 DEF Call, Idle
    <2>2. Written(d)'
      BY <1>3, <1>4, <2>1 DEF Written, ComputesBaseline, InBlock, InPass, InSubtraction
    <2> QED
      BY <1>1, <1>2, <2>2 DEF StepOK
  <1>8. CASE \/ FindNothing(d) \/ NothingToSubtract(d) \/ EndPass(d) \/ NoA7(d)
             \/ (InitSubtractFilter(d) /\ Goto(d, "scratch"))
    <2>1. \/ local[d].pc = "search" /\ local'[d].pc = "downsampler"
          \/ local[d].pc = "align" /\ local'[d].pc = "return"
          \/ local[d].pc = "subtract" /\ local'[d].pc \in {"search", "end", "scratch"}
          \/ local[d].pc = "a7" /\ local'[d].pc = "idle"
      BY <1>5, <1>6, <1>8 DEF FindNothing, NothingToSubtract, EndPass, NoA7, InitSubtractFilter, At,
         Goto, Return, Idle
    <2>2. Written(d)'
      BY <1>3, <1>4, <2>1 DEF Written, ComputesBaseline, InBlock, InPass, InSubtraction
    <2> QED
      BY <1>1, <1>2, <2>2 DEF StepOK
  <1>9. CASE InitPulse(d)
    <2>1. local' = local /\ \A slot \in Slots : Same(d, slot)
      BY <1>9 DEF InitPulse, Same
    <2>2. Written(d)'
      BY <2>1, WrittenElsewhere
    <2> QED
      BY <1>1, <1>2, <2>2 DEF StepOK
  <1>10. CASE Verdict(d)
    <2>1. local[d].pc = "metrics"
      BY <1>10 DEF Verdict, At
    <2>2. \/ local'[d].pc = "candidate"
          \/ local'[d].pc = "baseline" /\ local'[d].back = "candidate"
      BY <1>5, <1>6, <1>10 DEF Verdict
    <2>3. Holding(d, "downsampler", {0})' /\ held'[d]["downsampler"] # NoObject
      BY <1>3, <1>4, <2>1 DEF Written, InPass
    <2>4. Written(d)'
      BY <1>3, <1>4, <2>1, <2>2, <2>3 DEF Written, ComputesBaseline, InBlock, InPass, InSubtraction
    <2> QED
      BY <1>1, <1>2, <2>4 DEF StepOK
  <1>11. CASE A7(d)
    <2>1. local[d].pc = "a7" /\ held[d]["kept"] # NoObject
      BY <1>11 DEF A7, At
    <2>2. \/ local'[d].pc = "putKept"
          \/ local'[d].pc = "baseline" /\ local'[d].back = "putKept"
      BY <1>5, <1>6, <1>11 DEF A7, Goto
    <2>3. Written(d)'
      BY <1>3, <1>4, <2>1, <2>2 DEF Written, ComputesBaseline, InBlock, InPass, InSubtraction
    <2> QED
      BY <1>1, <1>2, <2>3 DEF StepOK
  <1> QED
    BY <1>7, <1>8, <1>9, <1>10, <1>11 DEF Thinking

\* Steps that put an object back.
LEMMA PuttingOK ==
  ASSUME Inv, Inv', Shapes, NEW d \in Decodes, Written(d), LocalShape(d), LocalShape(d)',
         DOMAIN local' = Decodes,
         Putting(d)
  PROVE  StepOK(d)
  <1>1. ASSUME NEW slot \in Slots, Put(d, slot)
        PROVE  /\ ObjectShapes' /\ Touches(d, {slot}) /\ held'[d][slot] = NoObject
               /\ \A other \in Slots \ {slot} :
                    /\ \A places : Holding(d, other, places) => Holding(d, other, places)'
                    /\ held[d][other] # NoObject <=> held'[d][other] # NoObject
                    /\ other = "downsampler" /\ held[d][other] # NoObject =>
                         (held[d][other] \in initialized <=> held'[d][other] \in initialized')
    <2>1. /\ Touches(d, {slot}) /\ ObjectShapes' /\ held'[d][slot] = NoObject
      BY <1>1, PutLeaves DEF ObjectShapes
    <2>2. \A other \in Slots \ {slot} : Same(d, other)
      BY <2>1, Untouched
    <2> QED
      BY <2>1, <2>2, SameHolds DEF Same
  <1>2. Slots = {"block", "kept", "spectra", "downsampler", "baseline", "subtraction", "plan"}
    BY DEF Slots, Kinds
  <1>3. {"pc", "left", "range", "pass", "candidates", "recompute", "found", "baseline", "back",
         "nstart"} \subseteq DOMAIN local[d]
    BY DEF LocalShape, LocalFields
  <1>4. DOMAIN local = Decodes
    BY DEF Shapes
  <1>5. CASE FindCandidates(d)
    <2>1. Put(d, "spectra") /\ local[d].pc = "peaks" /\ local'[d].pc = "downsampler"
      BY <1>3, <1>4, <1>5 DEF FindCandidates, At
    <2>2. Written(d)'
      BY <1>1, <1>2, <2>1 DEF Written, ComputesBaseline, InBlock, InPass, InSubtraction
    <2> QED
      BY <1>1, <1>2, <2>1, <2>2 DEF StepOK
  <1>6. CASE PutDownsampler(d)
    <2>1. /\ Put(d, "downsampler") /\ local[d].pc = "candidate"
          /\ \/ local'[d].pc \in {"end", "subtract"}
             \/ local'[d].pc = "baseline" /\ local'[d].back = "subtract"
      BY <1>3, <1>4, <1>6 DEF PutDownsampler, At, Goto
    <2>2. Written(d)'
      BY <1>1, <1>2, <2>1 DEF Written, ComputesBaseline, InBlock, InPass, InSubtraction
    <2> QED
      BY <1>1, <1>2, <2>1, <2>2 DEF StepOK
  <1>7. CASE SpectrumBaseline(d)
    <2>1. /\ Put(d, "baseline") /\ local[d].pc = "transform" /\ local'[d].pc = local[d].back
          /\ local'[d].recompute = local[d].recompute
      BY <1>3, <1>4, <1>7 DEF SpectrumBaseline, At
    <2>2. local[d].back \in {"candidate", "subtract", "putKept"}
      BY <2>1 DEF Written, ComputesBaseline
    <2>3. /\ Touches(d, {"baseline"}) /\ ObjectShapes'
          /\ \A other \in {"block", "kept", "downsampler"} :
               /\ \A places : Holding(d, other, places) => Holding(d, other, places)'
               /\ held[d][other] # NoObject <=> held'[d][other] # NoObject
          /\ held[d]["downsampler"] # NoObject =>
               (held[d]["downsampler"] \in initialized <=> held'[d]["downsampler"] \in initialized')
      BY <1>1, <1>2, <2>1
    <2>4. CASE local[d].back = "candidate"
      <3>1. InPass(d) /\ InBlock(d)
        BY <2>1, <2>4 DEF InPass, InBlock, ComputesBaseline
      <3>2. held'[d]["downsampler"] # NoObject /\ (Recomputes(d)' \/ Holding(d, "downsampler", {0})')
        BY <2>1, <2>3, <3>1 DEF Written, Recomputes
      <3>3. Written(d)'
        BY <2>1, <2>3, <2>4, <3>1, <3>2 DEF Written, ComputesBaseline, InBlock, InPass, InSubtraction
      <3> QED
        BY <1>2, <2>3, <3>3 DEF StepOK
    <2>5. CASE local[d].back \in {"subtract", "putKept"}
      <3>1. Written(d)'
        BY <2>1, <2>3, <2>5 DEF Written, ComputesBaseline, InBlock, InPass, InSubtraction
      <3> QED
        BY <1>2, <2>3, <3>1 DEF StepOK
    <2> QED
      BY <2>2, <2>4, <2>5
  <1>8. CASE SubtractFilterMade(d) \/ Difference(d)
    <2>1. /\ Put(d, "plan")
          /\ \/ local[d].pc = "filter" /\ local'[d].pc = "scratch"
             \/ local[d].pc = "difference" /\ local'[d].pc = "return"
      BY <1>3, <1>4, <1>8 DEF SubtractFilterMade, Difference, At, Goto
    <2>2. Written(d)'
      BY <1>1, <1>2, <2>1 DEF Written, ComputesBaseline, InBlock, InPass, InSubtraction
    <2> QED
      BY <1>1, <1>2, <2>1, <2>2 DEF StepOK
  <1>9. CASE PutScratch(d)
    <2>1. Put(d, "subtraction") /\ local[d].pc = "return" /\ local'[d].pc = "subtract"
      BY <1>3, <1>4, <1>9 DEF PutScratch, At
    <2>2. Written(d)'
      BY <1>1, <1>2, <2>1 DEF Written, ComputesBaseline, InBlock, InPass, InSubtraction
    <2> QED
      BY <1>1, <1>2, <2>1, <2>2 DEF StepOK
  <1>10. CASE PutDecodeBlocks(d)
    <2>1. Put(d, "block") /\ local[d].pc = "end" /\ local'[d].pc \in {"block", "a7"}
      BY <1>3, <1>4, <1>10 DEF PutDecodeBlocks, NextBlock, At
    <2>2. Written(d)'
      BY <1>1, <1>2, <2>1 DEF Written, ComputesBaseline, InBlock, InPass, InSubtraction
    <2> QED
      BY <1>1, <1>2, <2>1, <2>2 DEF StepOK
  <1>11. CASE PutFullSlot(d)
    <2>1. Put(d, "kept") /\ local'[d].pc = "idle"
      BY <1>3, <1>4, <1>11 DEF PutFullSlot, Return, Idle
    <2>2. Written(d)'
      BY <1>1, <1>2, <2>1 DEF Written, ComputesBaseline, InBlock, InPass, InSubtraction
    <2> QED
      BY <1>1, <1>2, <2>1, <2>2 DEF StepOK
  <1> QED
    BY <1>5, <1>6, <1>7, <1>8, <1>9, <1>10, <1>11 DEF Putting

\* A decode takes an object and leaves in it what it finds.
LEMMA TakenOnly ==
  ASSUME Inv, Shapes, NEW d \in Decodes, NEW slot \in Kinds, Get(d, slot), memory' = memory,
         \A o \in Objects : o # held'[d][slot] => (o \in initialized' <=> o \in initialized)
  PROVE  ObjectShapes' /\ Touches(d, {slot}) /\ held'[d][slot] # NoObject
  <1>1. /\ held'[d][slot] # NoObject
        /\ \A e \in Decodes, other \in Slots :
             ~(e = d /\ other = slot) => held'[e][other] = held[e][other]
        /\ \A e \in Decodes, other \in Slots :
             held'[e][other] # NoObject => held'[e][other][1] = Kind(other)
    BY GetTakes
  <1>2. ObjectShapes'
    BY <1>1 DEF Shapes, ObjectShapes
  <1>3. Touches(d, {slot})
    BY <1>1 DEF Touches
  <1> QED
    BY <1>1, <1>2, <1>3

\* A decode takes an object and writes places of it.
LEMMA TakenAndWritten ==
  ASSUME Inv, Shapes, NEW d \in Decodes, NEW slot \in Kinds, Get(d, slot),
         NEW places \in SUBSET Places(slot), Write(d, held'[d][slot], places),
         initialized' = initialized
  PROVE  ObjectShapes' /\ Touches(d, {slot}) /\ Holding(d, slot, places)'
  <1>1. /\ held'[d][slot] \in Objects /\ held'[d][slot] # NoObject /\ held'[d][slot][1] = slot
        /\ \A e \in Decodes, other \in Slots :
             ~(e = d /\ other = slot) => held'[e][other] = held[e][other]
        /\ \A e \in Decodes, other \in Slots :
             held'[e][other] # NoObject => held'[e][other][1] = Kind(other)
    BY GetTakes
  <1>2. PICK o \in Objects : o = held'[d][slot]
    BY <1>1
  <1>3. Write(d, o, places) /\ places \in SUBSET Places(o[1])
    BY <1>1, <1>2 DEF Write
  <1>4. /\ DOMAIN memory' = Objects
        /\ \A p \in Objects : DOMAIN memory'[p] = Places(p[1])
        /\ \A p \in Objects : p # o => memory'[p] = memory[p]
        /\ \A place \in places : memory'[o][place] = d
        /\ \A place \in Places(o[1]) : memory[o][place] = d => memory'[o][place] = d
    BY <1>3, WriteWrites
  <1>5. ObjectShapes'
    BY <1>1, <1>4 DEF ObjectShapes
  <1>6. Touches(d, {slot})
    BY <1>1, <1>2, <1>4 DEF Touches
  <1>7. Holding(d, slot, places)'
    BY <1>1, <1>2, <1>3, <1>4 DEF Holding
  <1> QED
    BY <1>5, <1>6, <1>7

\* A decode writes places of an object it has.
LEMMA WrittenAgain ==
  ASSUME Inv, Shapes, NEW d \in Decodes, NEW slot \in Kinds, held[d][slot] # NoObject,
         NEW places \in SUBSET Places(slot), Write(d, held[d][slot], places), held' = held,
         \A o \in Objects : o # held[d][slot] => (o \in initialized' <=> o \in initialized)
  PROVE  /\ ObjectShapes' /\ Touches(d, {slot}) /\ Holding(d, slot, places)'
         /\ \A others \in SUBSET Places(slot) : Holding(d, slot, others) => Holding(d, slot, others)'
  <1> DEFINE o == held[d][slot]
  <1>1. slot \in Slots /\ Kind(slot) = slot
    BY DEF Slots, Kinds, Kind
  <1>2. o \in Objects /\ o[1] = slot
    BY <1>1 DEF Inv, HeldOK, Shapes, ObjectShapes
  <1>3. /\ DOMAIN memory' = Objects
        /\ \A p \in Objects : DOMAIN memory'[p] = Places(p[1])
        /\ \A p \in Objects : p # o => memory'[p] = memory[p]
        /\ \A place \in places : memory'[o][place] = d
        /\ \A place \in Places(o[1]) : memory[o][place] = d => memory'[o][place] = d
    BY <1>2, WriteWrites
  <1>4. ObjectShapes'
    BY <1>3 DEF Shapes, ObjectShapes
  <1>5. Touches(d, {slot})
    BY <1>3 DEF Touches
  <1>6. Holding(d, slot, places)'
    BY <1>2, <1>3 DEF Holding
  <1>7. \A others \in SUBSET Places(slot) : Holding(d, slot, others) => Holding(d, slot, others)'
    BY <1>2, <1>3 DEF Holding
  <1> QED
    BY <1>4, <1>5, <1>6, <1>7

\* Steps that take an object.
LEMMA TakingOK ==
  ASSUME Inv, Inv', Shapes, NEW d \in Decodes, Written(d), LocalShape(d), LocalShape(d)',
         DOMAIN local' = Decodes,
         Taking(d)
  PROVE  StepOK(d)
  <1>1. ASSUME NEW slot \in Slots, Touches(d, {slot})
        PROVE  \A other \in Slots \ {slot} :
                    /\ \A places : Holding(d, other, places) => Holding(d, other, places)'
                    /\ held[d][other] # NoObject <=> held'[d][other] # NoObject
                    /\ other = "downsampler" /\ held[d][other] # NoObject =>
                         (held[d][other] \in initialized <=> held'[d][other] \in initialized')
    <2>1. \A other \in Slots \ {slot} : Same(d, other)
      BY <1>1, Untouched
    <2> QED
      BY <2>1, SameHolds DEF Same
  <1>2. /\ Kinds = {"block", "spectra", "downsampler", "baseline", "subtraction", "plan"}
        /\ Slots = {"block", "kept", "spectra", "downsampler", "baseline", "subtraction", "plan"}
    BY DEF Slots, Kinds
  <1>3. {"pc", "left", "range", "pass", "candidates", "recompute", "found", "baseline", "back",
         "nstart"} \subseteq DOMAIN local[d]
    BY DEF LocalShape, LocalFields
  <1>4. DOMAIN local = Decodes
    BY DEF Shapes
  <1>5. CASE DecodeBlocks(d)
    <2>1. /\ Get(d, "block") /\ Write(d, held'[d]["block"], Places("block"))
          /\ initialized' = initialized /\ local[d].pc = "block" /\ local'[d].pc = "search"
      BY <1>3, <1>4, <1>5 DEF DecodeBlocks, At
    <2>2. ObjectShapes' /\ Touches(d, {"block"}) /\ Holding(d, "block", Places("block"))'
      BY <1>2, <2>1, TakenAndWritten
    <2>3. Written(d)'
      BY <1>1, <1>2, <2>1, <2>2 DEF Written, ComputesBaseline, InBlock, InPass, InSubtraction
    <2> QED
      BY <1>2, <2>2, <2>3 DEF StepOK
  <1>6. CASE ComputeSpectra(d)
    <2>1. /\ Get(d, "spectra") /\ Write(d, held'[d]["spectra"], Spectra(d))
          /\ initialized' = initialized /\ local[d].pc = "search" /\ local'[d].pc = "peaks"
          /\ local'[d].range = local[d].range
      BY <1>3, <1>4, <1>6 DEF ComputeSpectra, At, Goto
    <2>2. Spectra(d)' = Spectra(d)
      BY <2>1 DEF Spectra, First, Last
    <2>3. First(d) \in Int /\ First(d) >= 1 /\ Last(d) \in Int /\ Last(d) + ToneSpan <= NBins
      BY PoolsAssumption DEF First, Last, LocalShape, PoolsAssumption
    <2>4. Spectra(d) \subseteq Places("spectra")
      BY <2>3, PlacesAre, PoolsAssumption DEF Spectra
    <2>5. ObjectShapes' /\ Touches(d, {"spectra"}) /\ Holding(d, "spectra", Spectra(d))'
      <3> DEFINE S == Spectra(d)
      <3>1. Write(d, held'[d]["spectra"], S) /\ S \in SUBSET Places("spectra") /\ Spectra(d)' = S
        BY <2>1, <2>2, <2>4
      <3> HIDE DEF S
      <3>2. \A places \in SUBSET Places("spectra") :
              Write(d, held'[d]["spectra"], places) =>
                ObjectShapes' /\ Touches(d, {"spectra"}) /\ Holding(d, "spectra", places)'
        BY <1>2, <2>1, TakenAndWritten
      <3> QED
        BY <3>1, <3>2 DEF Holding
    <2>6. Written(d)'
      BY <1>1, <1>2, <2>1, <2>5 DEF Written, ComputesBaseline, InBlock, InPass, InSubtraction
    <2> QED
      BY <1>2, <2>5, <2>6 DEF StepOK
  <1>7. CASE GetDownsampler(d)
    <2>1. /\ Get(d, "downsampler") /\ memory' = memory
          /\ initialized' = initialized \ {held'[d]["downsampler"]}
          /\ local[d].pc = "downsampler" /\ local'[d].pc = "candidate"
      BY <1>3, <1>4, <1>7 DEF GetDownsampler, At
    <2>2. ObjectShapes' /\ Touches(d, {"downsampler"}) /\ held'[d]["downsampler"] # NoObject
      BY <1>2, <2>1, TakenOnly
    <2>3. Recomputes(d)'
      BY <2>1 DEF Recomputes
    <2>4. Written(d)'
      BY <1>1, <1>2, <2>1, <2>2, <2>3 DEF Written, ComputesBaseline, InBlock, InPass, InSubtraction
    <2> QED
      BY <1>2, <2>2, <2>4 DEF StepOK
  <1>8. CASE FillBaseline(d)
    <2>1. /\ Get(d, "baseline") /\ Write(d, held'[d]["baseline"], {0})
          /\ initialized' = initialized /\ local[d].pc = "baseline" /\ local'[d].pc = "transform"
          /\ local'[d].back = local[d].back /\ local'[d].recompute = local[d].recompute
      BY <1>3, <1>4, <1>8 DEF FillBaseline, At, Goto
    <2>2. {0} \in SUBSET Places("baseline")
      BY PlacesAre
    <2>3. ObjectShapes' /\ Touches(d, {"baseline"}) /\ Holding(d, "baseline", {0})'
      BY <1>2, <2>1, <2>2, TakenAndWritten
    <2>4. \A other \in {"block", "kept", "downsampler"} :
            /\ \A places : Holding(d, other, places) => Holding(d, other, places)'
            /\ held[d][other] # NoObject <=> held'[d][other] # NoObject
      BY <1>1, <1>2, <2>3
    <2>5. Recomputes(d) /\ held[d]["downsampler"] # NoObject => Recomputes(d)'
      BY <1>1, <1>2, <2>1, <2>3 DEF Recomputes
    <2>6. /\ InBlock(d)' = InBlock(d) /\ InPass(d)' = InPass(d)
          /\ ComputesBaseline(d)' = ComputesBaseline(d)
      BY <2>1 DEF InBlock, InPass, ComputesBaseline
    <2>7. Written(d)'
      BY <2>1, <2>3, <2>4, <2>5, <2>6 DEF Written, ComputesBaseline, InSubtraction
    <2> QED
      BY <1>2, <2>3, <2>7 DEF StepOK
  <1>9. CASE GetScratch(d)
    <2>1. /\ Get(d, "subtraction") /\ memory' = memory /\ initialized' = initialized
          /\ local[d].pc = "scratch" /\ local'[d].pc = "pulse"
      BY <1>3, <1>4, <1>9 DEF GetScratch, At, Goto
    <2>2. ObjectShapes' /\ Touches(d, {"subtraction"}) /\ held'[d]["subtraction"] # NoObject
      BY <1>2, <2>1, TakenOnly
    <2>3. Written(d)'
      BY <1>1, <1>2, <2>1, <2>2 DEF Written, ComputesBaseline, InBlock, InPass, InSubtraction
    <2> QED
      BY <1>2, <2>2, <2>3 DEF StepOK
  <1>10. CASE InitSubtractFilter(d) /\ Get(d, "plan")
    <2>1. /\ memory' = memory /\ initialized' = initialized
          /\ local[d].pc = "subtract" /\ local'[d].pc \in {"scratch", "filter"}
      BY <1>3, <1>4, <1>10 DEF InitSubtractFilter, At, Goto, Thinks
    <2>2. ObjectShapes' /\ Touches(d, {"plan"})
      BY <1>2, <1>10, <2>1, TakenOnly
    <2>3. Written(d)'
      BY <1>1, <1>2, <2>1, <2>2 DEF Written, ComputesBaseline, InBlock, InPass, InSubtraction
    <2> QED
      BY <1>2, <2>2, <2>3 DEF StepOK
  <1> QED
    BY <1>5, <1>6, <1>7, <1>8, <1>9, <1>10 DEF Taking

\* Steps that write an object that the decode has, and the one that keeps the
\* buffer of the full slot.
LEMMA WritingOK ==
  ASSUME Inv, Inv', Shapes, NEW d \in Decodes, Written(d), LocalShape(d), LocalShape(d)',
         DOMAIN local' = Decodes,
         Writing(d)
  PROVE  StepOK(d)
  <1>1. ASSUME NEW slots \in SUBSET Slots, Touches(d, slots)
        PROVE  \A other \in Slots \ slots :
                    /\ \A places : Holding(d, other, places) => Holding(d, other, places)'
                    /\ held[d][other] # NoObject <=> held'[d][other] # NoObject
    <2>1. \A other \in Slots \ slots : Same(d, other)
      BY <1>1, Untouched
    <2> QED
      BY <2>1, SameHolds
  <1>2. /\ Kinds = {"block", "spectra", "downsampler", "baseline", "subtraction", "plan"}
        /\ Slots = {"block", "kept", "spectra", "downsampler", "baseline", "subtraction", "plan"}
    BY DEF Slots, Kinds
  <1>3. {"pc", "left", "range", "pass", "candidates", "recompute", "found", "baseline", "back",
         "nstart"} \subseteq DOMAIN local[d]
    BY DEF LocalShape, LocalFields
  <1>4. DOMAIN local = Decodes
    BY DEF Shapes
  <1>5. CASE Downsample(d)
    <2>1. local[d].pc = "candidate" /\ local'[d].pc = "metrics" /\ held' = held
      BY <1>3, <1>4, <1>5 DEF Downsample, At
    <2>2. /\ held[d]["downsampler"] # NoObject
          /\ Recomputes(d) \/ Holding(d, "downsampler", {0})
      BY <2>1 DEF Written, InPass
    <2>3. /\ ObjectShapes' /\ Touches(d, {"downsampler"}) /\ Holding(d, "downsampler", {0})'
      <3>1. CASE Recomputes(d)
        <4>1. /\ Write(d, held[d]["downsampler"], {0})
              /\ initialized' = initialized \cup {held[d]["downsampler"]}
          BY <1>5, <3>1 DEF Downsample
        <4>2. {0} \in SUBSET Places("downsampler")
          BY PlacesAre
        <4> QED
          BY <1>2, <2>1, <2>2, <4>1, <4>2, WrittenAgain
      <3>2. CASE ~Recomputes(d)
        <4>1. memory' = memory /\ initialized' = initialized
          BY <1>5, <3>2 DEF Downsample
        <4> QED
          BY <2>1, <2>2, <3>2, <4>1 DEF Shapes, ObjectShapes, Touches, Holding
      <3> QED
        BY <3>1, <3>2
    <2>4. Written(d)'
      BY <1>1, <1>2, <2>1, <2>3 DEF Written, ComputesBaseline, InBlock, InPass, InSubtraction, Holding
    <2> QED
      BY <1>2, <2>3, <2>4 DEF StepOK
  <1>6. CASE Wave(d)
    <2>1. /\ local[d].pc = "pulse" /\ local'[d].pc = "align" /\ held' = held
          /\ initialized' = initialized /\ Write(d, held[d]["subtraction"], {Cref})
      BY <1>3, <1>4, <1>6 DEF Wave, At
    <2>2. held[d]["subtraction"] # NoObject
      BY <2>1 DEF Written, InSubtraction
    <2>3. {Cref} \in SUBSET Places("subtraction")
      BY PlacesAre, PoolsAssumption DEF Cref
    <2>4. ObjectShapes' /\ Touches(d, {"subtraction"}) /\ Holding(d, "subtraction", {Cref})'
      BY <1>2, <2>1, <2>2, <2>3, WrittenAgain
    <2>5. Written(d)'
      BY <1>1, <1>2, <2>1, <2>4 DEF Written, ComputesBaseline, InBlock, InPass, InSubtraction, Holding
    <2> QED
      BY <1>2, <2>4, <2>5 DEF StepOK
  <1>7. CASE Filter(d)
    <2> DEFINE camp == 0..(FFTSamples - 1)
    <2>1. /\ local[d].pc = "transforms" /\ local'[d].pc = "difference" /\ held' = held
          /\ initialized' = initialized /\ Write(d, held[d]["subtraction"], camp)
      BY <1>3, <1>4, <1>7 DEF Filter, At, Goto
    <2>2. held[d]["subtraction"] # NoObject /\ Holding(d, "subtraction", {Cref})
      BY <2>1 DEF Written, InSubtraction
    <2>3. camp \in SUBSET Places("subtraction") /\ {Cref} \in SUBSET Places("subtraction")
      BY PlacesAre, PoolsAssumption DEF Cref
    <2> HIDE DEF camp
    <2>4. /\ ObjectShapes' /\ Touches(d, {"subtraction"}) /\ Holding(d, "subtraction", camp)'
          /\ \A others \in SUBSET Places("subtraction") :
               Holding(d, "subtraction", others) => Holding(d, "subtraction", others)'
      BY <1>2, <2>1, <2>2, <2>3, WrittenAgain
    <2>5. Holding(d, "subtraction", {Cref})'
      BY <2>2, <2>3, <2>4
    <2>6. Written(d)'
      BY <1>1, <1>2, <2>1, <2>2, <2>4, <2>5 DEF Written, ComputesBaseline, InBlock, InPass,
         InSubtraction, Holding, camp
    <2> QED
      BY <1>2, <2>4, <2>6 DEF StepOK
  <1>8. CASE Mix(d)
    <2> DEFINE camp == 0..(FFTSamples - 1)
    <2>1. /\ local[d].pc = "align" /\ local'[d].pc = "transforms" /\ Get(d, "plan")
          /\ initialized' = initialized
          /\ ValidStart(local[d].nstart) < ValidEnd(local[d].nstart)
          /\ Write(d, held[d]["subtraction"], Mixed(local[d].nstart))
      BY <1>3, <1>4, <1>8 DEF Mix, At, Goto
    <2>2. Mixed(local[d].nstart) = camp
      BY <2>1, CampAllWritten DEF LocalShape
    <2>3. held[d]["subtraction"] # NoObject /\ Holding(d, "subtraction", {Cref})
      BY <2>1 DEF Written, InSubtraction
    <2>4. camp \in SUBSET Places("subtraction") /\ Cref \in Places("subtraction")
      BY PlacesAre, PoolsAssumption DEF Cref
    <2> HIDE DEF camp
    <2>5. /\ \A e \in Decodes, other \in Slots :
               ~(e = d /\ other = "plan") => held'[e][other] = held[e][other]
          /\ \A e \in Decodes, other \in Slots :
               held'[e][other] # NoObject => held'[e][other][1] = Kind(other)
      BY <1>2, <2>1, GetTakes
    <2>6. PICK o \in Objects : o = held[d]["subtraction"] /\ o[1] = "subtraction"
      BY <1>2, <2>3 DEF Inv, HeldOK, Shapes, ObjectShapes, Kind
    <2>7. Write(d, o, camp) /\ camp \in SUBSET Places(o[1])
      BY <2>1, <2>2, <2>4, <2>6
    <2>8. /\ DOMAIN memory' = Objects
          /\ \A p \in Objects : DOMAIN memory'[p] = Places(p[1])
          /\ \A p \in Objects : p # o => memory'[p] = memory[p]
          /\ \A place \in camp : memory'[o][place] = d
          /\ \A place \in Places(o[1]) : memory[o][place] = d => memory'[o][place] = d
      BY <2>7, WriteWrites
    <2>9. ObjectShapes'
      BY <2>5, <2>8 DEF ObjectShapes
    <2>10. Touches(d, {"plan", "subtraction"})
      BY <2>1, <2>5, <2>6, <2>8 DEF Touches
    <2>11. held'[d]["subtraction"] = o
      BY <1>2, <2>5, <2>6
    <2>12. Holding(d, "subtraction", camp)' /\ Holding(d, "subtraction", {Cref})'
      BY <2>3, <2>4, <2>6, <2>8, <2>11 DEF Holding
    <2>13. Written(d)'
      <3>1. /\ Holding(d, "block", Places("block")) => Holding(d, "block", Places("block"))'
            /\ Holding(d, "kept", Places("block")) => Holding(d, "kept", Places("block"))'
            /\ held[d]["kept"] # NoObject <=> held'[d]["kept"] # NoObject
        BY <1>1, <1>2, <2>10
      <3> QED
        BY <2>1, <2>3, <2>11, <2>12, <3>1 DEF Written, ComputesBaseline, InBlock, InPass,
           InSubtraction, Holding, camp
    <2> QED
      BY <1>2, <2>9, <2>10, <2>13 DEF StepOK
  <1>9. CASE KeepBlock(d)
    <2>1. /\ local[d].pc = "end" /\ local'[d].pc \in {"block", "a7"}
          /\ memory' = memory /\ initialized' = initialized
      BY <1>3, <1>4, <1>9 DEF KeepBlock, NextBlock, At
    <2>2. /\ held'[d]["kept"] = held[d]["block"] /\ held'[d]["block"] = NoObject
          /\ \A e \in Decodes, other \in Slots :
               ~(e = d /\ other \in {"block", "kept"}) => held'[e][other] = held[e][other]
      BY <1>2, <1>9 DEF KeepBlock, Inv, HeldOK
    <2>3. ObjectShapes'
      <3>1. /\ \A e \in Decodes, slot \in Slots :
                 held[e][slot] # NoObject => held[e][slot][1] = Kind(slot)
            /\ DOMAIN memory' = Objects /\ \A o \in Objects : DOMAIN memory'[o] = Places(o[1])
        BY <2>1 DEF Shapes, ObjectShapes
      <3>2. Kind("block") = "block" /\ Kind("kept") = "block"
        BY DEF Kind
      <3>3. ASSUME NEW e \in Decodes, NEW slot \in Slots, held'[e][slot] # NoObject
            PROVE  held'[e][slot][1] = Kind(slot)
        <4>1. CASE e = d /\ slot = "kept"
          BY <1>2, <2>2, <3>1, <3>2, <3>3, <4>1
        <4>2. CASE ~(e = d /\ slot \in {"block", "kept"})
          BY <2>2, <3>1, <3>3, <4>2
        <4> QED
          BY <2>2, <3>3, <4>1, <4>2
      <3> QED
        BY <3>1, <3>3 DEF ObjectShapes
    <2>4. Touches(d, {"block", "kept"})
      <3>1. \A o \in Objects : memory'[o] = memory[o] /\ (o \in initialized' <=> o \in initialized)
        BY <2>1
      <3> QED
        BY <2>2, <3>1 DEF Touches
    <2>5. Holding(d, "kept", Places("block"))'
      <3>1. Holding(d, "block", Places("block"))
        BY <2>1 DEF Written, InBlock
      <3> QED
        BY <2>1, <2>2, <3>1 DEF Holding
    <2>6. Written(d)'
      BY <2>1, <2>5 DEF Written, ComputesBaseline, InBlock, InPass, InSubtraction
    <2> QED
      BY <1>2, <2>3, <2>4, <2>6 DEF StepOK
  <1> QED
    BY <1>5, <1>6, <1>7, <1>8, <1>9 DEF Writing

\* The steps of a decode leave what it and the others have written.
AllWritten == Inv /\ Shapes /\ \A d \in Decodes : Written(d)

LEMMA StepWrites ==
  ASSUME AllWritten, NEW d \in Decodes, Call(d) \/ Step(d)
  PROVE  AllWritten'
  <1>1. Inv /\ Shapes /\ LocalShape(d) /\ Written(d)
    BY DEF AllWritten, Shapes
  <1>2. Inv'
    BY <1>1, StepKeeps
  <1>3. /\ DOMAIN local' = Decodes /\ LocalShape(d)'
        /\ \A e \in Decodes \ {d} : local'[e] = local[e]
    BY <1>1, LocalKept
  <1>4. StepOK(d)
    <2>1. CASE Thinking(d) /\ UNCHANGED <<held, memory, initialized>>
      BY <1>1, <1>3, <2>1, ThinkingOK
    <2>2. CASE Putting(d)
      BY <1>1, <1>2, <1>3, <2>2, PuttingOK
    <2>3. CASE Taking(d)
      BY <1>1, <1>2, <1>3, <2>3, TakingOK
    <2>4. CASE Writing(d)
      BY <1>1, <1>2, <1>3, <2>4, WritingOK
    <2>5. InitSubtractFilter(d) => (Goto(d, "scratch") /\ Thinks) \/ Get(d, "plan")
      BY DEF InitSubtractFilter
    <2>6. \/ Thinking(d) /\ UNCHANGED <<held, memory, initialized>>
          \/ Putting(d) \/ Taking(d) \/ Writing(d)
      BY <2>5 DEF Step, Thinking, Putting, Taking, Writing, Thinks, Call, FindNothing, Verdict,
         InitPulse, NothingToSubtract, EndPass, A7, NoA7
    <2> QED
      BY <2>1, <2>2, <2>3, <2>4, <2>6
  <1>5. Shapes'
    <2>1. \A e \in Decodes : LocalShape(e)'
      BY <1>1, <1>3 DEF Shapes, LocalShape
    <2> QED
      BY <1>3, <1>4, <2>1 DEF StepOK, Shapes
  <1>6. ASSUME NEW e \in Decodes, e # d
        PROVE  Written(e)'
    <2>1. PICK slots \in SUBSET Slots : Touches(d, slots)
      BY <1>4 DEF StepOK
    <2>2. \A slot \in Slots : Same(e, slot)
      BY <1>1, <1>2, <1>6, <2>1, Untouched
    <2>3. Written(e) /\ local'[e] = local[e]
      BY <1>3, <1>6 DEF AllWritten
    <2> QED
      BY <2>2, <2>3, WrittenElsewhere
  <1>7. \A e \in Decodes : Written(e)'
    BY <1>4, <1>6 DEF StepOK
  <1> QED
    BY <1>2, <1>5, <1>7 DEF AllWritten

\* Whatever the next step of a decode reads is among what it has written.
LEMMA ReadsWritten ==
  ASSUME AllWritten, NEW d \in Decodes, NEW read \in Reads(d)
  PROVE  Holding(d, read[1], {read[2]})
  <1> DEFINE n == local[d].nstart
             camp == 0..(FFTSamples - 1)
  <1>1. Written(d) /\ local[d].nstart \in Int
    BY DEF AllWritten, Shapes, LocalShape
  <1>2. /\ Window(n) \subseteq Places("block")
        /\ Valid(n) \subseteq camp
    <2>1. /\ Window(n) \subseteq 0..(BufferSamples - 1)
          /\ Valid(n) \subseteq 0..(SignalSamples - 1)
      BY <1>1, WindowInBuffer
    <2> HIDE DEF n
    <2> QED
      BY <2>1, PlacesAre, PoolsAssumption
  <1>3. \A slot, places, place : Holding(d, slot, places) /\ place \in places => Holding(d, slot, {place})
    BY DEF Holding
  <1> HIDE DEF n, camp
  <1>4. CASE At(d, "search")
    <2>1. read \in {"block"} \X Places("block") /\ Holding(d, "block", Places("block"))
      BY <1>1, <1>4 DEF Reads, At, Written, InBlock
    <2> QED
      BY <1>3, <2>1
  <1>5. CASE At(d, "peaks")
    <2>1. read \in {"spectra"} \X Spectra(d) /\ Holding(d, "spectra", Spectra(d))
      BY <1>1, <1>5 DEF Reads, At, Written, Spectra
    <2> QED
      BY <1>3, <2>1
  <1>6. CASE At(d, "candidate")
    <2>1. /\ Holding(d, "block", Places("block"))
          /\ Recomputes(d) \/ Holding(d, "downsampler", {0})
      BY <1>1, <1>6 DEF At, Written, InBlock, InPass
    <2>2. read \in IF Recomputes(d) THEN {"block"} \X Places("block")
                   ELSE {"downsampler"} \X Places("downsampler")
      BY <1>6 DEF Reads, At
    <2> QED
      BY <1>3, <2>1, <2>2, PlacesAre
  <1>7. CASE At(d, "metrics")
    <2>1. /\ read \in {"downsampler"} \X Places("downsampler")
          /\ Holding(d, "downsampler", {0})
      BY <1>1, <1>7 DEF Reads, At, Written
    <2> QED
      BY <1>3, <2>1, PlacesAre
  <1>8. CASE At(d, "baseline")
    <2>1. read \in IF local[d].back = "putKept" THEN {"kept"} \X Places("block")
                   ELSE {"block"} \X Places("block")
      BY <1>8 DEF Reads, At
    <2>2. IF local[d].back = "putKept" THEN Holding(d, "kept", Places("block"))
          ELSE Holding(d, "block", Places("block"))
      BY <1>1, <1>8 DEF At, Written, InBlock, ComputesBaseline
    <2> QED
      BY <1>3, <2>1, <2>2
  <1>9. CASE At(d, "transform")
    <2>1. /\ read \in {"baseline"} \X Places("baseline")
          /\ Holding(d, "baseline", {0})
      BY <1>1, <1>9 DEF Reads, At, Written
    <2> QED
      BY <1>3, <2>1, PlacesAre
  <1>10. CASE At(d, "align")
    <2>1. read \in ({"block"} \X Window(n)) \cup {<<"subtraction", Cref>>}
      BY <1>10 DEF Reads, At, n
    <2>2. Holding(d, "block", Places("block")) /\ Holding(d, "subtraction", {Cref})
      BY <1>1, <1>10 DEF At, Written, InBlock
    <2>3. CASE read = <<"subtraction", Cref>>
      BY <2>2, <2>3
    <2>4. CASE read \in {"block"} \X Window(n)
      <3>1. read[1] = "block" /\ read[2] \in Places("block")
        BY <1>2, <2>4
      <3> QED
        BY <1>3, <2>2, <3>1
    <2> QED
      BY <2>1, <2>3, <2>4
  <1>11. CASE At(d, "transforms")
    <2>1. /\ read \in {"subtraction"} \X (camp)
          /\ Holding(d, "subtraction", camp)
      BY <1>1, <1>11 DEF Reads, At, Written, camp
    <2> QED
      BY <1>3, <2>1
  <1>12. CASE At(d, "difference")
    <2>1. read \in ({"block"} \X Window(n)) \cup ({"subtraction"} \X (Valid(n) \cup {Cref}))
      BY <1>12 DEF Reads, At, n
    <2>2. /\ Holding(d, "block", Places("block")) /\ Holding(d, "subtraction", {Cref})
          /\ Holding(d, "subtraction", camp)
      BY <1>1, <1>12 DEF At, Written, InBlock, camp
    <2>3. CASE read \in {"subtraction"} \X (Valid(n) \cup {Cref})
      <3>1. read[1] = "subtraction" /\ (read[2] = Cref \/ read[2] \in camp)
        BY <1>2, <2>3
      <3> QED
        BY <1>3, <2>2, <3>1
    <2>4. CASE read \in {"block"} \X Window(n)
      <3>1. read[1] = "block" /\ read[2] \in Window(n)
        BY <2>4
      <3> QED
        BY <1>2, <1>3, <2>2, <3>1
    <2> QED
      BY <2>1, <2>3, <2>4
  <1>13. CASE At(d, "a7") /\ held[d]["kept"] # NoObject
    <2>1. read \in {"kept"} \X Places("block") /\ Holding(d, "kept", Places("block"))
      BY <1>1, <1>13 DEF Reads, At, Written
    <2> QED
      BY <1>3, <2>1
  <1> QED
    <2>1. \/ At(d, "search") \/ At(d, "peaks") \/ At(d, "candidate") \/ At(d, "metrics")
          \/ At(d, "baseline") \/ At(d, "transform") \/ At(d, "align") \/ At(d, "transforms")
          \/ At(d, "difference") \/ (At(d, "a7") /\ held[d]["kept"] # NoObject)
      BY DEF Reads
    <2> QED
      BY <2>1, <1>4, <1>5, <1>6, <1>7, <1>8, <1>9, <1>10, <1>11, <1>12, <1>13

\* Nothing that another decode, an earlier block or an earlier candidate left in
\* a buffer, a downsampler, a spectrum, the baseline's or the subtraction's
\* scratch gets into what a decode computes: it reads what it has written since
\* it took the object, in bounds (decode.go, sync.go, snr.go, subtract.go).
THEOREM OwnDataAlwaysRead == Spec => []OwnDataRead
  <1>1. Init => AllWritten
    <2> SUFFICES ASSUME Init PROVE AllWritten
      OBVIOUS
    <2>1. Inv
      BY NoObjectIsNone DEF Init, Inv, HeldOK, OneUser
    <2>2. \A d \in Decodes, slot \in Slots : held[d][slot] = NoObject
      BY DEF Init
    <2>3. ObjectShapes
      BY <2>2 DEF Init, ObjectShapes
    <2>4. \A d \in Decodes : LocalShape(d)
      BY DEF Init, LocalShape, Idle, LocalFields
    <2>5. \A d \in Decodes : Written(d)
      <3>1. "kept" \in Slots
        BY DEF Slots
      <3>2. \A d \in Decodes : local[d].pc = "idle"
        BY DEF Init, Idle
      <3> QED
        BY <2>2, <3>1, <3>2 DEF Written, ComputesBaseline, InBlock, InPass, InSubtraction
    <2> QED
      BY <2>1, <2>3, <2>4, <2>5 DEF AllWritten, Shapes, Init
  <1>2. AllWritten /\ [Next]_vars => AllWritten'
    <2>1. ASSUME AllWritten, UNCHANGED vars
          PROVE  AllWritten'
      <3>1. Inv' /\ Shapes'
        <4>1. UNCHANGED <<pool, held>> /\ Inv /\ Shapes
          BY <2>1 DEF AllWritten, vars
        <4>2. ObjectShapes' /\ DOMAIN local' = Decodes
          BY <2>1, <4>1 DEF vars, Shapes, ObjectShapes
        <4>3. \A d \in Decodes : LocalShape(d)'
          BY <2>1, <4>1 DEF vars, Shapes, LocalShape
        <4> QED
          BY <4>1, <4>2, <4>3, OtherwiseKept DEF Shapes
      <3>2. \A d \in Decodes : \A slot \in Slots : Same(d, slot)
        BY <2>1 DEF vars, Same
      <3>3. \A d \in Decodes : Written(d) /\ local'[d] = local[d]
        BY <2>1 DEF AllWritten, vars
      <3>4. \A d \in Decodes : Written(d)'
        BY <3>2, <3>3, WrittenElsewhere
      <3> QED
        BY <3>1, <3>4 DEF AllWritten
    <2> QED
      BY <2>1, StepWrites DEF Next
  <1>3. AllWritten => OwnDataRead
    BY ReadsWritten DEF OwnDataRead, Holding
  <1> QED
    BY <1>1, <1>2, <1>3, PTL DEF Spec
==============================================================================
