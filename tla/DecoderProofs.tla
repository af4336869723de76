---------------------------- MODULE DecoderProofs ----------------------------
(***************************************************************************)
(* The stateful decoder, for any codewords on the air, any options and any  *)
(* calls of its methods; and the options and results of the structured      *)
(* APIs, for any options, any texts and any width of an int.                *)
(***************************************************************************)
EXTENDS Decoder, Structured, UnpackLemmas, FiniteSetTheorems

\* What one message adds to the hints already collected.
WithHintsOf(text, hints) == hints \o SetToSeq(ParseA7Hint(text) \ Range(hints))

\* The hints of a slot are collected one message at a time.
LEMMA CollectSteps ==
    ASSUME NEW S, NEW s \in Seq(S)
    PROVE  \E c : /\ c = [n \in 0..Len(s) |-> IF n = 0 THEN <<>> ELSE WithHintsOf(s[n], c[n-1])]
                 /\ CollectA7Hints(s) = c[Len(s)]
<1> DEFINE Fold(f, m) ==
             f = [d \in SUBSET (1..m) |->
                    IF d = {} THEN <<>> ELSE WithHintsOf(s[Max(d)], f[d \ {Max(d)}])]
           stuck == {m \in Nat : ~\E f : Fold(f, m)}
<1>1. Len(s) \in Nat /\ DOMAIN s = 1..Len(s)
  BY LenProperties
<1>2. ASSUME NEW m \in Nat, NEW d \in SUBSET (1..m), m \in d
      PROVE  Max(d) = m
  <2>1. \A x \in d : (\A y \in d : x >= y) <=> x = m
    BY <1>2
  <2> QED BY <1>2, <2>1 DEF Max
<1>3. ASSUME stuck # {} PROVE FALSE
  <2>1. PICK m \in stuck : \A n \in stuck : m <= n
    BY <1>3, LeastNat
  <2>2. m \in Nat /\ ~\E f : Fold(f, m)
    OBVIOUS
  <2>3. CASE m = 0
    <3>1. SUBSET (1..0) = {{}}
      OBVIOUS
    <3>2. Fold([d \in SUBSET (1..0) |-> <<>>], 0)
      BY <3>1
    <3> QED BY <2>2, <2>3, <3>2
  <2>4. CASE m # 0
    <3>1. m - 1 \in Nat /\ ~(m <= m - 1)
      BY <2>2, <2>4
    <3>2. m - 1 \notin stuck
      BY <2>1, <3>1
    <3>3. PICK f : Fold(f, m - 1)
      BY <3>1, <3>2
    <3> DEFINE g == [d \in SUBSET (1..m) |->
                       IF m \in d THEN WithHintsOf(s[m], f[d \ {m}]) ELSE f[d]]
    <3>4. \A d \in SUBSET (1..(m - 1)) :
            f[d] = IF d = {} THEN <<>> ELSE WithHintsOf(s[Max(d)], f[d \ {Max(d)}])
      BY <3>3
    <3>5. \A i \in 1..m : i # m => i \in 1..(m - 1)
      BY <2>2
    <3>6. \A d \in SUBSET (1..m) : /\ d \ {m} \in SUBSET (1..(m - 1))
                                   /\ m \notin d => d \in SUBSET (1..(m - 1))
      BY <3>5
    <3>7. \A d \in SUBSET (1..m) :
            g[d] = IF d = {} THEN <<>> ELSE WithHintsOf(s[Max(d)], g[d \ {Max(d)}])
      <4> TAKE d \in SUBSET (1..m)
      <4>1. CASE m \in d
        <5>1. Max(d) = m /\ d # {} /\ d \ {m} \in SUBSET (1..m) /\ m \notin d \ {m}
          BY <1>2, <2>2, <3>6, <4>1
        <5>2. g[d \ {m}] = f[d \ {m}] /\ g[d] = WithHintsOf(s[m], f[d \ {m}])
          BY <4>1, <5>1
        <5>3. g[d] = WithHintsOf(s[Max(d)], g[d \ {Max(d)}])
          BY <5>1, <5>2
        <5> QED BY <5>1, <5>3
      <4>2. CASE m \notin d
        <5> DEFINE i == Max(d)
        <5>1. d \in SUBSET (1..(m - 1)) /\ d \ {i} \in SUBSET (1..m) /\ m \notin d \ {i}
          BY <3>6, <4>2
        <5>2. g[d] = f[d] /\ g[d \ {i}] = f[d \ {i}]
          BY <4>2, <5>1
        <5>3. f[d] = IF d = {} THEN <<>> ELSE WithHintsOf(s[i], f[d \ {i}])
          BY <3>4, <5>1
        <5> QED BY <5>2, <5>3
      <4> QED BY <4>1, <4>2
    <3>8. Fold(g, m)
      BY <3>7
    <3> HIDE DEF g
    <3> QED BY <2>2, <3>8
  <2> QED BY <2>3, <2>4
<1>4. \E f : Fold(f, Len(s))
  BY <1>1, <1>3
<1> HIDE DEF stuck
<1> DEFINE iter == CHOOSE f : Fold(f, Len(s))
           c == [n \in 0..Len(s) |-> iter[1..n]]
<1>5. Fold(iter, Len(s))
  BY <1>4
<1>6. CollectA7Hints(s) = iter[1..Len(s)]
  BY <1>1, Zenon DEF CollectA7Hints, FoldLeft, MapThenFoldSet, WithHintsOf
<1> HIDE DEF iter
<1>7. \A n \in 0..Len(s) : c[n] = IF n = 0 THEN <<>> ELSE WithHintsOf(s[n], c[n-1])
  <2> TAKE n \in 0..Len(s)
  <2>1. 1..n \in SUBSET (1..Len(s))
    BY <1>1
  <2>2. iter[1..n] = IF 1..n = {} THEN <<>>
                     ELSE WithHintsOf(s[Max(1..n)], iter[(1..n) \ {Max(1..n)}])
    BY <1>5, <2>1
  <2>3. CASE n = 0
    BY <2>2, <2>3
  <2>4. CASE n # 0
    <3>1. n \in Nat /\ n \in 1..n /\ n - 1 \in 0..Len(s) /\ (1..n) \ {n} = 1..(n - 1)
      BY <1>1, <2>4
    <3>2. Max(1..n) = n
      BY <1>2, <3>1
    <3>3. iter[1..n] = WithHintsOf(s[n], iter[1..(n - 1)]) /\ c[n - 1] = iter[1..(n - 1)]
      BY <2>2, <3>1, <3>2
    <3> QED BY <2>4, <3>3
  <2> QED BY <2>3, <2>4
<1>8. c[Len(s)] = iter[1..Len(s)]
  BY <1>1
<1>9. c = [n \in 0..Len(s) |-> IF n = 0 THEN <<>> ELSE WithHintsOf(s[n], c[n-1])]
  BY <1>7
<1> HIDE DEF c
<1> QED BY <1>6, <1>8, <1>9

\* The hints of the next slot of each cadence are those of the last two periods.
LEMMA CadenceStep ==
    ASSUME seq \in {0, 1}, DOMAIN history = {0, 1}, HintsFromSameCadence, DecodeMessages
    PROVE  seq' \in {0, 1} /\ DOMAIN history' = {0, 1} /\ HintsFromSameCadence'
<1>1. PICK r \in Slot!Results(calls22, HintsTried) :
        /\ history' = [history EXCEPT ![seq] = CollectA7Hints(r.texts)]
        /\ heard' = <<r.texts, heard[1]>>
  BY DEF DecodeMessages
<1>2. seq' = 1 - seq
  BY DEF DecodeMessages
<1>3. /\ history'[seq] = CollectA7Hints(heard'[1]) /\ history'[1 - seq] = history[1 - seq]
      /\ heard'[2] = heard[1] /\ 1 - seq' = seq /\ seq' \in {0, 1} /\ DOMAIN history' = {0, 1}
  BY <1>1, <1>2
<1> QED BY <1>2, <1>3 DEF HintsFromSameCadence

Cadence ==
    /\ seq \in {0, 1}
    /\ DOMAIN history = {0, 1}
    /\ HintsWhileNoneRejected

LEMMA CadenceKept == Spec => []Cadence
<1>1. Init => Cadence
  <2>1. CollectA7Hints(<<>>) = <<>>
    <3>1. <<>> \in Seq({}) /\ Len(<<>>) = 0
      OBVIOUS
    <3>2. \E c : /\ c = [n \in 0..0 |-> IF n = 0 THEN <<>> ELSE WithHintsOf((<<>>)[n], c[n-1])]
                 /\ CollectA7Hints(<<>>) = c[0]
      BY <3>1, CollectSteps
    <3> QED BY <3>2
  <2> QED BY <2>1 DEF Init, Cadence, HintsWhileNoneRejected, HintsFromSameCadence
<1>2. Cadence /\ [Next]_vars => Cadence'
  <2> SUFFICES ASSUME Cadence, [Next]_vars PROVE Cadence'
    OBVIOUS
  <2>1. CASE DecodeMessages
    <3>1. rejected' = rejected /\ seq' = 1 - seq /\ DOMAIN history' = DOMAIN history
      BY <2>1 DEF DecodeMessages
    <3>2. ~rejected => HintsFromSameCadence'
      BY <2>1, CadenceStep DEF Cadence, HintsWhileNoneRejected
    <3> QED BY <3>1, <3>2 DEF Cadence, HintsWhileNoneRejected
  <2>2. CASE CheckedRejects
    BY <2>2 DEF CheckedRejects, Cadence, HintsWhileNoneRejected
  <2>3. CASE \E hints \in HintLists : SetAPCallHints(hints)
    <3>1. UNCHANGED <<seq, history, heard, rejected>>
      BY <2>3 DEF SetAPCallHints
    <3> QED BY <3>1 DEF Cadence, HintsWhileNoneRejected, HintsFromSameCadence
  <2>4. CASE UNCHANGED vars
    BY <2>4 DEF vars, Cadence, HintsWhileNoneRejected, HintsFromSameCadence
  <2> QED BY <2>1, <2>2, <2>3, <2>4 DEF Next, DecodeCall, Permissive, CheckedDecodes
<1> QED BY <1>1, <1>2, PTL DEF Spec

\* Until a period is rejected, the hints the next decode will use come from the
\* period before last and those kept for later from the last one, whichever
\* decode methods are called (Decoder.decodeMessages, a7.go).
THEOREM HintsAlwaysOfCadence == Spec => []HintsWhileNoneRejected
<1>1. Cadence => HintsWhileNoneRejected
  BY DEF Cadence
<1> QED BY <1>1, CadenceKept, PTL

\* Whatever is called between an error and the next decode, that decode finds the
\* cadence, the hints and the callsign table of before the error
\* (DecodeMessagesChecked and DecodeStructuredChecked, checked.go).
THEOREM ErrorsAlwaysKeepState == Spec => ErrorsKeepState
<1>1. ASSUME [Next]_vars
      PROVE  [returned' \in {"ErrInvalidDecodeInput", "ErrInvalidDecoderOptions"} =>
                UNCHANGED <<seq, history, calls22>>]_vars
  <2>1. CASE DecodeMessages
    BY <2>1 DEF DecodeMessages
  <2>2. CASE CheckedRejects
    BY <2>2 DEF CheckedRejects
  <2>3. CASE \E hints \in HintLists : SetAPCallHints(hints)
    BY <2>3 DEF SetAPCallHints
  <2>4. CASE UNCHANGED vars
    BY <2>4
  <2> QED BY <1>1, <2>1, <2>2, <2>3, <2>4 DEF Next, DecodeCall, Permissive, CheckedDecodes
<1> QED BY <1>1, PTL DEF Spec, ErrorsKeepState

\* The options the decoder searches with are the normalized originals, however
\* often the hints are replaced, and even if the caller goes on writing to the
\* slice it passed as Blocks (NewDecoderWithOptions and SetAPCallHints, a7.go).
THEOREM OptionsAlwaysMatch == /\ Spec => []OptionsMatchOriginals
                              /\ SharingSpec => []OptionsMatchOriginals
<1>1. \A b, h : LET o == [ZeroOptions EXCEPT !.blocks = b, !.hints = h]
                IN  /\ NormalizeDecoderOptions(o).hints = NormalizeAPCallHints(h)
                    /\ NormalizeDecoderOptions(o).blocks
                         = IF b = <<>> THEN <<50>> ELSE NormalizeBlockCounts(b)
  BY DEF ZeroOptions, NormalizeDecoderOptions
<1>2. Init => OptionsMatchOriginals
  <2>1. \A b : NormalizeDecoderOptions([ZeroOptions EXCEPT !.blocks = b]).blocks
                 = IF b = <<>> THEN <<50>> ELSE NormalizeBlockCounts(b)
    BY DEF ZeroOptions, NormalizeDecoderOptions
  <2> QED BY <1>1, <2>1, Zenon DEF Init, OptionsMatchOriginals
<1>3. OptionsMatchOriginals /\ [Next \/ CallerWritesBlocks]_vars => OptionsMatchOriginals'
  <2> SUFFICES ASSUME OptionsMatchOriginals, [Next \/ CallerWritesBlocks]_vars
               PROVE  OptionsMatchOriginals'
    OBVIOUS
  <2>1. CASE \E hints \in HintLists : SetAPCallHints(hints)
    <3>1. blocks' = blocks /\ given' = given /\ apCallHints' = NormalizeAPCallHints(rawHints')
      BY <2>1 DEF SetAPCallHints
    <3> QED BY <1>1, <3>1, Zenon DEF OptionsMatchOriginals
  <2>2. CASE DecodeCall \/ CallerWritesBlocks \/ UNCHANGED vars
    <3>1. UNCHANGED <<blocks, given, apCallHints, rawHints>>
      BY <2>2 DEF DecodeCall, Permissive, CheckedDecodes, CheckedRejects, DecodeMessages,
                  CallerWritesBlocks, vars
    <3> QED BY <3>1 DEF OptionsMatchOriginals
  <2> QED BY <2>1, <2>2 DEF Next
<1>4. [Next]_vars => [Next \/ CallerWritesBlocks]_vars
  OBVIOUS
<1> QED BY <1>2, <1>3, <1>4, PTL DEF Spec, SharingSpec
------------------------------------------------------------------------------
\* What the texts of a decode's outcome are, whatever was on the air: a sequence.
IsSequence(s) == \E S : s \in Seq(S)

\* The outcomes of unpacking n codewords, one codeword at a time.
LEMMA CodewordSteps ==
    ASSUME NEW t
    PROVE  Slot!Reached(t) = [n \in 0..MaxUnpacked |->
              IF n = 0 THEN {[table |-> t, texts |-> <<>>]}
              ELSE Slot!OneCodeword(Slot!Reached(t)[n-1])]
<1> DEFINE Steps(f, m) ==
             f = [n \in 0..m |-> IF n = 0 THEN {[table |-> t, texts |-> <<>>]}
                                 ELSE Slot!OneCodeword(f[n-1])]
           stuck == {m \in Nat : ~\E f : Steps(f, m)}
<1>1. MaxUnpacked \in Nat
  BY DecoderAssumption DEF DecoderAssumption
<1>2. ASSUME stuck # {} PROVE FALSE
  <2>1. PICK m \in stuck : \A n \in stuck : m <= n
    BY <1>2, LeastNat
  <2>2. m \in Nat /\ ~\E f : Steps(f, m)
    OBVIOUS
  <2>3. CASE m = 0
    <3>1. Steps([n \in 0..0 |-> {[table |-> t, texts |-> <<>>]}], 0)
      OBVIOUS
    <3> QED BY <2>2, <2>3, <3>1
  <2>4. CASE m # 0
    <3>1. m - 1 \in Nat /\ ~(m <= m - 1)
      BY <2>2, <2>4
    <3>2. m - 1 \notin stuck
      BY <2>1, <3>1
    <3>3. PICK f : Steps(f, m - 1)
      BY <3>1, <3>2
    <3> DEFINE g == [n \in 0..m |-> IF n = m THEN Slot!OneCodeword(f[m-1]) ELSE f[n]]
    <3>4. \A n \in 0..(m - 1) : f[n] = IF n = 0 THEN {[table |-> t, texts |-> <<>>]}
                                      ELSE Slot!OneCodeword(f[n-1])
      BY <3>3
    <3>5. \A n \in 0..m : g[n] = IF n = 0 THEN {[table |-> t, texts |-> <<>>]}
                                ELSE Slot!OneCodeword(g[n-1])
      <4> TAKE n \in 0..m
      <4>1. CASE n = m
        BY <2>2, <2>4, <4>1
      <4>2. CASE n # m
        <5>1. n \in 0..(m - 1) /\ (n # 0 => n - 1 \in 0..m /\ n - 1 # m)
          BY <2>2, <4>2
        <5> QED BY <3>4, <4>2, <5>1
      <4> QED BY <4>1, <4>2
    <3>6. Steps(g, m)
      BY <3>5
    <3> HIDE DEF g
    <3> QED BY <2>2, <3>6
  <2> QED BY <2>3, <2>4
<1>3. PICK f : Steps(f, MaxUnpacked)
  BY <1>1, <1>2
<1> HIDE DEF stuck
<1>4. Steps(Slot!Reached(t), MaxUnpacked)
  BY <1>3 DEF Slot!Reached
<1> QED BY <1>4

\* The outcomes of trying n hints, one hint at a time.
LEMMA HintSteps ==
    ASSUME NEW outcomes, NEW tried, Len(tried) \in Nat
    PROVE  Slot!Tried(outcomes, tried) = [n \in 0..Len(tried) |->
              IF n = 0 THEN outcomes
              ELSE Slot!OneHint(Slot!Tried(outcomes, tried)[n-1], tried[n])]
<1> DEFINE Steps(f, m) ==
      f = [n \in 0..m |-> IF n = 0 THEN outcomes ELSE Slot!OneHint(f[n-1], tried[n])]
           stuck == {m \in Nat : ~\E f : Steps(f, m)}
<1>1. Len(tried) \in Nat
  OBVIOUS
<1>2. ASSUME stuck # {} PROVE FALSE
  <2>1. PICK m \in stuck : \A n \in stuck : m <= n
    BY <1>2, LeastNat
  <2>2. m \in Nat /\ ~\E f : Steps(f, m)
    OBVIOUS
  <2>3. CASE m = 0
    <3>1. Steps([n \in 0..0 |-> outcomes], 0)
      OBVIOUS
    <3> QED BY <2>2, <2>3, <3>1
  <2>4. CASE m # 0
    <3>1. m - 1 \in Nat /\ ~(m <= m - 1)
      BY <2>2, <2>4
    <3>2. m - 1 \notin stuck
      BY <2>1, <3>1
    <3>3. PICK f : Steps(f, m - 1)
      BY <3>1, <3>2
    <3> DEFINE g == [n \in 0..m |-> IF n = m THEN Slot!OneHint(f[m-1], tried[m]) ELSE f[n]]
    <3>4. \A n \in 0..(m - 1) : f[n] = IF n = 0 THEN outcomes ELSE Slot!OneHint(f[n-1], tried[n])
      BY <3>3
    <3>5. \A n \in 0..m : g[n] = IF n = 0 THEN outcomes ELSE Slot!OneHint(g[n-1], tried[n])
      <4> TAKE n \in 0..m
      <4>1. CASE n = m
        BY <2>2, <2>4, <4>1
      <4>2. CASE n # m
        <5>1. n \in 0..(m - 1) /\ (n # 0 => n - 1 \in 0..m /\ n - 1 # m)
          BY <2>2, <4>2
        <5> QED BY <3>4, <4>2, <5>1
      <4> QED BY <4>1, <4>2
    <3>6. Steps(g, m)
      BY <3>5
    <3> HIDE DEF g
    <3> QED BY <2>2, <3>6
  <2> QED BY <2>3, <2>4
<1>3. PICK f : Steps(f, Len(tried))
  BY <1>1, <1>2
<1> HIDE DEF stuck
<1>4. Steps(Slot!Tried(outcomes, tried), Len(tried))
  BY <1>3 DEF Slot!Tried
<1> QED BY <1>4

LEMMA AppendIsSequence ==
    ASSUME NEW s, NEW x, IsSequence(s)
    PROVE  IsSequence(Append(s, x))
<1>1. PICK S : s \in Seq(S)
  BY DEF IsSequence
<1>2. s \in Seq(S \cup {x})
  BY <1>1
<1>3. Append(s, x) \in Seq(S \cup {x})
  BY <1>2
<1> QED BY <1>3 DEF IsSequence

\* A field that is shown in full is shown so with any table.
LEMMA FieldInFull ==
    ASSUME NEW field, NEW t, ~Slot!Unpack28(field, t).hashed
    PROVE  Slot!Unpack28(field, t) = Slot!Unpack28(field, <<>>)
<1>1. \A call : Slot!Bracketed(call).hashed = TRUE
  BY DEF Slot!Bracketed
<1>2. CASE field.kind = "hash"
  BY <1>1, <1>2, Zenon DEF Slot!Unpack28
<1>3. CASE field.kind # "hash"
  BY <1>3, Zenon DEF Slot!Unpack28
<1> QED BY <1>2, <1>3

LEMMA CallInFull ==
    ASSUME NEW field, NEW t, NEW flag, NEW i3,
           ~Slot!AddPortableSuffix(Slot!Unpack28(field, t), flag, i3).hashed
    PROVE  Slot!AddPortableSuffix(Slot!Unpack28(field, t), flag, i3)
             = Slot!AddPortableSuffix(Slot!Unpack28(field, <<>>), flag, i3)
<1> DEFINE shown == Slot!Unpack28(field, t)
<1>1. ~shown.hashed
  <2> HIDE DEF shown
  <2> QED BY Zenon DEF Slot!AddPortableSuffix, shown
<1> QED BY <1>1, FieldInFull, Zenon

InFull(text) == \A i \in DOMAIN text.calls : ~text.calls[i].hashed

\* Both calls of a text of two.
LEMMA TwoCalls ==
    ASSUME NEW a, NEW b, NEW tail
    PROVE  LET text == Slot!Text(<<a, b>>, tail)
           IN  InFull(text) => ~a.hashed /\ ~b.hashed
BY DEF Slot!Text, InFull

\* What a codeword is unpacked to.
LEMMA UnpackedFields ==
    ASSUME NEW got, NEW text, NEW t
    PROVE  /\ got = Slot!Unpacked(text, t) => got.ok /\ got.text = text
           /\ got = Slot!Failed(t) => ~got.ok
BY DEF Slot!Unpacked, Slot!Failed

\* A text in full is unpacked from its codeword with any table.
LEMMA InFullOfAnyTable ==
    ASSUME NEW payload, NEW t,
           Slot!Unpack77(payload, t).ok, InFull(Slot!Unpack77(payload, t).text)
    PROVE  /\ Slot!Unpack77(payload, <<>>).ok
           /\ Slot!Unpack77(payload, <<>>).text = Slot!Unpack77(payload, t).text
<1> DEFINE none == <<>>
<1> HIDE DEF none
<1>1. CASE payload.kind = "standard"
  <2> DEFINE call1(u) == Slot!AddPortableSuffix(Slot!Unpack28(payload.call1, u), payload.ipa,
                                                payload.i3)
             call2(u) == Slot!AddPortableSuffix(Slot!Unpack28(payload.call2, u), payload.ipb,
                                                payload.i3)
             saved(u) == IF call2(u).hashed THEN u ELSE Slot!Save(u, call2(u).call)
             text(u) == Slot!Text(<<call1(u), call2(u)>>, payload.tail)
             invalid == "invalid" \in {payload.call1.kind, payload.call2.kind}
             bad == \/ payload.tail = "bad grid"
                    \/ payload.call1.kind = "directed" /\ payload.tail \notin {"", "grid"}
  <2>1. \A u : Slot!Unpack77(payload, u) =
                 IF invalid THEN Slot!Failed(u)
                 ELSE IF bad THEN Slot!Failed(saved(u)) ELSE Slot!Unpacked(text(u), saved(u))
    BY <1>1, Zenon DEF Slot!Unpack77, Slot!UnpackStandard
  <2> HIDE DEF saved, invalid, bad
  <2>2. ~invalid /\ ~bad
    BY <2>1, UnpackedFields, Zenon
  <2>3. \A u : Slot!Unpack77(payload, u).ok /\ Slot!Unpack77(payload, u).text = text(u)
    <3> HIDE DEF text
    <3> TAKE u
    <3>1. Slot!Unpack77(payload, u) = Slot!Unpacked(text(u), saved(u))
      BY <2>1, <2>2, Zenon
    <3> QED BY <3>1, UnpackedFields
  <2>4. ~call1(t).hashed /\ ~call2(t).hashed
    <3>1. InFull(text(t))
      BY <2>3, Zenon
    <3> HIDE DEF call1, call2
    <3> QED BY <3>1, TwoCalls
  <2>5. call1(t) = call1(none) /\ call2(t) = call2(none)
    BY <2>4, CallInFull, Zenon DEF none
  <2>6. text(t) = text(none)
    <3> HIDE DEF call1, call2
    <3> QED BY <2>5, Zenon
  <2> QED BY <2>3, <2>6, Zenon DEF none
<1>2. CASE payload.kind = "type4"
  <2> DEFINE other(u) == Slot!Bracketed(Slot!Lookup12(u, payload.n12))
             own == Slot!Plain(payload.text)
             calls(u) == IF payload.iflip = 0 THEN <<other(u), own>> ELSE <<own, other(u)>>
             text(u) == IF payload.icq = 1 THEN Slot!Text(<<Slot!Plain(CQText), calls(u)[2]>>, "")
                        ELSE Slot!Text(calls(u), payload.tail)
  <2>1. \A u : Slot!Unpack77(payload, u) =
                 IF payload.text = NoCall THEN Slot!Failed(u)
                 ELSE Slot!Unpacked(text(u), Slot!Save(u, payload.text))
    <3>1. "type4" # "standard"
      OBVIOUS
    <3> QED BY <1>2, <3>1, Zenon DEF Slot!Unpack77, Slot!UnpackType4
  <2> HIDE DEF text
  <2>2. payload.text # NoCall
    BY <2>1, UnpackedFields, Zenon
  <2>3. \A u : Slot!Unpack77(payload, u).ok /\ Slot!Unpack77(payload, u).text = text(u)
    <3> HIDE DEF text
    <3> TAKE u
    <3>1. Slot!Unpack77(payload, u) = Slot!Unpacked(text(u), Slot!Save(u, payload.text))
      BY <2>1, <2>2, Zenon
    <3> QED BY <3>1, UnpackedFields
  <2>4. InFull(text(t))
    BY <2>3, Zenon
  <2>5. other(t).hashed = TRUE
    BY DEF Slot!Bracketed
  <2> DEFINE cq == Slot!Plain(CQText)
  <2> HIDE DEF other, own, cq
  <2>6. payload.icq = 1 /\ payload.iflip = 0
    <3>1. CASE payload.icq # 1
      <4>1. text(t) = Slot!Text(<<other(t), own>>, payload.tail)
            \/ text(t) = Slot!Text(<<own, other(t)>>, payload.tail)
        BY <3>1, Zenon DEF text
      <4> QED BY <2>4, <2>5, <4>1, TwoCalls
    <3>2. CASE payload.icq = 1 /\ payload.iflip # 0
      <4>1. text(t) = Slot!Text(<<cq, <<own, other(t)>>[2]>>, "")
        BY <3>2, Zenon DEF text, cq
      <4>2. <<own, other(t)>>[2] = other(t)
        OBVIOUS
      <4> QED BY <2>4, <2>5, <4>1, <4>2, TwoCalls
    <3> QED BY <3>1, <3>2
  <2>7. \A u : text(u) = Slot!Text(<<cq, own>>, "")
    <3> TAKE u
    <3>1. text(u) = Slot!Text(<<cq, <<other(u), own>>[2]>>, "")
      BY <2>6, Zenon DEF text, cq
    <3>2. <<other(u), own>>[2] = own
      OBVIOUS
    <3> QED BY <3>1, <3>2, Zenon
  <2>8. text(t) = text(none)
    <3> DEFINE same == Slot!Text(<<cq, own>>, "")
    <3> HIDE DEF same
    <3>1. text(t) = same /\ text(none) = same
      BY <2>7 DEF same
    <3> QED BY <3>1
  <2> QED BY <2>3, <2>8, Zenon DEF none
<1>3. CASE payload.kind = "field day"
  <2> DEFINE call1(u) == Slot!Unpack28(payload.call1, u)
             call2(u) == Slot!Unpack28(payload.call2, u)
             tail == IF payload.ir = 1 THEN "R exchange" ELSE "exchange"
             text(u) == Slot!Text(<<call1(u), call2(u)>>, tail)
             refused == \/ ~payload.section
                        \/ {payload.call1.kind, payload.call2.kind} \cap {"invalid", "token"} # {}
  <2>1. \A u : Slot!Unpack77(payload, u) =
                 IF refused THEN Slot!Failed(u) ELSE Slot!Unpacked(text(u), u)
    <3>1. "field day" # "standard" /\ "field day" # "type4"
      BY Zenon
    <3> QED BY <1>3, <3>1, Zenon DEF Slot!Unpack77, Slot!UnpackFieldDay
  <2> HIDE DEF refused, tail
  <2>2. ~refused
    BY <2>1, UnpackedFields, Zenon
  <2>3. \A u : Slot!Unpack77(payload, u).ok /\ Slot!Unpack77(payload, u).text = text(u)
    <3> HIDE DEF text
    <3> TAKE u
    <3>1. Slot!Unpack77(payload, u) = Slot!Unpacked(text(u), u)
      BY <2>1, <2>2, Zenon
    <3> QED BY <3>1, UnpackedFields
  <2>4. ~call1(t).hashed /\ ~call2(t).hashed
    <3>1. InFull(text(t))
      BY <2>3, Zenon
    <3> HIDE DEF call1, call2
    <3> QED BY <3>1, TwoCalls
  <2>5. call1(t) = call1(none) /\ call2(t) = call2(none)
    BY <2>4, FieldInFull, Zenon DEF none
  <2>6. text(t) = text(none)
    <3> HIDE DEF call1, call2
    <3> QED BY <2>5, Zenon
  <2> QED BY <2>3, <2>6, Zenon DEF none
<1>4. CASE payload.kind = "free text"
  <2> DEFINE text == Slot!Text(<<>>, payload.tail)
  <2>1. \A u : Slot!Unpack77(payload, u) =
                 IF payload.tail \in Slot!FreeTails THEN Slot!Unpacked(text, u)
                 ELSE Slot!Failed(u)
    <3>1. "free text" # "standard" /\ "free text" # "type4" /\ "free text" # "field day"
      BY Zenon
    <3> QED BY <1>4, <3>1, Zenon DEF Slot!Unpack77
  <2> HIDE DEF text
  <2>2. payload.tail \in Slot!FreeTails
    BY <2>1, UnpackedFields, Zenon
  <2>3. \A u : Slot!Unpack77(payload, u).ok /\ Slot!Unpack77(payload, u).text = text
    <3> TAKE u
    <3>1. Slot!Unpack77(payload, u) = Slot!Unpacked(text, u)
      BY <2>1, <2>2, Zenon
    <3> QED BY <3>1, UnpackedFields
  <2> QED BY <2>3, Zenon
<1>5. CASE payload.kind \notin {"standard", "type4", "field day", "free text"}
  <2>1. Slot!Unpack77(payload, t) = Slot!Failed(t)
    BY <1>5, Zenon DEF Slot!Unpack77
  <2> QED BY <2>1, UnpackedFields, Zenon
<1> QED BY <1>1, <1>2, <1>3, <1>4, <1>5, Zenon

\* What is unpacked from a codeword on the air is no guess.
LEMMA UnpackedNotGuessed ==
    ASSUME NEW payload \in Payloads, NEW t, Slot!Unpack77(payload, t).ok
    PROVE  ~Guessed(Slot!Unpack77(payload, t).text)
<1> DEFINE text == Slot!Unpack77(payload, t).text
<1>1. SUFFICES ASSUME Guessed(text) PROVE FALSE
  OBVIOUS
<1>2. InFull(text)
  BY <1>1, Zenon DEF Guessed, InFull
<1>3. Slot!Unpack77(payload, <<>>).ok /\ Slot!Unpack77(payload, <<>>).text = text
  BY <1>2, InFullOfAnyTable
<1> QED BY <1>1, <1>3, Zenon DEF Guessed

\* After n hints a text that is a guess is of one of them, and there are no more
\* than n such texts.
Outcome(o, tried, n) ==
    /\ "texts" \in DOMAIN o /\ IsSequence(o.texts)
    /\ IsFiniteSet(Guesses(o.texts)) /\ Cardinality(Guesses(o.texts)) <= n
    /\ \A i \in Guesses(o.texts) : \E k \in 1..n : o.texts[i] \in tried[k]

\* One more text, whether a guess or not.
LEMMA GuessesGrow ==
    ASSUME NEW s, IsSequence(s), NEW x
    PROVE  /\ Guesses(Append(s, x)) \subseteq Guesses(s) \cup {Len(s) + 1}
           /\ ~Guessed(x) => Guesses(Append(s, x)) = Guesses(s)
           /\ \A i \in Guesses(s) : Append(s, x)[i] = s[i]
           /\ Append(s, x)[Len(s) + 1] = x
<1>1. PICK S : s \in Seq(S)
  BY DEF IsSequence
<1>2. /\ DOMAIN s = 1..Len(s) /\ Len(s) \in Nat /\ DOMAIN Append(s, x) = 1..(Len(s) + 1)
      /\ \A i \in 1..Len(s) : Append(s, x)[i] = s[i]
      /\ Append(s, x)[Len(s) + 1] = x
  <2>1. s \in Seq(S \cup {x})
    BY <1>1
  <2> QED BY <2>1
<1>3. \A i : i \in 1..(Len(s) + 1) <=> i \in 1..Len(s) \/ i = Len(s) + 1
  BY <1>2
<1> HIDE DEF Guessed
<1> QED BY <1>2, <1>3, Zenon DEF Guesses

\* Every outcome of a decode has a sequence of texts, the guesses among them each
\* of a hint of its own.
LEMMA ResultsGuess ==
    ASSUME NEW t, NEW tried, Len(tried) \in Nat, NEW r \in Slot!Results(t, tried)
    PROVE  Outcome(r, tried, Len(tried))
<1> DEFINE Good(outcomes, n) == \A o \in outcomes : Outcome(o, tried, n)
           C == Slot!Reached(t)
           H == Slot!Tried(C[MaxUnpacked], tried)
           badC == {n \in 0..MaxUnpacked : ~Good(C[n], 0)}
           badH == {n \in 0..Len(tried) : ~Good(H[n], n)}
<1>1. MaxUnpacked \in Nat
  BY DecoderAssumption DEF DecoderAssumption
<1>2. \A n \in 0..MaxUnpacked :
        C[n] = IF n = 0 THEN {[table |-> t, texts |-> <<>>]} ELSE Slot!OneCodeword(C[n-1])
  BY CodewordSteps
<1>3. \A n \in 0..Len(tried) :
        H[n] = IF n = 0 THEN C[MaxUnpacked] ELSE Slot!OneHint(H[n-1], tried[n])
  BY HintSteps
<1>4. r \in H[Len(tried)]
  BY DEF Slot!Results, Slot!AfterHints, Slot!AfterCodewords
<1> HIDE DEF C, H
<1>5. ASSUME NEW outcomes, Good(outcomes, 0)
      PROVE  Good(Slot!OneCodeword(outcomes), 0)
  <2> SUFFICES ASSUME NEW o \in Slot!OneCodeword(outcomes)
               PROVE  Outcome(o, tried, 0)
    OBVIOUS
  <2>1. CASE o \in outcomes
    BY <1>5, <2>1
  <2>2. CASE \E payload \in Payloads, q \in outcomes : o = Slot!Unpacking(payload, q)
    <3>1. PICK payload \in Payloads, q \in outcomes : o = Slot!Unpacking(payload, q)
      BY <2>2
    <3> DEFINE got == Slot!Unpack77(payload, q.table)
               text == got.text
               with == Slot!Unpacking(payload, q)
    <3>2. /\ with.texts = q.texts \/ (got.ok /\ with.texts = Append(q.texts, text))
          /\ "texts" \in DOMAIN with
      BY DEF Slot!Unpacking
    <3>3. got.ok => ~Guessed(text)
      BY UnpackedNotGuessed
    <3> HIDE DEF got, with
    <3>4. o = with
      BY <3>1 DEF with
    <3>5. Outcome(q, tried, 0)
      BY <1>5
    <3>6. CASE with.texts = q.texts
      BY <3>2, <3>4, <3>5, <3>6, Zenon DEF Outcome
    <3>7. CASE got.ok /\ with.texts = Append(q.texts, text)
      <4>1. IsSequence(q.texts)
        BY <3>5 DEF Outcome
      <4> DEFINE s == q.texts
                 w == Append(s, text)
      <4> HIDE DEF s, text
      <4>2. IsSequence(w)
        BY <4>1, AppendIsSequence DEF s
      <4>3. ~Guessed(text)
        BY <3>3, <3>7, Zenon DEF text
      <4>4. Guesses(w) = Guesses(s) /\ \A i \in Guesses(s) : w[i] = s[i]
        <5> HIDE DEF Guessed
        <5> QED BY <4>1, <4>3, GuessesGrow DEF s
      <4>5. with.texts = w
        BY <3>7, Zenon DEF s, text
      <4> HIDE DEF w
      <4> QED BY <3>2, <3>4, <3>5, <4>2, <4>4, <4>5, Zenon DEF Outcome, s
    <3> QED BY <3>2, <3>6, <3>7
  <2> QED BY <2>1, <2>2 DEF Slot!OneCodeword
<1>6. ASSUME NEW n \in 1..Len(tried), NEW outcomes, Good(outcomes, n - 1)
      PROVE  Good(Slot!OneHint(outcomes, tried[n]), n)
  <2> SUFFICES ASSUME NEW o \in Slot!OneHint(outcomes, tried[n])
               PROVE  Outcome(o, tried, n)
    OBVIOUS
  <2>1. n \in 1..n /\ n - 1 \in Nat /\ n \in Nat /\ \A k \in 1..(n - 1) : k \in 1..n
    OBVIOUS
  <2>2. CASE o \in outcomes
    <3>1. Outcome(o, tried, n - 1)
      BY <1>6, <2>2
    <3>2. Cardinality(Guesses(o.texts)) \in Nat /\ Cardinality(Guesses(o.texts)) <= n - 1
      BY <3>1, FS_CardinalityType, Zenon DEF Outcome
    <3>3. Cardinality(Guesses(o.texts)) <= n
      BY <2>1, <3>2
    <3> QED BY <2>1, <3>1, <3>3, Zenon DEF Outcome
  <2>3. CASE \E q \in outcomes : \E text \in tried[n] :
               o = [q EXCEPT !.texts = Append(@, text)]
    <3>1. PICK q \in outcomes : \E text \in tried[n] : o = [q EXCEPT !.texts = Append(@, text)]
      BY <2>3
    <3>2. PICK text \in tried[n] : o = [q EXCEPT !.texts = Append(q.texts, text)]
      BY <3>1
    <3>3. Outcome(q, tried, n - 1)
      BY <1>6
    <3>4. "texts" \in DOMAIN q /\ IsSequence(q.texts)
      BY <3>3 DEF Outcome
    <3> DEFINE w == Append(q.texts, text)
               old == Guesses(q.texts)
               new == Guesses(w)
               last == Len(q.texts) + 1
    <3>5. o = [q EXCEPT !.texts = w] /\ IsSequence(w)
      BY <3>2, <3>4, AppendIsSequence
    <3>6. /\ new \subseteq old \cup {last} /\ w[last] = text
          /\ \A i \in old : w[i] = q.texts[i]
      BY <3>4, GuessesGrow, Zenon
    <3> HIDE DEF w, old, new, last
    <3>7. o.texts = w /\ "texts" \in DOMAIN o
      BY <3>4, <3>5
    <3>8. /\ IsFiniteSet(old) /\ Cardinality(old) <= n - 1
          /\ \A i \in old : \E k \in 1..(n - 1) : q.texts[i] \in tried[k]
      BY <3>3, Zenon DEF Outcome, old
    <3>9. IsFiniteSet(new) /\ Cardinality(new) <= n
      <4> DEFINE all == old \cup {last}
                 size == Cardinality(old)
      <4>1. IsFiniteSet(old)
        BY <3>8
      <4>2. size \in Nat /\ size <= n - 1
        BY <3>8, <4>1, FS_CardinalityType
      <4>3. IsFiniteSet(all) /\ (Cardinality(all) = size \/ Cardinality(all) = size + 1)
        BY <4>1, FS_AddElement, Zenon
      <4> HIDE DEF all, size
      <4>4. new \subseteq all
        BY <3>6 DEF all
      <4>5. IsFiniteSet(new) /\ Cardinality(new) <= Cardinality(all)
        BY <4>3, <4>4, FS_Subset
      <4>6. Cardinality(new) \in Nat
        BY <4>5, FS_CardinalityType
      <4> QED BY <2>1, <4>2, <4>3, <4>5, <4>6
    <3>10. \A i \in new : \E k \in 1..n : w[i] \in tried[k]
      BY <2>1, <3>6, <3>8, Zenon
    <3> QED BY <3>5, <3>7, <3>9, <3>10, Zenon DEF Outcome, new
  <2> QED BY <2>2, <2>3 DEF Slot!OneHint
<1>7. badC = {}
  <2> SUFFICES ASSUME badC # {} PROVE FALSE
    OBVIOUS
  <2>1. badC \subseteq Nat
    BY <1>1
  <2>2. PICK n \in badC : \A m \in badC : n <= m
    <3> HIDE DEF badC
    <3> QED BY <2>1, LeastNat
  <2>3. CASE n = 0
    <3> DEFINE first == [table |-> t, texts |-> <<>>]
               none == <<>>
    <3>1. IsSequence(none) /\ Guesses(none) = {} /\ Cardinality({}) = 0 /\ IsFiniteSet({})
      <4>1. <<>> \in Seq({})
        OBVIOUS
      <4>2. Guesses(none) = {}
        BY DEF Guesses
      <4> QED BY <4>1, <4>2, FS_EmptySet DEF IsSequence
    <3>2. first.texts = none /\ "texts" \in DOMAIN first
      OBVIOUS
    <3>3. C[n] = {first}
      BY <1>2, <2>2, <2>3
    <3> HIDE DEF first, none
    <3>4. Outcome(first, tried, 0)
      <4>1. 0 <= 0
        OBVIOUS
      <4> QED BY <3>1, <3>2, <4>1, Zenon DEF Outcome
    <3>5. Good(C[n], 0)
      BY <3>3, <3>4
    <3> QED BY <2>2, <3>5
  <2>4. CASE n # 0
    <3>1. n - 1 \in 0..MaxUnpacked /\ ~(n <= n - 1) /\ n \in 0..MaxUnpacked
      BY <1>1, <2>2, <2>4
    <3>2. Good(C[n-1], 0) /\ C[n] = Slot!OneCodeword(C[n-1])
      BY <1>2, <2>2, <2>4, <3>1
    <3>3. Good(C[n], 0)
      BY <1>5, <3>2
    <3> QED BY <2>2, <3>3
  <2> QED BY <2>3, <2>4
<1>8. badH = {}
  <2> SUFFICES ASSUME badH # {} PROVE FALSE
    OBVIOUS
  <2>1. badH \subseteq Nat
    OBVIOUS
  <2>2. PICK n \in badH : \A m \in badH : n <= m
    <3> HIDE DEF badH
    <3> QED BY <2>1, LeastNat
  <2>3. CASE n = 0
    BY <1>1, <1>3, <1>7, <2>2, <2>3
  <2>4. CASE n # 0
    <3>1. n - 1 \in 0..Len(tried) /\ ~(n <= n - 1) /\ n \in 1..Len(tried)
      BY <2>2, <2>4
    <3>2. Good(H[n-1], n - 1) /\ H[n] = Slot!OneHint(H[n-1], tried[n])
      BY <1>3, <2>2, <2>4, <3>1
    <3>3. Good(H[n], n)
      BY <1>6, <3>1, <3>2
    <3> QED BY <2>2, <3>3
  <2> QED BY <2>3, <2>4
<1> QED BY <1>4, <1>8
------------------------------------------------------------------------------
\* What a list of hints is worth, wherever it is kept.
WorthyHints == [call1 : StandardCalls \cup DirectedCQ \cup {CQText}, call2 : StandardCalls,
                grid : {"", "grid", "RR73"}]

Worth(hints) == hints \in Seq(WorthyHints) /\ IsInjective(hints)

LEMMA SetToSeqSmall == SetToSeq({}) = <<>> /\ \A h : SetToSeq({h}) = <<h>>
<1>1. SetToSeq({}) = <<>>
  <2>1. Cardinality({}) = 0
    BY FS_EmptySet
  <2>2. \A f \in [1..0 -> {}] : f = <<>>
    OBVIOUS
  <2>3. <<>> \in [1..0 -> {}] /\ IsInjective(<<>>)
    BY DEF IsInjective
  <2> QED BY <2>1, <2>2, <2>3 DEF SetToSeq
<1>2. ASSUME NEW h PROVE SetToSeq({h}) = <<h>>
  <2>1. Cardinality({h}) = 1
    BY FS_Singleton
  <2>2. \A f \in [1..1 -> {h}] : f = <<h>>
    OBVIOUS
  <2>3. <<h>> \in [1..1 -> {h}] /\ IsInjective(<<h>>)
    BY DEF IsInjective
  <2> QED BY <2>1, <2>2, <2>3 DEF SetToSeq
<1> QED BY <1>1, <1>2

\* A message gives one hint at most, and a new one is added at the end.
LEMMA WithHintsOfKeepsWorth ==
    ASSUME NEW text, NEW hints, Worth(hints)
    PROVE  Worth(WithHintsOf(text, hints))
<1> DEFINE new == ParseA7Hint(text) \ Range(hints)
<1>1. hints \in Seq(WorthyHints) /\ IsInjective(hints)
  BY DEF Worth
<1>2. new = {} \/ \E h \in WorthyHints : new = {h} /\ h \notin Range(hints)
  <2> DEFINE h == [call1 |-> text.calls[1].call, call2 |-> text.calls[2].call,
                   grid |-> GridOf(text.tail)]
  <2>1. ParseA7Hint(text) \in {{}, {h}}
    BY DEF ParseA7Hint
  <2>2. ASSUME ParseA7Hint(text) # {}
        PROVE  h \in WorthyHints
    <3>1. /\ text.calls[2].call \in StandardCalls
          /\ text.calls[1].call \in StandardCalls \cup {CQText} \cup DirectedCQ
      BY <2>2 DEF ParseA7Hint
    <3>2. GridOf(text.tail) \in {"", "grid", "RR73"}
      BY Zenon DEF GridOf
    <3> QED BY <3>1, <3>2 DEF WorthyHints
  <2> HIDE DEF h
  <2> QED BY <2>1, <2>2
<1> HIDE DEF new
<1>3. WithHintsOf(text, hints) = hints \o SetToSeq(new)
  BY DEF WithHintsOf, new
<1>4. CASE new = {}
  <2>1. SetToSeq({}) = <<>>
    BY SetToSeqSmall
  <2>2. hints \o <<>> = hints
    BY <1>1, ConcatEmptySeq
  <2> QED BY <1>3, <1>4, <2>1, <2>2
<1>5. CASE \E h \in WorthyHints : new = {h} /\ h \notin Range(hints)
  <2>1. PICK h \in WorthyHints : new = {h} /\ h \notin Range(hints)
    BY <1>5
  <2>2. SetToSeq({h}) = <<h>>
    BY SetToSeqSmall
  <2> DEFINE s == hints \o <<h>>
  <2>3. /\ s \in Seq(WorthyHints) /\ Len(s) = Len(hints) + 1
        /\ \A i \in 1..(Len(hints) + 1) : s[i] = IF i <= Len(hints) THEN hints[i] ELSE h
    BY <1>1, ConcatProperties
  <2>4. DOMAIN s = 1..(Len(hints) + 1) /\ DOMAIN hints = 1..Len(hints) /\ Len(hints) \in Nat
    BY <1>1, <2>3
  <2> HIDE DEF s
  <2>5. \A i \in 1..Len(hints) : hints[i] # h
    BY <2>1, <2>4 DEF Range
  <2>6. ASSUME NEW i \in DOMAIN s, NEW j \in DOMAIN s, s[i] = s[j]
        PROVE  i = j
    <3>1. i \in 1..Len(hints) /\ j \in 1..Len(hints) => i = j
      BY <1>1, <2>3, <2>4, <2>6 DEF IsInjective
    <3>2. i \in 1..Len(hints) \/ i = Len(hints) + 1
      BY <2>4
    <3>3. j \in 1..Len(hints) \/ j = Len(hints) + 1
      BY <2>4
    <3> QED BY <2>3, <2>4, <2>5, <2>6, <3>1, <3>2, <3>3
  <2> QED BY <1>3, <2>1, <2>2, <2>3, <2>6 DEF Worth, IsInjective, s
<1> QED BY <1>2, <1>4, <1>5

LEMMA WithHintsOfAdds ==
    ASSUME NEW text, NEW hints, Worth(hints)
    PROVE  LET more == WithHintsOf(text, hints)
           IN  \A k \in DOMAIN more : \/ (k \in DOMAIN hints /\ more[k] = hints[k])
                                       \/ more[k] \in ParseA7Hint(text) \ Range(hints)
<1> DEFINE new == ParseA7Hint(text) \ Range(hints)
           h == [call1 |-> text.calls[1].call, call2 |-> text.calls[2].call,
                 grid |-> GridOf(text.tail)]
<1>1. hints \in Seq(WorthyHints)
  BY DEF Worth
<1>2. new = {} \/ new = {h}
  BY DEF ParseA7Hint
<1> HIDE DEF new, h
<1>3. WithHintsOf(text, hints) = hints \o SetToSeq(new)
  BY DEF WithHintsOf, new
<1>4. \E T : /\ hints \in Seq(T) /\ SetToSeq(new) \in Seq(T)
             /\ \A k \in 1..Len(SetToSeq(new)) : SetToSeq(new)[k] \in new
  <2>1. CASE new = {}
    <3>1. SetToSeq(new) = <<>>
      BY <2>1, SetToSeqSmall
    <3>2. <<>> \in Seq(WorthyHints) /\ Len(<<>>) = 0 /\ 1..0 = {}
      OBVIOUS
    <3> QED BY <1>1, <3>1, <3>2, Zenon
  <2>2. CASE new = {h}
    <3> DEFINE one == <<h>>
               T == WorthyHints \cup {h}
    <3>1. SetToSeq(new) = one
      BY <2>2, SetToSeqSmall
    <3>2. hints \in Seq(T) /\ one \in Seq(T)
          /\ \A k \in 1..Len(one) : one[k] = h
      BY <1>1
    <3> HIDE DEF one, T
    <3> QED BY <2>2, <3>1, <3>2
  <2> QED BY <1>2, <2>1, <2>2
<1> DEFINE added == SetToSeq(new)
           s == hints \o added
<1> HIDE DEF added
<1>5. /\ DOMAIN s = 1..(Len(hints) + Len(added)) /\ DOMAIN hints = 1..Len(hints)
      /\ Len(hints) \in Nat /\ Len(added) \in Nat
      /\ \A k \in 1..(Len(hints) + Len(added)) :
           s[k] = IF k <= Len(hints) THEN hints[k] ELSE added[k - Len(hints)]
  <2>1. PICK T : hints \in Seq(T) /\ added \in Seq(T)
    BY <1>4 DEF added
  <2> QED BY <2>1, ConcatProperties, LenProperties
<1>6. ASSUME NEW k \in DOMAIN s
      PROVE  (k \in DOMAIN hints /\ s[k] = hints[k]) \/ s[k] \in new
  <2>1. CASE k <= Len(hints)
    BY <1>5, <2>1
  <2>2. CASE ~(k <= Len(hints))
    <3>1. k - Len(hints) \in 1..Len(added) /\ s[k] = added[k - Len(hints)]
      BY <1>5, <2>2
    <3> QED BY <1>4, <3>1 DEF added
  <2> QED BY <2>1, <2>2
<1> HIDE DEF s
<1> QED BY <1>3, <1>6, Zenon DEF s, added, new

\* Induction up to a number.
LEMMA UpTo ==
    ASSUME NEW n \in Nat, NEW G, 0 \in G, \A k \in 0..(n - 1) : k \in G => k + 1 \in G
    PROVE  \A k \in 0..n : k \in G
<1> DEFINE T == {k \in 0..n : k \notin G}
<1> SUFFICES ASSUME T # {} PROVE FALSE
  OBVIOUS
<1>1. T \subseteq Nat
  OBVIOUS
<1>2. PICK k \in T : \A i \in T : k <= i
  <2> HIDE DEF T
  <2> QED BY <1>1, LeastNat
<1>3. k \in 0..n /\ k \notin G /\ k # 0
  OBVIOUS
<1>4. k - 1 \in 0..(n - 1) /\ k - 1 \in 0..n /\ ~(k <= k - 1) /\ k = (k - 1) + 1
  BY <1>3
<1>5. k - 1 \in G
  BY <1>2, <1>4
<1>6. (k - 1) + 1 \in G
  BY <1>4, <1>5
<1> QED BY <1>3, <1>4, <1>6, Zenon

LEMMA CollectedAreWorth ==
    ASSUME NEW s, IsSequence(s)
    PROVE  Worth(CollectA7Hints(s))
<1>1. PICK S : s \in Seq(S)
  BY DEF IsSequence
<1>2. PICK c : /\ c = [n \in 0..Len(s) |-> IF n = 0 THEN <<>> ELSE WithHintsOf(s[n], c[n-1])]
               /\ CollectA7Hints(s) = c[Len(s)]
  BY <1>1, CollectSteps
<1>3. Len(s) \in Nat
  BY <1>1
<1>4. \A n \in 0..Len(s) : c[n] = IF n = 0 THEN <<>> ELSE WithHintsOf(s[n], c[n-1])
  BY <1>2
<1> DEFINE bad == {n \in 0..Len(s) : ~Worth(c[n])}
<1>5. bad = {}
  <2> SUFFICES ASSUME bad # {} PROVE FALSE
    OBVIOUS
  <2>1. bad \subseteq Nat
    BY <1>3
  <2>2. PICK n \in bad : \A m \in bad : n <= m
    BY <2>1, LeastNat
  <2>3. CASE n = 0
    <3>1. <<>> \in Seq(WorthyHints) /\ DOMAIN <<>> = {}
      OBVIOUS
    <3>2. Worth(<<>>)
      BY <3>1 DEF Worth, IsInjective
    <3>3. c[n] = <<>>
      BY <1>3, <1>4, <2>3
    <3> QED BY <2>2, <3>2, <3>3
  <2>4. CASE n # 0
    <3>1. n - 1 \in 0..Len(s) /\ ~(n <= n - 1) /\ n \in 0..Len(s)
      BY <1>3, <2>2, <2>4
    <3>2. Worth(c[n-1]) /\ c[n] = WithHintsOf(s[n], c[n-1])
      BY <1>4, <2>2, <2>4, <3>1
    <3>3. \A x, h : Worth(h) => Worth(WithHintsOf(x, h))
      BY WithHintsOfKeepsWorth
    <3>4. Worth(c[n])
      BY <3>2, <3>3
    <3> QED BY <2>2, <3>4
  <2> QED BY <2>3, <2>4
<1>6. \A n \in 0..Len(s) : Worth(c[n])
  BY <1>5
<1>7. Len(s) \in 0..Len(s)
  BY <1>3
<1> QED BY <1>2, <1>6, <1>7

\* What is collected is of one of the messages.
LEMMA CollectedHaveSource ==
    ASSUME NEW s, IsSequence(s), NEW i \in DOMAIN CollectA7Hints(s)
    PROVE  \E j \in DOMAIN s : CollectA7Hints(s)[i] \in ParseA7Hint(s[j])
<1>1. PICK S : s \in Seq(S)
  BY DEF IsSequence
<1>2. PICK c : /\ c = [n \in 0..Len(s) |-> IF n = 0 THEN <<>> ELSE WithHintsOf(s[n], c[n-1])]
               /\ CollectA7Hints(s) = c[Len(s)]
  BY <1>1, CollectSteps
<1>3. Len(s) \in Nat /\ DOMAIN s = 1..Len(s)
  BY <1>1
<1>4. \A n \in 0..Len(s) : c[n] = IF n = 0 THEN <<>> ELSE WithHintsOf(s[n], c[n-1])
  BY <1>2
<1> DEFINE Sourced(h) == \A k \in DOMAIN h : \E j \in DOMAIN s : h[k] \in ParseA7Hint(s[j])
           G == {n \in 0..Len(s) : Worth(c[n]) /\ Sourced(c[n])}
<1>5. 0 \in G
  <2> DEFINE none == <<>>
  <2>1. none \in Seq(WorthyHints) /\ DOMAIN none = {}
    OBVIOUS
  <2>2. 0 \in 0..Len(s) /\ c[0] = none
    BY <1>3, <1>4
  <2> HIDE DEF none
  <2>3. Worth(none) /\ Sourced(none)
    BY <2>1 DEF Worth, IsInjective
  <2> QED BY <2>2, <2>3
<1>6. ASSUME NEW n \in 0..(Len(s) - 1), n \in G PROVE n + 1 \in G
  <2> DEFINE old == c[n]
             m == n + 1
             new == ParseA7Hint(s[m]) \ Range(old)
             added == SetToSeq(new)
  <2>1. m \in 0..Len(s) /\ m \in DOMAIN s /\ m # 0 /\ m - 1 = n
    BY <1>3
  <2>2. Worth(old) /\ Sourced(old)
    BY <1>6
  <2>3. c[m] = WithHintsOf(s[m], old)
    BY <1>4, <2>1
  <2> HIDE DEF old, m
  <2>4. Worth(c[m])
    BY <2>2, <2>3, WithHintsOfKeepsWorth
  <2>5. \A k \in DOMAIN c[m] : \/ k \in DOMAIN old /\ c[m][k] = old[k]
                               \/ c[m][k] \in new
    BY <2>2, <2>3, WithHintsOfAdds
  <2>6. Sourced(c[m])
    BY <2>1, <2>2, <2>5, Zenon
  <2> QED BY <2>1, <2>4, <2>6 DEF m
<1> HIDE DEF G
<1>7. \A n \in 0..Len(s) : n \in G
  BY <1>3, <1>5, <1>6, UpTo
<1>8. Len(s) \in G
  BY <1>3, <1>7
<1> QED BY <1>2, <1>8 DEF G

\* The hints kept of either cadence are worth trying, and what was heard is known.
HistoryWorth ==
    /\ seq \in {0, 1} /\ DOMAIN history = {0, 1}
    /\ \A p \in {0, 1} : Worth(history[p])
    /\ IsSequence(heard[1]) /\ IsSequence(heard[2])

\* As many hints are tried as are kept, or none.
LEMMA HintsTriedAre ==
    ASSUME HistoryWorth
    PROVE  /\ Len(HintsTried) \in Nat /\ Len(history[seq]) \in Nat
           /\ Len(HintsTried) <= Len(history[seq])
           /\ \A k \in 1..Len(HintsTried) :
                k \in DOMAIN history[seq] /\ HintsTried[k] = A7Texts(history[seq][k])
<1>1. history[seq] \in Seq(WorthyHints)
  BY DEF HistoryWorth, Worth
<1>2. DOMAIN history[seq] = 1..Len(history[seq]) /\ Len(history[seq]) \in Nat
  BY <1>1
<1> DEFINE n == Len(history[seq])
           tried == [i \in 1..n |-> A7Texts(history[seq][i])]
<1>3. HintsTried = tried \/ HintsTried = <<>>
  BY <1>2 DEF HintsTried
<1>4. tried \in [1..n -> {A7Texts(history[seq][i]) : i \in 1..n}] /\ n \in Nat
  BY <1>2
<1>5. \A k \in 1..n : tried[k] = A7Texts(history[seq][k])
  OBVIOUS
<1> HIDE DEF tried, n
<1>6. Len(tried) = n
  BY <1>4, FunctionIsSequence
<1>7. CASE HintsTried = tried
  <2>1. n <= n
    BY <1>4
  <2> QED BY <1>2, <1>4, <1>5, <1>6, <1>7, <2>1, Zenon DEF n
<1>8. CASE HintsTried = <<>>
  <2>1. Len(<<>>) = 0 /\ 0 \in Nat /\ 0 <= n /\ \A k \in 1..0 : FALSE
    BY <1>4
  <2> QED BY <1>4, <1>8, <2>1, Zenon DEF n
<1> QED BY <1>3, <1>7, <1>8

LEMMA HistoryKept == Spec => []HistoryWorth
<1>1. Init => HistoryWorth
  <2>1. <<>> \in Seq(WorthyHints) /\ DOMAIN <<>> = {}
    OBVIOUS
  <2>2. Worth(<<>>) /\ IsSequence(<<>>)
    BY <2>1 DEF Worth, IsInjective, IsSequence
  <2>3. Init => heard[1] = <<>> /\ heard[2] = <<>>
    BY DEF Init
  <2> QED BY <2>2, <2>3 DEF Init, HistoryWorth
<1>2. HistoryWorth /\ [Next]_vars => HistoryWorth'
  <2> SUFFICES ASSUME HistoryWorth, [Next]_vars PROVE HistoryWorth'
    OBVIOUS
  <2>1. CASE DecodeMessages
    <3>1. PICK r \in Slot!Results(calls22, HintsTried) :
            /\ history' = [history EXCEPT ![seq] = CollectA7Hints(r.texts)]
            /\ heard' = <<r.texts, heard[1]>>
      BY <2>1 DEF DecodeMessages
    <3>2. Len(HintsTried) \in Nat
      BY HintsTriedAre
    <3>3. IsSequence(r.texts)
      BY <3>2, ResultsGuess DEF Outcome
    <3>4. Worth(CollectA7Hints(r.texts))
      BY <3>3, CollectedAreWorth
    <3>5. seq' \in {0, 1} /\ seq' = 1 - seq
      BY <2>1 DEF DecodeMessages, HistoryWorth
    <3>6. IsSequence(heard'[1]) /\ IsSequence(heard'[2])
      BY <3>1, <3>3 DEF HistoryWorth
    <3> QED BY <3>1, <3>4, <3>5, <3>6 DEF HistoryWorth
  <2>2. CASE CheckedRejects
    <3>1. UNCHANGED <<seq, history>> /\ heard' = <<<<>>, heard[1]>>
      BY <2>2 DEF CheckedRejects
    <3>2. IsSequence(<<>>)
      <4>1. <<>> \in Seq({})
        OBVIOUS
      <4> QED BY <4>1 DEF IsSequence
    <3>3. heard'[1] = <<>> /\ heard'[2] = heard[1]
      BY <3>1
    <3> QED BY <3>1, <3>2, <3>3 DEF HistoryWorth
  <2>3. CASE UNCHANGED <<seq, history, heard>>
    BY <2>3 DEF HistoryWorth
  <2> QED BY <2>1, <2>2, <2>3 DEF Next, DecodeCall, Permissive, CheckedDecodes,
                            SetAPCallHints, vars
<1> QED BY <1>1, <1>2, PTL DEF Spec

\* What a decode that goes on to the other cadence returns, it unpacked or guessed.
LEMMA DecodeGuesses ==
    ASSUME HistoryWorth, [Next]_vars, seq' # seq
    PROVE  rejected' = rejected /\ Outcome([texts |-> heard'[1]], HintsTried, Len(HintsTried))
<1>1. DecodeMessages
  BY DEF Next, DecodeCall, Permissive, CheckedDecodes, CheckedRejects, SetAPCallHints, vars
<1>2. PICK r \in Slot!Results(calls22, HintsTried) : heard' = <<r.texts, heard[1]>>
  BY <1>1 DEF DecodeMessages
<1>3. Outcome(r, HintsTried, Len(HintsTried))
  BY HintsTriedAre, ResultsGuess
<1>4. heard'[1] = r.texts /\ rejected' = rejected
  BY <1>1, <1>2 DEF DecodeMessages
<1> DEFINE o == [texts |-> heard'[1]]
<1>5. "texts" \in DOMAIN o /\ o.texts = r.texts
  BY <1>4
<1> HIDE DEF o
<1>6. Outcome(o, HintsTried, Len(HintsTried))
  BY <1>3, <1>5, Zenon DEF Outcome
<1> QED BY <1>4, <1>6 DEF o

\* However often an exchange was heard in the slot of the same cadence before, no
\* more texts are guessed than there were exchanges (collectA7Hints and
\* decodeA7HintsWithBaseline, a7.go).
THEOREM OneGuessAlwaysPerExchange == Spec => OneGuessPerExchange
<1>1. ASSUME HistoryWorth, [Next]_vars
      PROVE  [seq' # seq =>
                Cardinality(Guesses(heard'[1])) <= Cardinality(Range(history[seq]))]_vars
  <2> SUFFICES ASSUME seq' # seq
               PROVE  Cardinality(Guesses(heard'[1])) <= Cardinality(Range(history[seq]))
    OBVIOUS
  <2> DEFINE n == Len(HintsTried)
             kept == history[seq]
             guesses == Guesses(heard'[1])
  <2>1. IsFiniteSet(guesses) /\ Cardinality(guesses) <= n
    <3> DEFINE o == [texts |-> heard'[1]]
    <3>1. o.texts = heard'[1]
      OBVIOUS
    <3> HIDE DEF o
    <3>2. Outcome(o, HintsTried, n)
      BY <1>1, DecodeGuesses DEF o
    <3> QED BY <3>1, <3>2, Zenon DEF Outcome
  <2>2. n \in Nat /\ Len(kept) \in Nat /\ n <= Len(kept)
    BY <1>1, HintsTriedAre
  <2>3. Cardinality(Range(kept)) = Len(kept)
    <3>1. kept \in Seq(WorthyHints) /\ IsInjective(kept)
      BY <1>1 DEF HistoryWorth, Worth
    <3>2. DOMAIN kept = 1..Len(kept) /\ kept \in [1..Len(kept) -> WorthyHints]
      BY <3>1
    <3> HIDE DEF kept
    <3> DEFINE m == Len(kept)
               names == Range(kept)
    <3>3. kept \in Bijection(1..m, names) /\ m \in Nat
      BY <2>2, <3>1, <3>2 DEF Bijection, Injection, Surjection, IsInjective, Range
    <3> HIDE DEF m, names
    <3>4. ExistsBijection(1..m, names)
      BY <3>3 DEF ExistsBijection
    <3> QED BY <3>3, <3>4, FS_CountingElements DEF m, names
  <2>4. Cardinality(guesses) \in Nat
    BY <2>1, FS_CardinalityType
  <2> HIDE DEF n, kept, guesses
  <2>5. Cardinality(guesses) <= Cardinality(Range(kept))
    BY <2>1, <2>2, <2>3, <2>4
  <2> QED BY <2>5 DEF kept, guesses
<1> QED BY <1>1, HistoryKept, PTL DEF Spec, OneGuessPerExchange

\* Unless a period was rejected, a CQ is guessed only of a station that was heard with
\* a grid, an RR73 taken for one, in the same cadence one turn before (parseA7Hint and
\* decodeA7Candidate, a7.go).
THEOREM GuessedCQsAlwaysHaveGrid == Spec => GuessedCQsHaveGrid
<1> DEFINE Heard(text) ==
             \E j \in DOMAIN heard[2] :
               LET source == heard[2][j]
               IN  /\ Len(source.calls) = 2 /\ ~source.calls[2].hashed
                   /\ source.calls[2].call = text.calls[2].call
                   /\ GridOf(source.tail) # ""
<1>1. ASSUME HistoryWorth, Cadence, [Next]_vars, seq' # seq, ~rejected',
             NEW i \in Guesses(heard'[1]), IsCQ(heard'[1][i])
      PROVE  Heard(heard'[1][i])
  <2> DEFINE text == heard'[1][i]
             kept == history[seq]
             o == [texts |-> heard'[1]]
  <2>1. o.texts = heard'[1]
    OBVIOUS
  <2>2. rejected' = rejected /\ Outcome(o, HintsTried, Len(HintsTried))
    BY <1>1, DecodeGuesses
  <2> HIDE DEF o
  <2>3. PICK k \in 1..Len(HintsTried) : text \in HintsTried[k]
    BY <1>1, <2>1, <2>2, Zenon DEF Outcome
  <2>4. k \in DOMAIN kept /\ text \in A7Texts(kept[k])
    BY <1>1, <2>3, HintsTriedAre
  <2>5. kept = CollectA7Hints(heard[2])
    BY <1>1, <2>2 DEF Cadence, HintsWhileNoneRejected, HintsFromSameCadence
  <2>6. PICK j \in DOMAIN heard[2] : kept[k] \in ParseA7Hint(heard[2][j])
    BY <1>1, <2>4, <2>5, CollectedHaveSource DEF HistoryWorth
  <2> DEFINE source == heard[2][j]
             hint == kept[k]
  <2> HIDE DEF text, source, kept, hint
  <2>7. hint.grid # "" /\ text \in A7TextsUnguarded(hint)
    BY <1>1, <2>4 DEF A7Texts, text, hint
  <2>8. text.calls[2].call = hint.call2
    <3> DEFINE first == Plain(hint.call1)
               cq == Plain(IF hint.call1 \in DirectedCQ THEN hint.call1 ELSE CQText)
               second == Plain(hint.call2)
    <3>1. PICK a, tail : text = Text(<<a, second>>, tail)
      <4>1. \/ \E tail : text = Text(<<first, second>>, tail)
            \/ text = Text(<<cq, second>>, hint.grid)
        BY <2>7, Zenon DEF A7TextsUnguarded
      <4> QED BY <4>1, Zenon
    <3>2. second.call = hint.call2
      BY DEF Plain
    <3> HIDE DEF second
    <3>3. text.calls[2] = second
      BY <3>1 DEF Text
    <3> QED BY <3>2, <3>3
  <2>9. /\ Len(source.calls) = 2 /\ ~source.calls[2].hashed
        /\ hint.call2 = source.calls[2].call /\ hint.grid = GridOf(source.tail)
    <3>1. hint \in ParseA7Hint(source)
      BY <2>6 DEF hint, source
    <3> QED BY <3>1 DEF ParseA7Hint
  <2> QED BY <2>7, <2>8, <2>9, Zenon DEF source, text
<1> HIDE DEF Heard
<1>2. ASSUME HistoryWorth, Cadence, [Next]_vars
      PROVE  [seq' # seq /\ ~rejected' =>
                \A i \in Guesses(heard'[1]) :
                  LET text == heard'[1][i] IN IsCQ(text) => Heard(text)]_vars
  BY <1>1, <1>2
<1> QED BY <1>2, HistoryKept, CadenceKept, PTL DEF Spec, GuessedCQsHaveGrid, Heard

------------------------------------------------------------------------------
LEMMA LargestOf ==
    ASSUME NEW m \in Nat, NEW d \in SUBSET (1..m), m \in d
    PROVE  Max(d) = m
<1>1. \A x \in d : (\A y \in d : x >= y) <=> x = m
  OBVIOUS
<1> QED BY <1>1 DEF Max

LEMMA LargestIn ==
    ASSUME NEW n \in Nat, NEW d \in SUBSET (1..n), d # {}
    PROVE  Max(d) \in d
<1> DEFINE T == {i \in 0..n : n - i \in d}
<1>1. T # {}
  <2>1. PICK x \in d : TRUE
    OBVIOUS
  <2>2. n - x \in 0..n /\ n - (n - x) = x
    OBVIOUS
  <2> QED BY <2>2
<1>2. T \subseteq Nat
  OBVIOUS
<1>3. PICK i \in T : \A j \in T : i <= j
  <2> HIDE DEF T
  <2> QED BY <1>1, <1>2, LeastNat
<1>4. \A y \in d : n - i >= y
  <2> TAKE y \in d
  <2>1. n - y \in 0..n /\ n - (n - y) = y
    OBVIOUS
  <2>2. i <= n - y
    BY <1>3, <2>1
  <2> QED BY <2>1, <2>2
<1>5. n - i \in d
  OBVIOUS
<1> QED BY <1>4, <1>5, Zenon DEF Max

\* A fold over 1..n of a step that is a function, as the library defines it.
IsFold(f, base, step, n) ==
    \A d \in SUBSET (1..n) : f[d] = IF d = {} THEN base ELSE step[<<f[d \ {Max(d)}], Max(d)>>]

LEMMA FoldExists ==
    ASSUME NEW T, NEW base \in T, NEW n \in Nat, NEW step \in [T \X (1..n) -> T]
    PROVE  \E f \in [SUBSET (1..n) -> T] : IsFold(f, base, step, n)
<1> DEFINE Fold(f, m) ==
             /\ f \in [SUBSET (1..m) -> T]
             /\ \A d \in SUBSET (1..m) :
                  f[d] = IF d = {} THEN base ELSE step[<<f[d \ {Max(d)}], Max(d)>>]
           G == {m \in 0..n : \E f : Fold(f, m)}
<1>1. 0 \in G
  <2> DEFINE f == [d \in SUBSET (1..0) |-> base]
  <2>1. SUBSET (1..0) = {{}}
    OBVIOUS
  <2>2. Fold(f, 0)
    BY <2>1
  <2> HIDE DEF f, Fold
  <2> QED BY <2>2
<1>2. ASSUME NEW k \in 0..(n - 1), k \in G PROVE k + 1 \in G
  <2>1. PICK f : Fold(f, k)
    BY <1>2
  <2> DEFINE m == k + 1
             g == [d \in SUBSET (1..m) |->
                     IF m \in d THEN step[<<f[d \ {m}], m>>] ELSE f[d]]
  <2>2. m \in 1..n /\ m \in 0..n /\ m \in Nat
    OBVIOUS
  <2>3. \A i \in 1..m : i # m => i \in 1..k
    OBVIOUS
  <2>4. m \notin 1..k
    OBVIOUS
  <2> HIDE DEF m
  <2>5. \A d \in SUBSET (1..m) : /\ d \ {m} \in SUBSET (1..k)
                                 /\ m \notin d => d \in SUBSET (1..k)
    BY <2>3
  <2>6. g \in [SUBSET (1..m) -> T]
    <3>1. ASSUME NEW d \in SUBSET (1..m) PROVE g[d] \in T
      <4>1. CASE m \in d
        <5>1. f[d \ {m}] \in T
          BY <2>1, <2>5
        <5>2. <<f[d \ {m}], m>> \in T \X (1..n)
          BY <2>2, <5>1
        <5> QED BY <4>1, <5>2
      <4>2. CASE m \notin d
        BY <2>1, <2>5, <4>2
      <4> QED BY <4>1, <4>2
    <3> QED BY <3>1
  <2>7. \A d \in SUBSET (1..m) :
          g[d] = IF d = {} THEN base ELSE step[<<g[d \ {Max(d)}], Max(d)>>]
    <3> TAKE d \in SUBSET (1..m)
    <3>1. CASE m \in d
      <4>1. Max(d) = m /\ d # {} /\ d \ {m} \in SUBSET (1..m) /\ m \notin d \ {m}
        BY <2>2, <3>1, LargestOf
      <4>2. g[d \ {m}] = f[d \ {m}] /\ g[d] = step[<<f[d \ {m}], m>>]
        BY <3>1, <4>1
      <4> QED BY <4>1, <4>2, Zenon
    <3>2. CASE m \notin d
      <4> DEFINE i == Max(d)
      <4>1. d \in SUBSET (1..k) /\ d \ {i} \in SUBSET (1..m) /\ m \notin d \ {i}
        BY <2>5, <3>2
      <4>2. g[d] = f[d] /\ g[d \ {i}] = f[d \ {i}]
        BY <3>2, <4>1
      <4>3. f[d] = IF d = {} THEN base ELSE step[<<f[d \ {i}], i>>]
        BY <2>1, <4>1
      <4> QED BY <4>2, <4>3, Zenon
    <3> QED BY <3>1, <3>2
  <2>8. Fold(g, m)
    BY <2>6, <2>7, Zenon
  <2> HIDE DEF Fold, g
  <2> QED BY <2>2, <2>8 DEF m
<1> HIDE DEF G
<1>3. n \in G
  BY <1>1, <1>2, UpTo
<1> QED BY <1>3, Zenon DEF G, IsFold

\* What one step of a fold that is a function is, of the fold before.
LEMMA FoldUnrolls ==
    ASSUME NEW n \in Nat, NEW k \in 1..n
    PROVE  /\ 1..k \in SUBSET (1..n) /\ 1..k # {} /\ Max(1..k) = k
           /\ (1..k) \ {k} = 1..(k - 1) /\ 1..(k - 1) \in SUBSET (1..n)
<1>1. k \in 1..k /\ k \in Nat
  OBVIOUS
<1>2. Max(1..k) = k
  BY <1>1, LargestOf
<1> QED BY <1>1, <1>2

\* The same of a fold that is known to be one only where its values are typed.
IsFoldFrom(f, base, step, n, T) ==
    /\ f[{}] = base
    /\ \A d \in SUBSET (1..n) :
         d # {} /\ f[d \ {Max(d)}] \in T => f[d] = step[<<f[d \ {Max(d)}], Max(d)>>]

\* Values that follow from one another.
Iterates(c, base, step, n, T, last) ==
    /\ c \in [0..n -> T] /\ c[0] = base /\ c[n] = last
    /\ \A k \in 1..n : c[k] = step[<<c[k-1], k>>]

LEMMA FoldIterates ==
    ASSUME NEW T, NEW base \in T, NEW n \in Nat, NEW step \in [T \X (1..n) -> T],
           NEW f, IsFoldFrom(f, base, step, n, T)
    PROVE  \E c : Iterates(c, base, step, n, T, f[1..n])
<1> DEFINE c == [k \in 0..n |-> f[1..k]]
<1>1. c[0] = base /\ c[n] = f[1..n]
  BY DEF IsFoldFrom
<1>2. ASSUME NEW k \in 1..n, c[k-1] \in T PROVE c[k] = step[<<c[k-1], k>>]
  <2>1. k - 1 \in 0..n /\ k \in 0..n
    OBVIOUS
  <2>2. /\ 1..k \in SUBSET (1..n) /\ 1..k # {} /\ Max(1..k) = k
        /\ (1..k) \ {k} = 1..(k - 1)
    BY FoldUnrolls
  <2>3. f[(1..k) \ {Max(1..k)}] \in T
    BY <1>2, <2>1, <2>2
  <2>4. f[1..k] = step[<<f[(1..k) \ {Max(1..k)}], Max(1..k)>>]
    BY <2>2, <2>3, Zenon DEF IsFoldFrom
  <2> QED BY <2>1, <2>2, <2>4
<1> HIDE DEF c
<1>3. c \in [0..n -> T] /\ \A k \in 0..n : c[k] \in T
  <2> DEFINE G == {k \in 0..n : c[k] \in T}
  <2>1. 0 \in G
    BY <1>1
  <2>2. ASSUME NEW k \in 0..(n-1), k \in G PROVE k + 1 \in G
    <3>1. k + 1 \in 1..n /\ (k + 1) - 1 = k /\ c[k] \in T
      BY <2>2
    <3>2. c[k+1] = step[<<c[k], k + 1>>]
      BY <1>2, <3>1
    <3> QED BY <3>1, <3>2
  <2>3. \A k \in 0..n : k \in G
    <3> HIDE DEF G
    <3> QED BY <2>1, <2>2, UpTo
  <2> QED BY <2>3 DEF c
<1>4. \A k \in 1..n : c[k] = step[<<c[k-1], k>>]
  <2> TAKE k \in 1..n
  <2>1. k - 1 \in 0..n
    OBVIOUS
  <2> QED BY <1>2, <1>3, <2>1
<1> QED BY <1>1, <1>3, <1>4, Zenon DEF Iterates

\* What normalization does with one block count, and with one call hint.
KeepBlock(out, b) ==
    IF b <= 0 \/ Samples(b) > BufferSamples \/ Len(out) = MaxBlocks \/ Contains(out, b)
    THEN out ELSE Append(out, b)

BlocksKept(counts) == FoldLeft(KeepBlock, <<>>, counts)

KeepHint(out, h) ==
    IF \/ N28[h.call] = Unpackable \/ Len(out) = MaxAPCallHints
       \/ \E i \in DOMAIN out : out[i].n28 = N28[h.call]
    THEN out ELSE Append(out, apCallHint(h))

Message == [text : Decodable, search : Modes \cup {"custom"}]
MergedRow == [message : Message, Mode : Modes, Strict : BOOLEAN, Deep : BOOLEAN,
              Duplicate : BOOLEAN, StrictCopy : Message \cup {NoMessage},
              DeepCopy : Message \cup {NoMessage}]

\* The entries that are picked are added one after the other.
PickedSoFar(c, s, picks, S) ==
    /\ c \in [0..Len(s) -> Seq(S)] /\ c[0] = <<>> /\ c[Len(s)] = Picked(s, picks)
    /\ \A k \in 1..Len(s) : c[k] = IF k \in picks THEN Append(c[k-1], s[k]) ELSE c[k-1]

LEMMA PickedSteps ==
    ASSUME NEW S, NEW s \in Seq(S), NEW picks
    PROVE  \E c : PickedSoFar(c, s, picks, S)
<1> DEFINE n == Len(s)
           e == [i \in DOMAIN s |-> i]
           next(out, i) == IF i \in picks THEN Append(out, s[i]) ELSE out
           Fold(f) == f = [d \in SUBSET DOMAIN e |->
                             IF d = {} THEN <<>> ELSE next(f[d \ {Max(d)}], e[Max(d)])]
           step == [p \in Seq(S) \X (1..n) |-> next(p[1], p[2])]
           iter == CHOOSE f : Fold(f)
<1>1. n \in Nat /\ DOMAIN s = 1..n /\ \A i \in 1..n : s[i] \in S
  BY LenProperties
<1>2. DOMAIN e = 1..n /\ \A i \in 1..n : e[i] = i
  BY <1>1
<1> HIDE DEF n
<1>3. step \in [Seq(S) \X (1..n) -> Seq(S)] /\ <<>> \in Seq(S)
  BY <1>1
<1>4. PICK f \in [SUBSET (1..n) -> Seq(S)] : IsFold(f, <<>>, step, n)
  <2> HIDE DEF step
  <2> QED BY <1>1, <1>3, FoldExists, Zenon
<1>5. Fold(f)
  <2>1. ASSUME NEW d \in SUBSET (1..n), d # {}
        PROVE  f[d] = next(f[d \ {Max(d)}], e[Max(d)])
    <3>1. Max(d) \in 1..n /\ f[d \ {Max(d)}] \in Seq(S)
      BY <1>1, <2>1, LargestIn
    <3>2. f[d] = step[<<f[d \ {Max(d)}], Max(d)>>]
      BY <1>4, <2>1, Zenon DEF IsFold
    <3> QED BY <1>2, <3>1, <3>2
  <2>2. f[{}] = <<>>
    BY <1>4 DEF IsFold
  <2> HIDE DEF next, e
  <2> QED BY <1>2, <2>1, <2>2
<1>6. Fold(iter)
  <2> HIDE DEF Fold
  <2> QED BY <1>5, Zenon
<1>7. Picked(s, picks) = iter[DOMAIN e]
  BY Zenon DEF Picked, FoldLeft, MapThenFoldSet
<1> HIDE DEF e
<1> HIDE DEF iter, next
<1>8. IsFoldFrom(iter, <<>>, step, n, Seq(S))
  <2>1. iter[{}] = <<>>
    BY <1>6, <1>2
  <2>2. ASSUME NEW d \in SUBSET (1..n), d # {}, iter[d \ {Max(d)}] \in Seq(S)
        PROVE  iter[d] = step[<<iter[d \ {Max(d)}], Max(d)>>]
    <3>1. Max(d) \in 1..n
      BY <1>1, <2>2, LargestIn
    <3>2. iter[d] = next(iter[d \ {Max(d)}], Max(d))
      BY <1>6, <1>2, <2>2, <3>1
    <3> QED BY <2>2, <3>1, <3>2
  <2> HIDE DEF step
  <2> QED BY <2>1, <2>2, Zenon DEF IsFoldFrom
<1>9. PICK c : Iterates(c, <<>>, step, n, Seq(S), iter[1..n])
  <2> HIDE DEF step
  <2> QED BY <1>1, <1>3, <1>8, FoldIterates, Zenon
<1>10. \A k \in 1..n : c[k] = next(c[k-1], k)
  <2> TAKE k \in 1..n
  <2>1. c[k-1] \in Seq(S)
    <3>1. k - 1 \in 0..n
      BY <1>1
    <3> QED BY <1>9, <3>1 DEF Iterates
  <2> QED BY <1>9, <2>1 DEF Iterates
<1> HIDE DEF step
<1> QED BY <1>7, <1>9, <1>10, <1>2, Zenon DEF next, n, Iterates, PickedSoFar

\* A block count is kept, or not, one after the other.
LEMMA BlockCountSteps ==
    ASSUME NEW counts \in Seq(Int)
    PROVE  \E c \in [0..Len(counts) -> Seq(Int)] :
             /\ c[0] = <<>> /\ c[Len(counts)] = BlocksKept(counts)
             /\ \A k \in 1..Len(counts) : c[k] = KeepBlock(c[k-1], counts[k])
<1> DEFINE n == Len(counts)
           next(out, x) == KeepBlock(out, x)
           Fold(f) == f = [d \in SUBSET DOMAIN counts |->
                             IF d = {} THEN <<>> ELSE next(f[d \ {Max(d)}], counts[Max(d)])]
           step == [p \in Seq(Int) \X (1..n) |-> next(p[1], counts[p[2]])]
           iter == CHOOSE f : Fold(f)
<1>1. n \in Nat /\ DOMAIN counts = 1..n
  BY LenProperties
<1>2. <<>> \in Seq(Int) /\ \A out \in Seq(Int), i \in 1..n : next(out, counts[i]) \in Seq(Int)
  BY <1>1 DEF KeepBlock
<1> HIDE DEF n, next
<1>3. step \in [Seq(Int) \X (1..n) -> Seq(Int)]
  BY <1>2
<1>4. PICK f \in [SUBSET (1..n) -> Seq(Int)] : IsFold(f, <<>>, step, n)
  <2> HIDE DEF step
  <2> QED BY <1>1, <1>2, <1>3, FoldExists, Zenon
<1>5. Fold(f)
  <2>1. ASSUME NEW d \in SUBSET (1..n), d # {}
        PROVE  f[d] = next(f[d \ {Max(d)}], counts[Max(d)])
    <3>1. Max(d) \in 1..n /\ f[d \ {Max(d)}] \in Seq(Int)
      BY <1>1, <2>1, LargestIn
    <3>2. f[d] = step[<<f[d \ {Max(d)}], Max(d)>>]
      BY <1>4, <2>1, Zenon DEF IsFold
    <3> QED BY <3>1, <3>2
  <2>2. f[{}] = <<>>
    BY <1>4 DEF IsFold
  <2> QED BY <1>1, <2>1, <2>2
<1>6. Fold(iter)
  <2> HIDE DEF Fold
  <2> QED BY <1>5, Zenon
<1>7. BlocksKept(counts) = iter[1..n]
  <2>1. BlocksKept(counts) = iter[DOMAIN counts]
    BY Zenon DEF BlocksKept, KeepBlock, FoldLeft, MapThenFoldSet, next
  <2> QED BY <1>1, <2>1, Zenon
<1> HIDE DEF iter
<1>8. IsFoldFrom(iter, <<>>, step, n, Seq(Int))
  <2>1. iter[{}] = <<>>
    BY <1>6
  <2>2. ASSUME NEW d \in SUBSET (1..n), d # {}, iter[d \ {Max(d)}] \in Seq(Int)
        PROVE  iter[d] = step[<<iter[d \ {Max(d)}], Max(d)>>]
    <3>1. Max(d) \in 1..n
      BY <1>1, <2>2, LargestIn
    <3>2. iter[d] = next(iter[d \ {Max(d)}], counts[Max(d)])
      BY <1>1, <1>6, <2>2
    <3> QED BY <2>2, <3>1, <3>2
  <2> HIDE DEF step
  <2> QED BY <2>1, <2>2, Zenon DEF IsFoldFrom
<1>9. PICK c : Iterates(c, <<>>, step, n, Seq(Int), iter[1..n])
  <2> HIDE DEF step
  <2> QED BY <1>1, <1>2, <1>3, <1>8, FoldIterates, Zenon
<1>10. \A k \in 1..n : c[k] = next(c[k-1], counts[k])
  <2> TAKE k \in 1..n
  <2>1. c[k-1] \in Seq(Int)
    <3>1. k - 1 \in 0..n
      BY <1>1
    <3> QED BY <1>9, <3>1 DEF Iterates
  <2> QED BY <1>9, <2>1 DEF Iterates
<1> HIDE DEF step
<1> QED BY <1>7, <1>9, <1>10, Zenon DEF next, n, Iterates

\* A call hint is kept, or not, one after the other.
LEMMA CallHintSteps ==
    ASSUME NEW S, NEW hints \in Seq(S), NEW H, H = {apCallHint(hints[i]) : i \in DOMAIN hints}
    PROVE  \E c \in [0..Len(hints) -> Seq(H)] :
             /\ c[0] = <<>> /\ c[Len(hints)] = NormalizeAPCallHints(hints)
             /\ \A k \in 1..Len(hints) : c[k] = KeepHint(c[k-1], hints[k])
<1> DEFINE n == Len(hints)
           next(out, x) == KeepHint(out, x)
           Fold(f) == f = [d \in SUBSET DOMAIN hints |->
                             IF d = {} THEN <<>> ELSE next(f[d \ {Max(d)}], hints[Max(d)])]
           step == [p \in Seq(H) \X (1..n) |-> next(p[1], hints[p[2]])]
           iter == CHOOSE f : Fold(f)
<1>1. n \in Nat /\ DOMAIN hints = 1..n
  BY LenProperties
<1>2. <<>> \in Seq(H) /\ \A out \in Seq(H), i \in 1..n : next(out, hints[i]) \in Seq(H)
  <2>1. \A i \in 1..n : apCallHint(hints[i]) \in H
    BY <1>1
  <2> QED BY <2>1 DEF KeepHint
<1> HIDE DEF n, next
<1>3. step \in [Seq(H) \X (1..n) -> Seq(H)]
  BY <1>2
<1>4. PICK f \in [SUBSET (1..n) -> Seq(H)] : IsFold(f, <<>>, step, n)
  <2> HIDE DEF step
  <2> QED BY <1>1, <1>2, <1>3, FoldExists, Zenon
<1>5. Fold(f)
  <2>1. ASSUME NEW d \in SUBSET (1..n), d # {}
        PROVE  f[d] = next(f[d \ {Max(d)}], hints[Max(d)])
    <3>1. Max(d) \in 1..n /\ f[d \ {Max(d)}] \in Seq(H)
      BY <1>1, <2>1, LargestIn
    <3>2. f[d] = step[<<f[d \ {Max(d)}], Max(d)>>]
      BY <1>4, <2>1, Zenon DEF IsFold
    <3> QED BY <3>1, <3>2
  <2>2. f[{}] = <<>>
    BY <1>4 DEF IsFold
  <2> QED BY <1>1, <2>1, <2>2
<1>6. Fold(iter)
  <2> HIDE DEF Fold
  <2> QED BY <1>5, Zenon
<1>7. NormalizeAPCallHints(hints) = iter[1..n]
  <2>1. NormalizeAPCallHints(hints) = iter[DOMAIN hints]
    BY Zenon DEF NormalizeAPCallHints, KeepHint, FoldLeft, MapThenFoldSet, next
  <2> QED BY <1>1, <2>1, Zenon
<1> HIDE DEF iter
<1>8. IsFoldFrom(iter, <<>>, step, n, Seq(H))
  <2>1. iter[{}] = <<>>
    BY <1>6
  <2>2. ASSUME NEW d \in SUBSET (1..n), d # {}, iter[d \ {Max(d)}] \in Seq(H)
        PROVE  iter[d] = step[<<iter[d \ {Max(d)}], Max(d)>>]
    <3>1. Max(d) \in 1..n
      BY <1>1, <2>2, LargestIn
    <3>2. iter[d] = next(iter[d \ {Max(d)}], hints[Max(d)])
      BY <1>1, <1>6, <2>2
    <3> QED BY <2>2, <3>1, <3>2
  <2> HIDE DEF step
  <2> QED BY <2>1, <2>2, Zenon DEF IsFoldFrom
<1>9. PICK c : Iterates(c, <<>>, step, n, Seq(H), iter[1..n])
  <2> HIDE DEF step
  <2> QED BY <1>1, <1>2, <1>3, <1>8, FoldIterates, Zenon
<1>10. \A k \in 1..n : c[k] = next(c[k-1], hints[k])
  <2> TAKE k \in 1..n
  <2>1. c[k-1] \in Seq(H)
    <3>1. k - 1 \in 0..n
      BY <1>1
    <3> QED BY <1>9, <3>1 DEF Iterates
  <2> QED BY <1>9, <2>1 DEF Iterates
<1> HIDE DEF step
<1> QED BY <1>7, <1>9, <1>10, Zenon DEF next, n, Iterates

LEMMA RowIsRow ==
    ASSUME NEW message \in Message, NEW mode \in Modes
    PROVE  Row(message, mode) \in MergedRow
BY DEF Row, MergedRow

LEMMA StrictRowsAreRows ==
    ASSUME NEW strict \in Seq(Message)
    PROVE  /\ StrictRows(strict) \in Seq(MergedRow) /\ Len(StrictRows(strict)) = Len(strict)
           /\ \A i \in 1..Len(strict) : StrictRows(strict)[i] = Row(strict[i], "strict")
<1>1. DOMAIN strict = 1..Len(strict) /\ Len(strict) \in Nat
      /\ \A i \in 1..Len(strict) : strict[i] \in Message
  BY LenProperties
<1>2. \A i \in 1..Len(strict) : Row(strict[i], "strict") \in MergedRow
  BY <1>1, RowIsRow DEF Modes
<1>3. StrictRows(strict) = [i \in 1..Len(strict) |-> Row(strict[i], "strict")]
  BY <1>1 DEF StrictRows
<1>4. StrictRows(strict) \in [1..Len(strict) -> MergedRow]
  BY <1>2, <1>3
<1> QED BY <1>1, <1>3, <1>4

\* The row of a text, if there is one.
LEMMA RowOfText ==
    ASSUME NEW S, NEW rows \in Seq(S), NEW text
    PROVE  \/ /\ RowOf(rows, text) = 0
              /\ \A i \in 1..Len(rows) : rows[i].message.text # text
           \/ /\ RowOf(rows, text) \in 1..Len(rows)
              /\ rows[RowOf(rows, text)].message.text = text
<1> DEFINE same == {i \in DOMAIN rows : rows[i].message.text = text}
<1>1. DOMAIN rows = 1..Len(rows)
  BY LenProperties
<1>2. CASE same = {}
  BY <1>1, <1>2 DEF RowOf
<1>3. CASE same # {}
  <2>1. RowOf(rows, text) = CHOOSE i \in same : TRUE
    BY <1>3 DEF RowOf
  <2>2. (CHOOSE i \in same : TRUE) \in same
    BY <1>3, Zenon
  <2> QED BY <1>1, <2>1, <2>2
<1> QED BY <1>2, <1>3

\* The row that a deep message is added to.
WithDeep(row, message) == [row EXCEPT !.Deep = TRUE, !.Duplicate = TRUE, !.DeepCopy = message]

LEMMA WithDeepIsRow ==
    ASSUME NEW row \in MergedRow, NEW message \in Message
    PROVE  LET new == WithDeep(row, message)
           IN  /\ new \in MergedRow /\ new.message = row.message /\ new.Strict = row.Strict
               /\ new.Mode = row.Mode
               /\ new.StrictCopy = row.StrictCopy /\ new.Deep = TRUE /\ new.Duplicate = TRUE
               /\ new.DeepCopy = message
BY DEF WithDeep, MergedRow

LEMMA MergeDeepOutcome ==
    ASSUME NEW rows \in Seq(MergedRow), NEW message \in Message
    PROVE  LET at == RowOf(rows, message.text)
               merged == MergeDeep(rows, message)
           IN  /\ merged \in Seq(MergedRow)
               /\ at = 0 => merged = Append(rows, Row(message, "deep"))
               /\ at # 0 => /\ Len(merged) = Len(rows)
                            /\ merged[at] = WithDeep(rows[at], message)
                            /\ \A i \in 1..Len(rows) : i # at => merged[i] = rows[i]
<1> DEFINE at == RowOf(rows, message.text)
           merged == MergeDeep(rows, message)
<1>1. CASE at = 0
  <2>1. merged = Append(rows, Row(message, "deep"))
    BY <1>1 DEF MergeDeep
  <2>2. Row(message, "deep") \in MergedRow
    BY RowIsRow DEF Modes
  <2> QED BY <1>1, <2>1, <2>2
<1>2. CASE at # 0
  <2>1. at \in 1..Len(rows)
    BY <1>2, RowOfText
  <2>2. merged = [rows EXCEPT ![at] = WithDeep(rows[at], message)]
    BY <1>2, Zenon DEF MergeDeep, WithDeep
  <2>3. WithDeep(rows[at], message) \in MergedRow
    <3>1. rows[at] \in MergedRow
      BY <2>1
    <3> HIDE DEF at
    <3> QED BY <3>1, WithDeepIsRow
  <2> HIDE DEF at, merged
  <2>4. /\ merged \in Seq(MergedRow) /\ Len(merged) = Len(rows)
        /\ merged[at] = WithDeep(rows[at], message)
        /\ \A i \in 1..Len(rows) : i # at => merged[i] = rows[i]
    BY <2>1, <2>2, <2>3
  <2> QED BY <1>2, <2>4 DEF at, merged
<1> QED BY <1>1, <1>2

LEMMA MergeDeepIsRows ==
    \A rows \in Seq(MergedRow), message \in Message : MergeDeep(rows, message) \in Seq(MergedRow)
BY MergeDeepOutcome

\* The deep messages are merged one after the other.
LEMMA MergeSteps ==
    ASSUME NEW strict \in Seq(Message), NEW deep \in Seq(Message)
    PROVE  \E c \in [0..Len(deep) -> Seq(MergedRow)] :
             /\ c[0] = StrictRows(strict)
             /\ c[Len(deep)] = FoldLeft(MergeDeep, StrictRows(strict), deep)
             /\ \A k \in 1..Len(deep) : c[k] = MergeDeep(c[k-1], deep[k])
<1> DEFINE n == Len(deep)
           next(out, x) == MergeDeep(out, x)
           Fold(f) == f = [d \in SUBSET DOMAIN deep |->
                             IF d = {} THEN StrictRows(strict)
                             ELSE next(f[d \ {Max(d)}], deep[Max(d)])]
           step == [p \in Seq(MergedRow) \X (1..n) |-> next(p[1], deep[p[2]])]
           iter == CHOOSE f : Fold(f)
<1>1. n \in Nat /\ DOMAIN deep = 1..n
  BY LenProperties
<1>2. /\ StrictRows(strict) \in Seq(MergedRow)
      /\ \A out \in Seq(MergedRow), i \in 1..n : next(out, deep[i]) \in Seq(MergedRow)
  <2>1. \A i \in 1..n : deep[i] \in Message
    BY <1>1, LenProperties
  <2> QED BY <2>1, StrictRowsAreRows, MergeDeepIsRows
<1> HIDE DEF n, next
<1>3. step \in [Seq(MergedRow) \X (1..n) -> Seq(MergedRow)]
  BY <1>2
<1>4. PICK f \in [SUBSET (1..n) -> Seq(MergedRow)] : IsFold(f, StrictRows(strict), step, n)
  <2> HIDE DEF step
  <2> QED BY <1>1, <1>2, <1>3, FoldExists, Zenon
<1>5. Fold(f)
  <2>1. ASSUME NEW d \in SUBSET (1..n), d # {}
        PROVE  f[d] = next(f[d \ {Max(d)}], deep[Max(d)])
    <3>1. Max(d) \in 1..n /\ f[d \ {Max(d)}] \in Seq(MergedRow)
      BY <1>1, <2>1, LargestIn
    <3>2. f[d] = step[<<f[d \ {Max(d)}], Max(d)>>]
      BY <1>4, <2>1, Zenon DEF IsFold
    <3> QED BY <3>1, <3>2
  <2>2. f[{}] = StrictRows(strict)
    BY <1>4 DEF IsFold
  <2> QED BY <1>1, <2>1, <2>2
<1>6. Fold(iter)
  <2> HIDE DEF Fold
  <2> QED BY <1>5, Zenon
<1>7. FoldLeft(MergeDeep, StrictRows(strict), deep) = iter[1..n]
  <2>1. FoldLeft(MergeDeep, StrictRows(strict), deep) = iter[DOMAIN deep]
    BY Zenon DEF MergeDeep, FoldLeft, MapThenFoldSet, next
  <2> QED BY <1>1, <2>1, Zenon
<1> HIDE DEF iter
<1>8. IsFoldFrom(iter, StrictRows(strict), step, n, Seq(MergedRow))
  <2>1. iter[{}] = StrictRows(strict)
    BY <1>6
  <2>2. ASSUME NEW d \in SUBSET (1..n), d # {}, iter[d \ {Max(d)}] \in Seq(MergedRow)
        PROVE  iter[d] = step[<<iter[d \ {Max(d)}], Max(d)>>]
    <3>1. Max(d) \in 1..n
      BY <1>1, <2>2, LargestIn
    <3>2. iter[d] = next(iter[d \ {Max(d)}], deep[Max(d)])
      BY <1>1, <1>6, <2>2
    <3> QED BY <2>2, <3>1, <3>2
  <2> HIDE DEF step
  <2> QED BY <2>1, <2>2, Zenon DEF IsFoldFrom
<1>9. PICK c : Iterates(c, StrictRows(strict), step, n, Seq(MergedRow), iter[1..n])
  <2> HIDE DEF step
  <2> QED BY <1>1, <1>2, <1>3, <1>8, FoldIterates, Zenon
<1>10. \A k \in 1..n : c[k] = next(c[k-1], deep[k])
  <2> TAKE k \in 1..n
  <2>1. c[k-1] \in Seq(MergedRow)
    <3>1. k - 1 \in 0..n
      BY <1>1
    <3> QED BY <1>9, <3>1 DEF Iterates
  <2> QED BY <1>9, <2>1 DEF Iterates
<1> HIDE DEF step
<1> QED BY <1>7, <1>9, <1>10, Zenon DEF next, n, Iterates

GivenOptions == [floats : [DOMAIN FloatDefault -> Floats], ints : [DOMAIN IntDefault -> Int],
                 blocks : Seq(Int), hints : Seq(APCallHint),
                 flags : SUBSET {"EnableOSD", "EnableBroadAP"}]

\* The block counts kept so far.
UsableBlocks(out) ==
    /\ Len(out) <= MaxBlocks /\ IsInjective(out)
    /\ \A i \in DOMAIN out : out[i] > 0 /\ Samples(out[i]) <= BufferSamples

LEMMA NormalizedBlocks ==
    \A counts : NormalizeBlockCounts(counts) =
                  IF BlocksKept(counts) = <<>> THEN <<50>> ELSE BlocksKept(counts)
BY Zenon DEF NormalizeBlockCounts, BlocksKept, KeepBlock

\* A product that an int holds is not changed.
LEMMA FitsUnlessOverflows ==
    ASSUME NEW b \in Int, b > 0, Samples(b) <= BufferSamples
    PROVE  Overflows(b) \/ b * FrameSamples <= BufferSamples
<1>1. PICK n \in Nat : n = b * FrameSamples
  BY DEF FrameSamples
<1>2. PICK half \in Nat : half = IntHalf
  BY OptionsAssumption
<1>3. SUFFICES ASSUME n < half PROVE n <= BufferSamples
  BY <1>1, <1>2 DEF Overflows
<1>4. (n + half) % (2 * half) = n + half
  BY <1>3
<1>5. Samples(b) = n
  BY <1>1, <1>2, <1>4 DEF Samples, Wrapped
<1> QED BY <1>5

LEMMA KeepBlockUsable ==
    ASSUME NEW out \in Seq(Int), NEW b \in Int, UsableBlocks(out)
    PROVE  UsableBlocks(KeepBlock(out, b))
<1>1. CASE KeepBlock(out, b) = out
  BY <1>1
<1>2. CASE KeepBlock(out, b) # out
  <2>1. /\ ~(b <= 0) /\ ~(Samples(b) > BufferSamples) /\ Len(out) # MaxBlocks
        /\ ~Contains(out, b) /\ KeepBlock(out, b) = Append(out, b)
    BY <1>2, Zenon DEF KeepBlock
  <2>2. Samples(b) \in Int
    BY OptionsAssumption DEF Samples, Wrapped, FrameSamples
  <2>3. b > 0 /\ Samples(b) <= BufferSamples /\ Len(out) + 1 <= MaxBlocks
    <3>1. Len(out) <= MaxBlocks
      BY Zenon DEF UsableBlocks
    <3>2. \A m \in Nat : m # 4 /\ m <= 4 => m + 1 <= 4
      OBVIOUS
    <3>3. Len(out) + 1 <= MaxBlocks
      BY <2>1, <3>1, <3>2, LenProperties, Zenon DEF MaxBlocks
    <3>4. \A m \in Int : (~(b <= 0) => b > 0) /\ (~(m > BufferSamples) => m <= BufferSamples)
      BY DEF BufferSamples
    <3> QED BY <2>1, <2>2, <3>3, <3>4, Zenon
  <2> DEFINE new == Append(out, b)
  <2>4. /\ Len(new) = Len(out) + 1 /\ new[Len(out) + 1] = b /\ Len(out) \in Nat
        /\ \A i \in 1..Len(out) : new[i] = out[i]
    OBVIOUS
  <2>5. DOMAIN new = 1..(Len(out) + 1) /\ DOMAIN out = 1..Len(out)
    BY <2>4, LenProperties
  <2>6. \A i \in 1..Len(out) : out[i] # b
    BY <2>1 DEF Contains
  <2> HIDE DEF new
  <2>7. IsInjective(new)
    BY <2>4, <2>5, <2>6 DEF IsInjective, UsableBlocks
  <2>8. \A i \in DOMAIN new : new[i] > 0 /\ Samples(new[i]) <= BufferSamples
    <3> TAKE i \in DOMAIN new
    <3>1. CASE i = Len(out) + 1
      BY <2>3, <2>4, <3>1
    <3>2. CASE i # Len(out) + 1
      <4>1. i \in 1..Len(out) /\ new[i] = out[i]
        BY <2>4, <2>5, <3>2
      <4> QED BY <2>5, <4>1 DEF UsableBlocks
    <3> QED BY <3>1, <3>2
  <2>9. UsableBlocks(new)
    BY <2>3, <2>4, <2>7, <2>8 DEF UsableBlocks
  <2> QED BY <2>1, <2>9 DEF new
<1> QED BY <1>1, <1>2

\* What is kept is usable, and of block counts that are valid everything is kept.
LEMMA BlocksKeptUsable ==
    ASSUME NEW counts \in Seq(Int)
    PROVE  BlocksKept(counts) \in Seq(Int) /\ UsableBlocks(BlocksKept(counts))
<1> DEFINE n == Len(counts)
<1>1. PICK c \in [0..n -> Seq(Int)] :
        /\ c[0] = <<>> /\ c[n] = BlocksKept(counts)
        /\ \A k \in 1..n : c[k] = KeepBlock(c[k-1], counts[k])
  BY BlockCountSteps
<1>2. n \in Nat /\ \A k \in 1..n : counts[k] \in Int
  BY LenProperties
<1> HIDE DEF n
<1> DEFINE G == {k \in 0..n : UsableBlocks(c[k])}
<1>3. 0 \in G
  <2>1. UsableBlocks(<<>>)
    BY DEF UsableBlocks, MaxBlocks, IsInjective
  <2> QED BY <1>1, <1>2, <2>1
<1>4. ASSUME NEW k \in 0..(n-1), k \in G PROVE k + 1 \in G
  <2>1. k + 1 \in 1..n /\ (k + 1) - 1 = k /\ k + 1 \in 0..n /\ k \in 0..n
    BY <1>2
  <2>2. c[k + 1] = KeepBlock(c[k], counts[k + 1])
    BY <1>1, <2>1
  <2>3. UsableBlocks(KeepBlock(c[k], counts[k + 1]))
    BY <1>1, <1>2, <1>4, <2>1, KeepBlockUsable
  <2> QED BY <2>1, <2>2, <2>3
<1>5. \A k \in 0..n : k \in G
  <2> HIDE DEF G
  <2> QED BY <1>2, <1>3, <1>4, UpTo
<1>6. n \in 0..n
  BY <1>2
<1> QED BY <1>1, <1>5, <1>6

LEMMA ValidBlocksKept ==
    ASSUME NEW counts \in Seq(Int), ValidBlocks(counts)
    PROVE  BlocksKept(counts) = counts
<1> DEFINE n == Len(counts)
<1>1. PICK c \in [0..n -> Seq(Int)] :
        /\ c[0] = <<>> /\ c[n] = BlocksKept(counts)
        /\ \A k \in 1..n : c[k] = KeepBlock(c[k-1], counts[k])
  BY BlockCountSteps
<1>2. /\ n \in Nat /\ n \in 0..MaxBlocks /\ n \in 0..n
      /\ DOMAIN counts = 1..n /\ \A k \in 1..n : counts[k] \in Int
  BY LenProperties DEF ValidBlocks
<1>3. counts \in [1..n -> Int]
  BY LenProperties
<1> HIDE DEF n
<1> DEFINE Same(k) == Len(c[k]) = k /\ \A i \in 1..k : c[k][i] = counts[i]
           G == {k \in 0..n : Same(k)}
<1>4. 0 \in G
  BY <1>1, <1>2
<1>5. ASSUME NEW k \in 0..(n-1), k \in G PROVE k + 1 \in G
  <2>1. k + 1 \in 1..n /\ (k + 1) - 1 = k /\ k + 1 \in 0..n /\ k \in 0..n /\ k # MaxBlocks
    BY <1>2 DEF MaxBlocks
  <2> DEFINE out == c[k]
             b == counts[k + 1]
  <2>2. c[k + 1] = KeepBlock(out, b) /\ out \in Seq(Int) /\ b \in Int
    BY <1>1, <1>2, <2>1
  <2>3. b > 0 /\ Samples(b) <= BufferSamples
    BY <1>2, <2>1 DEF ValidBlocks
  <2>4. Len(out) = k /\ \A i \in 1..k : out[i] = counts[i]
    BY <1>5
  <2>5. ~Contains(out, b)
    <3>1. ASSUME NEW i \in 1..k, out[i] = b PROVE FALSE
      <4>1. i \in 1..n /\ counts[i] = counts[k + 1] /\ i # k + 1
        BY <1>2, <2>1, <2>4, <3>1
      <4> QED BY <1>2, <2>1, <4>1 DEF ValidBlocks, IsInjective
    <3> QED BY <2>4, <3>1 DEF Contains
  <2> HIDE DEF out, b
  <2>6. Samples(b) \in Int
    BY <2>2, OptionsAssumption DEF Samples, Wrapped, FrameSamples
  <2>7. ~(b <= 0) /\ ~(Samples(b) > BufferSamples) /\ Len(out) # MaxBlocks
    BY <2>1, <2>2, <2>3, <2>4, <2>6 DEF BufferSamples
  <2>8. KeepBlock(out, b) = Append(out, b)
    BY <2>5, <2>7, Zenon DEF KeepBlock
  <2>9. Len(Append(out, b)) = k + 1 /\ Append(out, b)[k + 1] = b
        /\ \A i \in 1..k : Append(out, b)[i] = out[i]
    BY <2>2, <2>4
  <2>10. \A i \in 1..(k + 1) : Append(out, b)[i] = counts[i]
    BY <2>4, <2>9 DEF b
  <2> QED BY <2>1, <2>2, <2>8, <2>9, <2>10
<1>6. \A k \in 0..n : k \in G
  <2> HIDE DEF G
  <2> QED BY <1>2, <1>4, <1>5, UpTo
<1>7. Same(n) /\ c[n] \in Seq(Int)
  BY <1>1, <1>2, <1>6
<1>8. c[n] \in [1..n -> Int] /\ \A i \in 1..n : c[n][i] = counts[i]
  BY <1>7, LenProperties
<1>9. c[n] = counts
  <2> DEFINE d == c[n]
  <2>1. d \in [1..n -> Int] /\ \A i \in 1..n : d[i] = counts[i]
    BY <1>8
  <2> HIDE DEF d
  <2>2. d = counts
    <3>1. d = [i \in 1..n |-> d[i]]
      BY <2>1, Zenon
    <3>2. counts = [i \in 1..n |-> counts[i]]
      BY <1>3, Zenon
    <3>3. [i \in 1..n |-> d[i]] = [i \in 1..n |-> counts[i]]
      BY <2>1, Zenon
    <3> QED BY <3>1, <3>2, <3>3, Zenon
  <2> QED BY <2>2 DEF d
<1> QED BY <1>1, <1>9

\* One search runs with four different block counts at most, and a number of
\* hypotheses that there is room for.
LEMMA NormalizedIsRunnable ==
    ASSUME NEW o \in GivenOptions
    PROVE  /\ Runnable(NormalizeDecoderOptions(o))
           /\ NormalizeDecoderOptions(o).blocks \in Seq(Int)
<1> DEFINE p == NormalizeDecoderOptions(o)
           kept == BlocksKept(o.blocks)
<1>1. o.blocks \in Seq(Int) /\ o.ints \in [DOMAIN IntDefault -> Int]
  BY DEF GivenOptions
<1>2. /\ p.blocks = IF o.blocks = <<>> THEN <<50>> ELSE NormalizeBlockCounts(o.blocks)
      /\ p.ints = [f \in DOMAIN IntDefault |-> NormalizeInt(f, o.ints[f])]
  BY Zenon DEF NormalizeDecoderOptions
<1>3. kept \in Seq(Int) /\ UsableBlocks(kept)
  BY <1>1, BlocksKeptUsable
<1>4. p.blocks = <<50>> \/ (p.blocks = kept /\ kept # <<>>)
  BY <1>2, NormalizedBlocks
<1>5. p.ints.MaxAPCallHypotheses \in 1..MaxAPCallHypotheses
  <2>1. "MaxAPCallHypotheses" \in DOMAIN IntDefault /\ IntDefault["MaxAPCallHypotheses"] = 2
    BY DEF IntDefault
  <2>2. p.ints["MaxAPCallHypotheses"]
          = NormalizeInt("MaxAPCallHypotheses", o.ints["MaxAPCallHypotheses"])
    BY <1>2, <2>1
  <2>3. o.ints["MaxAPCallHypotheses"] \in Int
    BY <1>1, <2>1
  <2> QED BY <2>1, <2>2, <2>3 DEF NormalizeInt, MaxAPCallHypotheses
<1>6. CASE p.blocks = <<50>>
  <2> DEFINE u == p.blocks
  <2>1. Len(u) = 1 /\ u[1] = 50 /\ DOMAIN u = 1..1 /\ u \in Seq(Int)
    BY <1>6
  <2> HIDE DEF u
  <2>2. /\ Len(u) \in 1..MaxBlocks /\ IsInjective(u)
        /\ \A i \in DOMAIN u :
             u[i] > 0 /\ (Overflows(u[i]) \/ u[i] * FrameSamples <= BufferSamples)
    BY <2>1 DEF IsInjective, MaxBlocks, FrameSamples, BufferSamples
  <2> QED BY <1>5, <2>1, <2>2 DEF Runnable, u
<1>7. CASE p.blocks = kept /\ kept # <<>>
  <2>1. Len(kept) \in Nat /\ Len(kept) # 0
    BY <1>3, <1>7, EmptySeq
  <2> HIDE DEF kept
  <2>2. Len(kept) \in 1..MaxBlocks
    <3>1. Len(kept) <= MaxBlocks
      BY <1>3, Zenon DEF UsableBlocks
    <3>2. \A m \in Nat : m # 0 /\ m <= 4 => m \in 1..4
      OBVIOUS
    <3> QED BY <2>1, <3>1, <3>2, Zenon DEF MaxBlocks
  <2>3. ASSUME NEW i \in DOMAIN kept
        PROVE  kept[i] > 0 /\ (Overflows(kept[i]) \/ kept[i] * FrameSamples <= BufferSamples)
    <3>1. kept[i] \in Int /\ kept[i] > 0 /\ Samples(kept[i]) <= BufferSamples
      BY <1>3, LenProperties DEF UsableBlocks
    <3> QED BY <3>1, FitsUnlessOverflows
  <2> QED BY <1>3, <1>5, <1>7, <2>2, <2>3, Zenon DEF Runnable, UsableBlocks
<1> QED BY <1>4, <1>6, <1>7

\* How many numbers of a marked there are up to k.
UpToCount(marked, k) == Cardinality({i \in marked : i <= k})

LEMMA Counting ==
    ASSUME NEW n \in Nat, NEW marked \in SUBSET (1..n)
    PROVE  /\ UpToCount(marked, 0) = 0 /\ UpToCount(marked, n) = Cardinality(marked)
           /\ \A k \in 0..n : UpToCount(marked, k) \in Nat
           /\ \A k \in 1..n :
                UpToCount(marked, k) = UpToCount(marked, k-1) + IF k \in marked THEN 1 ELSE 0
           /\ \A k \in 0..n, i \in 1..n :
                i \in marked /\ i <= k => UpToCount(marked, i) \in 1..UpToCount(marked, k)
<1> DEFINE below(k) == {i \in marked : i <= k}
<1>1. IsFiniteSet(1..n)
  BY FS_Interval
<1>2. \A k \in 0..n : IsFiniteSet(below(k)) /\ Cardinality(below(k)) \in Nat
  <2> TAKE k \in 0..n
  <2>1. below(k) \in SUBSET (1..n)
    OBVIOUS
  <2> HIDE DEF below
  <2> QED BY <1>1, <2>1, FS_Subset, FS_CardinalityType
<1>3. \A i \in marked : i \in 1..n
  OBVIOUS
<1>4. below(0) = {} /\ below(n) = marked
  <2>1. \A i \in marked : ~(i <= 0) /\ i <= n
    BY <1>3
  <2> QED BY <2>1, Zenon
<1>5. \A k \in 1..n :
        Cardinality(below(k)) = Cardinality(below(k-1)) + IF k \in marked THEN 1 ELSE 0
  <2> TAKE k \in 1..n
  <2>1. k - 1 \in 0..n
    OBVIOUS
  <2>2. CASE k \in marked
    <3>1. below(k) = below(k-1) \cup {k} /\ k \notin below(k-1)
      <4>1. \A i \in marked : (i <= k <=> i <= k - 1 \/ i = k) /\ ~(k <= k - 1)
        BY <1>3
      <4> QED BY <2>2, <4>1, Zenon
    <3> HIDE DEF below
    <3>2. Cardinality(below(k-1) \cup {k}) = Cardinality(below(k-1)) + 1
      BY <1>2, <2>1, <3>1, FS_AddElement
    <3> QED BY <2>2, <3>1, <3>2
  <2>3. CASE k \notin marked
    <3>1. below(k) = below(k-1)
      <4>1. \A i \in marked : i <= k <=> i <= k - 1 \/ i = k
        BY <1>3
      <4> QED BY <2>3, <4>1, Zenon
    <3> HIDE DEF below
    <3> QED BY <1>2, <2>1, <2>3, <3>1
  <2> QED BY <2>2, <2>3
<1>6. ASSUME NEW k \in 0..n, NEW i \in 1..n, i \in marked, i <= k
      PROVE  Cardinality(below(i)) \in 1..Cardinality(below(k))
  <2>1. below(i) \subseteq below(k) /\ i \in below(i) /\ i \in 0..n
    <3>1. \A j \in marked : (j <= i => j <= k) /\ (j = i => j <= i)
      BY <1>6, <1>3
    <3>2. i \in 0..n
      OBVIOUS
    <3> QED BY <1>6, <3>1, <3>2, Zenon
  <2> HIDE DEF below
  <2>2. Cardinality(below(i)) <= Cardinality(below(k)) /\ Cardinality(below(i)) # 0
    BY <1>2, <2>1, FS_Subset, FS_EmptySet
  <2> QED BY <1>2, <2>1, <2>2
<1> HIDE DEF below
<1>7. Cardinality(below(0)) = 0
  BY <1>4, FS_EmptySet
<1> QED BY <1>2, <1>4, <1>5, <1>6, <1>7, Zenon DEF UpToCount, below

LEMMA KeepHintOutcome ==
    ASSUME NEW H, NEW out \in Seq(H), NEW h, apCallHint(h) \in H
    PROVE  \/ /\ N28[h.call] = Unpackable \/ Len(out) = MaxAPCallHints
                 \/ \E i \in 1..Len(out) : out[i].n28 = N28[h.call]
              /\ KeepHint(out, h) = out
           \/ /\ N28[h.call] # Unpackable /\ Len(out) # MaxAPCallHints
              /\ \A i \in 1..Len(out) : out[i].n28 # N28[h.call]
              /\ Len(KeepHint(out, h)) = Len(out) + 1
              /\ KeepHint(out, h)[Len(out) + 1] = apCallHint(h)
              /\ \A i \in 1..Len(out) : KeepHint(out, h)[i] = out[i]
<1>1. DOMAIN out = 1..Len(out)
  BY LenProperties
<1> DEFINE skip == \/ N28[h.call] = Unpackable \/ Len(out) = MaxAPCallHints
                   \/ \E i \in DOMAIN out : out[i].n28 = N28[h.call]
           new == apCallHint(h)
<1>2. KeepHint(out, h) = IF skip THEN out ELSE Append(out, new)
  BY Zenon DEF KeepHint
<1>3. new \in H
  OBVIOUS
<1> HIDE DEF new
<1>4. /\ Len(Append(out, new)) = Len(out) + 1 /\ Append(out, new)[Len(out) + 1] = new
      /\ \A i \in 1..Len(out) : Append(out, new)[i] = out[i]
  BY <1>3
<1> QED BY <1>1, <1>2, <1>4, Zenon DEF new

\* What one call hint, the entry with the call, does to those kept.
KeptOrNot(out, new, entry, call) ==
    \/ /\ call = Unpackable \/ Len(out) = MaxAPCallHints
          \/ \E p \in 1..Len(out) : out[p].n28 = call
       /\ new = out
    \/ /\ call # Unpackable /\ Len(out) # MaxAPCallHints
       /\ \A p \in 1..Len(out) : out[p].n28 # call
       /\ Len(new) = Len(out) + 1 /\ new[Len(out) + 1] = entry
       /\ \A p \in 1..Len(out) : new[p] = out[p]

Firsts(calls, n) ==
    {i \in 1..n : calls[i] # Unpackable /\ \A j \in 1..(i - 1) : calls[j] # calls[i]}

FirstsKept(calls, n) ==
    {i \in Firsts(calls, n) : UpToCount(Firsts(calls, n), i - 1) < MaxAPCallHints}

\* The hints kept of the first k: the firsts there is room for, in their order.
KeptSoFar(out, entries, calls, n, k) ==
    /\ Len(out) = UpToCount(FirstsKept(calls, n), k) /\ Len(out) <= MaxAPCallHints
    /\ \A i \in FirstsKept(calls, n) :
         i <= k => out[UpToCount(FirstsKept(calls, n), i)] = entries[i]
    /\ \A p \in 1..Len(out) : \E j \in FirstsKept(calls, n) : j <= k /\ out[p].n28 = calls[j]
    /\ Len(out) < MaxAPCallHints =>
         \A j \in Firsts(calls, n) : j <= k => j \in FirstsKept(calls, n)

LEMMA CountsInclude ==
    ASSUME NEW n \in Nat, NEW b \in SUBSET (1..n), NEW a \in SUBSET b, NEW k \in 0..n
    PROVE  /\ UpToCount(a, k) <= UpToCount(b, k)
           /\ (\A i \in b : i <= k => i \in a) => UpToCount(a, k) = UpToCount(b, k)
<1> DEFINE upA == {i \in a : i <= k}
           upB == {i \in b : i <= k}
<1>1. upA \in SUBSET upB /\ ((\A i \in b : i <= k => i \in a) => upA = upB)
  BY Zenon
<1>2. IsFiniteSet(upB)
  <2>1. upB \in SUBSET (1..n) /\ IsFiniteSet(1..n)
    <3>1. \A i \in b : i \in 1..n
      OBVIOUS
    <3>2. IsFiniteSet(1..n)
      BY FS_Interval
    <3> QED BY <3>1, <3>2, Zenon
  <2> HIDE DEF upB
  <2> QED BY <2>1, FS_Subset
<1> HIDE DEF upA, upB
<1>3. Cardinality(upA) <= Cardinality(upB)
  BY <1>1, <1>2, FS_Subset
<1> QED BY <1>1, <1>3, Zenon DEF UpToCount, upA, upB

\* One more hint keeps the list as it should be.
LEMMA OneMoreHint ==
    ASSUME NEW n \in Nat, NEW calls, NEW entries, \A i \in 1..n : entries[i].n28 = calls[i],
           NEW k \in 0..(n - 1), NEW H,
           NEW out \in Seq(H), NEW new \in Seq(H),
           KeptSoFar(out, entries, calls, n, k), KeptOrNot(out, new, entries[k + 1], calls[k + 1])
    PROVE  KeptSoFar(new, entries, calls, n, k + 1)
<1> DEFINE firsts == Firsts(calls, n)
           kept == FirstsKept(calls, n)
           room == MaxAPCallHints
           x == k + 1
           place(i) == UpToCount(kept, i)
<1>1. kept \in SUBSET firsts /\ firsts \in SUBSET (1..n) /\ kept \in SUBSET (1..n)
      /\ (\A i \in firsts : i \in 1..n) /\ \A i \in kept : i \in firsts
  BY Zenon DEF Firsts, FirstsKept
<1>2. x \in 1..n /\ x \in 0..n /\ k \in 0..n /\ x - 1 = k /\ k \in Nat /\ room \in Nat \ {0}
      /\ Len(out) \in Nat
  BY OptionsAssumption
<1>3. x \in firsts <=> calls[x] # Unpackable /\ \A j \in 1..k : calls[j] # calls[x]
  BY <1>2, Zenon DEF Firsts
<1>4. x \in kept <=> x \in firsts /\ UpToCount(firsts, k) < room
  BY <1>2, Zenon DEF FirstsKept
<1>5. UpToCount(kept, k) \in Nat /\ place(x) = UpToCount(kept, k) + IF x \in kept THEN 1 ELSE 0
  <2>1. /\ \A j \in 0..n : UpToCount(kept, j) \in Nat
        /\ \A j \in 1..n : UpToCount(kept, j) = UpToCount(kept, j-1) + IF j \in kept THEN 1 ELSE 0
    BY <1>1, Counting
  <2> QED BY <1>2, <2>1
<1>6. \A i \in kept : i <= k => place(i) \in 1..Len(out)
  <2>1. \A j \in 0..n, i \in 1..n : i \in kept /\ i <= j => place(i) \in 1..place(j)
    BY <1>1, Counting
  <2>2. place(k) = Len(out)
    BY Zenon DEF KeptSoFar
  <2> QED BY <1>1, <1>2, <2>1, <2>2, Zenon
<1>7. UpToCount(firsts, k) \in Nat /\ Len(out) <= UpToCount(firsts, k)
      /\ (Len(out) < room => Len(out) = UpToCount(firsts, k))
  <2>1. UpToCount(firsts, k) \in Nat
    BY <1>1, <1>2, Counting
  <2>2. /\ UpToCount(kept, k) <= UpToCount(firsts, k)
        /\ (\A i \in firsts : i <= k => i \in kept) => UpToCount(kept, k) = UpToCount(firsts, k)
    BY <1>1, <1>2, CountsInclude
  <2> QED BY <2>1, <2>2, Zenon DEF KeptSoFar
<1> HIDE DEF x, firsts, kept, room
<1>8. /\ Len(out) = UpToCount(kept, k) /\ Len(out) <= room
      /\ \A i \in kept : i <= k => out[place(i)] = entries[i]
      /\ \A p \in 1..Len(out) : \E j \in kept : j <= k /\ out[p].n28 = calls[j]
      /\ Len(out) < room => \A j \in firsts : j <= k => j \in kept
  BY Zenon DEF KeptSoFar, kept, firsts, room
<1>9. SUFFICES /\ Len(new) = place(x) /\ Len(new) <= room
               /\ \A i \in kept : i <= x => new[place(i)] = entries[i]
               /\ \A p \in 1..Len(new) : \E j \in kept : j <= x /\ new[p].n28 = calls[j]
               /\ Len(new) < room => \A j \in firsts : j <= x => j \in kept
  BY Zenon DEF KeptSoFar, kept, firsts, room, x
<1>10. \A i \in firsts : (i <= k => i <= x) /\ (i <= x => i <= k \/ i = x) /\ (i <= k => i \in 1..k)
  BY <1>1, <1>2 DEF x
<1>11. CASE /\ calls[x] = Unpackable \/ Len(out) = room
               \/ \E p \in 1..Len(out) : out[p].n28 = calls[x]
            /\ new = out
  <2>1. x \notin kept
    <3>1. CASE calls[x] = Unpackable
      BY <1>3, <1>4, <3>1
    <3>2. CASE Len(out) = room
      <4>1. ~(UpToCount(firsts, k) < room)
        BY <1>2, <1>7, <3>2
      <4> QED BY <1>4, <4>1
    <3>3. CASE \E p \in 1..Len(out) : out[p].n28 = calls[x]
      <4>1. PICK j \in kept : j <= k /\ calls[j] = calls[x]
        BY <1>8, <3>3
      <4>2. j \in 1..k
        BY <1>1, <1>10, <4>1
      <4> QED BY <1>3, <1>4, <4>1, <4>2
    <3> QED BY <1>11, <3>1, <3>2, <3>3
  <2>2. Len(out) < room => x \notin firsts
    <3>1. Len(out) < room => UpToCount(firsts, k) < room
      BY <1>7
    <3> QED BY <1>4, <2>1, <3>1
  <2>3. Len(new) = place(x)
    BY <1>5, <1>8, <1>11, <2>1
  <2> QED BY <1>1, <1>8, <1>10, <1>11, <2>1, <2>2, <2>3, Zenon
<1>12. CASE /\ calls[x] # Unpackable /\ Len(out) # room
            /\ \A p \in 1..Len(out) : out[p].n28 # calls[x]
            /\ Len(new) = Len(out) + 1 /\ new[Len(out) + 1] = entries[x]
            /\ \A p \in 1..Len(out) : new[p] = out[p]
  <2>1. Len(out) < room /\ Len(out) + 1 <= room
    BY <1>2, <1>8, <1>12
  <2>2. x \in firsts
    <3>1. SUFFICES ASSUME NEW j \in 1..k, calls[j] = calls[x] PROVE FALSE
      BY <1>3, <1>12
    <3> DEFINE same == {i \in 1..k : calls[i] = calls[x]}
    <3>2. same \subseteq Nat /\ same # {} /\ \A i \in same : i \in 1..k /\ calls[i] = calls[x]
      BY <3>1
    <3>3. \A i \in 1..k : calls[i] = calls[x] => i \in same
      OBVIOUS
    <3> HIDE DEF same
    <3>4. PICK i \in same : \A m \in same : i <= m
      BY <3>2, LeastNat
    <3>5. i \in firsts
      <4>1. \A m \in 1..(i - 1) : m \in 1..k /\ ~(i <= m)
        BY <1>2, <3>2, <3>4
      <4>2. \A m \in 1..(i - 1) : calls[m] # calls[i]
        BY <3>2, <3>4, <3>3, <4>1, Zenon
      <4>3. i \in 1..n
        BY <1>2, <3>2, <3>4
      <4>4. calls[i] # Unpackable
        BY <1>12, <3>2
      <4> QED BY <4>2, <4>3, <4>4, Zenon DEF Firsts, firsts
    <3>6. i \in kept /\ i <= k
      <4>1. i \in 1..k
        BY <3>2, Zenon
      <4>2. i <= k
        BY <4>1
      <4> QED BY <1>8, <2>1, <3>5, <4>2
    <3>7. place(i) \in 1..Len(out) /\ out[place(i)].n28 = calls[x]
      <4>1. place(i) \in 1..Len(out)
        BY <1>6, <3>6
      <4>2. calls[i] = calls[x]
        BY <3>2, Zenon
      <4>3. out[place(i)].n28 = calls[i]
        <5>1. i \in 1..n
          BY <1>1, <3>5
        <5> QED BY <1>8, <3>6, <5>1, Zenon
      <4> QED BY <4>1, <4>2, <4>3, Zenon
    <3> QED BY <1>12, <3>7
  <2>3. x \in kept
    BY <1>4, <1>7, <2>1, <2>2
  <2>4. place(x) = Len(out) + 1
    BY <1>5, <1>8, <2>3
  <2>5. \A i \in kept : i <= x => new[place(i)] = entries[i]
    <3> SUFFICES ASSUME NEW i \in kept, i <= x PROVE new[place(i)] = entries[i]
      OBVIOUS
    <3>1. CASE i = x
      BY <1>12, <2>4, <3>1, Zenon
    <3>2. CASE i # x
      <4>1. i <= k
        BY <1>1, <1>10, <3>2
      <4>2. place(i) \in 1..Len(out)
        BY <1>6, <4>1
      <4> QED BY <1>8, <1>12, <4>1, <4>2, Zenon
    <3> QED BY <3>1, <3>2
  <2>6. \A p \in 1..Len(new) : \E j \in kept : j <= x /\ new[p].n28 = calls[j]
    <3> TAKE p \in 1..Len(new)
    <3>1. CASE p = Len(out) + 1
      <4>1. x <= x
        BY <1>2
      <4> QED BY <1>2, <1>12, <2>3, <3>1, <4>1, Zenon
    <3>2. CASE p # Len(out) + 1
      <4>1. p \in 1..Len(out)
        BY <1>2, <1>12, <3>2
      <4>2. PICK j \in kept : j <= k /\ out[p].n28 = calls[j]
        BY <1>8, <4>1
      <4>3. j <= x
        BY <1>1, <1>10, <4>2
      <4> QED BY <1>12, <4>1, <4>2, <4>3, Zenon
    <3> QED BY <3>1, <3>2
  <2>7. \A j \in firsts : j <= x => j \in kept
    BY <1>8, <1>10, <2>1, <2>3, Zenon
  <2> QED BY <1>12, <2>1, <2>4, <2>5, <2>6, <2>7, Zenon
<1> QED BY <1>11, <1>12, Zenon DEF KeptOrNot, x, room

\* In the caller's order, each call once, as many as there is room for.
LEMMA NormalizedHints ==
    ASSUME NEW o \in GivenOptions
    PROVE  HintsAsGiven(NormalizeDecoderOptions(o), o)
<1> DEFINE h == o.hints
           n == Len(h)
           H == {apCallHint(h[i]) : i \in DOMAIN h}
           calls == [i \in 1..n |-> N28[h[i].call]]
           entries == [i \in 1..n |-> apCallHint(h[i])]
           p == NormalizeDecoderOptions(o)
<1>1. h \in Seq(APCallHint)
  BY DEF GivenOptions
<1>2. n \in Nat /\ DOMAIN h = 1..n
  BY <1>1, LenProperties
<1>3. p.hints = NormalizeAPCallHints(h)
  BY Zenon DEF NormalizeDecoderOptions
<1>4. \A i \in 1..n : apCallHint(h[i]) \in H
  BY <1>2, Zenon
<1> HIDE DEF h, p, n
<1>5. PICK c \in [0..n -> Seq(H)] :
        /\ c[0] = <<>> /\ c[n] = NormalizeAPCallHints(h)
        /\ \A k \in 1..n : c[k] = KeepHint(c[k-1], h[k])
  <2> HIDE DEF H
  <2>1. H = {apCallHint(h[i]) : i \in DOMAIN h}
    BY DEF H
  <2> QED BY <1>1, <2>1, CallHintSteps, Zenon DEF n
<1> HIDE DEF H
<1>6. ASSUME NEW k \in 0..(n - 1) PROVE KeptOrNot(c[k], c[k + 1], entries[k + 1], calls[k + 1])
  <2>1. k + 1 \in 1..n /\ (k + 1) - 1 = k /\ k \in 0..n
    BY <1>2
  <2>2. c[k] \in Seq(H) /\ apCallHint(h[k + 1]) \in H /\ c[k + 1] = KeepHint(c[k], h[k + 1])
        /\ calls[k + 1] = N28[h[k + 1].call] /\ entries[k + 1] = apCallHint(h[k + 1])
    BY <1>4, <1>5, <2>1
  <2> DEFINE out == c[k]
             x == h[k + 1]
  <2> HIDE DEF out, x
  <2>3. out \in Seq(H) /\ apCallHint(x) \in H
    BY <2>2 DEF out, x
  <2>4. \/ /\ N28[x.call] = Unpackable \/ Len(out) = MaxAPCallHints
                 \/ \E i \in 1..Len(out) : out[i].n28 = N28[x.call]
           /\ KeepHint(out, x) = out
        \/ /\ N28[x.call] # Unpackable /\ Len(out) # MaxAPCallHints
           /\ \A i \in 1..Len(out) : out[i].n28 # N28[x.call]
           /\ Len(KeepHint(out, x)) = Len(out) + 1
           /\ KeepHint(out, x)[Len(out) + 1] = apCallHint(x)
           /\ \A i \in 1..Len(out) : KeepHint(out, x)[i] = out[i]
    BY <2>3, KeepHintOutcome
  <2> QED BY <2>2, <2>4, Zenon DEF KeptOrNot, out, x
<1>7. \A i \in 1..n : entries[i].n28 = calls[i] /\ entries[i] = apCallHint(h[i])
  BY Zenon DEF apCallHint
<1> HIDE DEF calls, entries
<1> DEFINE G == {k \in 0..n : KeptSoFar(c[k], entries, calls, n, k)}
<1>8. Firsts(calls, n) \in SUBSET (1..n) /\ FirstsKept(calls, n) \in SUBSET (1..n)
      /\ \A i \in Firsts(calls, n) : i \in 1..n
  BY Zenon DEF Firsts, FirstsKept
<1>9. 0 \in G
  <2> DEFINE empty == c[0]
  <2>1. Len(empty) = 0 /\ 0 \in 0..n
    BY <1>2, <1>5
  <2>2. UpToCount(FirstsKept(calls, n), 0) = 0
    BY <1>2, <1>8, Counting
  <2>3. \A i \in Firsts(calls, n) : ~(i <= 0)
    BY <1>8
  <2>4. \A i \in FirstsKept(calls, n) : i \in Firsts(calls, n)
    BY Zenon DEF FirstsKept
  <2>5. 0 <= MaxAPCallHints /\ 1..0 = {}
    BY OptionsAssumption
  <2> HIDE DEF empty
  <2>6. KeptSoFar(empty, entries, calls, n, 0)
    BY <2>1, <2>2, <2>3, <2>4, <2>5, Zenon DEF KeptSoFar
  <2> QED BY <2>1, <2>6 DEF empty
<1>10. ASSUME NEW k \in 0..(n - 1), k \in G PROVE k + 1 \in G
  <2>1. k \in 0..n /\ k + 1 \in 0..n
    BY <1>2
  <2>2. c[k] \in Seq(H) /\ c[k + 1] \in Seq(H) /\ KeptSoFar(c[k], entries, calls, n, k)
    BY <1>5, <1>10, <2>1
  <2>3. KeptSoFar(c[k + 1], entries, calls, n, k + 1)
    BY <1>2, <1>6, <1>7, <2>2, OneMoreHint
  <2> QED BY <2>1, <2>3
<1>11. KeptSoFar(c[n], entries, calls, n, n)
  <2>1. n \in 0..n
    BY <1>2
  <2>2. \A k \in 0..n : k \in G
    <3> HIDE DEF G
    <3> QED BY <1>2, <1>9, <1>10, UpTo
  <2> QED BY <2>1, <2>2
<1> DEFINE firsts == {i \in DOMAIN h : FirstOfCall(h, i)}
           kept   == {i \in firsts : Cardinality({j \in firsts : j < i}) < MaxAPCallHints}
<1>12. firsts = Firsts(calls, n)
  <2>1. \A i \in 1..n : calls[i] = N28[h[i].call]
    BY DEF calls
  <2>2. \A i \in 1..n : \A j \in 1..(i - 1) : j \in 1..n
    BY <1>2
  <2>3. \A i \in 1..n : FirstOfCall(h, i) <=>
          calls[i] # Unpackable /\ \A j \in 1..(i - 1) : calls[j] # calls[i]
    BY <2>1, <2>2, Zenon DEF FirstOfCall
  <2> QED BY <1>2, <2>3, Zenon DEF Firsts
<1> HIDE DEF firsts
<1>13. kept = FirstsKept(calls, n)
  <2>1. \A i, j \in firsts : j < i <=> j <= i - 1
    BY <1>8, <1>12, <1>2
  <2>2. \A i \in firsts : {j \in firsts : j < i} = {j \in firsts : j <= i - 1}
    BY <2>1, Zenon
  <2> QED BY <1>12, <2>2, Zenon DEF FirstsKept, UpToCount
<1>14. UpToCount(FirstsKept(calls, n), n) = Cardinality(FirstsKept(calls, n))
  BY <1>2, <1>8, Counting
<1>15. \A i \in FirstsKept(calls, n) : i \in 1..n /\ i <= n
  BY <1>2, <1>8
<1>16. Len(p.hints) = Cardinality(kept)
  BY <1>3, <1>5, <1>11, <1>13, <1>14, Zenon DEF KeptSoFar
<1>17. \A i \in kept : p.hints[Cardinality({j \in kept : j <= i})] = apCallHint(h[i])
  <2> HIDE DEF kept
  <2>1. \A i \in kept : c[n][UpToCount(kept, i)] = entries[i]
    BY <1>11, <1>13, <1>15, Zenon DEF KeptSoFar
  <2>2. \A i \in kept : entries[i] = apCallHint(h[i])
    BY <1>13, <1>15, <1>7, Zenon
  <2>3. p.hints = c[n]
    BY <1>3, <1>5
  <2> QED BY <2>1, <2>2, <2>3, Zenon DEF UpToCount
<1> QED BY <1>16, <1>17, Zenon DEF HintsAsGiven, kept, firsts, h, p

\* Nor is any hint dropped that need not be.
LEMMA AllHintsKept ==
    ASSUME NEW o \in GivenOptions, NoHintDropped(o.hints)
    PROVE  NormalizeDecoderOptions(o).hints = [i \in DOMAIN o.hints |-> apCallHint(o.hints[i])]
<1> DEFINE h == o.hints
           n == Len(h)
           out == NormalizeDecoderOptions(o).hints
           H == {apCallHint(h[i]) : i \in DOMAIN h}
           firsts == {i \in DOMAIN h : FirstOfCall(h, i)}
           kept == {i \in firsts : Cardinality({j \in firsts : j < i}) < MaxAPCallHints}
<1>1. h \in Seq(APCallHint) /\ n \in Nat /\ DOMAIN h = 1..n
  BY LenProperties DEF GivenOptions
<1>2. n <= MaxAPCallHints /\ \A i \in DOMAIN h : FirstOfCall(h, i)
  BY Zenon DEF NoHintDropped
<1>3. out \in Seq(H)
  <2>1. out = NormalizeAPCallHints(h)
    BY Zenon DEF NormalizeDecoderOptions
  <2> HIDE DEF h, out, H
  <2>2. H = {apCallHint(h[i]) : i \in DOMAIN h}
    BY DEF H
  <2>3. PICK c \in [0..Len(h) -> Seq(H)] : c[Len(h)] = NormalizeAPCallHints(h)
    BY <1>1, <2>2, CallHintSteps, Zenon
  <2>4. Len(h) \in 0..Len(h)
    BY <1>1 DEF n
  <2> QED BY <2>1, <2>3, <2>4
<1>4. HintsAsGiven(NormalizeDecoderOptions(o), o)
  BY NormalizedHints
<1>5. /\ Len(out) = Cardinality(kept)
      /\ \A i \in kept : out[Cardinality({j \in kept : j <= i})] = apCallHint(h[i])
  BY <1>4, Zenon DEF HintsAsGiven
<1> HIDE DEF out, h, H, kept, n
<1>6. firsts = 1..n
  BY <1>1, <1>2, Zenon
<1> HIDE DEF firsts
<1>7. \A i \in 1..n : {j \in firsts : j < i} = 1..(i - 1) /\ {j \in 1..n : j <= i} = 1..i
                      /\ i - 1 \in Nat /\ i \in Nat
  BY <1>1, <1>6
<1>8. \A m \in Nat : Cardinality(1..m) = m
  <2> TAKE m \in Nat
  <2>1. Cardinality(1..m) = IF 1 > m THEN 0 ELSE m - 1 + 1
    BY FS_Interval
  <2> QED BY <2>1
<1>9. kept = 1..n
  <2>1. \A i \in 1..n : i - 1 < MaxAPCallHints
    BY <1>1, <1>2, OptionsAssumption
  <2>2. \A i \in 1..n : Cardinality({j \in firsts : j < i}) = i - 1
    BY <1>7, <1>8, Zenon
  <2>3. \A i \in firsts : Cardinality({j \in firsts : j < i}) < MaxAPCallHints
    BY <1>6, <2>1, <2>2
  <2>4. kept = firsts
    BY <2>3, Zenon DEF kept
  <2> QED BY <1>6, <2>4
<1>10. Len(out) = n /\ \A i \in 1..n : out[i] = apCallHint(h[i])
  BY <1>1, <1>5, <1>7, <1>8, <1>9, Zenon
<1>11. out = [i \in 1..n |-> out[i]]
  BY <1>3, <1>10, LenProperties, Zenon
<1>12. [i \in 1..n |-> out[i]] = [i \in 1..n |-> apCallHint(h[i])]
  BY <1>10, Zenon
<1> QED BY <1>1, <1>11, <1>12, Zenon DEF out, h

\* A checked search has the options that were given, wherever they were marked.
LEMMA ValidAsGiven ==
    ASSUME NEW o \in GivenOptions, ValidOptions(o)
    PROVE  AsGiven(NormalizeDecoderOptions(o), o)
<1> DEFINE p == NormalizeDecoderOptions(o)
           limit(f) == IF o.ints[f] > 0 THEN o.ints[f] ELSE IntDefault[f]
<1>1. /\ o.blocks \in Seq(Int) /\ o.ints \in [DOMAIN IntDefault -> Int]
      /\ o.floats \in [DOMAIN FloatDefault -> Floats]
  BY DEF GivenOptions
<1>2. /\ p.floats = [f \in DOMAIN FloatDefault |->
                       IF Positive(o.floats[f]) THEN o.floats[f] ELSE FloatDefault[f]]
      /\ p.ints = [f \in DOMAIN IntDefault |-> NormalizeInt(f, o.ints[f])]
      /\ p.blocks = IF o.blocks = <<>> THEN <<50>> ELSE NormalizeBlockCounts(o.blocks)
      /\ p.flags = o.flags
  BY Zenon DEF NormalizeDecoderOptions
<1>3. /\ \A f \in DOMAIN FloatDefault : o.floats[f] \in {"zero", "positive", "1.4"}
      /\ \A f \in DOMAIN IntLimit : o.ints[f] \in 0..IntLimit[f]
      /\ o.ints["MinFreqHz"] >= 0 /\ o.ints["MaxFreqHz"] >= 0
      /\ limit("MinFreqHz") < limit("MaxFreqHz")
      /\ ValidBlocks(o.blocks)
  BY Zenon DEF ValidOptions, ValidFrequencies
<1> HIDE DEF p
<1>4. \A f \in DOMAIN FloatDefault :
        p.floats[f] = IF o.floats[f] = "zero" THEN FloatDefault[f] ELSE o.floats[f]
  <2> TAKE f \in DOMAIN FloatDefault
  <2>1. p.floats[f] = IF Positive(o.floats[f]) THEN o.floats[f] ELSE FloatDefault[f]
    BY <1>2, Zenon
  <2>2. Positive(o.floats[f]) <=> o.floats[f] # "zero"
    BY <1>3 DEF Positive
  <2> QED BY <2>1, <2>2, Zenon
<1>5. \A f \in DOMAIN IntDefault :
        p.ints[f] = IF o.ints[f] = 0 THEN IntDefault[f] ELSE o.ints[f]
  <2> TAKE f \in DOMAIN IntDefault
  <2>1. p.ints[f] = NormalizeInt(f, o.ints[f]) /\ o.ints[f] \in Int
    BY <1>1, <1>2, Zenon
  <2>2. o.ints[f] >= 0
    BY <1>1, <1>3 DEF IntLimit, IntDefault, MaxAPCallHypotheses
  <2>3. f = "MaxAPCallHypotheses" => o.ints[f] <= MaxAPCallHypotheses
    BY <1>1, <1>3 DEF IntLimit, IntDefault, MaxAPCallHypotheses
  <2> QED BY <2>1, <2>2, <2>3 DEF NormalizeInt, MaxAPCallHypotheses
<1>6. p.blocks = IF o.blocks = <<>> THEN <<50>> ELSE o.blocks
  BY <1>1, <1>2, <1>3, NormalizedBlocks, ValidBlocksKept, Zenon
<1>7. p.ints["MinFreqHz"] < p.ints["MaxFreqHz"]
  <2>1. \A f \in {"MinFreqHz", "MaxFreqHz"} :
          f \in DOMAIN IntDefault /\ o.ints[f] \in Int /\ o.ints[f] >= 0
    BY <1>1, <1>3 DEF IntDefault
  <2>2. \A f \in {"MinFreqHz", "MaxFreqHz"} : p.ints[f] = limit(f)
    BY <1>5, <2>1
  <2> QED BY <1>3, <2>2
<1>8. NoHintDropped(o.hints) =>
        p.hints = [i \in DOMAIN o.hints |-> apCallHint(o.hints[i])]
  BY AllHintsKept, Zenon DEF p
<1> QED BY <1>2, <1>4, <1>5, <1>6, <1>7, <1>8, Zenon DEF AsGiven, p

\* No text twice in a list.
Distinct(list) == \A i, j \in 1..Len(list) : list[i].text = list[j].text => i = j

HasText(list, last, text) == \E j \in 1..last : list[j].text = text

\* The first rows after merging k messages of the deep list: the strict messages.
StrictRow(row, strict, i, deep, k) ==
    /\ row.message = strict[i] /\ row.Strict = TRUE /\ row.StrictCopy = strict[i]
    /\ row.Mode = "strict"
    /\ row.Deep = HasText(deep, k, strict[i].text) /\ row.Duplicate = row.Deep
    /\ row.Deep => \E j \in 1..k : row.DeepCopy = deep[j] /\ deep[j].text = strict[i].text
    /\ ~row.Deep => row.DeepCopy = NoMessage

\* And the others: what those k messages add to them, each with its own row.
Merged(rows, added, strict, deep, k) ==
    /\ Len(rows) = Len(strict) + Len(added)
    /\ \A i \in 1..Len(strict) : StrictRow(rows[i], strict, i, deep, k)
    /\ \A p \in 1..Len(added) : rows[Len(strict) + p] = Row(added[p], "deep")
    /\ \A p \in 1..Len(added) : ~HasText(strict, Len(strict), added[p].text)
    /\ \A p \in 1..Len(added) : \E j \in 1..k : added[p] = deep[j]
    /\ \A j \in 1..k : \E i \in 1..Len(rows) : rows[i].message.text = deep[j].text
    /\ \A i, j \in 1..Len(rows) : rows[i].message.text = rows[j].message.text => i = j

\* What a deep message adds to the rows that only deep mode found.
Added(added, strict, message) ==
    IF HasText(strict, Len(strict), message.text) THEN added ELSE Append(added, message)

LEMMA RowFields ==
    ASSUME NEW message
    PROVE  LET s == Row(message, "strict")
               d == Row(message, "deep")
           IN  /\ s.message = message /\ s.Strict = TRUE /\ s.Deep = FALSE /\ s.Duplicate = FALSE
               /\ s.StrictCopy = message /\ s.DeepCopy = NoMessage /\ s.Mode = "strict"
               /\ d.message = message /\ d.Strict = FALSE /\ d.Deep = TRUE /\ d.Duplicate = FALSE
               /\ d.StrictCopy = NoMessage /\ d.DeepCopy = message /\ d.Mode = "deep"
BY DEF Row

LEMMA StrictRowsMerged ==
    ASSUME NEW strict \in Seq(Message), NEW deep, Distinct(strict)
    PROVE  Merged(StrictRows(strict), <<>>, strict, deep, 0)
<1> DEFINE rows == StrictRows(strict)
           ns == Len(strict)
           none == <<>>
<1>1. /\ Len(rows) = ns /\ ns \in Nat /\ Len(none) = 0 /\ 1..0 = {}
      /\ \A i \in 1..ns : rows[i] = Row(strict[i], "strict")
  BY StrictRowsAreRows, LenProperties
<1>2. \A i \in 1..ns : StrictRow(rows[i], strict, i, deep, 0)
  <2> TAKE i \in 1..ns
  <2> DEFINE row == rows[i]
             message == strict[i]
  <2>1. row = Row(message, "strict")
    BY <1>1
  <2> HIDE DEF row, message
  <2>2. /\ row.message = message /\ row.Strict = TRUE /\ row.Deep = FALSE /\ row.Duplicate = FALSE
        /\ row.StrictCopy = message /\ row.DeepCopy = NoMessage /\ row.Mode = "strict"
    BY <2>1, RowFields
  <2>3. HasText(deep, 0, message.text) = FALSE
    BY <1>1 DEF HasText
  <2> QED BY <2>2, <2>3, Zenon DEF StrictRow, row, message
<1>3. \A i \in 1..ns : rows[i].message = strict[i]
  BY <1>2, Zenon DEF StrictRow
<1> HIDE DEF rows, none
<1>4. \A i, j \in 1..Len(rows) : rows[i].message.text = rows[j].message.text => i = j
  <2> TAKE i, j \in 1..Len(rows)
  <2> HAVE rows[i].message.text = rows[j].message.text
  <2>1. i \in 1..ns /\ j \in 1..ns
    BY <1>1
  <2>2. strict[i].text = strict[j].text
    BY <1>3, <2>1
  <2> QED BY <2>1, <2>2, Zenon DEF Distinct
<1>5. Len(rows) = ns + Len(none)
  BY <1>1
<1> HIDE DEF ns
<1>6. \A p \in 1..Len(none) : FALSE
  BY <1>1, Zenon
<1>7. \A j \in 1..0 : FALSE
  BY <1>1, Zenon
<1> QED BY <1>1, <1>2, <1>4, <1>5, <1>6, <1>7, Zenon DEF Merged, rows, ns, none

\* A text that some row has is a strict message's, or it is not new.
LEMMA RowsHaveTexts ==
    ASSUME NEW strict \in Seq(Message), NEW deep \in Seq(Message), NEW k \in 0..Len(deep),
           NEW added \in Seq(Message), NEW rows \in Seq(MergedRow),
           Merged(rows, added, strict, deep, k), NEW i \in 1..Len(rows)
    PROVE  \/ i \in 1..Len(strict) /\ rows[i].message = strict[i]
           \/ \E p \in 1..Len(added) : i = Len(strict) + p /\ rows[i].message = added[p]
<1>1. Len(rows) = Len(strict) + Len(added) /\ Len(strict) \in Nat /\ Len(added) \in Nat
  BY Zenon, LenProperties DEF Merged
<1>2. CASE i \in 1..Len(strict)
  BY <1>2, Zenon DEF Merged, StrictRow
<1>3. CASE i \notin 1..Len(strict)
  <2> DEFINE p == i - Len(strict)
  <2>1. p \in 1..Len(added) /\ i = Len(strict) + p
    BY <1>1, <1>3
  <2> HIDE DEF p
  <2>2. rows[i] = Row(added[p], "deep")
    BY <2>1, Zenon DEF Merged
  <2>3. rows[i].message = added[p]
    BY <2>2, RowFields
  <2> QED BY <2>1, <2>3
<1> QED BY <1>2, <1>3

LEMMA MergedStep ==
    ASSUME NEW strict \in Seq(Message), NEW deep \in Seq(Message), NEW k \in 0..(Len(deep) - 1),
           NEW added \in Seq(Message), NEW rows \in Seq(MergedRow),
           Distinct(strict), Distinct(deep),
           Merged(rows, added, strict, deep, k)
    PROVE  Merged(MergeDeep(rows, deep[k + 1]), Added(added, strict, deep[k + 1]),
                  strict, deep, k + 1)
<1> DEFINE ns == Len(strict)
           message == deep[k + 1]
           at == RowOf(rows, message.text)
           new == MergeDeep(rows, message)
           more == Added(added, strict, message)
<1>1. /\ ns \in Nat /\ Len(added) \in Nat /\ Len(deep) \in Nat /\ k + 1 \in 1..Len(deep)
      /\ k \in 0..Len(deep) /\ k \in Nat /\ message \in Message
      /\ \A j \in 1..k : j \in 1..(k + 1) /\ j # k + 1 /\ j \in 1..Len(deep)
      /\ \A j \in 1..(k + 1) : j \in 1..k \/ j = k + 1
      /\ k + 1 \in 1..(k + 1)
  BY LenProperties
<1>2. /\ Len(rows) = ns + Len(added) /\ Len(rows) \in Nat
      /\ \A i \in 1..ns : i \in 1..Len(rows)
      /\ \A p \in 1..Len(added) : ns + p \in 1..Len(rows) /\ ns + p \notin 1..ns
  <2>1. Len(rows) = ns + Len(added)
    BY Zenon DEF Merged
  <2> QED BY <1>1, <2>1
<1>3. \A i \in 1..ns : StrictRow(rows[i], strict, i, deep, k)
  BY Zenon DEF Merged
<1>4. \A p \in 1..Len(added) :
        /\ rows[ns + p] = Row(added[p], "deep") /\ ~HasText(strict, ns, added[p].text)
        /\ \E j \in 1..k : added[p] = deep[j]
  BY Zenon DEF Merged
<1>5. \A j \in 1..k : \E i \in 1..Len(rows) : rows[i].message.text = deep[j].text
  BY Zenon DEF Merged
<1>6. \A i, j \in 1..Len(rows) : rows[i].message.text = rows[j].message.text => i = j
  BY Zenon DEF Merged
<1>7. \A i \in 1..Len(rows) : \/ i \in 1..ns /\ rows[i].message = strict[i]
                              \/ \E p \in 1..Len(added) : i = ns + p /\ rows[i].message = added[p]
  BY <1>1, RowsHaveTexts
<1>8. \A i \in 1..ns : \A row : StrictRow(row, strict, i, deep, k) /\ strict[i].text # message.text
                              => StrictRow(row, strict, i, deep, k + 1)
  <2> SUFFICES ASSUME NEW i \in 1..ns, NEW row, StrictRow(row, strict, i, deep, k),
                      strict[i].text # message.text
               PROVE  StrictRow(row, strict, i, deep, k + 1)
    OBVIOUS
  <2>1. HasText(deep, k + 1, strict[i].text) = HasText(deep, k, strict[i].text)
    BY <1>1, Zenon DEF HasText
  <2>2. (\E j \in 1..k : row.DeepCopy = deep[j] /\ deep[j].text = strict[i].text)
          => \E j \in 1..(k + 1) : row.DeepCopy = deep[j] /\ deep[j].text = strict[i].text
    BY <1>1, Zenon
  <2> HIDE DEF message
  <2> QED BY <2>1, <2>2, Zenon DEF StrictRow
<1>9. /\ new \in Seq(MergedRow)
      /\ at = 0 => new = Append(rows, Row(message, "deep"))
      /\ at # 0 => /\ Len(new) = Len(rows)
                   /\ new[at] = WithDeep(rows[at], message)
                   /\ \A i \in 1..Len(rows) : i # at => new[i] = rows[i]
  BY <1>1, MergeDeepOutcome
<1>10. \/ at = 0 /\ \A i \in 1..Len(rows) : rows[i].message.text # message.text
       \/ at \in 1..Len(rows) /\ at # 0 /\ rows[at].message.text = message.text
  <2> DEFINE text == message.text
  <2> HIDE DEF text
  <2>1. \/ RowOf(rows, text) = 0 /\ \A i \in 1..Len(rows) : rows[i].message.text # text
        \/ RowOf(rows, text) \in 1..Len(rows) /\ rows[RowOf(rows, text)].message.text = text
    BY RowOfText
  <2>2. 0 \notin 1..Len(rows)
    BY <1>2
  <2> QED BY <2>1, <2>2, Zenon DEF text
<1> HIDE DEF new, at
<1>11. CASE at = 0
  <2>1. \A i \in 1..Len(rows) : rows[i].message.text # message.text
    BY <1>2, <1>10, <1>11
  <2>2. \A i \in 1..ns : strict[i].text # message.text
    BY <1>2, <1>3, <2>1, Zenon DEF StrictRow
  <2>3. more = Append(added, message)
    BY <2>2, Zenon DEF Added, HasText
  <2>4. /\ Len(more) = Len(added) + 1 /\ more[Len(added) + 1] = message
        /\ \A p \in 1..Len(added) : more[p] = added[p]
    <3> HIDE DEF message
    <3>1. /\ Len(Append(added, message)) = Len(added) + 1
          /\ Append(added, message)[Len(added) + 1] = message
          /\ \A p \in 1..Len(added) : Append(added, message)[p] = added[p]
      BY <1>1
    <3> QED BY <2>3, <3>1, Zenon
  <2> DEFINE row == Row(message, "deep")
  <2>5. row.message = message /\ row \in MergedRow
    BY <1>1, RowFields, RowIsRow DEF Modes
  <2>6. new = Append(rows, row)
    BY <1>9, <1>11
  <2> HIDE DEF row, more, message
  <2>7. /\ Len(new) = Len(rows) + 1 /\ new[Len(rows) + 1] = row
        /\ \A i \in 1..Len(rows) : new[i] = rows[i]
    <3>1. /\ Len(Append(rows, row)) = Len(rows) + 1 /\ Append(rows, row)[Len(rows) + 1] = row
          /\ \A i \in 1..Len(rows) : Append(rows, row)[i] = rows[i]
      BY <2>5
    <3> QED BY <2>6, <3>1, Zenon
  <2>8. Len(new) = ns + Len(more) /\ Len(rows) + 1 = ns + (Len(added) + 1)
        /\ \A p \in 1..(Len(added) + 1) : p \in 1..Len(added) \/ p = Len(added) + 1
    BY <1>1, <1>2, <2>4, <2>7
  <2>9. \A i \in 1..(Len(rows) + 1) : i \in 1..Len(rows) \/ i = Len(rows) + 1
    <3>1. \A m \in Nat : \A i \in 1..(m + 1) : i \in 1..m \/ i = m + 1
      OBVIOUS
    <3> QED BY <1>2, <3>1, Zenon
  <2>10. (\A i \in 1..Len(rows) : i \in 1..(Len(rows) + 1)) /\ Len(rows) + 1 \in 1..(Len(rows) + 1)
    BY <1>2
  <2>11. \A i \in 1..ns : StrictRow(new[i], strict, i, deep, k + 1)
    BY <1>2, <1>3, <1>8, <2>2, <2>7, Zenon DEF message
  <2>12. \A p \in 1..Len(more) : new[ns + p] = Row(more[p], "deep")
    BY <1>2, <1>4, <2>4, <2>7, <2>8, Zenon DEF row
  <2>13. \A p \in 1..Len(more) : ~HasText(strict, ns, more[p].text)
    BY <1>4, <2>2, <2>4, <2>8, Zenon DEF HasText
  <2>14. \A p \in 1..Len(more) : \E j \in 1..(k + 1) : more[p] = deep[j]
    BY <1>1, <1>4, <2>4, <2>8, Zenon DEF message
  <2>15. \A j \in 1..(k + 1) : \E i \in 1..Len(new) : new[i].message.text = deep[j].text
    BY <1>1, <1>5, <2>5, <2>7, <2>10, Zenon DEF message
  <2>16. \A i, j \in 1..Len(new) : new[i].message.text = new[j].message.text => i = j
    BY <1>6, <2>1, <2>5, <2>7, <2>9, Zenon
  <2> QED BY <2>8, <2>11, <2>12, <2>13, <2>14, <2>15, <2>16, Zenon DEF Merged, more, message, new
<1>12. CASE at \in 1..Len(rows) /\ at # 0 /\ rows[at].message.text = message.text
  <2>1. at \in 1..ns /\ strict[at].text = message.text
    <3>1. ASSUME NEW p \in 1..Len(added), rows[at].message = added[p] PROVE FALSE
      <4>1. PICK j \in 1..k : added[p] = deep[j]
        BY <1>4
      <4>2. deep[j].text = deep[k + 1].text
        BY <1>12, <3>1, <4>1
      <4> QED BY <1>1, <4>1, <4>2, Zenon DEF Distinct
    <3> QED BY <1>7, <1>12, <3>1, Zenon
  <2>2. more = added
    BY <2>1, Zenon DEF Added, HasText
  <2>3. Len(new) = Len(rows) /\ new[at] = WithDeep(rows[at], message)
        /\ \A i \in 1..Len(rows) : i # at => new[i] = rows[i]
    BY <1>9, <1>12
  <2> DEFINE old == rows[at]
             row == WithDeep(old, message)
  <2>4. old \in MergedRow
    BY <1>12
  <2> HIDE DEF old, more, message
  <2>5. /\ row.message = old.message /\ row.Strict = old.Strict
        /\ row.StrictCopy = old.StrictCopy /\ row.Deep = TRUE /\ row.Duplicate = TRUE
        /\ row.DeepCopy = message /\ row.Mode = old.Mode
    BY <1>1, <2>4, WithDeepIsRow DEF message
  <2> HIDE DEF row
  <2>6. StrictRow(old, strict, at, deep, k)
    BY <1>3, <2>1, Zenon DEF old
  <2>7. StrictRow(row, strict, at, deep, k + 1)
    <3>1. HasText(deep, k + 1, strict[at].text) = TRUE
      BY <1>1, <2>1, Zenon DEF HasText, message
    <3>2. \E j \in 1..(k + 1) : row.DeepCopy = deep[j] /\ deep[j].text = strict[at].text
      BY <1>1, <2>1, <2>5, Zenon DEF message
    <3>3. /\ row.message = strict[at] /\ row.Strict = TRUE /\ row.StrictCopy = strict[at]
          /\ row.Mode = "strict"
      BY <2>5, <2>6, Zenon DEF StrictRow
    <3> QED BY <2>5, <3>1, <3>2, <3>3, Zenon DEF StrictRow
  <2>8. \A i \in 1..ns : StrictRow(new[i], strict, i, deep, k + 1)
    <3> TAKE i \in 1..ns
    <3>1. CASE i = at
      BY <2>3, <2>7, <3>1, Zenon DEF row, old, message
    <3>2. CASE i # at
      <4>1. strict[i].text # message.text
        BY <2>1, <3>2, Zenon DEF Distinct
      <4> QED BY <1>2, <1>3, <1>8, <2>3, <3>2, <4>1, Zenon DEF message
    <3> QED BY <3>1, <3>2
  <2>9. \A i \in 1..Len(rows) : new[i].message = rows[i].message
    BY <2>3, <2>5, Zenon DEF row, old, message
  <2>10. \A p \in 1..Len(more) : new[ns + p] = Row(more[p], "deep")
    BY <1>2, <1>4, <2>1, <2>2, <2>3, Zenon
  <2>11. \A p \in 1..Len(more) : \E j \in 1..(k + 1) : more[p] = deep[j]
    BY <1>1, <1>4, <2>2, Zenon
  <2>12. \A j \in 1..(k + 1) : \E i \in 1..Len(new) : new[i].message.text = deep[j].text
    BY <1>1, <1>5, <1>12, <2>3, <2>9, Zenon DEF message
  <2>13. \A i, j \in 1..Len(new) : new[i].message.text = new[j].message.text => i = j
    BY <1>6, <2>3, <2>9, Zenon
  <2> QED BY <1>2, <1>4, <2>2, <2>3, <2>8, <2>10, <2>11, <2>12, <2>13, Zenon
          DEF Merged, more, message, new
<1> QED BY <1>10, <1>11, <1>12, Zenon

\* What is left of a sequence when the entries after the first a, up to b, are picked.
LEMMA PickedRange ==
    ASSUME NEW S, NEW s \in Seq(S), NEW b \in 0..Len(s), NEW a \in 0..b
    PROVE  LET part == Picked(s, (a + 1)..b)
           IN  /\ part \in Seq(S) /\ Len(part) = b - a
               /\ \A p \in 1..(b - a) : part[p] = s[a + p]
<1> DEFINE n == Len(s)
           picks == (a + 1)..b
<1>1. PICK c : PickedSoFar(c, s, picks, S)
  <2> HIDE DEF picks
  <2> QED BY PickedSteps, Zenon
<1>2. /\ c \in [0..n -> Seq(S)] /\ c[0] = <<>> /\ c[n] = Picked(s, picks)
      /\ \A k \in 1..n : c[k] = IF k \in picks THEN Append(c[k-1], s[k]) ELSE c[k-1]
  BY <1>1, Zenon DEF PickedSoFar
<1>3. n \in Nat /\ (\A k \in 1..n : s[k] \in S) /\ a \in Nat /\ b \in Nat /\ a <= b /\ b <= n
  <2>1. n \in Nat /\ \A k \in 1..n : s[k] \in S
    BY LenProperties
  <2>2. b \in 0..n
    OBVIOUS
  <2> HIDE DEF n
  <2>3. b \in Nat /\ b <= n
    BY <2>1, <2>2
  <2>4. a \in Nat /\ a <= b
    BY <2>3
  <2> QED BY <2>1, <2>3, <2>4
<1>4. \A k : k \in picks <=> k \in Int /\ a < k /\ k <= b
  BY <1>3
<1> HIDE DEF n, picks
<1> DEFINE size(k) == IF k <= a THEN 0 ELSE IF k <= b THEN k - a ELSE b - a
           G == {k \in 0..n : Len(c[k]) = size(k) /\ \A p \in 1..size(k) : c[k][p] = s[a + p]}
<1>5. 0 \in G
  <2>1. Len(c[0]) = 0 /\ size(0) = 0 /\ 0 \in 0..n /\ 1..0 = {}
    BY <1>2, <1>3
  <2> HIDE DEF size
  <2> QED BY <2>1
<1>6. ASSUME NEW k \in 0..(n-1), k \in G PROVE k + 1 \in G
  <2>1. k + 1 \in 1..n /\ (k + 1) - 1 = k /\ k + 1 \in 0..n /\ k \in 0..n /\ k \in Nat
    BY <1>3
  <2> DEFINE out == c[k]
  <2>2. out \in Seq(S) /\ Len(out) = size(k) /\ (\A p \in 1..size(k) : out[p] = s[a + p])
        /\ s[k + 1] \in S
    BY <1>2, <1>3, <1>6, <2>1
  <2>3. c[k + 1] = IF k + 1 \in picks THEN Append(out, s[k + 1]) ELSE out
    BY <1>2, <2>1
  <2> HIDE DEF out, G
  <2>4. CASE k + 1 \in picks
    <3>1. /\ size(k) = k - a /\ size(k + 1) = size(k) + 1
          /\ a + (size(k) + 1) = k + 1 /\ size(k) \in Nat
      BY <1>3, <1>4, <2>1, <2>4
    <3> HIDE DEF size
    <3>2. /\ Len(Append(out, s[k + 1])) = size(k) + 1
          /\ Append(out, s[k + 1])[size(k) + 1] = s[k + 1]
          /\ \A p \in 1..size(k) : Append(out, s[k + 1])[p] = out[p]
      BY <2>2, AppendProperties
    <3>3. \A p \in 1..(size(k) + 1) : p \in 1..size(k) \/ p = size(k) + 1
      BY <3>1
    <3>4. \A p \in 1..size(k + 1) : c[k + 1][p] = s[a + p]
      BY <2>2, <2>3, <2>4, <3>1, <3>2, <3>3, Zenon
    <3> QED BY <2>1, <2>3, <2>4, <3>1, <3>2, <3>4, Zenon DEF G
  <2>5. CASE k + 1 \notin picks
    <3>1. size(k + 1) = size(k)
      <4>1. k + 1 \in Int /\ ~(a < k + 1 /\ k + 1 <= b)
        BY <1>4, <2>1, <2>5
      <4> QED BY <1>3, <2>1, <4>1
    <3> HIDE DEF size
    <3> QED BY <2>1, <2>2, <2>3, <2>5, <3>1, Zenon DEF G
  <2> QED BY <2>4, <2>5
<1>7. n \in G
  <2>1. \A k \in 0..n : k \in G
    <3> HIDE DEF G
    <3> QED BY <1>3, <1>5, <1>6, UpTo
  <2> QED BY <1>3, <2>1
<1>8. size(n) = b - a
  BY <1>3
<1> HIDE DEF size
<1>9. n \in 0..n
  BY <1>3
<1>10. Len(c[n]) = b - a /\ (\A p \in 1..(b - a) : c[n][p] = s[a + p]) /\ c[n] \in Seq(S)
  BY <1>2, <1>7, <1>8, <1>9
<1> QED BY <1>2, <1>10, Zenon DEF picks

\* A merged list holds the strict rows and what the deep list adds to them.
LEMMA MergedAll ==
    ASSUME NEW strict \in Seq(Message), NEW deep \in Seq(Message), Distinct(strict), Distinct(deep)
    PROVE  LET rows  == FoldLeft(MergeDeep, StrictRows(strict), deep)
               added == Picked(deep, {j \in DOMAIN deep : deep[j].text \notin TextsOf(strict)})
           IN  /\ rows \in Seq(MergedRow) /\ added \in Seq(Message)
               /\ Merged(rows, added, strict, deep, Len(deep))
<1> DEFINE n == Len(deep)
           picks == {j \in DOMAIN deep : deep[j].text \notin TextsOf(strict)}
<1>1. PICK c \in [0..n -> Seq(MergedRow)] :
        /\ c[0] = StrictRows(strict) /\ c[n] = FoldLeft(MergeDeep, StrictRows(strict), deep)
        /\ \A k \in 1..n : c[k] = MergeDeep(c[k-1], deep[k])
  BY MergeSteps
<1>2. PICK d : PickedSoFar(d, deep, picks, Message)
  <2> HIDE DEF picks
  <2> QED BY PickedSteps, Zenon
<1>3. /\ d \in [0..n -> Seq(Message)] /\ d[0] = <<>> /\ d[n] = Picked(deep, picks)
      /\ \A k \in 1..n : d[k] = IF k \in picks THEN Append(d[k-1], deep[k]) ELSE d[k-1]
  BY <1>2, Zenon DEF PickedSoFar
<1>4. n \in Nat /\ DOMAIN deep = 1..n /\ DOMAIN strict = 1..Len(strict) /\ 0 \in 0..n /\ n \in 0..n
  BY LenProperties
<1>5. \A k \in 1..n : k \in picks <=> ~HasText(strict, Len(strict), deep[k].text)
  BY <1>4, Zenon DEF TextsOf, HasText
<1> HIDE DEF picks, n
<1>6. \A k \in 1..n : d[k] = Added(d[k-1], strict, deep[k])
  BY <1>3, <1>5, Zenon DEF Added
<1> DEFINE G == {k \in 0..n : Merged(c[k], d[k], strict, deep, k)}
<1>7. 0 \in G
  <2>1. Merged(c[0], d[0], strict, deep, 0)
    BY <1>1, <1>3, StrictRowsMerged
  <2> QED BY <1>4, <2>1
<1>8. ASSUME NEW k \in 0..(n-1), k \in G PROVE k + 1 \in G
  <2>1. k + 1 \in 1..n /\ (k + 1) - 1 = k /\ k + 1 \in 0..n /\ k \in 0..n
    BY <1>4
  <2>2. /\ c[k] \in Seq(MergedRow) /\ d[k] \in Seq(Message) /\ Merged(c[k], d[k], strict, deep, k)
        /\ c[k + 1] = MergeDeep(c[k], deep[k + 1]) /\ d[k + 1] = Added(d[k], strict, deep[k + 1])
    BY <1>1, <1>3, <1>6, <1>8, <2>1
  <2>3. Merged(c[k + 1], d[k + 1], strict, deep, k + 1)
    BY <2>2, MergedStep DEF n
  <2> QED BY <2>1, <2>3
<1>9. Merged(c[n], d[n], strict, deep, n)
  <2>1. \A k \in 0..n : k \in G
    <3> HIDE DEF G
    <3> QED BY <1>4, <1>7, <1>8, UpTo
  <2> QED BY <1>4, <2>1
<1>10. c[n] \in Seq(MergedRow) /\ d[n] \in Seq(Message)
  BY <1>4
<1> QED BY <1>1, <1>3, <1>9, <1>10, Zenon DEF n, picks

\* What any of the structured functions returns.
MergedResult(r) ==
    \E strict, deep \in Seq(Message) :
      /\ Distinct(strict) /\ Distinct(deep) /\ r.Strict = strict /\ r.Deep = deep
      /\ r.Messages = FoldLeft(MergeDeep, StrictRows(strict), deep)

LEMMA MergeIsMerged ==
    ASSUME NEW strict \in Seq(Message), NEW deep \in Seq(Message), Distinct(strict), Distinct(deep),
           NEW includeDeep, includeDeep = TRUE \/ deep = <<>>
    PROVE  MergedResult(Merge(strict, deep, includeDeep))
<1> DEFINE all == FoldLeft(MergeDeep, StrictRows(strict), deep)
           none == <<>>
<1>1. /\ Merge(strict, deep, includeDeep).Messages = IF includeDeep THEN all ELSE StrictRows(strict)
      /\ Merge(strict, deep, includeDeep).Strict = strict
      /\ Merge(strict, deep, includeDeep).Deep = IF includeDeep THEN deep ELSE none
  BY Zenon DEF Merge
<1>2. deep = none => all = StrictRows(strict)
  <2>1. PICK c \in [0..Len(deep) -> Seq(MergedRow)] :
          c[0] = StrictRows(strict) /\ c[Len(deep)] = all
    BY MergeSteps
  <2>2. deep = none => Len(deep) = 0
    OBVIOUS
  <2> QED BY <2>1, <2>2
<1> HIDE DEF all, none
<1>3. includeDeep = TRUE \/ deep = none
  BY DEF none
<1>4. /\ Merge(strict, deep, includeDeep).Messages = all
      /\ Merge(strict, deep, includeDeep).Deep = deep
  BY <1>1, <1>2, <1>3, Zenon
<1> QED BY <1>1, <1>4, Zenon DEF MergedResult, all

\* The message of a list with a text is the only one.
LEMMA FoundIsOnly ==
    ASSUME NEW list \in Seq(Message), Distinct(list), NEW text
    PROVE  /\ \A i \in 1..Len(list) : list[i].text = text => Found(list, text) = list[i]
           /\ ~HasText(list, Len(list), text) => Found(list, text) = NoMessage
<1> DEFINE same == {i \in DOMAIN list : list[i].text = text}
           first == CHOOSE i \in same : TRUE
<1>1. DOMAIN list = 1..Len(list)
  BY LenProperties
<1>2. ASSUME NEW i \in 1..Len(list), list[i].text = text PROVE Found(list, text) = list[i]
  <2>1. i \in same
    BY <1>1, <1>2
  <2>2. first \in same
    BY <2>1, Zenon
  <2>3. first = i
    BY <1>1, <1>2, <2>2, Zenon DEF Distinct
  <2>4. Found(list, text) = list[first]
    BY <2>1, Zenon DEF Found
  <2> QED BY <2>3, <2>4, Zenon
<1>3. ASSUME ~HasText(list, Len(list), text) PROVE Found(list, text) = NoMessage
  <2>1. same = {}
    BY <1>1, <1>3, Zenon DEF HasText
  <2> QED BY <2>1, Zenon DEF Found
<1> QED BY <1>2, <1>3

\* The search behind each list, where the caller has not chosen it.
BySearch(r) ==
    /\ \A i \in 1..Len(r.Strict) : r.Strict[i].search = "strict"
    /\ \A j \in 1..Len(r.Deep) : r.Deep[j].search = "deep"

\* A merged list names each text once, says where it is from and keeps the order.
LEMMA MergedRowsTell ==
    ASSUME MergedResult(result), OwnOptions \/ BySearch(result)
    PROVE  OneRowPerText /\ LabelsTellSource /\ MergeKeepsOrder
<1>1. PICK strict \in Seq(Message), deep \in Seq(Message) :
        /\ Distinct(strict) /\ Distinct(deep) /\ result.Strict = strict /\ result.Deep = deep
        /\ result.Messages = FoldLeft(MergeDeep, StrictRows(strict), deep)
  BY Zenon DEF MergedResult
<1> DEFINE rows == result.Messages
           picks == {j \in DOMAIN deep : deep[j].text \notin TextsOf(strict)}
           added == Picked(deep, picks)
           ns == Len(strict)
           nd == Len(deep)
<1>2. /\ rows \in Seq(MergedRow) /\ added \in Seq(Message)
      /\ Merged(rows, added, strict, deep, nd)
  BY <1>1, MergedAll
<1> HIDE DEF rows, picks, added
<1>3. /\ ns \in Nat /\ nd \in Nat /\ Len(added) \in Nat /\ DOMAIN rows = 1..Len(rows)
      /\ DOMAIN strict = 1..ns /\ DOMAIN deep = 1..nd
      /\ (\A i \in 1..ns : strict[i] \in Message) /\ \A j \in 1..nd : deep[j] \in Message
  BY <1>2, LenProperties
<1> HIDE DEF ns, nd
<1>4. /\ Len(rows) = ns + Len(added)
      /\ \A i \in 1..ns : StrictRow(rows[i], strict, i, deep, nd)
      /\ \A p \in 1..Len(added) : rows[ns + p] = Row(added[p], "deep")
      /\ \A p \in 1..Len(added) : ~HasText(strict, ns, added[p].text)
      /\ \A p \in 1..Len(added) : \E j \in 1..nd : added[p] = deep[j]
      /\ \A j \in 1..nd : \E i \in 1..Len(rows) : rows[i].message.text = deep[j].text
      /\ \A i, j \in 1..Len(rows) : rows[i].message.text = rows[j].message.text => i = j
  BY <1>2, Zenon DEF Merged, ns
<1>5. /\ Len(rows) \in Nat /\ ns <= Len(rows) /\ (\A i \in 1..ns : i \in 1..Len(rows))
      /\ \A p \in 1..Len(added) : ns + p \in 1..Len(rows)
      /\ \A i \in 1..Len(rows) : i \in 1..ns \/ (i - ns \in 1..Len(added) /\ i = ns + (i - ns))
  <2>1. \A m, q \in Nat : /\ m + q \in Nat /\ m <= m + q
                          /\ \A i \in 1..m : i \in 1..(m + q)
                          /\ \A p \in 1..q : m + p \in 1..(m + q)
                          /\ \A i \in 1..(m + q) : i \in 1..m \/ (i - m \in 1..q /\ i = m + (i - m))
    OBVIOUS
  <2> DEFINE m == ns
             q == Len(added)
  <2> HIDE DEF m, q
  <2>2. m \in Nat /\ q \in Nat /\ Len(rows) = m + q
    BY <1>3, <1>4 DEF m, q
  <2> QED BY <2>1, <2>2, Zenon DEF m, q
<1>6. /\ \A text : text \in TextsOf(strict) <=> HasText(strict, ns, text)
      /\ \A text : text \in TextsOf(deep) <=> HasText(deep, nd, text)
  BY <1>3, Zenon DEF TextsOf, HasText
<1>7. \A i \in 1..ns : rows[i].message = strict[i] /\ rows[i].Strict = TRUE
  BY <1>4, Zenon DEF StrictRow
<1>8. \A p \in 1..Len(added) :
        LET row == rows[ns + p]
        IN  /\ row.message = added[p] /\ row.Strict = FALSE /\ row.Deep = TRUE
            /\ row.Duplicate = FALSE /\ row.StrictCopy = NoMessage /\ row.DeepCopy = added[p]
            /\ row.Mode = "deep"
  <2> TAKE p \in 1..Len(added)
  <2> DEFINE message == added[p]
             row == rows[ns + p]
  <2> HIDE DEF message, row
  <2>1. row = Row(message, "deep")
    BY <1>4 DEF message, row
  <2>2. /\ row.message = message /\ row.Strict = FALSE /\ row.Deep = TRUE
        /\ row.Duplicate = FALSE /\ row.StrictCopy = NoMessage /\ row.DeepCopy = message
        /\ row.Mode = "deep"
    BY <2>1, RowFields
  <2> QED BY <2>2, Zenon DEF message, row
<1>9. /\ \A i \in 1..ns : Found(strict, strict[i].text) = strict[i]
      /\ \A j \in 1..nd : Found(deep, deep[j].text) = deep[j]
      /\ \A text : ~HasText(strict, ns, text) => Found(strict, text) = NoMessage
      /\ \A text : ~HasText(deep, nd, text) => Found(deep, text) = NoMessage
  BY <1>1, FoundIsOnly, Zenon DEF ns, nd
<1>10. OneRowPerText
  <2>1. ASSUME NEW i \in 1..Len(rows)
        PROVE  HasText(strict, ns, rows[i].message.text) \/ HasText(deep, nd, rows[i].message.text)
    <3>1. CASE i \in 1..ns
      BY <1>7, <3>1, Zenon DEF HasText
    <3>2. CASE i - ns \in 1..Len(added) /\ i = ns + (i - ns)
      <4> DEFINE p == i - ns
      <4>1. p \in 1..Len(added) /\ i = ns + p
        BY <3>2
      <4> HIDE DEF p
      <4>2. PICK j \in 1..nd : added[p] = deep[j]
        BY <1>4, <4>1
      <4>3. rows[i].message = deep[j]
        BY <1>8, <4>1, <4>2, Zenon
      <4> QED BY <4>3, Zenon DEF HasText
    <3> QED BY <1>5, <3>1, <3>2
  <2>2. ASSUME NEW text, HasText(strict, ns, text) \/ HasText(deep, nd, text)
        PROVE  \E i \in 1..Len(rows) : rows[i].message.text = text
    <3>1. CASE HasText(strict, ns, text)
      BY <1>5, <1>7, <3>1, Zenon DEF HasText
    <3>2. CASE HasText(deep, nd, text)
      <4>1. PICK j \in 1..nd : deep[j].text = text
        BY <3>2 DEF HasText
      <4> QED BY <1>4, <4>1
    <3> QED BY <2>2, <3>1, <3>2
  <2>3. {rows[i].message.text : i \in DOMAIN rows} = TextsOf(strict) \cup TextsOf(deep)
    BY <1>3, <1>6, <2>1, <2>2, Zenon
  <2> QED BY <1>1, <1>3, <1>4, <2>3, Zenon DEF OneRowPerText, rows
<1>11. LabelsTellSource
  <2> DEFINE Tells(row) ==
               LET in(list) == row.message.text \in TextsOf(list)
               IN  /\ row.Strict = in(strict)
                   /\ row.Deep = in(deep)
                   /\ row.Duplicate = (in(strict) /\ in(deep))
                   /\ row.StrictCopy = Found(strict, row.message.text)
                   /\ row.DeepCopy = Found(deep, row.message.text)
                   /\ row.message = IF row.Strict THEN row.StrictCopy ELSE row.DeepCopy
                   /\ row.Mode = IF row.Strict THEN "strict" ELSE "deep"
                   /\ OwnOptions \/ row.Mode = row.message.search
  <2>1. ASSUME NEW i \in 1..ns PROVE Tells(rows[i])
    <3> DEFINE row == rows[i]
               text == strict[i].text
               h == HasText(deep, nd, text)
               inStrict == row.message.text \in TextsOf(strict)
               inDeep == row.message.text \in TextsOf(deep)
    <3>1. StrictRow(row, strict, i, deep, nd)
      BY <1>4, <2>1
    <3>2. /\ row.message = strict[i] /\ row.Strict = TRUE /\ row.StrictCopy = strict[i]
          /\ row.Mode = "strict" /\ row.Deep = h /\ row.Duplicate = row.Deep
          /\ row.Deep => \E j \in 1..nd : row.DeepCopy = deep[j] /\ deep[j].text = text
          /\ ~row.Deep => row.DeepCopy = NoMessage
      BY <3>1, Zenon DEF StrictRow
    <3>3. inStrict /\ (inDeep <=> h)
      <4>1. HasText(strict, ns, text)
        BY <2>1 DEF HasText
      <4> QED BY <1>6, <3>2, <4>1, Zenon
    <3>4. row.StrictCopy = Found(strict, row.message.text)
      BY <1>9, <2>1, <3>2, Zenon
    <3>5. row.DeepCopy = Found(deep, row.message.text)
      BY <1>9, <3>2, Zenon
    <3>6. OwnOptions \/ row.Mode = row.message.search
      BY <1>1, <2>1, <3>2, Zenon DEF BySearch, ns
    <3>7. h \in BOOLEAN /\ inStrict = TRUE /\ inDeep \in BOOLEAN
      BY <3>3 DEF HasText
    <3> HIDE DEF row, inStrict, inDeep, h
    <3>8. row.Deep = inDeep /\ row.Duplicate = (inStrict /\ inDeep)
      BY <3>2, <3>3, <3>7
    <3>9. /\ row.Strict = inStrict
          /\ row.message = IF row.Strict THEN row.StrictCopy ELSE row.DeepCopy
          /\ row.Mode = IF row.Strict THEN "strict" ELSE "deep"
      BY <3>2, <3>7
    <3> QED BY <3>4, <3>5, <3>6, <3>8, <3>9, Zenon DEF row, inStrict, inDeep
  <2>2. ASSUME NEW p \in 1..Len(added) PROVE Tells(rows[ns + p])
    <3> DEFINE row == rows[ns + p]
               inStrict == row.message.text \in TextsOf(strict)
               inDeep == row.message.text \in TextsOf(deep)
    <3>1. /\ row.message = added[p] /\ row.Strict = FALSE /\ row.Deep = TRUE
          /\ row.Duplicate = FALSE /\ row.StrictCopy = NoMessage /\ row.DeepCopy = added[p]
          /\ row.Mode = "deep"
      BY <1>8, <2>2, Zenon
    <3>2. PICK j \in 1..nd : added[p] = deep[j]
      BY <1>4, <2>2
    <3>3. ~HasText(strict, ns, added[p].text) /\ HasText(deep, nd, added[p].text)
      <4>1. HasText(deep, nd, added[p].text)
        BY <3>2, Zenon DEF HasText
      <4> QED BY <1>4, <2>2, <4>1
    <3>4. inStrict = FALSE /\ inDeep = TRUE /\ (inStrict /\ inDeep) = FALSE
      <4>1. ~inStrict /\ inDeep
        BY <1>6, <3>1, <3>3, Zenon
      <4> QED BY <4>1
    <3>5. row.StrictCopy = Found(strict, row.message.text)
      BY <1>9, <3>1, <3>3, Zenon
    <3>6. row.DeepCopy = Found(deep, row.message.text)
      BY <1>9, <3>1, <3>2, Zenon
    <3>7. OwnOptions \/ row.Mode = row.message.search
      BY <1>1, <3>1, <3>2, Zenon DEF BySearch, nd
    <3> HIDE DEF row, inStrict, inDeep
    <3>8. /\ row.message = IF row.Strict THEN row.StrictCopy ELSE row.DeepCopy
          /\ row.Mode = IF row.Strict THEN "strict" ELSE "deep"
      BY <3>1
    <3> QED BY <3>1, <3>4, <3>5, <3>6, <3>7, <3>8, Zenon DEF row, inStrict, inDeep
  <2> HIDE DEF Tells
  <2>3. \A i \in 1..Len(rows) : Tells(rows[i])
    BY <1>5, <2>1, <2>2, Zenon
  <2> QED BY <1>1, <1>3, <2>3, Zenon DEF LabelsTellSource, Tells, rows
<1>12. MergeKeepsOrder
  <2> DEFINE front == StrictMessages(result)
             back == DeepOnly(result)
  <2>1. \A i \in 1..Len(rows) : /\ rows[i].Strict <=> i \in 1..ns
                                /\ (rows[i].Deep /\ ~rows[i].Strict) <=> i \notin 1..ns
    <3> TAKE i \in 1..Len(rows)
    <3>1. CASE i \in 1..ns
      BY <1>7, <3>1, Zenon
    <3>2. CASE i \notin 1..ns
      <4>1. i - ns \in 1..Len(added) /\ i = ns + (i - ns)
        BY <1>5, <3>2
      <4>2. rows[i].Strict = FALSE /\ rows[i].Deep = TRUE
        BY <1>8, <4>1, Zenon
      <4> QED BY <3>2, <4>2, Zenon
    <3> QED BY <3>1, <3>2
  <2>2. {i \in DOMAIN rows : rows[i].Strict} = (0 + 1)..ns
    <3>1. (0 + 1)..ns = 1..ns
      OBVIOUS
    <3> QED BY <1>3, <1>5, <2>1, <3>1, Zenon
  <2>3. {i \in DOMAIN rows : rows[i].Deep /\ ~rows[i].Strict} = (ns + 1)..Len(rows)
    <3>1. \A i : i \in (ns + 1)..Len(rows) <=> i \in 1..Len(rows) /\ i \notin 1..ns
      BY <1>3, <1>5
    <3> QED BY <1>3, <2>1, <3>1, Zenon
  <2>4. front = Picked(rows, (0 + 1)..ns) /\ back = Picked(rows, (ns + 1)..Len(rows))
    BY <2>2, <2>3, Zenon DEF StrictMessages, DeepOnly, rows
  <2>5. front \in Seq(MergedRow) /\ Len(front) = ns /\ \A p \in 1..ns : front[p] = rows[p]
    <3>1. ns \in 0..Len(rows) /\ 0 \in 0..ns /\ ns - 0 = ns /\ \A p \in 1..ns : 0 + p = p
      BY <1>3, <1>5
    <3>2. LET part == Picked(rows, (0 + 1)..ns)
          IN  /\ part \in Seq(MergedRow) /\ Len(part) = ns - 0
              /\ \A p \in 1..(ns - 0) : part[p] = rows[0 + p]
      BY <1>2, <3>1, PickedRange
    <3> HIDE DEF front, back
    <3> QED BY <2>4, <3>1, <3>2, Zenon
  <2>6. back \in Seq(MergedRow) /\ Len(back) = Len(added)
        /\ \A p \in 1..Len(added) : back[p] = rows[ns + p]
    <3>1. Len(rows) \in 0..Len(rows) /\ ns \in 0..Len(rows) /\ Len(rows) - ns = Len(added)
      BY <1>3, <1>4, <1>5
    <3>2. LET part == Picked(rows, (ns + 1)..Len(rows))
          IN  /\ part \in Seq(MergedRow) /\ Len(part) = Len(rows) - ns
              /\ \A p \in 1..(Len(rows) - ns) : part[p] = rows[ns + p]
      BY <1>2, <3>1, PickedRange
    <3> HIDE DEF front, back
    <3> QED BY <2>4, <3>1, <3>2, Zenon
  <2> HIDE DEF front, back
  <2>7. [i \in DOMAIN front |-> front[i].message] = strict
    <3>1. DOMAIN front = 1..ns
      BY <2>5, LenProperties
    <3>2. \A i \in 1..ns : front[i].message = strict[i]
      BY <1>7, <2>5, Zenon
    <3>3. strict = [i \in 1..ns |-> strict[i]]
      BY <1>3, LenProperties, Zenon DEF ns
    <3>4. [i \in 1..ns |-> front[i].message] = [i \in 1..ns |-> strict[i]]
      BY <3>2, Zenon
    <3> QED BY <3>1, <3>3, <3>4, Zenon
  <2>8. [i \in DOMAIN back |-> back[i].message] = added
    <3>1. DOMAIN back = 1..Len(added)
      BY <2>6, LenProperties
    <3>2. \A i \in 1..Len(added) : back[i].message = added[i]
      BY <1>8, <2>6, Zenon
    <3>3. added = [i \in 1..Len(added) |-> added[i]]
      BY <1>2, LenProperties, Zenon
    <3>4. [i \in 1..Len(added) |-> back[i].message] = [i \in 1..Len(added) |-> added[i]]
      BY <3>2, Zenon
    <3> QED BY <3>1, <3>3, <3>4, Zenon
  <2> QED BY <1>1, <2>7, <2>8, Zenon DEF MergeKeepsOrder, front, back, added, picks
<1> QED BY <1>10, <1>11, <1>12

NoCallOrCall ==
    [api : {"none", "package", "decoder"},
     deep : BOOLEAN, checked : BOOLEAN, slotOK : BOOLEAN]

AskTypes ==
    /\ options \in GivenOptions /\ edits \in Nat
    /\ asked \in NoCallOrCall
    /\ MergedResult(result) /\ (OwnOptions \/ BySearch(result))

\* What has been asked is as it was when it was asked: no search before, and
\* afterwards one for each of the options it was given, unless they were rejected.
AskInv ==
    /\ AskTypes
    /\ asked = NotYet => searched = <<>> /\ result = Empty /\ ended = "not yet"
    /\ asked # NotYet =>
         /\ asked \in Calls
         /\ searched = IF Rejects(asked) THEN <<>>
                       ELSE [i \in DOMAIN Given(asked) |-> NormalizeDecoderOptions(Given(asked)[i])]
         /\ Rejects(asked) => result = Empty
         /\ ended = "panic" => Panics(asked)

\* The constants that options are made of.
LEMMA ZeroOptionsGiven == ZeroOptions \in GivenOptions
<1>1. <<>> \in Seq(Int) /\ <<>> \in Seq(APCallHint)
  OBVIOUS
<1>2. [f \in DOMAIN FloatDefault |-> "zero"] \in [DOMAIN FloatDefault -> Floats]
  BY DEF Floats
<1>3. [f \in DOMAIN IntDefault |-> 0] \in [DOMAIN IntDefault -> Int]
  OBVIOUS
<1> QED BY <1>1, <1>2, <1>3 DEF ZeroOptions, GivenOptions

LEMMA DeepOptionsGiven == DeepDecoderOptions \in GivenOptions
<1> DEFINE z0 == ZeroOptions
           z1 == [z0 EXCEPT !.floats.SyncMin = "1.4"]
           z2 == [z1 EXCEPT !.ints.MaxCandidates = 300]
           z3 == [z2 EXCEPT !.ints.HardSyncMin = 6]
           deepBlocks == <<50, 41, 43>>
           z4 == [z3 EXCEPT !.blocks = deepBlocks]
           flags == {"EnableOSD", "EnableBroadAP"}
           z5 == [z4 EXCEPT !.flags = flags]
<1>1. \A o \in GivenOptions : [o EXCEPT !.floats.SyncMin = "1.4"] \in GivenOptions
  <2> TAKE o \in GivenOptions
  <2>1. [o.floats EXCEPT !.SyncMin = "1.4"] \in [DOMAIN FloatDefault -> Floats]
    BY DEF GivenOptions, Floats
  <2> QED BY <2>1 DEF GivenOptions
<1>2. ASSUME NEW o \in GivenOptions, NEW v \in Int
      PROVE  [o EXCEPT !.ints.MaxCandidates = v] \in GivenOptions
             /\ [o EXCEPT !.ints.HardSyncMin = v] \in GivenOptions
  <2>1. \A g \in [DOMAIN IntDefault -> Int] :
          /\ [g EXCEPT !.MaxCandidates = v] \in [DOMAIN IntDefault -> Int]
          /\ [g EXCEPT !.HardSyncMin = v] \in [DOMAIN IntDefault -> Int]
    OBVIOUS
  <2>2. o.ints \in [DOMAIN IntDefault -> Int]
    BY DEF GivenOptions
  <2> QED BY <2>1, <2>2 DEF GivenOptions
<1>3. deepBlocks \in Seq(Int) /\ 300 \in Int /\ 6 \in Int
  OBVIOUS
<1>4. \A o \in GivenOptions : [o EXCEPT !.blocks = deepBlocks] \in GivenOptions
  <2> HIDE DEF deepBlocks
  <2> QED BY <1>3 DEF GivenOptions
<1>5. \A o \in GivenOptions : [o EXCEPT !.flags = flags] \in GivenOptions
  BY DEF GivenOptions
<1>6. DeepDecoderOptions = z5
  BY Zenon DEF DeepDecoderOptions
<1> HIDE DEF z1, z2, z3, z4, z5, deepBlocks, flags
<1>7. z1 \in GivenOptions
  BY <1>1, ZeroOptionsGiven DEF z1
<1>8. z2 \in GivenOptions
  BY <1>2, <1>3, <1>7, Zenon DEF z2
<1>9. z3 \in GivenOptions
  BY <1>2, <1>3, <1>8, Zenon DEF z3
<1> QED BY <1>4, <1>5, <1>6, <1>9 DEF z4, z5

LEMMA ShortLists ==
    ASSUME NEW S, NEW x \in S, NEW y \in S
    PROVE  /\ <<x>> \in Seq(S) /\ Len(<<x>>) = 1
           /\ <<x, y>> \in Seq(S) /\ Len(<<x, y>>) = 2
OBVIOUS

\* Every search is given options, and there is one.
LEMMA GivenTyped ==
    ASSUME options \in GivenOptions, NEW call \in Calls
    PROVE  LET n == Len(Given(call))
           IN  /\ n \in 1..2 /\ DOMAIN Given(call) = 1..n
               /\ \A i \in 1..n : Given(call)[i] \in GivenOptions
<1> DEFINE one == <<options>>
           strictOnly == <<ZeroOptions>>
           o == structuredDeepOptions(options)
           both == <<ZeroOptions, o>>
<1>1. o \in GivenOptions
  BY DeepOptionsGiven, Zenon DEF structuredDeepOptions
<1>2. call.api \in {"package", "decoder"} /\ call.deep \in BOOLEAN
  BY DEF Calls
<1>3. \/ Given(call) = one \/ Given(call) = strictOnly \/ Given(call) = both
  <2>1. CASE call.api = "decoder"
    <3>1. call.api # "package"
      BY <2>1
    <3> QED BY <2>1, <3>1, Zenon DEF Given
  <2>2. CASE call.api = "package" /\ call.deep
    <3>1. call.api # "decoder"
      BY <2>2
    <3> QED BY <2>2, <3>1, Zenon DEF Given
  <2>3. CASE call.api = "package" /\ ~call.deep
    <3>1. call.api # "decoder"
      BY <2>3
    <3> QED BY <2>3, <3>1, Zenon DEF Given
  <2> QED BY <1>2, <2>1, <2>2, <2>3
<1> HIDE DEF o
<1>4. /\ one \in Seq(GivenOptions) /\ Len(one) = 1
      /\ strictOnly \in Seq(GivenOptions) /\ Len(strictOnly) = 1
      /\ both \in Seq(GivenOptions) /\ Len(both) = 2
  BY <1>1, ZeroOptionsGiven, ShortLists, Zenon
<1> HIDE DEF one, strictOnly, both
<1> DEFINE runWith == Given(call)
<1> HIDE DEF runWith
<1>5. runWith \in Seq(GivenOptions) /\ (Len(runWith) = 1 \/ Len(runWith) = 2)
  BY <1>3, <1>4, Zenon DEF runWith
<1>6. /\ Len(runWith) \in 1..2 /\ DOMAIN runWith = 1..Len(runWith)
      /\ \A i \in 1..Len(runWith) : runWith[i] \in GivenOptions
  BY <1>5, LenProperties
<1> QED BY <1>6, Zenon DEF runWith

\* What a search may find has no text twice.
LEMMA ListsTyped ==
    ASSUME NEW mode \in Modes \cup {"custom"}, NEW list \in Lists(mode)
    PROVE  /\ list \in Seq(Message) /\ Distinct(list)
           /\ \A i \in 1..Len(list) : list[i].search = mode
<1>1. PICK texts : /\ \/ texts = <<>>
                      \/ texts \in SeqOf(Decodable, Cardinality(Decodable)) /\ IsInjective(texts)
                   /\ list = [i \in DOMAIN texts |-> [text |-> texts[i], search |-> mode]]
  BY Zenon DEF Lists
<1>2. PICK m \in Nat : texts \in [1..m -> Decodable] /\ IsInjective(texts)
  <2>1. CASE texts = <<>>
    <3>1. texts \in [1..0 -> Decodable] /\ IsInjective(texts)
      BY <2>1 DEF IsInjective
    <3> QED BY <3>1
  <2>2. CASE texts \in SeqOf(Decodable, Cardinality(Decodable)) /\ IsInjective(texts)
    <3>1. Cardinality(Decodable) \in Nat
      BY StructuredAssumption, FS_CardinalityType
    <3>2. PICK m \in 0..Cardinality(Decodable) : texts \in [1..m -> Decodable]
      BY <2>2, Zenon DEF SeqOf
    <3>3. m \in Nat
      BY <3>1
    <3> QED BY <2>2, <3>2, <3>3
  <2> QED BY <1>1, <2>1, <2>2
<1>3. DOMAIN texts = 1..m /\ \A i \in 1..m : texts[i] \in Decodable
  BY <1>2
<1>4. list = [i \in 1..m |-> [text |-> texts[i], search |-> mode]]
  BY <1>1, <1>3, Zenon
<1>5. \A i \in 1..m : [text |-> texts[i], search |-> mode] \in Message
  BY <1>3 DEF Message
<1>6. list \in [1..m -> Message]
  BY <1>4, <1>5, Zenon
<1>7. list \in Seq(Message) /\ Len(list) = m
  BY <1>2, <1>6
<1>8. \A i \in 1..m : list[i].text = texts[i]
  BY <1>4
<1>9. \A i, j \in 1..m : texts[i] = texts[j] => i = j
  BY <1>2, <1>3, Zenon DEF IsInjective
<1>10. \A i \in 1..Len(list) : list[i].search = mode
  BY <1>4, <1>7
<1>11. Distinct(list)
  BY <1>7, <1>8, <1>9, Zenon DEF Distinct
<1> QED BY <1>7, <1>10, <1>11

LEMMA EditsKeepOptions ==
    ASSUME options \in GivenOptions, edits \in Nat, EditOptions
    PROVE  options' \in GivenOptions /\ edits' \in Nat
<1>1. /\ options.floats \in [DOMAIN FloatDefault -> Floats]
      /\ options.ints \in [DOMAIN IntDefault -> Int]
      /\ options.blocks \in Seq(Int) /\ options.hints \in Seq(APCallHint)
      /\ options.flags \in SUBSET {"EnableOSD", "EnableBroadAP"}
  BY DEF GivenOptions
<1>2. edits' \in Nat
  BY DEF EditOptions, SetFloat, SetInt, AddBlock, AddHint, SetFlag, Edit
<1>3. CASE SetFloat
  <2>1. PICK f \in DOMAIN FloatDefault, x \in FloatValues :
          options' = [options EXCEPT !.floats[f] = x]
    BY <1>3, Zenon DEF SetFloat
  <2>2. [options.floats EXCEPT ![f] = x] \in [DOMAIN FloatDefault -> Floats]
    BY <1>1, EditsAssumption
  <2>3. options' = [options EXCEPT !.floats = [options.floats EXCEPT ![f] = x]]
    BY <2>1, Zenon
  <2> QED BY <1>2, <2>2, <2>3 DEF GivenOptions
<1>4. CASE SetInt
  <2>1. PICK f \in DOMAIN IntDefault, v \in IntValues : options' = [options EXCEPT !.ints[f] = v]
    BY <1>4, Zenon DEF SetInt
  <2>2. [options.ints EXCEPT ![f] = v] \in [DOMAIN IntDefault -> Int]
    BY <1>1, EditsAssumption
  <2>3. options' = [options EXCEPT !.ints = [options.ints EXCEPT ![f] = v]]
    BY <2>1, Zenon
  <2> QED BY <1>2, <2>2, <2>3 DEF GivenOptions
<1>5. CASE AddBlock
  <2>1. PICK b \in BlockValues : options' = [options EXCEPT !.blocks = Append(@, b)]
    BY <1>5, Zenon DEF AddBlock
  <2>2. Append(options.blocks, b) \in Seq(Int)
    BY <1>1, EditsAssumption
  <2> QED BY <1>2, <2>1, <2>2 DEF GivenOptions
<1>6. CASE AddHint
  <2>1. PICK h \in Hints : options' = [options EXCEPT !.hints = Append(@, h)]
    BY <1>6, Zenon DEF AddHint
  <2>2. Append(options.hints, h) \in Seq(APCallHint)
    BY <1>1, EditsAssumption
  <2> QED BY <1>2, <2>1, <2>2 DEF GivenOptions
<1>7. CASE SetFlag
  <2>1. PICK f \in {"EnableOSD", "EnableBroadAP"} : options' = [options EXCEPT !.flags = @ \cup {f}]
    BY <1>7, Zenon DEF SetFlag
  <2> QED BY <1>1, <1>2, <2>1 DEF GivenOptions
<1> QED BY <1>3, <1>4, <1>5, <1>6, <1>7 DEF EditOptions

LEMMA EmptyMerged == MergedResult(Empty) /\ BySearch(Empty)
<1> DEFINE none == <<>>
<1>1. none \in Seq(Message) /\ Distinct(none)
  BY DEF Distinct
<1>2. Empty = Merge(none, none, FALSE)
  BY DEF Empty
<1> HIDE DEF none
<1>3. \A strict, deep \in Seq(Message) :
        Distinct(strict) /\ Distinct(deep) /\ deep = <<>> =>
          MergedResult(Merge(strict, deep, FALSE))
  BY MergeIsMerged
<1>4. \A j \in 1..Len(none) : FALSE
  BY DEF none
<1>5. Empty.Strict = none /\ Empty.Deep = none
  BY DEF Empty, Merge, none
<1>6. BySearch(Empty)
  BY <1>4, <1>5, Zenon DEF BySearch
<1> QED BY <1>1, <1>2, <1>3, <1>6, Zenon DEF none

\* Whichever of the structured functions a call is of, its result is merged, and
\* which search found what is known but to a Decoder with options of its own.
LEMMA CallsMerge ==
    ASSUME NEW call \in Calls, result = Empty,
           \/ DecodeStructured(call) \/ DecoderDecodeStructured(call)
           \/ RejectStructured(call) \/ PanicStructured(call)
    PROVE  /\ MergedResult(result')
           /\ call.api = "package" \/ decoderOptionsEmpty(options) => BySearch(result')
<1>1. call.deep \in BOOLEAN
  BY DEF Calls
<1>2. <<>> \in Seq(Message) /\ Distinct(<<>>) /\ \A j \in 1..Len(<<>>) : FALSE
  BY DEF Distinct
<1>3. \A mode \in Modes \cup {"custom"} : \A list \in Lists(mode) :
        /\ list \in Seq(Message) /\ Distinct(list)
        /\ \A i \in 1..Len(list) : list[i].search = mode
  BY ListsTyped
<1>4. /\ "strict" \in Modes \cup {"custom"} /\ "deep" \in Modes \cup {"custom"}
      /\ ModeOf(options) \in Modes \cup {"custom"}
  BY DEF Modes, ModeOf
<1>5. \A strict, deep \in Seq(Message) : \A includeDeep :
        /\ Distinct(strict) /\ Distinct(deep) /\ (includeDeep = TRUE \/ deep = <<>>)
        => MergedResult(Merge(strict, deep, includeDeep))
  BY MergeIsMerged
<1>6. \A strict, deep :
        /\ Merge(strict, deep, TRUE).Strict = strict /\ Merge(strict, deep, TRUE).Deep = deep
        /\ Merge(strict, deep, FALSE).Strict = strict /\ Merge(strict, deep, FALSE).Deep = <<>>
  BY DEF Merge
<1>7. CASE DecodeStructured(call)
  <2>1. PICK strict \in Lists("strict"), deep \in IF call.deep THEN Lists("deep") ELSE {<<>>} :
          result' = Merge(strict, deep, call.deep)
    BY <1>7, Zenon DEF DecodeStructured
  <2>2. call.deep = TRUE \/ deep = <<>>
    BY <1>1, <2>1, Zenon
  <2>3. deep \in Seq(Message) /\ Distinct(deep) /\ \A j \in 1..Len(deep) : deep[j].search = "deep"
    BY <1>2, <1>3, <1>4, <2>1, Zenon
  <2>4. /\ strict \in Seq(Message) /\ Distinct(strict)
        /\ \A i \in 1..Len(strict) : strict[i].search = "strict"
    BY <1>3, <1>4, Zenon
  <2>5. result'.Strict = strict /\ result'.Deep = deep
    <3>1. CASE call.deep = TRUE
      <4>1. result' = Merge(strict, deep, TRUE)
        BY <2>1, <3>1, Zenon
      <4> QED BY <1>6, <4>1
    <3>2. CASE call.deep = FALSE
      <4>1. deep = <<>>
        BY <2>1, <3>2, Zenon
      <4>2. result' = Merge(strict, deep, FALSE)
        BY <2>1, <3>2, Zenon
      <4> QED BY <1>6, <4>1, <4>2
    <3> QED BY <1>1, <3>1, <3>2
  <2>6. BySearch(result')
    BY <2>3, <2>4, <2>5, Zenon DEF BySearch
  <2> QED BY <1>5, <2>1, <2>2, <2>3, <2>4, <2>6, Zenon
<1>8. CASE DecoderDecodeStructured(call)
  <2>1. PICK found \in Lists(ModeOf(options)) : result' = Merge(found, <<>>, FALSE)
    BY <1>8, Zenon DEF DecoderDecodeStructured
  <2>2. found \in Seq(Message) /\ Distinct(found)
    BY <1>3, <1>4, Zenon
  <2>3. call.api = "decoder" /\ "decoder" # "package"
    BY <1>8 DEF DecoderDecodeStructured
  <2>4. MergedResult(result')
    BY <1>2, <1>5, <2>1, <2>2, Zenon
  <2>5. ASSUME decoderOptionsEmpty(options) PROVE BySearch(result')
    <3>1. ModeOf(options) = "strict"
      BY <2>5, Zenon DEF ModeOf
    <3>2. \A i \in 1..Len(found) : found[i].search = "strict"
      BY <1>3, <1>4, <2>1, <3>1, Zenon
    <3>3. result'.Strict = found /\ result'.Deep = <<>>
      BY <1>6, <2>1, Zenon
    <3> QED BY <1>2, <3>2, <3>3, Zenon DEF BySearch
  <2> QED BY <2>3, <2>4, <2>5, Zenon
<1>9. CASE RejectStructured(call) \/ PanicStructured(call)
  <2>1. result' = Empty
    BY <1>9, Zenon DEF RejectStructured, PanicStructured
  <2> QED BY <2>1, EmptyMerged, Zenon
<1> QED BY <1>7, <1>8, <1>9

LEMMA AskKeeps == AskSpec => []AskInv
<1>1. AskInit => AskInv
  <2> SUFFICES ASSUME AskInit PROVE AskInv
    OBVIOUS
  <2>1. options \in GivenOptions /\ edits \in Nat
    BY ZeroOptionsGiven, DeepOptionsGiven DEF AskInit, InitOptions
  <2>2. asked \in NoCallOrCall
    BY DEF AskInit, NotYet, NoCallOrCall
  <2> QED BY <2>1, <2>2, EmptyMerged, Zenon DEF AskInit, AskInv, AskTypes
<1>2. AskInv /\ [AskNext]_askVars => AskInv'
  <2> SUFFICES ASSUME AskInv, [AskNext]_askVars PROVE AskInv'
    OBVIOUS
  <2>1. CASE Fill
    <3>1. /\ asked = NotYet /\ EditOptions
          /\ asked' = asked /\ searched' = searched /\ result' = result /\ ended' = ended
      BY <2>1, Zenon DEF Fill
    <3>2. options' \in GivenOptions /\ edits' \in Nat
      BY <3>1, EditsKeepOptions, Zenon DEF AskInv, AskTypes
    <3>3. /\ asked' = NotYet /\ searched' = <<>> /\ result' = Empty /\ ended' = "not yet"
          /\ MergedResult(result') /\ BySearch(result')
      BY <3>1, EmptyMerged, Zenon DEF AskInv
    <3>4. AskTypes'
      BY <3>1, <3>2, <3>3, Zenon DEF AskInv, AskTypes
    <3> QED BY <3>3, <3>4, Zenon DEF AskInv
  <2>2. ASSUME NEW call \in Calls, Ask(call) PROVE AskInv'
    <3>1. /\ asked = NotYet /\ asked' = call /\ options' = options /\ edits' = edits
          /\ searched' = IF Rejects(call) THEN <<>>
                         ELSE [i \in DOMAIN Given(call) |-> NormalizeDecoderOptions(Given(call)[i])]
          /\ \/ DecodeStructured(call) \/ DecoderDecodeStructured(call)
             \/ RejectStructured(call) \/ PanicStructured(call)
      BY <2>2, Zenon DEF Ask
    <3>2. /\ MergedResult(result')
          /\ call.api = "package" \/ decoderOptionsEmpty(options) => BySearch(result')
      BY <3>1, CallsMerge, Zenon DEF AskInv, AskTypes
    <3>3. call.api \in {"package", "decoder"} /\ call.deep \in BOOLEAN
          /\ call \in NoCallOrCall
      BY DEF Calls, NoCallOrCall
    <3>4. asked' # NotYet
      BY <3>1, <3>3 DEF NotYet
    <3>5. AskTypes'
      <4>1. OwnOptions' \/ BySearch(result')
        BY <3>1, <3>2, <3>3, Zenon DEF OwnOptions
      <4> QED BY <3>1, <3>2, <3>3, <4>1, Zenon DEF AskInv, AskTypes
    <3>6. Given(asked)' = Given(call)
      BY <3>1, Zenon DEF Given
    <3>7. Rejects(asked)' <=> Rejects(call)
      BY <3>1, <3>6, Zenon DEF Rejects
    <3>8. searched' = IF Rejects(asked)' THEN <<>>
                      ELSE [i \in DOMAIN Given(asked)' |->
                              NormalizeDecoderOptions(Given(asked)'[i])]
      BY <3>1, <3>6, <3>7, Zenon
    <3>9. Rejects(call) => result' = Empty
      BY <3>1, Zenon DEF AskInv, DecodeStructured, DecoderDecodeStructured, Returns,
                         RejectStructured, PanicStructured
    <3>10. Panics(asked)' <=> Panics(call)
      BY <3>1, <3>6, <3>7, Zenon DEF Panics
    <3>11. ended' = "panic" => Panics(call)
      <4>1. "panic" # "returned" /\ "panic" # "error"
        OBVIOUS
      <4> QED BY <3>1, <4>1, Zenon DEF DecodeStructured, DecoderDecodeStructured, Returns,
                                       RejectStructured, PanicStructured
    <3> QED BY <3>1, <3>4, <3>5, <3>7, <3>8, <3>9, <3>10, <3>11, Zenon DEF AskInv
  <2>3. CASE UNCHANGED askVars
    BY <2>3, Zenon DEF AskInv, AskTypes, askVars, Given, Rejects, Panics, OwnOptions
  <2> QED BY <2>1, <2>2, <2>3, Zenon DEF AskNext
<1> QED BY <1>1, <1>2, PTL DEF AskSpec

\* The i-th search made runs with the i-th options of the call.
LEMMA SearchesGiven ==
    ASSUME AskInv, NEW i \in DOMAIN searched
    PROVE  /\ asked \in Calls /\ ~Rejects(asked)
           /\ i \in 1..Len(Given(asked)) /\ Given(asked)[i] \in GivenOptions
           /\ searched[i] = NormalizeDecoderOptions(Given(asked)[i])
<1>1. asked # NotYet /\ ~Rejects(asked)
  <2>1. searched # <<>>
    OBVIOUS
  <2> QED BY <2>1, Zenon DEF AskInv
<1>2. /\ asked \in Calls
      /\ searched = [j \in DOMAIN Given(asked) |-> NormalizeDecoderOptions(Given(asked)[j])]
  BY <1>1, Zenon DEF AskInv
<1>3. /\ DOMAIN Given(asked) = 1..Len(Given(asked))
      /\ \A j \in 1..Len(Given(asked)) : Given(asked)[j] \in GivenOptions
  BY <1>2, GivenTyped, Zenon DEF AskInv, AskTypes
<1>4. i \in DOMAIN Given(asked)
  BY <1>2, Zenon
<1>5. searched[i] = NormalizeDecoderOptions(Given(asked)[i])
  BY <1>2, <1>4, Zenon
<1> QED BY <1>1, <1>2, <1>3, <1>4, <1>5, Zenon

\* Only a block count whose samples overflow an int has a negative number of them.
LEMMA NegativeOverflows ==
    ASSUME NEW b \in Int, b > 0, Samples(b) < 0
    PROVE  Overflows(b)
<1>1. PICK n \in Nat : n = b * FrameSamples
  BY DEF FrameSamples
<1>2. PICK half \in Nat : half = IntHalf
  BY OptionsAssumption
<1>3. SUFFICES ASSUME n < half PROVE FALSE
  BY <1>1, <1>2 DEF Overflows
<1>4. (n + half) % (2 * half) = n + half
  BY <1>3
<1>5. Samples(b) = n
  BY <1>1, <1>2, <1>4 DEF Samples, Wrapped
<1> QED BY <1>5

\* Whatever options a permissive API is given, every search it makes has one to
\* four different block counts and no more hypotheses than there is room for; a
\* count that does not fit in the buffer is one whose samples overflow an int, and
\* only such a count makes a call panic.
THEOREM NormalizedAlwaysRunnable == AskSpec => []NormalizedRunnable
<1>1. ASSUME AskInv PROVE NormalizedRunnable
  <2>1. \A i \in DOMAIN searched : Runnable(searched[i])
    BY <1>1, SearchesGiven, NormalizedIsRunnable
  <2>2. ASSUME ended = "panic"
        PROVE  \E i \in DOMAIN searched : \E j \in DOMAIN searched[i].blocks :
                 Overflows(searched[i].blocks[j])
    <3>1. asked # NotYet /\ Panics(asked)
      <4>1. "panic" # "not yet"
        OBVIOUS
      <4> QED BY <1>1, <2>2, <4>1, Zenon DEF AskInv
    <3>2. PICK i \in DOMAIN Given(asked) :
            \E j \in DOMAIN NormalizeDecoderOptions(Given(asked)[i]).blocks :
              Samples(NormalizeDecoderOptions(Given(asked)[i]).blocks[j]) < 0
      BY <3>1, Zenon DEF Panics
    <3>3. searched = [k \in DOMAIN Given(asked) |-> NormalizeDecoderOptions(Given(asked)[k])]
      BY <1>1, <3>1, Zenon DEF AskInv, Panics
    <3>4. i \in DOMAIN searched /\ searched[i] = NormalizeDecoderOptions(Given(asked)[i])
      BY <3>3, Zenon
    <3>5. PICK j \in DOMAIN searched[i].blocks : Samples(searched[i].blocks[j]) < 0
      BY <3>2, <3>4, Zenon
    <3>6. searched[i].blocks[j] \in Int /\ searched[i].blocks[j] > 0
      <4> DEFINE counts == searched[i].blocks
      <4>1. Runnable(searched[i]) /\ counts \in Seq(Int)
        <5>1. searched[i] = NormalizeDecoderOptions(Given(asked)[i])
              /\ Given(asked)[i] \in GivenOptions
          BY <1>1, <3>4, SearchesGiven
        <5> QED BY <5>1, NormalizedIsRunnable
      <4>2. counts[j] > 0
        BY <4>1, Zenon DEF Runnable
      <4>3. counts[j] \in Int
        <5> HIDE DEF counts
        <5> QED BY <4>1, LenProperties DEF counts
      <4> QED BY <4>2, <4>3
    <3>7. Overflows(searched[i].blocks[j])
      BY <3>5, <3>6, NegativeOverflows
    <3> QED BY <3>4, <3>7, Zenon
  <2> QED BY <2>1, <2>2, Zenon DEF NormalizedRunnable
<1> QED BY <1>1, AskKeeps, PTL

\* The hints of a search are the first ones of their calls, in the caller's order,
\* until there are as many as are allowed.
THEOREM HintsAlwaysByPriority == AskSpec => []HintsByPriority
<1>1. AskInv => HintsByPriority
  BY SearchesGiven, NormalizedHints DEF HintsByPriority
<1> QED BY <1>1, AskKeeps, PTL

\* A checked API runs with the fields it was given or not at all, and with all the
\* hints it was given unless one does not pack, is repeated or is one too many.
THEOREM AcceptedAlwaysAsGiven == AskSpec => []AcceptedAsGiven
<1>1. ASSUME AskInv PROVE AcceptedAsGiven
  <2> SUFFICES ASSUME asked.checked
               PROVE  /\ searched # <<>> => asked.slotOK /\ Len(searched) = Len(Given(asked))
                      /\ searched = <<>> => result = Empty
                      /\ \A i \in DOMAIN searched : AsGiven(searched[i], Given(asked)[i])
    BY DEF AcceptedAsGiven
  <2>1. asked # NotYet
    BY DEF NotYet
  <2>2. /\ asked \in Calls /\ (Rejects(asked) => searched = <<>> /\ result = Empty)
        /\ ~Rejects(asked) =>
             searched = [j \in DOMAIN Given(asked) |-> NormalizeDecoderOptions(Given(asked)[j])]
    BY <1>1, <2>1, Zenon DEF AskInv
  <2> DEFINE n == Len(Given(asked))
  <2>3. n \in 1..2 /\ DOMAIN Given(asked) = 1..n
    BY <1>1, <2>2, GivenTyped, Zenon DEF AskInv, AskTypes
  <2>4. ~Rejects(asked) => searched # <<>> /\ Len(searched) = n
    <3> HIDE DEF n
    <3> SUFFICES ASSUME ~Rejects(asked) PROVE searched # <<>> /\ Len(searched) = n
      OBVIOUS
    <3>1. searched = [j \in 1..n |-> NormalizeDecoderOptions(Given(asked)[j])]
      BY <2>2, <2>3, Zenon
    <3>2. 1 \in DOMAIN searched /\ n \in Nat
      BY <2>3, <3>1
    <3> QED BY <3>1, <3>2
  <2>5. ~Rejects(asked) =>
          asked.slotOK /\ \A i \in DOMAIN Given(asked) : ValidOptions(Given(asked)[i])
    BY Zenon DEF Rejects
  <2>6. \A i \in DOMAIN searched : AsGiven(searched[i], Given(asked)[i])
    <3> TAKE i \in DOMAIN searched
    <3>1. /\ ~Rejects(asked) /\ i \in 1..n /\ Given(asked)[i] \in GivenOptions
          /\ searched[i] = NormalizeDecoderOptions(Given(asked)[i])
      BY <1>1, SearchesGiven
    <3>2. ValidOptions(Given(asked)[i])
      BY <2>3, <2>5, <3>1, Zenon
    <3> QED BY <3>1, <3>2, ValidAsGiven
  <2> QED BY <2>2, <2>4, <2>5, <2>6, Zenon
<1> QED BY <1>1, AskKeeps, PTL

\* Each text that either list has, has one row.
THEOREM OneRowAlwaysPerText == AskSpec => []OneRowPerText
<1>1. AskInv => OneRowPerText
  BY MergedRowsTell DEF AskInv, AskTypes
<1> QED BY <1>1, AskKeeps, PTL

\* A row says of its text exactly which of the lists have it, with their messages
\* of that text, and its mode is the list its message is from, which is the mode of
\* the search that found it unless a Decoder searched with options of its own.
THEOREM LabelsAlwaysTellSource == AskSpec => []LabelsTellSource
<1>1. AskInv => LabelsTellSource
  BY MergedRowsTell DEF AskInv, AskTypes
<1> QED BY <1>1, AskKeeps, PTL

\* The strict rows are the strict list, and the others what the deep list adds to
\* it, each in its order.
THEOREM MergeAlwaysKeepsOrder == AskSpec => []MergeKeepsOrder
<1>1. AskInv => MergeKeepsOrder
  BY MergedRowsTell DEF AskInv, AskTypes
<1> QED BY <1>1, AskKeeps, PTL
==============================================================================
