--------------------------- MODULE StandardMessage ----------------------------
(***************************************************************************)
(* Encoding a message: from its words to the fields of the 77 payload bits  *)
(* (src/ft8/pack.go, src/ft8/field_day.go) and back to the text a receiver  *)
(* without a callsign table shows (src/ft8/unpack.go), as                   *)
(* EncodeStandardMessage does (src/ft8/encode.go).                          *)
(*                                                                          *)
(* A word is told apart by what the packer's tests see in it; a character   *)
(* is its place in the packer's alphabet.  Case, blanks and the signs of    *)
(* zero are left out.  Unpacking is defined for what packing writes.        *)
(***************************************************************************)
EXTENDS Integers, Sequences, SequencesExt, Functions

CONSTANTS
    Sections,   \* arrlFieldDaySections
    MaxWords,   \* the bound on the words of a message
    WordsAt     \* the words tried at each place

VARIABLES
    words,      \* the words given so far
    encoded     \* what EncodeStandardMessage made of them

vars == <<words, encoded>>
------------------------------------------------------------------------------
\* Four letters, after as many blanks (0) as are missing.
IsLetters(l) == /\ Len(l) = 4 /\ l[4] > 0
                /\ \A i \in 1..3 : l[i] > 0 => l[i+1] > 0

\* The six characters of a callsign callOK accepts, by their places in c1 to c4:
\* three at least, no Q before the rest, a letter before the digit.
IsCallsign(c) == /\ Len(c) = 6 /\ c[2] < 36 /\ c[3] < 10
                 /\ c[1] > 0 \/ (c[2] # 26 /\ c[4] > 0)
                 /\ c[1] # 27 /\ (c[1] > 10 \/ c[2] > 9)
                 /\ \A i \in 4..6 : c[i] < 27 /\ (i > 4 /\ c[i] > 0 => c[i-1] > 0)

\* isGrid4 accepts RR73, so that is one of these.
IsGrid(g) == Len(g) = 4 /\ g[3] < 10 /\ g[4] < 10

IsPlainWord(w) ==
    \/ w \in [kind : {"letters"}, letters : Seq(0..26)] /\ IsLetters(w.letters)
    \/ w \in [kind : {"call"}, chars : Seq(0..36), portable : BOOLEAN] /\ IsCallsign(w.chars)
    \/ w \in [kind : {"grid"}, chars : Seq(0..17)] /\ IsGrid(w.chars)
    \/ w \in [kind : {"digits"}, n : 0..999]          \* three of them
    \/ w \in [kind : {"report"}, snr : -99..99, response : BOOLEAN]
    \/ w \in [kind : {"exchange"}, ntx : 0..99, class : 0..25]
    \/ w \in [kind : {"73", "other"}]

\* A word that begins with "CQ_".
Directed(word) == [kind |-> "directed", suffix |-> word]

IsWord(w) == IsPlainWord(w) \/ (w = Directed(w.suffix) /\ IsPlainWord(w.suffix))

Spell(a, b, c, d) == [kind |-> "letters", letters |-> <<a, b, c, d>>]
DE  == Spell(0, 0, 4, 5)
QRZ == Spell(0, 17, 18, 26)
CQ  == Spell(0, 0, 3, 17)
R   == Spell(0, 0, 0, 18)
RRR == Spell(0, 18, 18, 18)
Final == [kind |-> "73"]
RR73 == [kind |-> "grid", chars |-> <<17, 17, 7, 3>>]

ASSUME WordsAssumption ==
    /\ IsInjective(Sections) /\ DOMAIN Sections = 1..Len(Sections) /\ Len(Sections) \in 0..2^7-1
    /\ \A i \in DOMAIN Sections : IsPlainWord(Sections[i]) /\ Sections[i].kind = "letters"
    /\ MaxWords \in Nat /\ DOMAIN WordsAt = 1..MaxWords
    /\ \A i \in 1..MaxWords : \A word \in WordsAt[i] : IsWord(word)
------------------------------------------------------------------------------
NTokens == 2063592
Max22 == 4194304
MaxGrid4 == 32400

\* writeBits keeps the low bits of a value.
Bits(value, width) == value % 2^width

PackLetters(l) == 27*27*27 * l[1] + 27*27 * l[2] + 27 * l[3] + l[4]
UnpackLetters(n) == <<n \div (27*27*27), (n % (27*27*27)) \div (27*27),
                      (n % (27*27)) \div 27, n % 27>>

PackChars(c) == 36*10*27*27*27 * c[1] + 10*27*27*27 * c[2] + 27*27*27 * c[3]
                  + 27*27 * c[4] + 27 * c[5] + c[6]
UnpackChars(n) == <<n \div (36*10*27*27*27), (n % (36*10*27*27*27)) \div (10*27*27*27),
                    (n % (10*27*27*27)) \div (27*27*27), (n % (27*27*27)) \div (27*27),
                    (n % (27*27)) \div 27, n % 27>>

Grid4Index(g) == 18*10*10 * g[1] + 10*10 * g[2] + 10 * g[3] + g[4]
ToGrid4(n) == <<n \div (18*10*10), (n % (18*10*10)) \div (10*10), (n % (10*10)) \div 10, n % 10>>

\* Reports below -30 packed like the others, on top of the tokens.
PackReportUnwrapped(snr) == 35 + snr

PackReport(snr) == 35 + (IF snr <= -31 THEN snr + 101 ELSE snr)
UnpackReport(irpt) == IF irpt - 35 > 50 THEN irpt - 35 - 101 ELSE irpt - 35
------------------------------------------------------------------------------
Refused == -1

\* The callsign field of a word, whether or not "/P" follows it.
Pack28(word) ==
    CASE word = DE  -> 0
      [] word = QRZ -> 1
      [] word = CQ  -> 2
      [] word.kind = "directed" /\ word.suffix.kind = "digits" -> 3 + word.suffix.n
      [] word.kind = "directed" /\ word.suffix.kind = "letters" ->
           3 + 1000 + PackLetters(word.suffix.letters)
      [] word.kind = "call" -> NTokens + Max22 + PackChars(word.chars)
      [] OTHER -> Refused

PortableBit(word) == IF word.kind = "call" /\ word.portable THEN 1 ELSE 0

\* What follows the calls: how packReportToken numbers it, after the grids.
TailNumber(word) ==
    CASE word.kind = "grid" -> Grid4Index(word.chars)
      [] word = RRR -> MaxGrid4 + 2
      [] word = Final -> MaxGrid4 + 4
      [] word.kind = "report" /\ word.snr \in -50..49 -> MaxGrid4 + PackReport(word.snr)
      [] OTHER -> Refused

\* Of four words the third is looked at only if the last is a grid.
Response(fields) ==
    LET last == fields[Len(fields)]
    IN  IF \/ last.kind = "grid" /\ Len(fields) = 4 /\ fields[3] = R
           \/ last.kind = "report" /\ last.response
        THEN 1 ELSE 0

NotPacked == [type |-> "none"]

\* A directed CQ is two words, if a callsign field follows them.
JoinCQ(fields) ==
    IF Len(fields) >= 3 /\ fields[1] = CQ /\ Pack28(fields[3]) # Refused
    THEN <<Directed(fields[2])>> \o SubSeq(fields, 3, Len(fields)) ELSE fields

PackStandard(fields) ==
    LET tail == IF Len(fields) = 2 THEN MaxGrid4 + 1 ELSE TailNumber(fields[Len(fields)])
        portable(i) == PortableBit(fields[i])
    IN  IF Len(fields) \notin 2..4 THEN NotPacked
        ELSE IF Refused \in {Pack28(fields[1]), Pack28(fields[2]), tail} THEN NotPacked
        ELSE [type |-> "standard", i3 |-> IF portable(1) + portable(2) > 0 THEN 2 ELSE 1,
              n28a |-> Bits(Pack28(fields[1]), 28), ipa |-> portable(1),
              n28b |-> Bits(Pack28(fields[2]), 28), ipb |-> portable(2),
              ir |-> Response(fields), igrid4 |-> Bits(tail, 15)]

\* No callsign of a Field Day exchange ends in "/P": callOK refuses it.
PackFieldDay(fields) ==
    LET exchange == fields[Len(fields) - 1]
        sections == {i \in DOMAIN Sections : Sections[i] = fields[Len(fields)]}
        intx == exchange.ntx - 1
    IN  IF /\ Len(fields) = 4 \/ (Len(fields) = 5 /\ fields[3] = R)
           /\ \A i \in 1..2 : fields[i].kind = "call" /\ ~fields[i].portable
           /\ exchange.kind = "exchange" /\ exchange.ntx \in 1..32 /\ exchange.class \in 0..7
           /\ sections # {}
        THEN [type |-> "field day", n3 |-> IF intx >= 16 THEN 4 ELSE 3,
              n28a |-> Bits(Pack28(fields[1]), 28), n28b |-> Bits(Pack28(fields[2]), 28),
              ir |-> Len(fields) - 4, intx |-> Bits(IF intx >= 16 THEN intx - 16 ELSE intx, 4),
              nclass |-> Bits(exchange.class, 3),
              isec |-> Bits(CHOOSE i \in sections : TRUE, 7)]
        ELSE NotPacked

Pack77(fields) ==
    IF PackFieldDay(fields) # NotPacked THEN PackFieldDay(fields)
                                        ELSE PackStandard(JoinCQ(fields))
------------------------------------------------------------------------------
Hashed == [kind |-> "other"]        \* "<...>"

Unpack28(n28) ==
    CASE n28 = 0 -> DE
      [] n28 = 1 -> QRZ
      [] n28 = 2 -> CQ
      [] 2 < n28 /\ n28 <= 1002 -> Directed([kind |-> "digits", n |-> n28 - 3])
      [] 1002 < n28 /\ n28 <= 532443 ->
           Directed([kind |-> "letters", letters |-> UnpackLetters(n28 - 1003)])
      [] 532443 < n28 /\ n28 < NTokens + Max22 -> Hashed
      [] OTHER -> [kind |-> "call", chars |-> UnpackChars(n28 - NTokens - Max22),
                   portable |-> FALSE]

\* normalizeCQ: "CQ_DX" is shown as two words.
Shown(word) == IF word.kind = "directed" THEN <<CQ, word.suffix>> ELSE <<word>>

\* addPortableSuffix; no word of the packer's has the "/R" of i3 = 1.
WithSuffix(word, flag, i3) ==
    IF flag = 0 \/ word.kind # "call" THEN word
    ELSE IF i3 = 2 THEN [word EXCEPT !.portable = TRUE] ELSE [kind |-> "other"]

Unpacked(text) == [ok |-> TRUE, text |-> text]
Failed == [ok |-> FALSE]

\* What igrid4 and the bit before it are shown as.
UnpackTail(igrid4, ir) ==
    LET irpt == igrid4 - MaxGrid4
    IN  CASE irpt < 0 -> (IF ir = 1 THEN <<R>> ELSE <<>>)
                           \o <<[kind |-> "grid", chars |-> ToGrid4(igrid4)]>>
          [] irpt = 1 -> <<>>
          [] irpt = 2 -> <<RRR>>
          [] irpt = 3 -> <<RR73>>
          [] irpt = 4 -> <<Final>>
          [] OTHER    -> <<[kind |-> "report", snr |-> UnpackReport(irpt),
                            response |-> ir = 1]>>

\* A directed CQ takes nothing but a grid.
UnpackStandard(p) ==
    LET call1 == WithSuffix(Unpack28(p.n28a), p.ipa, p.i3)
        call2 == WithSuffix(Unpack28(p.n28b), p.ipb, p.i3)
        bad   == /\ call1.kind = "directed"
                 /\ IF p.igrid4 < MaxGrid4 THEN p.ir = 1 ELSE p.igrid4 >= MaxGrid4 + 2
    IN  IF p.igrid4 = MaxGrid4 \/ bad THEN Failed
        ELSE Unpacked(Shown(call1) \o Shown(call2) \o UnpackTail(p.igrid4, p.ir))

\* The R of a Field Day exchange not shown.
UnpackFieldDayPlain(p) ==
    IF p.isec \notin DOMAIN Sections \/ p.n28a <= 2 \/ p.n28b <= 2 THEN Failed
    ELSE Unpacked(<<Unpack28(p.n28a), Unpack28(p.n28b)>>
                    \o <<[kind |-> "exchange", class |-> p.nclass,
                          ntx |-> p.intx + 1 + (IF p.n3 = 4 THEN 16 ELSE 0)],
                         Sections[p.isec]>>)

UnpackFieldDay(p) ==
    IF p.isec \notin DOMAIN Sections \/ p.n28a <= 2 \/ p.n28b <= 2 THEN Failed
    ELSE Unpacked(<<Unpack28(p.n28a), Unpack28(p.n28b)>>
                    \o (IF p.ir = 1 THEN <<R>> ELSE <<>>)
                    \o <<[kind |-> "exchange", class |-> p.nclass,
                          ntx |-> p.intx + 1 + (IF p.n3 = 4 THEN 16 ELSE 0)],
                         Sections[p.isec]>>)

Unpack77(p) == IF p.type = "standard" THEN UnpackStandard(p) ELSE UnpackFieldDay(p)
------------------------------------------------------------------------------
Encoded(error, payload, text) == [error |-> error, payload |-> payload, text |-> text]
NotEncoded == Encoded("not encoded", NotPacked, <<>>)

EncodeStandardMessage(fields) ==
    LET payload == Pack77(fields)
        canonical == Unpack77(payload)
    IN  IF payload = NotPacked THEN Encoded("unsupported", NotPacked, <<>>)
        ELSE IF ~canonical.ok THEN Encoded("no round trip", NotPacked, <<>>)
        ELSE Encoded("", payload, canonical.text)

Init == words = <<>> /\ encoded = NotEncoded

AddWord == /\ encoded = NotEncoded /\ Len(words) < MaxWords
           /\ \E word \in WordsAt[Len(words) + 1] : words' = Append(words, word)
           /\ UNCHANGED encoded

Encode == /\ encoded = NotEncoded
          /\ encoded' = EncodeStandardMessage(words)
          /\ UNCHANGED words

Next == AddWord \/ Encode

Spec == Init /\ [][Next]_vars
------------------------------------------------------------------------------
Succeeded == encoded.error = ""

\* The words as a receiver shows them.
Spoken(text) == FlattenSeq([i \in DOMAIN text |-> Shown(text[i])])

\* The text an encoding returns is canonical: encoding it again gives the same
\* payload and the same text.  (A second callsign field that is a directed CQ
\* is shown as two words, which no message has there.)
CanonicalTextStays ==
    Succeeded /\ (\A i \in 2..Len(words) : words[i].kind # "directed") =>
      EncodeStandardMessage(encoded.text) = encoded

\* What is sent says what was given, in the same order: callsigns, suffixes,
\* grid, report and exchange come back, and nothing is missing but the third of
\* four fields, which the packer may not look at.
TextSaysWhatWasGiven ==
    Succeeded =>
      \/ encoded.text = Spoken(words)
      \/ /\ Len(JoinCQ(words)) = 4
         /\ encoded.text = Spoken(RemoveAt(words, Len(words) - 1))

\* A message with a word that no standard message has there is not accepted.
NoWordDropped == Succeeded => encoded.text = Spoken(words)
==============================================================================
