----------------------------- MODULE Transmission -----------------------------
(***************************************************************************)
(* A message sent and heard: EncodeStandardMessage with the codeword and    *)
(* the tones it returns (src/ft8/encode.go), the tones that come in, the    *)
(* soft metrics of the bits, and the first iteration of belief propagation  *)
(* (src/ft8/ldpc.go), which accepts the word or leaves it to the next.      *)
(***************************************************************************)
EXTENDS StandardMessage, Codeword

CONSTANTS
    OnAir,      \* the messages that are heard, the bound on this part
    Starts      \* the samples a frame is tried to begin at

VARIABLES
    codeword,   \* EncodedMessage.Codeword, {} before
    heard       \* what a receiver makes of the frame

airVars == <<words, encoded, codeword, heard>>
------------------------------------------------------------------------------
\* The payload as the packers write it.
PayloadBits(p) ==
    IF p.type = "standard"
    THEN WriteBits(0, 28, p.n28a) \cup WriteBits(28, 1, p.ipa) \cup WriteBits(29, 28, p.n28b)
           \cup WriteBits(57, 1, p.ipb) \cup WriteBits(58, 1, p.ir)
           \cup WriteBits(59, 15, p.igrid4) \cup WriteBits(74, 3, p.i3)
    ELSE WriteBits(0, 28, p.n28a) \cup WriteBits(28, 28, p.n28b) \cup WriteBits(56, 1, p.ir)
           \cup WriteBits(57, 4, p.intx) \cup WriteBits(61, 3, p.nclass)
           \cup WriteBits(64, 7, p.isec) \cup WriteBits(71, 3, p.n3)

\* unpack77FromCodewordWithHashes, for the types that can be packed.
UnpackCodeword(word) ==
    LET bits(start, width) == ReadBits(word, start, width)
    IN  CASE bits(74, 3) \in {1, 2} ->
               Unpack77([type |-> "standard", i3 |-> bits(74, 3),
                         n28a |-> bits(0, 28), ipa |-> bits(28, 1),
                         n28b |-> bits(29, 28), ipb |-> bits(57, 1),
                         ir |-> bits(58, 1), igrid4 |-> bits(59, 15)])
          [] bits(74, 3) = 0 /\ bits(71, 3) \in {3, 4} ->
               Unpack77([type |-> "field day", n3 |-> bits(71, 3),
                         n28a |-> bits(0, 28), n28b |-> bits(28, 28), ir |-> bits(56, 1),
                         intx |-> bits(57, 4), nclass |-> bits(61, 3), isec |-> bits(64, 7)])
          [] OTHER -> Failed

\* What belief propagation asks of a word before it goes on to iterate.
Accepts(word) == Unsatisfied(word) = {} /\ crc14OK(word)

Nothing == [ok |-> FALSE, word |-> {}, lost |-> {}, start |-> 0]

\* The bits of a codeword that a symbol carries.
BitsOf(symbol) == {bit \in 0..173 : DataSymbol(bit \div 3 + 1) = symbol}
------------------------------------------------------------------------------
AirInit == Init /\ codeword = {} /\ heard = Nothing

Compose == AddWord /\ UNCHANGED <<codeword, heard>>

Send == /\ Encode
        /\ codeword' = IF Succeeded' THEN encode17491(PayloadBits(encoded'.payload)) ELSE {}
        /\ UNCHANGED heard

Hear(start, kind) ==
    /\ words \in OnAir /\ codeword # {} /\ heard = Nothing
    /\ LET cs == symbolSpectra(tonesFromCodeword(codeword), start)
           word == HardDecision(Metric(kind, cs))
       IN  heard' = [ok |-> Accepts(word), word |-> word, start |-> start,
                     lost |-> {symbol \in Symbols : cs[symbol] = Lost}]
    /\ UNCHANGED <<words, encoded, codeword>>

AirNext == \/ Compose \/ Send
           \/ \E start \in Starts, kind \in {"Single", "Double", "Triple", "Best"} :
                Hear(start, kind)

AirSpec == AirInit /\ [][AirNext]_airVars
------------------------------------------------------------------------------
\* What the encoder computes, the decoder's tests let through, and what it
\* unpacks from the codeword is the text the encoder returned: the generator and
\* the two tables of checks are of one code, and the checksum solved for is the
\* checksum tested.
SentIsAccepted ==
    codeword # {} =>
      /\ Accepts(codeword) /\ UnsatisfiedByEdges(codeword) = {}
      /\ UnpackCodeword(codeword) = Unpacked(encoded.text)

\* From whichever metric, and wherever the frame begins: every bit whose symbol
\* came in is heard as it was sent, whatever happened to its neighbours.  A
\* frame that came in whole is accepted at once; a word that is accepted is
\* the one that was sent.
HeardAsSent ==
    heard # Nothing =>
      /\ \A symbol \in Symbols \ heard.lost :
           heard.word \cap BitsOf(symbol) = codeword \cap BitsOf(symbol)
      /\ heard.lost = {} => heard.ok
      /\ heard.ok => heard.word = codeword
==============================================================================
