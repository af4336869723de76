------------------------------- MODULE Unpack --------------------------------
(***************************************************************************)
(* From the 77 payload bits of a codeword to the message text               *)
(* (src/ft8/unpack.go and unpackARRLFieldDay in src/ft8/field_day.go), and  *)
(* what doing so saves in the callsign table.  A payload is a record of the *)
(* fields its bits hold; a text is the callsigns shown, each plain or       *)
(* between "<" and ">", and what follows them.  The digits of grids,        *)
(* reports and exchanges are left out.                                      *)
(***************************************************************************)
EXTENDS HashTable

CONSTANTS
    Short,      \* the texts under three characters, "CQ" and "DE" among them
    CQText,     \* "CQ"
    DirectedCQ, \* "CQ DX" and its like, normalizeCQ("CQ_DX")
    Rover,      \* the texts that contain "/R"
    Suffixed    \* Suffixed[text, i3]: the text with the /R (1) or /P (2) of i3

ASSUME ShortAssumption == CQText \in Short /\ Short \subseteq Unsavable
ASSUME TextAssumption == DirectedCQ \subseteq Texts /\ Rover \subseteq Texts
ASSUME SuffixAssumption == Suffixed \in [Texts \X {1, 2} -> Texts]
------------------------------------------------------------------------------
Tails4 == {"", "RRR", "RR73", "73"}                     \* nrpt of a type 4 message
Tails == Tails4 \cup {"grid", "R grid", "bad grid", "report", "R report"}

\* A 28-bit callsign field: a token (DE, QRZ or CQ), a directed CQ, a
\* hash reference, a standard call, a reserved value, or one callOK refuses.
Field == [kind : {"token", "directed", "call"}, text : Texts]
           \cup [kind : {"hash"}, hash : 0..(2^22 - 1)]
           \cup [kind : {"reserved", "invalid"}]

Standard == [kind : {"standard"}, i3 : {1, 2}, call1 : Field, ipa : {0, 1},
             call2 : Field, ipb : {0, 1}, tail : Tails]
Type4 == [kind : {"type4"}, n12 : 0..(2^12 - 1), text : Texts \cup {NoCall},
          iflip : {0, 1}, icq : {0, 1}, tail : Tails4]
FieldDay == [kind : {"field day"}, call1 : Field, call2 : Field, ir : {0, 1},
             section : BOOLEAN]
FreeTails == {"free text", "free text /R"}              \* without and with a "/R" in it
FreeText == [kind : {"free text"}, tail : FreeTails \cup {"illegal"}]
Unknown == [kind : {"unknown"}]                         \* no handler for i3, n3

Payload == Standard \cup Type4 \cup FieldDay \cup FreeText \cup Unknown

Shown == [call : Texts \cup {NoCall}, hashed : BOOLEAN]
Plain(text) == [call |-> text, hashed |-> FALSE]
Bracketed(call) == [call |-> call, hashed |-> TRUE]     \* "<...>" for NoCall

Text(calls, tail) == [calls |-> calls, tail |-> tail]
NoText == Text(<<>>, "")
MessageText == [calls : Seq(Shown),
                tail : Tails \cup FreeTails \cup {"exchange", "R exchange"}]

Unpacked(text, table) == [ok |-> TRUE, text |-> text, table |-> table]
Failed(table) == [ok |-> FALSE, text |-> NoText, table |-> table]
------------------------------------------------------------------------------
\* unpack28WithHashes, and the normalizeCQ of unpackStandard folded into the
\* text of a directed CQ.
Unpack28(field, table) ==
    CASE field.kind = "hash"     -> Bracketed(Lookup22(table, field.hash))
      [] field.kind = "reserved" -> Bracketed(NoCall)
      [] OTHER                   -> Plain(field.text)

AddPortableSuffix(shown, flag, i3) ==
    IF flag = 0 \/ shown.hashed \/ shown.call \in Short
    THEN shown ELSE Plain(Suffixed[shown.call, i3])

\* The second call is saved before the rest of the message is found wanting.
UnpackStandard(payload, table) ==
    LET call1 == AddPortableSuffix(Unpack28(payload.call1, table), payload.ipa, payload.i3)
        call2 == AddPortableSuffix(Unpack28(payload.call2, table), payload.ipb, payload.i3)
        saved == IF call2.hashed THEN table ELSE Save(table, call2.call)
        badDirected == /\ payload.call1.kind = "directed"
                       /\ payload.tail \notin {"", "grid"}
    IN  IF "invalid" \in {payload.call1.kind, payload.call2.kind} THEN Failed(table)
        ELSE IF payload.tail = "bad grid" \/ badDirected THEN Failed(saved)
        ELSE Unpacked(Text(<<call1, call2>>, payload.tail), saved)

\* Saving the spelled-out call before resolving the hashed one.
UnpackType4SaveFirst(payload, table) ==
    LET saved == IF payload.text = NoCall THEN table ELSE Save(table, payload.text)
        other == Bracketed(Lookup12(saved, payload.n12))
        own   == Plain(payload.text)
    IN  IF payload.text = NoCall THEN Failed(saved)
        ELSE Unpacked(Text(IF payload.iflip = 0 THEN <<other, own>> ELSE <<own, other>>,
                           payload.tail), saved)

\* The hashed call is resolved first, then the spelled-out call is saved.
UnpackType4(payload, table) ==
    LET other == Bracketed(Lookup12(table, payload.n12))
        own   == Plain(payload.text)
        calls == IF payload.iflip = 0 THEN <<other, own>> ELSE <<own, other>>
    IN  IF payload.text = NoCall THEN Failed(table)
        ELSE Unpacked(IF payload.icq = 1 THEN Text(<<Plain(CQText), calls[2]>>, "")
                                         ELSE Text(calls, payload.tail),
                      Save(table, payload.text))

\* A Field Day exchange resolves hashes and saves nothing.
UnpackFieldDay(payload, table) ==
    IF \/ ~payload.section
       \/ {payload.call1.kind, payload.call2.kind} \cap {"invalid", "token"} # {}
    THEN Failed(table)
    ELSE Unpacked(Text(<<Unpack28(payload.call1, table), Unpack28(payload.call2, table)>>,
                       IF payload.ir = 1 THEN "R exchange" ELSE "exchange"), table)

\* unpack77WithHashes
Unpack77(payload, table) ==
    CASE payload.kind = "standard"  -> UnpackStandard(payload, table)
      [] payload.kind = "type4"     -> UnpackType4(payload, table)
      [] payload.kind = "field day" -> UnpackFieldDay(payload, table)
      [] payload.kind = "free text" -> IF payload.tail \in FreeTails
                                       THEN Unpacked(Text(<<>>, payload.tail), table)
                                       ELSE Failed(table)
      [] OTHER                      -> Failed(table)

\* The message filter of decodeLLRPass; no text starts with "TU; ", which no
\* unpacker writes.
Filtered(text) == \/ \E i \in DOMAIN text.calls : text.calls[i].call \in Rover
                  \/ text.tail = "free text /R"
==============================================================================
