-------------------------- MODULE MCDecodeCandidate --------------------------
(***************************************************************************)
(* DecodeCandidate for TLC.  The payloads: K1's CQ; W9 calling K1 by hash;  *)
(* a type 4 message of PJ4, which shares K1's 12-bit hash, addressed to     *)
(* that hash; W9 as a rover, which the filter rejects; a CQ DX with a       *)
(* report, which does not unpack; a free text the filter rejects.           *)
(***************************************************************************)
EXTENDS DecodeCandidate, TLC

CONSTANTS K1, PJ4, W9, W9R, CQ, CQDX

MCTexts == {K1, PJ4, W9, W9R, CQ, CQDX}
MCHash22 == (K1 :> 1030) @@ (PJ4 :> 1031) @@ (W9 :> 3000) @@ (W9R :> 4000)
            @@ (CQ :> 77) @@ (CQDX :> 9000)
MCSuffixed == [ti \in MCTexts \X {1, 2} |-> IF ti = <<W9, 1>> THEN W9R ELSE ti[1]]

Call(text) == [kind |-> "call", text |-> text]
Token(text) == [kind |-> "token", text |-> text]
Std(call1, call2, ipb, tail) ==
    [kind |-> "standard", i3 |-> 1, call1 |-> call1, ipa |-> 0,
     call2 |-> call2, ipb |-> ipb, tail |-> tail]

CQK1 == Std(Token(CQ), Call(K1), 0, "grid")
HashK1W9 == Std([kind |-> "hash", hash |-> 1030], Call(W9), 0, "report")
SelfPJ4 == [kind |-> "type4", n12 |-> 1, text |-> PJ4, iflip |-> 0, icq |-> 0, tail |-> "RR73"]
RoverW9 == Std(Call(K1), Call(W9), 1, "73")
BadCQDX == Std([kind |-> "directed", text |-> CQDX], Call(W9), 0, "report")

FreeR == [kind |-> "free text", tail |-> "free text /R"]
MCPayloads == {CQK1, HashK1W9, SelfPJ4, RoverW9, BadCQDX, FreeR}
MCHints == <<"recent">>
MCDefault == <<"cq">>
MCBroad == <<"cq-dx">>
==============================================================================
