------------------------------ MODULE MCDecoder ------------------------------
(***************************************************************************)
(* Decoder for TLC: K1's CQ, W9 calling K1 with a report, K1 answering W9   *)
(* with W9 as a hash, which resolves once W9's call has been heard.         *)
(***************************************************************************)
EXTENDS Decoder, TLC

CONSTANTS K1, W9, T5, CQ

MCTexts == {K1, W9, T5, CQ}
MCHash22 == (K1 :> 1030) @@ (W9 :> 3000) @@ (T5 :> 5000) @@ (CQ :> 77)
MCSuffixed == [ti \in MCTexts \X {1, 2} |-> ti[1]]

Call(text) == [kind |-> "call", text |-> text]
Token(text) == [kind |-> "token", text |-> text]
Std(call1, call2, tail) ==
    [kind |-> "standard", i3 |-> 1, call1 |-> call1, ipa |-> 0,
     call2 |-> call2, ipb |-> 0, tail |-> tail]

CQK1 == Std(Token(CQ), Call(K1), "grid")
K1W9 == Std(Call(K1), Call(W9), "report")
HashW9K1 == Std([kind |-> "hash", hash |-> 3000], Call(K1), "R report")
CQT5 == [kind |-> "type4", n12 |-> 5, text |-> T5, iflip |-> 0, icq |-> 1, tail |-> ""]
MCPayloads == {CQK1, K1W9, HashW9K1}
MCMorePayloads == {CQK1, K1W9, HashW9K1, CQT5}

MCUnpackable == -1
MCSpellings == {"W9XYZ", "w9xyz"}
MCUpperCall == [s \in MCSpellings |-> "W9XYZ"]
MCN28 == [s \in MCSpellings |-> 20]
MCHintLists == {<<>>, <<[call |-> "W9XYZ", source |-> ""], [call |-> "w9xyz", source |-> "log"]>>}
MCNoHints == {<<>>}
MCBlockLists == {<<50, 41>>}
MCSharedLists == {<<50, 41>>, <<50, 50>>}
MCMixedLists == {<<>>, <<41, 41>>}
==============================================================================
