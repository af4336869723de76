----------------------------- MODULE MCDecodeSlot -----------------------------
(***************************************************************************)
(* DecodeSlot for TLC: K1's CQ, W9 calling K1 by hash (its text depends on  *)
(* what was heard before), and W9 as a rover, which the filter rejects but  *)
(* the table keeps; one A7 hint from an exchange of K1 and W9, another from *)
(* K1's CQ.                                                                 *)
(***************************************************************************)
EXTENDS DecodeSlot, TLC

CONSTANTS K1, W9, W9R, CQ, b1, b2

MCTexts == {K1, W9, W9R, CQ}
MCHash22 == (K1 :> 1030) @@ (W9 :> 3000) @@ (W9R :> 4000) @@ (CQ :> 77)
MCSuffixed == [ti \in MCTexts \X {1, 2} |-> IF ti = <<W9, 1>> THEN W9R ELSE ti[1]]

Call(text) == [kind |-> "call", text |-> text]
Token(text) == [kind |-> "token", text |-> text]
Std(call1, call2, ipb, tail) ==
    [kind |-> "standard", i3 |-> 1, call1 |-> call1, ipa |-> 0,
     call2 |-> call2, ipb |-> ipb, tail |-> tail]

CQK1 == Std(Token(CQ), Call(K1), 0, "grid")
HashK1W9 == Std([kind |-> "hash", hash |-> 1030], Call(W9), 0, "report")
RoverW9 == Std(Call(K1), Call(W9), 1, "73")
MCPayloads == {CQK1, HashK1W9, RoverW9}

MCHints == <<{Text(<<Plain(K1), Plain(W9)>>, "RR73"), Text(<<Plain(CQ), Plain(K1)>>, "grid")},
             {Text(<<Plain(CQ), Plain(K1)>>, "grid")}>>
MCBlockLists == {<<50, 41>>, <<47>>}
==============================================================================
