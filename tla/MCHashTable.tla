----------------------------- MODULE MCHashTable -----------------------------
(***************************************************************************)
(* HashTableSpec for TLC: PJ4 takes K1's 22-bit hash, W9 and G4 share the  *)
(* 12-bit hash but not the 22-bit one, CQ is too short to be saved.         *)
(***************************************************************************)
EXTENDS HashTableSpec, TLC

CONSTANTS K1, PJ4, W9, G4, VE3, JA1, CQ

MCTexts == {K1, PJ4, W9, G4, VE3, JA1, CQ}
MCUnsavable == {CQ}
MCHash22 == (K1 :> 5) @@ (PJ4 :> 5) @@ (W9 :> 1030) @@ (G4 :> 1031)
            @@ (VE3 :> 4194303) @@ (JA1 :> 0) @@ (CQ :> 77)
==============================================================================
