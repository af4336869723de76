----------------------------- MODULE RecentCalls -----------------------------
(***************************************************************************)
(* What the callsign hash table promises, with no table in sight: of the    *)
(* 22-bit hashes heard, the MaxHash most recent are remembered, each with   *)
(* the last call heard under it; hearing one more forgets the least recent. *)
(* A 12-bit reference, which many calls share, means the most recently      *)
(* heard of them.                                                           *)
(***************************************************************************)
EXTENDS Integers, FiniteSets

CONSTANTS Texts, Unsavable, Hash22, MaxHash, NoCall

VARIABLES
    holder,     \* the remembered hashes, each with its last call
    newer       \* <<g, h>> when g was heard more recently than h

vars == <<holder, newer>>
------------------------------------------------------------------------------
Remembered == DOMAIN holder

Oldest == CHOOSE h \in Remembered : \A g \in Remembered : <<h, g>> \notin newer

Init == /\ holder = [h \in {} |-> NoCall]
        /\ newer = {}

Hear(call) ==
    LET n22  == Hash22[call]
        kept == IF n22 \in Remembered \/ Cardinality(Remembered) < MaxHash
                THEN Remembered ELSE Remembered \ {Oldest}
        others == kept \ {n22}
    IN  /\ call \notin Unsavable
        /\ holder' = [h \in others \cup {n22} |-> IF h = n22 THEN call ELSE holder[h]]
        /\ newer' = (newer \cap (others \X others)) \cup ({n22} \X others)

Next == \E call \in Texts : Hear(call)

Spec == Init /\ [][Next]_vars
------------------------------------------------------------------------------
Newest22(h) == IF h \in Remembered THEN holder[h] ELSE NoCall

Newest12(h) ==
    LET matches == {g \in Remembered : g \div 2^10 = h}
    IN  IF matches = {} THEN NoCall
        ELSE holder[CHOOSE g \in matches : \A f \in matches : <<f, g>> \notin newer]
==============================================================================
