---------------------------- MODULE MCTransmission ----------------------------
(***************************************************************************)
(* Transmission for TLC: the messages of MCStandardMessage; heard are those *)
(* that end in one of four words, from a frame that comes in whole, one     *)
(* that began one, two or nine symbols before the samples, and one whose    *)
(* last symbols are behind them.                                            *)
(***************************************************************************)
EXTENDS MCStandardMessage, Transmission

MCOnAir == {<<f, s, t>> : f \in {Portable(W9XYZ), CQ},
                          s \in {Call(W9XYZ), Portable(K1ABC), Call(ShortCall)},
                          t \in {RR73, Report(-31, TRUE), Final}}
             \cup {<<Call(K1ABC), Call(W9XYZ), R, Exchange(17, 0), WI>>}
MCStarts == {0, 283, 284, 330, -1, -33, -280}

\* Every bit hears from three checks, each of them along one edge of its own: no
\* message of belief propagation overwrites another, and none is missing.
ASSUME OneEdgeEach ==
    \A bit \in 0..173 :
      LET edges == {at \in (0..82) \X (1..7) : /\ at[2] <= ldpcNrw[at[1] + 1]
                                               /\ ldpcNm[at[1] + 1][at[2]] = bit}
      IN  Cardinality(edges) = 3 /\ {ldpcNmBitEdge[at[1]][at[2]] : at \in edges} = 0..2
==============================================================================
