------------------------------ MODULE MCStructured ---------------------------
(***************************************************************************)
(* Structured for TLC: values on both sides of every limit; two spellings   *)
(* of one call, another call and one that does not pack; slots with up to   *)
(* three texts.                                                             *)
(***************************************************************************)
EXTENDS Structured, TLC

MCUnpackable == -1
MCSpellings == {"K1ABC", "k1abc", "W9XYZ", "K1ABC/7"}
MCUpperCall == [s \in MCSpellings |-> IF s = "k1abc" THEN "K1ABC" ELSE s]
MCN28 == ("K1ABC" :> 10) @@ ("k1abc" :> 10) @@ ("W9XYZ" :> 20) @@ ("K1ABC/7" :> MCUnpackable)
MCHints == {[call |-> "K1ABC", source |-> ""], [call |-> "k1abc", source |-> "log"],
            [call |-> "W9XYZ", source |-> "log"], [call |-> "K1ABC/7", source |-> ""]}
MCFewHints == {[call |-> "W9XYZ", source |-> "log"]}

MCFloatValues == Floats \ {"zero"}
MCIntValues == {-1, 8, 9, 21, 22, 199, 3200, 3201, 6000, 6001}

\* The largest count that fits is 52.  With ints of 24 bits, the samples of 2428
\* come out negative and those of 4855 as 1664.
MCBlockValues == {-1, 50, 52, 53, 2428, 4855}
MCWrapping == {50, 2428}
MCFewBlocks == {50}
==============================================================================
