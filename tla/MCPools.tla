------------------------------- MODULE MCPools -------------------------------
(***************************************************************************)
(* Pools for TLC: two decodes, one of two blocks and one of one, frames     *)
(* that begin before, within and behind a buffer of five samples, and a     *)
(* frequency range that begins below the first bin and leaves the tones no  *)
(* room at its end.                                                         *)
(***************************************************************************)
EXTENDS Pools, TLC

CONSTANTS d1, d2

MCOnsets == {-1, 2, 5}
MCBlocks == (d1 :> 2) @@ (d2 :> 1)
MCRanges == {<<0, 4>>}
==============================================================================
