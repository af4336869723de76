---------------------------- MODULE MCSelection ----------------------------
(***************************************************************************)
(* What a pass chooses from, one choice at a time, for they share no state: *)
(* the candidates, the hypotheses and the codeword.                         *)
(* The lags include two neighbours, -14 and -13, whose times are near, and  *)
(* two that are not, -13 and -12.  The code has 8 bits, 4 of them of the    *)
(* message, and half of its codewords have a right CRC.  Among the soft     *)
(* words are some whose search finds no basis, changes no bit of it, one or *)
(* two, and gives a nearer word up by its pruning; and some that the bits   *)
(* known a priori keep from the nearest.                                    *)
(***************************************************************************)
EXTENDS CandidateSearch, HintSelection, Ldpc

MCNarrowLags == {-13, -12}
MCWideLags == {-14}

MCGenerator == <<{1, 5, 6}, {2, 7, 8}, {3, 5, 7}, {4, 6, 8}>>

MCGoodChecksums == {{}, {1, 5, 6}, {2, 7, 8}, {3, 5, 7}, {1, 3, 6, 7}, {2, 3, 5, 8},
                    {1, 2, 3, 6, 8}, {1, 2, 5, 6, 7, 8}}

MCReceived == {<<7, -1, -2, -7, -3, -4, -7, -2>>, <<-4, 3, 2, -5, -2, 3, 1, 4>>,
               <<3, -6, 3, -7, 7, 1, -3, 2>>, <<-4, -4, 5, 1, 2, 7, 2, 1>>,
               <<1, 7, 4, 1, -6, -2, 6, -6>>, <<2, 2, -6, 4, 1, 2, -2, -7>>,
               <<-1, -7, -3, -1, 1, -2, 5, -1>>, <<7, -6, -5, -4, 6, -3, 6, -5>>,
               <<-5, -6, 4, -6, -7, 3, 3, 5>>}

MCKnown == {{}, {1}, {2, 5}}
------------------------------------------------------------------------------
NoSearch == /\ searching = "none" /\ level = 0 /\ seen = {} /\ pre = <<>> /\ at = 0
            /\ before = 0 /\ peaks = <<>> /\ out = <<>>
NoHints == limit = 0 /\ scored = 0 /\ top = <<>> /\ below = 0 /\ passed = {}
NoAttempt == /\ hybrid = FALSE /\ llr = <<>> /\ ap = {} /\ pc = "none" /\ iter = 0
             /\ unsatisfied = <<>> /\ stale = 0 /\ saved = <<>> /\ tried = <<>>
             /\ answer = NotFound

SelectionInit == \/ SearchInit /\ NoHints /\ NoAttempt
                 \/ NoSearch /\ HintsInit /\ NoAttempt
                 \/ NoSearch /\ NoHints /\ Init

SelectionNext == \/ SearchNext /\ UNCHANGED <<hintVars, vars>>
                 \/ Score /\ UNCHANGED <<searchVars, vars>>
                 \/ Next /\ UNCHANGED <<searchVars, hintVars>>

SelectionSpec == SelectionInit /\ [][SelectionNext]_<<searchVars, hintVars, vars>>
=============================================================================
