--------------------------------- MODULE Ldpc ---------------------------------
(***************************************************************************)
(* One attempt at a codeword: belief propagation (decode17491BP in          *)
(* src/ft8/ldpc.go) and, in the hybrid decoder of src/ft8/osd.go, the       *)
(* searches that follow it.  The arithmetic of the propagation is left      *)
(* open: an iteration leaves any number of checks unsatisfied, and the sums *)
(* it saves are any received word.                                          *)
(***************************************************************************)
EXTENDS Osd

CONSTANTS
    MaxIterations,  \* the last iteration (30)
    MinIterations,  \* the first one after which a hopeless word is given up (10)
    StaleLimit,     \* iterations without progress that make it hopeless (5)
    Hopeful,        \* as many unsatisfied checks are never given up (15)
    Checks,         \* the numbers of unsatisfied checks tried, the bound of the model
    Received,       \* the soft words tried, functions from bits to integers
    Known           \* the sets of bits known a priori tried

MaxSaved == 2       \* ldpcMaxSavedIterations

ASSUME LdpcAssumption ==
    /\ MaxIterations \in Nat /\ MinIterations \in Nat /\ StaleLimit \in Nat /\ Hopeful \in Nat
    /\ MaxSaved <= MaxIterations /\ MaxSaved <= MinIterations
    /\ Checks \subseteq Nat /\ Received \subseteq [Bits -> Int] /\ Known \subseteq SUBSET Bits

VARIABLES
    hybrid,     \* whether OSD follows: saved is not nil
    llr, ap,    \* the arguments: the soft word and the bits known a priori
    pc,         \* "propagate", "stopped", "search" or "return"
    iter,       \* the iteration that is next
    unsatisfied,\* the unsatisfied checks of each iteration until now
    stale,      \* staleCount
    saved,      \* the iterations whose sums are saved
    tried,      \* the sums that OSD was tried on
    answer      \* what is returned

vars == <<hybrid, llr, ap, pc, iter, unsatisfied, stale, saved, tried, answer>>
------------------------------------------------------------------------------
Init == /\ hybrid \in BOOLEAN /\ llr \in Received /\ ap \in Known
        /\ pc = "propagate" /\ iter = 0 /\ unsatisfied = <<>> /\ stale = 0
        /\ saved = <<>> /\ tried = <<>> /\ answer = NotFound

\* The sums are saved before the word is looked at.
Save == saved' = IF hybrid /\ iter > 0 /\ Len(saved) < MaxSaved THEN Append(saved, iter) ELSE saved

\* An iteration ends in a codeword: the known bits in it are those of the channel.
Found ==
    /\ pc = "propagate" /\ Save /\ pc' = "return"
    /\ \E word \in GoodChecksums :
         /\ \A bit \in ap : (bit \in word) = (llr[bit] > 0)
         /\ answer' = [ok |-> TRUE, word |-> word]
    /\ UNCHANGED <<hybrid, llr, ap, iter, unsatisfied, stale, tried>>

\* Only checks gained count as progress, and never start the count anew.
StaleKept(n) == IF iter > 0 /\ n >= Last(unsatisfied) THEN stale + 1 ELSE stale

\* The iterations in a row that did not satisfy more checks than the one before.
Stale(n) == IF iter = 0 THEN stale
            ELSE IF n < Last(unsatisfied) THEN 0 ELSE stale + 1

\* One that does not: its word fails a check, or the CRC.
Iterate ==
    /\ pc = "propagate" /\ Save
    /\ \E n \in Checks :
         /\ unsatisfied' = Append(unsatisfied, n)
         /\ stale' = Stale(n)
         /\ pc' = IF \/ iter = MaxIterations
                     \/ iter > 0 /\ iter >= MinIterations /\ stale' >= StaleLimit /\ n > Hopeful
                  THEN "stopped" ELSE "propagate"
    /\ iter' = iter + 1
    /\ UNCHANGED <<hybrid, llr, ap, tried, answer>>

\* decode17491BP returns without a word: what it counted is forgotten, the sums are not.
Stop ==
    /\ pc = "stopped"
    /\ pc' = IF saved # <<>> THEN "search" ELSE "return"
    /\ iter' = 0 /\ unsatisfied' = <<>> /\ stale' = 0
    /\ UNCHANGED <<hybrid, llr, ap, saved, tried, answer>>

\* decode17491HybridWithAP: OSD on one sum after the other.
Search ==
    /\ pc = "search"
    /\ \E rx \in Received :
         /\ answer' = OSD(rx, llr, ap)
         /\ tried' = Append(tried, rx)
    /\ pc' = IF answer'.ok \/ Len(tried') = Len(saved) THEN "return" ELSE "search"
    /\ UNCHANGED <<hybrid, llr, ap, iter, unsatisfied, stale, saved>>

Next == Found \/ Iterate \/ Stop \/ Search

Spec == Init /\ [][Next]_vars
------------------------------------------------------------------------------
\* The search with its pruning, its one cached word and its swapped columns answers
\* as if every word it may look at had been measured from scratch: with the nearest
\* of them, and with nothing only if it found no basis or a nearest word has a wrong
\* CRC (src/ft8/osd.go:116-264).
NearestOfSearch ==
    tried # <<>> =>
      LET rx         == Last(tried)
          words      == Searched(rx, llr, ap)
          away(word) == Distance(rx, llr, ap, word)
          nearest    == {word \in words : \A other \in words : away(word) <= away(other)}
      IN  IF answer.ok THEN answer.word \in nearest \cap GoodChecksums
          ELSE Diagonalized(rx).ok => ~(nearest \subseteq GoodChecksums)

\* An attempt fails only when nothing is left to try: the propagation stops at its
\* last iteration, or when for StaleLimit iterations in a row, up to this one, no
\* check was gained and too many fail still; and a hybrid one has then tried the sums
\* of both iterations it saves (src/ft8/ldpc.go:72-99, src/ft8/osd.go:74-79).
FailsOnlyWhenExhausted ==
    /\ pc = "stopped" =>
         \/ iter = MaxIterations + 1
         \/ /\ iter > MinIterations /\ Last(unsatisfied) > Hopeful
            /\ \A i \in (iter - StaleLimit)..(iter - 1) : unsatisfied[i] <= unsatisfied[i + 1]
    /\ pc = "return" /\ hybrid /\ ~answer.ok => Len(tried) = MaxSaved /\ saved = <<1, 2>>
==============================================================================
