--------------------------- MODULE CandidateSearch ---------------------------
(***************************************************************************)
(* The candidates of one pass (findCandidates in src/ft8/sync.go), from the *)
(* strengths of the Costas pattern on: bin by bin a narrow peak and a wide  *)
(* one, of two that are near the stronger, and of the rest the best.  What  *)
(* the spectra give is left open: any bin may have any strengths.           *)
(*                                                                          *)
(* A frequency is a bin of 3.125 Hz, a time a lag of 0.04 s, a strength one *)
(* of a few levels, normalised as red and redWide are.                      *)
(***************************************************************************)
EXTENDS Integers, Sequences, SequencesExt, FiniteSets

CONSTANTS
    Bins,           \* firstBin..lastBin: of one bin the percentile is none
    Strengths,      \* the levels of a peak, 0 for none
    SyncMin,        \* the least level of a candidate
    NarrowLags, WideLags, \* the lags tried within narrowLag and outside it
    MaxPreCand,     \* as many peaks are compared at most (1000)
    MaxCandidates   \* as many are returned at most

ASSUME SearchAssumption ==
    /\ Bins \subseteq Nat \ {0} /\ Cardinality(Bins) >= 2
    /\ Strengths \subseteq Nat /\ SyncMin \in Nat \ {0}
    /\ NarrowLags \subseteq -13..13 /\ WideLags \subseteq (-62..62) \ (-13..13)
    /\ MaxPreCand \in Nat /\ MaxCandidates \in Nat \ {0}

VARIABLES
    searching,  \* "peaks", "near", "qso", "best" or "found"
    level,      \* the narrow strength of the last bin, the order goes down
    seen,       \* the bins that the order went through
    pre,        \* the peaks; sync becomes 0 when one is suppressed
    at, before, \* the peaks that are compared next; at, the next one of the QSO
    peaks,      \* the peaks as they were found, a history variable
    out         \* the candidates returned

searchVars == <<searching, level, seen, pre, at, before, peaks, out>>
------------------------------------------------------------------------------
\* Lags a, a + 1 whose times come out less than 0.04 s apart in floating point.
RoundedBelow == {-58, -48, -42, -35, -29, -24, -21, -18, -14, -12, -10, -9, -7, -4, -1,
                 1, 4, 7, 9, 10, 12, 14, 18, 21, 24, 29, 35, 42, 48, 58}

NearLags(a, b) == a = b \/ (a = b + 1 /\ b \in RoundedBelow) \/ (b = a + 1 /\ a \in RoundedBelow)

\* Less than 4 Hz and less than 0.04 s apart.
Near(c, d) == c.bin - d.bin \in -1..1 /\ NearLags(c.lag, d.lag)

\* Within 10 Hz of qsoFreqHz, which is 0 in every call.
NearQSO(c) == c.bin <= 3

Peak(bin, lag, sync) == [bin |-> bin, lag |-> lag, sync |-> sync]
Cut(list) == SubSeq(list, 1, IF Len(list) > MaxPreCand THEN MaxPreCand ELSE Len(list))

SearchInit ==
    /\ searching = "peaks" /\ level \in Strengths /\ seen = {} /\ pre = <<>>
    /\ at = 2 /\ before = 1 /\ peaks = <<>> /\ out = <<>>

\* The next bin of the order, any of those that are as strong.  A wide peak within
\* narrowLag is the narrow one.
AddBin ==
    /\ searching = "peaks" /\ Len(pre) < MaxPreCand
    /\ \E bin \in Bins \ seen, red \in Strengths, redWide \in Strengths,
          lag \in NarrowLags, lagWide \in WideLags \cup NarrowLags :
         /\ red <= level /\ (lagWide \in NarrowLags => lagWide = lag)
         /\ seen' = seen \cup {bin} /\ level' = red
         /\ pre' = Cut(pre \o (IF red >= SyncMin THEN <<Peak(bin, lag, red)>> ELSE <<>>)
                           \o (IF lagWide # lag /\ redWide >= SyncMin
                               THEN <<Peak(bin, lagWide, redWide)>> ELSE <<>>))
    /\ peaks' = pre'
    /\ UNCHANGED <<searching, at, before, out>>

BinsEnd ==
    /\ searching = "peaks" /\ (seen = Bins \/ Len(pre) >= MaxPreCand)
    /\ searching' = "near" /\ UNCHANGED <<level, seen, pre, at, before, peaks, out>>

\* Compared with the one before it only.
ComparedWithLast(list, i, j) ==
    IF i # j + 1 \/ ~Near(list[i], list[j]) THEN list
    ELSE IF list[i].sync >= list[j].sync THEN [list EXCEPT ![j].sync = 0]
    ELSE [list EXCEPT ![i].sync = 0]

\* Of two peaks that are near, the weaker one is suppressed in place, whether or
\* not it suppressed another; of two as strong, the earlier.
Compared(list, i, j) ==
    IF ~Near(list[i], list[j]) THEN list
    ELSE IF list[i].sync >= list[j].sync THEN [list EXCEPT ![j].sync = 0]
    ELSE [list EXCEPT ![i].sync = 0]

\* Every peak against each one before it.
Compare ==
    /\ searching = "near" /\ at <= Len(pre)
    /\ pre' = Compared(pre, at, before)
    /\ IF before + 1 < at THEN before' = before + 1 /\ UNCHANGED at
                          ELSE before' = 1 /\ at' = at + 1
    /\ UNCHANGED <<searching, level, seen, peaks, out>>

CompareEnd ==
    /\ searching = "near" /\ at > Len(pre)
    /\ searching' = "qso" /\ at' = 1 /\ UNCHANGED <<level, seen, pre, before, peaks, out>>

\* A candidate is returned, and will not be again.
Return(i, next) ==
    /\ pre[i].sync >= SyncMin
    /\ out' = Append(out, pre[i]) /\ pre' = [pre EXCEPT ![i].sync = 0]
    /\ searching' = IF Len(out') >= MaxCandidates THEN "found" ELSE next

\* Those near the QSO frequency first, in the order of the peaks.
ChooseNearQSO ==
    /\ searching = "qso" /\ at <= Len(pre) /\ at' = at + 1
    /\ \/ NearQSO(pre[at]) /\ Return(at, "qso")
       \/ ~(NearQSO(pre[at]) /\ pre[at].sync >= SyncMin) /\ UNCHANGED <<searching, pre, out>>
    /\ UNCHANGED <<level, seen, before, peaks>>

QSOEnd ==
    /\ searching = "qso" /\ at > Len(pre)
    /\ searching' = "best" /\ UNCHANGED <<level, seen, pre, at, before, peaks, out>>

\* The weakest first.
WeakestNext ==
    {i \in DOMAIN pre : /\ pre[i].sync >= SyncMin
                        /\ \A j \in DOMAIN pre : pre[j].sync >= SyncMin => pre[i].sync <= pre[j].sync}

\* The strongest that are left: any of those as strong, the sort is not stable.
StrongestNext ==
    {i \in DOMAIN pre : /\ pre[i].sync >= SyncMin
                        /\ \A j \in DOMAIN pre : pre[i].sync >= pre[j].sync}

ChooseBest ==
    /\ searching = "best" /\ \E i \in StrongestNext : Return(i, "best")
    /\ UNCHANGED <<level, seen, at, before, peaks>>

SearchEnd ==
    /\ searching = "best" /\ \A i \in DOMAIN pre : pre[i].sync < SyncMin
    /\ searching' = "found" /\ UNCHANGED <<level, seen, pre, at, before, peaks, out>>

SearchNext ==
    \/ AddBin \/ BinsEnd \/ Compare \/ CompareEnd
    \/ ChooseNearQSO \/ QSOEnd \/ ChooseBest \/ SearchEnd

SearchSpec == SearchInit /\ [][SearchNext]_searchVars
------------------------------------------------------------------------------
\* However the peaks suppressed one another, no two that are near are decoded, and
\* none that is too weak or was not found (src/ft8/sync.go:151-185).
Spaced ==
    /\ \A i, j \in DOMAIN out : i # j => ~Near(out[i], out[j])
    /\ \A i \in DOMAIN out : out[i] \in Range(peaks) /\ out[i].sync >= SyncMin

\* A peak that no near one equals is decoded, unless the list is full; and then of
\* those that are not near the QSO frequency only stronger ones, or as strong, took
\* its place (src/ft8/sync.go:165-185).
StrongestDecoded ==
    searching = "found" =>
      \A c \in Range(peaks) :
        (\A d \in Range(peaks) : d # c /\ Near(c, d) => d.sync < c.sync) =>
          \/ c \in Range(out)
          \/ /\ Len(out) = MaxCandidates
             /\ \A i \in DOMAIN out : NearQSO(out[i]) \/ (~NearQSO(c) /\ out[i].sync >= c.sync)
==============================================================================
