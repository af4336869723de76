--------------------------- MODULE SelectionProofs ---------------------------
(***************************************************************************)
(* Proofs about what a pass chooses from: the two selections CandidateSearch *)
(* and HintSelection, for any bins, strengths, lags, scores and limits, the  *)
(* attempts of Ldpc, for any numbers of unsatisfied checks, and the search   *)
(* of Osd, for any code and any soft word.  A pair of peaks that is near is  *)
(* settled once it is compared: one of the two is suppressed and stays so.   *)
(* A peak that is stronger than all that are near it is never suppressed,    *)
(* only returned.  An attempt that gives up early has saved both sums that   *)
(* OSD is to try.  The elimination keeps the words that the rows span, and   *)
(* the search keeps the nearest of those it has looked at.                   *)
(***************************************************************************)
EXTENDS CandidateSearch, HintSelection, Ldpc, SequenceTheorems, FiniteSetTheorems,
        WellFoundedInduction, TLAPS

Peaks == [bin : Bins, lag : Int, sync : Nat]

Types ==
    /\ pre \in Seq(Peaks) /\ peaks \in Seq(Peaks) /\ out \in Seq(Peaks)
    /\ Len(peaks) = Len(pre) /\ at \in Nat \ {0} /\ before \in Nat \ {0} /\ seen \subseteq Bins
    /\ searching \in {"peaks", "near", "qso", "best", "found"}

\* What the phases leave alone.
Phases ==
    /\ searching = "peaks" => pre = peaks /\ at = 2
    /\ searching \in {"peaks", "near"} => out = <<>> /\ before < at
    /\ Len(out) <= MaxCandidates
    /\ searching # "found" => Len(out) < MaxCandidates

\* A peak is as it was found, or suppressed or returned.
AsFound ==
    \A i \in DOMAIN peaks :
      /\ pre[i] = peaks[i] \/ pre[i] = [peaks[i] EXCEPT !.sync = 0]
      /\ peaks[i].sync >= SyncMin /\ peaks[i].bin \in seen

Distinct ==
    \A i, j \in DOMAIN peaks :
      i # j => peaks[i].bin # peaks[j].bin \/ peaks[i].lag # peaks[j].lag

\* The pairs that were compared.
Settled(i, j) ==
    CASE searching = "peaks" -> FALSE
      [] searching = "near"  -> i < at \/ (i = at /\ j < before)
      [] OTHER               -> TRUE

PairsSettled ==
    \A i, j \in DOMAIN pre :
      j < i /\ Settled(i, j) /\ Near(pre[i], pre[j]) => pre[i].sync = 0 \/ pre[j].sync = 0

OutSpaced ==
    /\ \A k, l \in DOMAIN out : k # l => ~Near(out[k], out[l])
    /\ \A k \in DOMAIN out, i \in DOMAIN pre : Near(out[k], pre[i]) => pre[i].sync = 0
    /\ \A k \in DOMAIN out : out[k] \in Range(peaks) /\ out[k].sync >= SyncMin

Strict(i) ==
    \A j \in DOMAIN peaks : j # i /\ Near(peaks[i], peaks[j]) => peaks[j].sync < peaks[i].sync

StrictKept ==
    \A i \in DOMAIN peaks : Strict(i) => pre[i] = peaks[i] \/ \E k \in DOMAIN out : out[k] = peaks[i]

OutBest ==
    /\ \A k \in DOMAIN out :
         \/ NearQSO(out[k])
         \/ \A i \in DOMAIN pre : pre[i].sync <= out[k].sync /\ (NearQSO(pre[i]) => pre[i].sync = 0)
    /\ searching = "qso" => /\ \A k \in DOMAIN out : NearQSO(out[k])
                            /\ \A i \in DOMAIN pre : i < at /\ NearQSO(pre[i]) => pre[i].sync = 0
    /\ searching = "best" => \A i \in DOMAIN pre : NearQSO(pre[i]) => pre[i].sync = 0
    /\ searching = "found" => \/ Len(out) = MaxCandidates
                              \/ \A i \in DOMAIN pre : pre[i].sync = 0

IInv == /\ Types /\ Phases /\ AsFound /\ Distinct /\ PairsSettled /\ OutSpaced /\ StrictKept
        /\ OutBest
------------------------------------------------------------------------------
LEMMA PeaksHaveBins == \A c \in Peaks : c.bin \in Int
  <1>1. Bins \subseteq Nat \ {0}
    BY SearchAssumption, Zenon DEF SearchAssumption
  <1>2. \A x \in Bins : x \in Int
    BY <1>1
  <1>3. \A c \in Peaks : c.bin \in Bins
    BY DEF Peaks
  <1> QED
    BY <1>2, <1>3, Zenon

\* Nearness looks at places only, and of neither side first.
LEMMA NearSymmetric ==
  ASSUME NEW c \in Peaks, NEW d \in Peaks
  PROVE  Near(c, d) <=> Near(d, c)
  <1>1. NearLags(c.lag, d.lag) <=> NearLags(d.lag, c.lag)
    BY DEF NearLags
  <1>2. c.bin \in Int /\ d.bin \in Int
    BY PeaksHaveBins
  <1>3. c.bin - d.bin \in -1..1 <=> d.bin - c.bin \in -1..1
    <2>1. \A x, y \in Int : x - y \in -1..1 => y - x \in -1..1
      OBVIOUS
    <2> QED
      BY <1>2, <2>1
  <1> QED
    BY <1>1, <1>3 DEF Near

LEMMA NearSilenced ==
  ASSUME NEW c \in Peaks, NEW d \in Peaks
  PROVE  /\ Near([c EXCEPT !.sync = 0], d) <=> Near(c, d)
         /\ Near(d, [c EXCEPT !.sync = 0]) <=> Near(d, c)
         /\ Near(c, c)
         /\ [c EXCEPT !.sync = 0] \in Peaks
         /\ NearQSO([c EXCEPT !.sync = 0]) <=> NearQSO(c)
  <1> DEFINE e == [c EXCEPT !.sync = 0]
  <1>1. e.bin = c.bin /\ e.lag = c.lag /\ e \in Peaks
    BY DEF Peaks
  <1>2. c.bin - c.bin \in -1..1 /\ NearLags(c.lag, c.lag)
    <2>1. c.bin \in Int
      BY PeaksHaveBins
    <2>2. \A x \in Int : x - x \in -1..1
      OBVIOUS
    <2>3. c.lag \in Int
      BY DEF Peaks
    <2> QED
      BY <2>1, <2>2, <2>3 DEF NearLags
  <1> HIDE DEF e
  <1>3. (Near(e, d) <=> Near(c, d)) /\ (Near(d, e) <=> Near(d, c)) /\ Near(c, c)
    BY <1>1, <1>2 DEF Near
  <1>4. NearQSO(e) <=> NearQSO(c)
    BY <1>1 DEF NearQSO
  <1> QED
    BY <1>1, <1>3, <1>4 DEF e

LEMMA InitKeeps == SearchInit => IInv
  <1> SUFFICES ASSUME SearchInit PROVE IInv
    OBVIOUS
  <1>1. pre = <<>> /\ peaks = <<>> /\ out = <<>> /\ <<>> \in Seq(Peaks) /\ DOMAIN pre = {}
        /\ DOMAIN peaks = {} /\ DOMAIN out = {} /\ Len(out) = 0 /\ Len(pre) = 0
    BY DEF SearchInit
  <1> QED
    BY <1>1, SearchAssumption
    DEF SearchAssumption, SearchInit, IInv, Types, Phases, AsFound, Distinct, PairsSettled, OutSpaced,
        StrictKept, OutBest

\* What one bin adds: its narrow peak, its wide one, or both, as far as the list
\* goes.
LEMMA AddBinGrows ==
  ASSUME IInv, AddBin
  PROVE  /\ pre' \in Seq(Peaks) /\ Len(pre') >= Len(pre)
         /\ \A i \in 1..Len(pre) : pre'[i] = pre[i]
         /\ \A i \in (Len(pre) + 1)..Len(pre') :
              pre'[i].sync >= SyncMin /\ pre'[i].bin \in seen' \ seen
         /\ \A i, j \in (Len(pre) + 1)..Len(pre') : i # j => pre'[i].lag # pre'[j].lag
         /\ seen \subseteq seen' /\ seen' \subseteq Bins
  <1>1. PICK bin \in Bins \ seen, red \in Strengths, redWide \in Strengths,
             lag \in NarrowLags, lagWide \in WideLags \cup NarrowLags :
          /\ seen' = seen \cup {bin}
          /\ pre' = Cut(pre \o (IF red >= SyncMin THEN <<Peak(bin, lag, red)>> ELSE <<>>)
                            \o (IF lagWide # lag /\ redWide >= SyncMin
                                THEN <<Peak(bin, lagWide, redWide)>> ELSE <<>>))
    BY DEF AddBin
  <1>2. pre \in Seq(Peaks) /\ Len(pre) < MaxPreCand /\ MaxPreCand \in Nat /\ Len(pre) \in Nat
    BY SearchAssumption DEF IInv, Types, AddBin, SearchAssumption
  <1> DEFINE a == Peak(bin, lag, red)
             b == Peak(bin, lagWide, redWide)
             A == IF red >= SyncMin THEN <<a>> ELSE <<>>
             B == IF lagWide # lag /\ redWide >= SyncMin THEN <<b>> ELSE <<>>
             long == pre \o A \o B
  <1>3. /\ a \in Peaks /\ b \in Peaks /\ a.bin = bin /\ b.bin = bin
        /\ a.sync = red /\ b.sync = redWide /\ a.lag = lag /\ b.lag = lagWide
    BY SearchAssumption DEF SearchAssumption, Peak, Peaks
  <1>4. /\ A \in Seq(Peaks) /\ Len(A) \in {0, 1} /\ B \in Seq(Peaks) /\ Len(B) \in {0, 1}
        /\ Len(A) = 1 => A[1] = a /\ red >= SyncMin
        /\ Len(B) = 1 => B[1] = b /\ lagWide # lag /\ redWide >= SyncMin
    <2> HIDE DEF a, b
    <2> QED
      BY <1>3
  <1> HIDE DEF A, B, a, b
  <1>5. /\ pre \o A \in Seq(Peaks) /\ Len(pre \o A) = Len(pre) + Len(A)
        /\ \A i \in 1..(Len(pre) + Len(A)) :
             (pre \o A)[i] = IF i <= Len(pre) THEN pre[i] ELSE A[i - Len(pre)]
    BY <1>2, <1>4, ConcatProperties
  <1>6. /\ long \in Seq(Peaks) /\ Len(long) = Len(pre) + Len(A) + Len(B)
        /\ \A i \in 1..(Len(pre) + Len(A) + Len(B)) :
             long[i] = IF i <= Len(pre) + Len(A) THEN (pre \o A)[i]
                       ELSE B[i - (Len(pre) + Len(A))]
    BY <1>4, <1>5, ConcatProperties
  <1>7. /\ Len(long) >= Len(pre) /\ \A i \in 1..Len(pre) : long[i] = pre[i]
        /\ \A i \in (Len(pre) + 1)..Len(long) :
             \/ i = Len(pre) + 1 /\ Len(A) = 1 /\ long[i] = a
             \/ i = Len(pre) + Len(A) + 1 /\ Len(B) = 1 /\ long[i] = b
    <2> HIDE DEF long
    <2>1. Len(long) >= Len(pre) /\ \A i \in 1..Len(pre) : long[i] = pre[i]
      BY <1>2, <1>4, <1>5, <1>6
    <2>2. ASSUME NEW i \in (Len(pre) + 1)..Len(long)
          PROVE  \/ i = Len(pre) + 1 /\ Len(A) = 1 /\ long[i] = a
                 \/ i = Len(pre) + Len(A) + 1 /\ Len(B) = 1 /\ long[i] = b
      <3> DEFINE p == Len(pre)
                 x == Len(A)
                 y == Len(B)
      <3>1. p \in Nat /\ x \in {0, 1} /\ y \in {0, 1} /\ Len(long) = p + x + y
        BY <1>2, <1>4, <1>6
      <3>. i \in Int /\ i >= p + 1 /\ i <= p + x + y
        BY <3>1
      <3>2. CASE i <= Len(pre) + Len(A)
        <4>1. Len(A) = 1 /\ i = Len(pre) + 1
          <5> HIDE DEF p, x, y
          <5>1. i <= p + x
            BY <3>2 DEF p, x
          <5>2. x = 1 /\ i = p + 1
            BY <3>1, <5>1
          <5> QED
            BY <5>2 DEF p, x
        <4>2. long[i] = A[1]
          BY <1>2, <1>5, <1>6, <3>2, <4>1
        <4> QED
          BY <1>4, <4>1, <4>2
      <3>3. CASE i > Len(pre) + Len(A)
        <4>1. Len(B) = 1 /\ i = Len(pre) + Len(A) + 1
          <5> HIDE DEF p, x, y
          <5>1. i > p + x
            BY <3>3 DEF p, x
          <5>2. y = 1 /\ i = p + x + 1
            BY <3>1, <5>1
          <5> QED
            BY <5>2 DEF p, x, y
        <4>2. i - (Len(pre) + Len(A)) = 1
          BY <1>2, <1>4, <4>1
        <4>3. long[i] = B[1]
          BY <1>2, <1>4, <1>6, <3>3, <4>2
        <4> QED
          BY <1>4, <4>1, <4>3
      <3> QED
        BY <1>2, <1>4, <1>6, <3>2, <3>3
    <2> QED
      BY <2>1, <2>2
  <1> DEFINE n == IF Len(long) > MaxPreCand THEN MaxPreCand ELSE Len(long)
  <1>8. pre' = SubSeq(long, 1, n)
    BY <1>1 DEF Cut, A, B, a, b
  <1> HIDE DEF long
  <1>9. n \in Nat /\ n <= Len(long) /\ n >= Len(pre)
    BY <1>2, <1>6, <1>7
  <1>10. pre' \in Seq(Peaks) /\ Len(pre') = n /\ \A i \in 1..n : pre'[i] = long[i]
    <2>1. \A i \in 1..n : long[i] \in Peaks
      BY <1>6, <1>9
    <2>2. /\ SubSeq(long, 1, n) \in Seq(Peaks)
          /\ Len(SubSeq(long, 1, n)) = IF 1 <= n THEN n - 1 + 1 ELSE 0
          /\ \A i \in 1..(n - 1 + 1) : SubSeq(long, 1, n)[i] = long[1 + i - 1]
      <3> HIDE DEF n
      <3> QED
        BY <2>1, <1>9, SubSeqProperties, 1 \in Int, n \in Int
    <2> QED
      <3> HIDE DEF n
      <3> QED
        BY <2>2, <1>8, <1>9
  <1> HIDE DEF n
  <1>11. \A i \in (Len(pre) + 1)..Len(pre') :
           \/ i = Len(pre) + 1 /\ Len(A) = 1 /\ pre'[i] = a
           \/ i = Len(pre) + Len(A) + 1 /\ Len(B) = 1 /\ pre'[i] = b
    BY <1>2, <1>7, <1>9, <1>10
  <1>12. \A i \in (Len(pre) + 1)..Len(pre') :
           pre'[i].sync >= SyncMin /\ pre'[i].bin \in seen' \ seen
    BY <1>1, <1>3, <1>4, <1>11
  <1>13. \A i, j \in (Len(pre) + 1)..Len(pre') : i # j => pre'[i].lag # pre'[j].lag
    BY <1>3, <1>4, <1>11
  <1>14. /\ Len(pre') >= Len(pre) /\ \A i \in 1..Len(pre) : pre'[i] = pre[i]
    BY <1>2, <1>7, <1>9, <1>10
  <1>15. seen \subseteq seen' /\ seen' \subseteq Bins
    BY <1>1 DEF IInv, Types
  <1> QED
    BY <1>10, <1>12, <1>13, <1>14, <1>15

LEMMA SyncMinPositive == SyncMin \in Nat /\ SyncMin > 0 /\ MaxCandidates \in Nat /\ MaxCandidates > 0
  <1>1. SyncMin \in Nat \ {0} /\ MaxCandidates \in Nat \ {0}
    BY SearchAssumption, Zenon DEF SearchAssumption
  <1> QED
    BY <1>1

LEMMA AddBinKeeps ==
  ASSUME IInv, AddBin
  PROVE  IInv'
  <1>1. /\ pre' \in Seq(Peaks) /\ Len(pre') >= Len(pre)
        /\ \A i \in 1..Len(pre) : pre'[i] = pre[i]
        /\ \A i \in (Len(pre) + 1)..Len(pre') :
             pre'[i].sync >= SyncMin /\ pre'[i].bin \in seen' \ seen
        /\ \A i, j \in (Len(pre) + 1)..Len(pre') : i # j => pre'[i].lag # pre'[j].lag
        /\ seen \subseteq seen' /\ seen' \subseteq Bins
    BY AddBinGrows
  <1>2. /\ searching = "peaks" /\ peaks' = pre' /\ pre = peaks /\ out = <<>>
        /\ UNCHANGED <<searching, at, before, out>>
    BY DEF AddBin, IInv, Phases
  <1>3. pre \in Seq(Peaks)
    BY DEF IInv, Types
  <1>4. /\ DOMAIN pre = 1..Len(pre) /\ DOMAIN pre' = 1..Len(pre')
        /\ Len(pre) \in Nat /\ Len(pre') \in Nat
    BY <1>1, <1>3
  <1>5. \A i \in DOMAIN pre' : i \in DOMAIN pre \/ i \in (Len(pre) + 1)..Len(pre')
    BY <1>4
  <1>6. Types' /\ Phases'
    BY <1>1, <1>2 DEF IInv, Types, Phases
  <1>7. AsFound'
    <2>1. \A i \in DOMAIN pre' : pre'[i].sync >= SyncMin /\ pre'[i].bin \in seen'
      BY <1>1, <1>2, <1>4, <1>5 DEF IInv, AsFound
    <2> QED
      BY <2>1, <1>2 DEF AsFound
  <1>8. Distinct'
    <2>1. ASSUME NEW i \in DOMAIN pre', NEW j \in DOMAIN pre', i # j
          PROVE  pre'[i].bin # pre'[j].bin \/ pre'[i].lag # pre'[j].lag
      <3>1. CASE i \in DOMAIN pre /\ j \in DOMAIN pre
        BY <1>1, <1>2, <1>4, <2>1, <3>1 DEF IInv, Distinct
      <3>2. CASE i \in DOMAIN pre /\ j \in (Len(pre) + 1)..Len(pre')
        BY <1>1, <1>2, <1>4, <3>2 DEF IInv, AsFound
      <3>3. CASE i \in (Len(pre) + 1)..Len(pre') /\ j \in DOMAIN pre
        BY <1>1, <1>2, <1>4, <3>3 DEF IInv, AsFound
      <3>4. CASE i \in (Len(pre) + 1)..Len(pre') /\ j \in (Len(pre) + 1)..Len(pre')
        BY <1>1, <2>1, <3>4
      <3> QED
        BY <1>5, <3>1, <3>2, <3>3, <3>4
    <2> QED
      BY <2>1, <1>2 DEF Distinct
  <1>9. PairsSettled'
    BY <1>2 DEF PairsSettled, Settled
  <1>10. DOMAIN out' = {} /\ Len(out) = 0
    BY <1>2
  <1>11. OutSpaced' /\ OutBest'
    BY <1>2, <1>10 DEF OutSpaced, OutBest
  <1>12. StrictKept'
    BY <1>2 DEF StrictKept
  <1> QED
    BY <1>6, <1>7, <1>8, <1>9, <1>11, <1>12 DEF IInv

\* One of the peaks loses its strength, nothing else changes about the peaks.
LEMMA SilencedOne ==
  ASSUME Types, NEW m \in DOMAIN pre, pre' = [pre EXCEPT ![m].sync = 0]
  PROVE  /\ pre' \in Seq(Peaks) /\ Len(pre') = Len(pre) /\ DOMAIN pre' = DOMAIN pre
         /\ \A i \in DOMAIN pre :
              /\ pre[i] \in Peaks /\ pre'[i] \in Peaks
              /\ pre'[i] = IF i = m THEN [pre[i] EXCEPT !.sync = 0] ELSE pre[i]
              /\ pre'[i].sync = IF i = m THEN 0 ELSE pre[i].sync
              /\ NearQSO(pre'[i]) <=> NearQSO(pre[i])
              /\ \A c \in Peaks : Near(c, pre'[i]) <=> Near(c, pre[i])
         /\ \A i, j \in DOMAIN pre : Near(pre'[i], pre'[j]) <=> Near(pre[i], pre[j])
  <1>1. pre \in Seq(Peaks) /\ pre[m] \in Peaks /\ \A i \in DOMAIN pre : pre[i] \in Peaks
    BY DEF Types
  <1> DEFINE e == [pre[m] EXCEPT !.sync = 0]
  <1>2. e \in Peaks /\ e.sync = 0
    BY <1>1 DEF Peaks
  <1>3. /\ pre' = [pre EXCEPT ![m] = e]
        /\ \A i \in DOMAIN pre : pre'[i] = IF i = m THEN e ELSE pre[i]
    BY <1>1
  <1> HIDE DEF e
  <1>4. pre' \in Seq(Peaks) /\ Len(pre') = Len(pre) /\ DOMAIN pre' = DOMAIN pre
    BY <1>1, <1>2, <1>3
  <1>5. ASSUME NEW i \in DOMAIN pre
        PROVE  /\ pre'[i] \in Peaks
               /\ pre'[i] = IF i = m THEN [pre[i] EXCEPT !.sync = 0] ELSE pre[i]
               /\ pre'[i].sync = IF i = m THEN 0 ELSE pre[i].sync
               /\ NearQSO(pre'[i]) <=> NearQSO(pre[i])
               /\ \A c \in Peaks : Near(c, pre'[i]) <=> Near(c, pre[i])
               /\ \A c \in Peaks : Near(pre'[i], c) <=> Near(pre[i], c)
    <2>1. CASE i = m
      <3>1. pre'[i] = e
        BY <1>3, <2>1
      <3>2. /\ NearQSO(e) <=> NearQSO(pre[i])
            /\ \A c \in Peaks : (Near(c, e) <=> Near(c, pre[i])) /\ (Near(e, c) <=> Near(pre[i], c))
        BY <1>1, <2>1, NearSilenced DEF e
      <3> QED
        BY <3>1, <3>2, <1>2, <2>1 DEF e
    <2>2. CASE i # m
      BY <1>1, <1>3, <2>2
    <2> QED
      BY <2>1, <2>2
  <1>6. \A i, j \in DOMAIN pre : Near(pre'[i], pre'[j]) <=> Near(pre[i], pre[j])
    BY <1>1, <1>5
  <1> QED
    BY <1>1, <1>4, <1>5, <1>6

\* What is suppressed keeps its place.
LEMMA PlacesAsFound ==
  ASSUME IInv
  PROVE  /\ DOMAIN peaks = DOMAIN pre
         /\ \A i \in DOMAIN pre :
              /\ peaks[i] \in Peaks /\ pre[i] \in Peaks
              /\ pre[i].sync \in {0, peaks[i].sync} /\ pre[i].sync <= peaks[i].sync
              /\ [pre[i] EXCEPT !.sync = 0] = [peaks[i] EXCEPT !.sync = 0]
              /\ NearQSO(pre[i]) <=> NearQSO(peaks[i])
              /\ \A c \in Peaks : Near(c, pre[i]) <=> Near(c, peaks[i])
         /\ \A i, j \in DOMAIN pre : Near(pre[i], pre[j]) <=> Near(peaks[i], peaks[j])
  <1>1. /\ pre \in Seq(Peaks) /\ peaks \in Seq(Peaks) /\ DOMAIN peaks = DOMAIN pre
        /\ \A i \in DOMAIN pre : peaks[i] \in Peaks /\ pre[i] \in Peaks
    BY DEF IInv, Types
  <1>2. ASSUME NEW i \in DOMAIN pre
        PROVE  /\ pre[i].sync \in {0, peaks[i].sync} /\ pre[i].sync <= peaks[i].sync
               /\ [pre[i] EXCEPT !.sync = 0] = [peaks[i] EXCEPT !.sync = 0]
               /\ NearQSO(pre[i]) <=> NearQSO(peaks[i])
               /\ \A c \in Peaks : Near(c, pre[i]) <=> Near(c, peaks[i])
               /\ \A c \in Peaks : Near(pre[i], c) <=> Near(peaks[i], c)
    <2>1. CASE pre[i] = peaks[i]
      <3>1. pre[i].sync \in Nat
        BY <1>1 DEF Peaks
      <3> QED
        BY <2>1, <3>1
    <2>2. CASE pre[i] = [peaks[i] EXCEPT !.sync = 0]
      <3>1. pre[i].sync = 0 /\ peaks[i].sync \in Nat
            /\ [pre[i] EXCEPT !.sync = 0] = [peaks[i] EXCEPT !.sync = 0]
        BY <1>1, <2>2 DEF Peaks
      <3>2. /\ NearQSO(pre[i]) <=> NearQSO(peaks[i])
            /\ \A c \in Peaks : Near(c, pre[i]) <=> Near(c, peaks[i])
            /\ \A c \in Peaks : Near(pre[i], c) <=> Near(peaks[i], c)
        BY <1>1, <2>2, NearSilenced
      <3> QED
        BY <3>1, <3>2
    <2> QED
      BY <1>1, <2>1, <2>2 DEF IInv, AsFound
  <1>3. \A i, j \in DOMAIN pre : Near(pre[i], pre[j]) <=> Near(peaks[i], peaks[j])
    BY <1>1, <1>2
  <1> QED
    BY <1>1, <1>2, <1>3

LEMMA CompareKeeps ==
  ASSUME IInv, Compare
  PROVE  IInv'
  <1>1. /\ searching = "near" /\ out = <<>> /\ before < at /\ at <= Len(pre)
        /\ at \in DOMAIN pre /\ before \in DOMAIN pre /\ pre \in Seq(Peaks)
        /\ at \in Nat /\ before \in Nat \ {0}
        /\ UNCHANGED <<searching, level, seen, peaks, out>>
    BY DEF Compare, IInv, Types, Phases
  <1>2. /\ at' \in Nat \ {0} /\ before' \in Nat \ {0} /\ before' < at'
        /\ \A i, j \in DOMAIN pre :
             j < i /\ Settled(i, j)' => Settled(i, j) \/ (i = at /\ j = before)
    <2>1. CASE before + 1 < at
      <3>1. before' = before + 1 /\ at' = at
        BY <2>1 DEF Compare
      <3> QED
        BY <1>1, <2>1, <3>1 DEF Settled
    <2>2. CASE ~(before + 1 < at)
      <3>1. before' = 1 /\ at' = at + 1
        BY <2>2 DEF Compare
      <3>2. before = at - 1
        BY <1>1, <2>2
      <3> QED
        BY <1>1, <3>1, <3>2 DEF Settled
    <2> QED
      BY <2>1, <2>2
  <1>3. DOMAIN out = {} /\ DOMAIN out' = {} /\ Len(out) = 0
    BY <1>1
  <1>4. /\ \A i \in DOMAIN pre : pre[i].sync \in Nat /\ peaks[i].sync \in Nat
        /\ Near(pre[before], pre[at]) <=> Near(pre[at], pre[before])
    BY <1>1, PlacesAsFound, NearSymmetric DEF Peaks
  <1>5. CASE pre' = pre /\ ~Near(pre[at], pre[before])
    <2>1. Types' /\ Phases' /\ AsFound' /\ Distinct' /\ OutSpaced' /\ OutBest'
      BY <1>1, <1>2, <1>3, <1>5
      DEF IInv, Types, Phases, AsFound, Distinct, OutSpaced, OutBest
    <2>2. PairsSettled'
      BY <1>1, <1>2, <1>5 DEF IInv, PairsSettled
    <2>3. StrictKept'
      BY <1>1, <1>5 DEF IInv, StrictKept, Strict
    <2> QED
      BY <2>1, <2>2, <2>3 DEF IInv
  <1>6. ASSUME NEW m \in {at, before}, NEW n \in {at, before}, m # n,
               Near(pre[m], pre[n]), pre[m].sync <= pre[n].sync,
               pre' = [pre EXCEPT ![m].sync = 0]
        PROVE  IInv'
    <2>1. /\ m \in DOMAIN pre /\ n \in DOMAIN pre /\ Types
      BY <1>1, <1>6 DEF IInv
    <2>2. /\ pre' \in Seq(Peaks) /\ Len(pre') = Len(pre) /\ DOMAIN pre' = DOMAIN pre
          /\ \A i \in DOMAIN pre :
               /\ pre'[i] = IF i = m THEN [pre[i] EXCEPT !.sync = 0] ELSE pre[i]
               /\ pre'[i].sync = IF i = m THEN 0 ELSE pre[i].sync
          /\ \A i, j \in DOMAIN pre : Near(pre'[i], pre'[j]) <=> Near(pre[i], pre[j])
      BY <1>6, <2>1, SilencedOne
    <2>3. Types' /\ Phases' /\ Distinct' /\ OutSpaced' /\ OutBest'
      BY <1>1, <1>2, <1>3, <2>2
      DEF IInv, Types, Phases, Distinct, OutSpaced, OutBest
    <2>4. AsFound'
      <3>1. \A i \in DOMAIN peaks :
              pre'[i] = peaks[i] \/ pre'[i] = [peaks[i] EXCEPT !.sync = 0]
        BY <2>1, <2>2, PlacesAsFound DEF IInv, AsFound
      <3> QED
        BY <3>1, <1>1 DEF IInv, AsFound
    <2>5. PairsSettled'
      BY <1>1, <1>2, <1>6, <2>2 DEF IInv, PairsSettled
    <2>6. StrictKept'
      <3>1. ~Strict(m)
        <4>1. Near(peaks[m], peaks[n]) /\ pre[n].sync <= peaks[n].sync
          BY <1>6, <2>1, PlacesAsFound
        <4>2. ASSUME Strict(m) PROVE FALSE
          <5>1. pre[m] = peaks[m]
            BY <1>3, <2>1, <4>2, PlacesAsFound DEF IInv, StrictKept
          <5>2. peaks[n].sync < peaks[m].sync
            BY <1>6, <2>1, <4>1, <4>2, PlacesAsFound DEF Strict
          <5> QED
            BY <1>4, <1>6, <2>1, <4>1, <5>1, <5>2
        <4> QED
          BY <4>2
      <3>2. \A i \in DOMAIN peaks : Strict(i)' <=> Strict(i)
        BY <1>1 DEF Strict
      <3> QED
        BY <1>1, <2>2, <3>1, <3>2, PlacesAsFound DEF IInv, StrictKept
    <2> QED
      BY <2>3, <2>4, <2>5, <2>6 DEF IInv
  <1>7. CASE ~Near(pre[at], pre[before])
    BY <1>5, <1>7 DEF Compare, Compared
  <1>8. CASE Near(pre[at], pre[before]) /\ pre[at].sync >= pre[before].sync
    <2>1. pre' = [pre EXCEPT ![before].sync = 0]
      BY <1>8 DEF Compare, Compared
    <2>2. before # at /\ pre[before].sync <= pre[at].sync
      BY <1>1, <1>4, <1>8
    <2> QED
      BY <1>4, <1>6, <1>8, <2>1, <2>2
  <1>9. CASE Near(pre[at], pre[before]) /\ ~(pre[at].sync >= pre[before].sync)
    <2>1. pre' = [pre EXCEPT ![at].sync = 0]
      BY <1>9 DEF Compare, Compared
    <2>2. before # at /\ pre[at].sync <= pre[before].sync
      BY <1>1, <1>4, <1>9
    <2> QED
      BY <1>6, <1>9, <2>1, <2>2
  <1> QED
    BY <1>7, <1>8, <1>9

\* A candidate returned was found so, and every peak near it is suppressed.
LEMMA ReturnKeeps ==
  ASSUME IInv, searching \in {"qso", "best"}, NEW m \in DOMAIN pre, Return(m, searching),
         UNCHANGED <<seen, peaks, before>>, at' \in Nat \ {0}
  PROVE  /\ Types' /\ Phases' /\ AsFound' /\ Distinct' /\ PairsSettled' /\ OutSpaced'
         /\ StrictKept'
         /\ Len(out) \in Nat /\ Len(out') = Len(out) + 1 /\ DOMAIN pre' = DOMAIN pre
         /\ DOMAIN out = 1..Len(out) /\ DOMAIN out' = 1..(Len(out) + 1)
         /\ searching' = IF Len(out') >= MaxCandidates THEN "found" ELSE searching
         /\ \A k \in DOMAIN out : out'[k] = out[k]
         /\ out'[Len(out) + 1] = pre[m] /\ pre[m].sync >= SyncMin
         /\ \A i \in DOMAIN pre :
              /\ pre[i].sync \in Nat
              /\ pre'[i].sync = IF i = m THEN 0 ELSE pre[i].sync
              /\ NearQSO(pre'[i]) <=> NearQSO(pre[i])
  <1>1. /\ pre \in Seq(Peaks) /\ out \in Seq(Peaks) /\ peaks \in Seq(Peaks)
        /\ pre[m] \in Peaks /\ Types
    BY DEF IInv, Types
  <1>2. /\ out' = Append(out, pre[m]) /\ pre' = [pre EXCEPT ![m].sync = 0]
        /\ pre[m].sync >= SyncMin
        /\ searching' = IF Len(out') >= MaxCandidates THEN "found" ELSE searching
    BY DEF Return
  <1>3. /\ Len(out) \in Nat /\ Len(out') = Len(out) + 1 /\ out' \in Seq(Peaks)
        /\ DOMAIN out = 1..Len(out) /\ DOMAIN out' = 1..(Len(out) + 1)
        /\ \A k \in DOMAIN out : out'[k] = out[k]
        /\ out'[Len(out) + 1] = pre[m]
    BY <1>1, <1>2
  <1>4. /\ pre' \in Seq(Peaks) /\ Len(pre') = Len(pre) /\ DOMAIN pre' = DOMAIN pre
        /\ \A i \in DOMAIN pre :
             /\ pre[i] \in Peaks /\ pre'[i] \in Peaks
             /\ pre'[i] = IF i = m THEN [pre[i] EXCEPT !.sync = 0] ELSE pre[i]
             /\ pre'[i].sync = IF i = m THEN 0 ELSE pre[i].sync
             /\ NearQSO(pre'[i]) <=> NearQSO(pre[i])
             /\ \A c \in Peaks : Near(c, pre'[i]) <=> Near(c, pre[i])
        /\ \A i, j \in DOMAIN pre : Near(pre'[i], pre'[j]) <=> Near(pre[i], pre[j])
    BY <1>1, <1>2, SilencedOne
  <1>5. pre[m].sync # 0 /\ \A i \in DOMAIN pre : pre[i].sync \in Nat
    <2>1. \A c \in Peaks : c.sync \in Nat
      BY DEF Peaks
    <2>2. \A i \in DOMAIN pre : pre[i].sync \in Nat
      BY <1>4, <2>1
    <2> QED
      BY <1>2, <2>2, SyncMinPositive
  <1>6. pre[m] = peaks[m] /\ m \in DOMAIN peaks
    <2>1. peaks[m] \in Peaks /\ m \in DOMAIN peaks
      BY PlacesAsFound
    <2>2. pre[m] # [peaks[m] EXCEPT !.sync = 0]
      BY <1>5, <2>1 DEF Peaks
    <2> QED
      BY <2>1, <2>2 DEF IInv, AsFound
  <1>7. Types'
    BY <1>2, <1>3, <1>4 DEF IInv, Types
  <1>8. Phases'
    BY <1>2, <1>3, SyncMinPositive DEF IInv, Phases
  <1>9. AsFound'
    <2>1. \A i \in DOMAIN peaks :
            pre'[i] = peaks[i] \/ pre'[i] = [peaks[i] EXCEPT !.sync = 0]
      BY <1>4, PlacesAsFound DEF IInv, AsFound
    <2> QED
      BY <2>1 DEF IInv, AsFound
  <1>10. Distinct'
    BY DEF IInv, Distinct
  <1>11. \A i, j \in DOMAIN pre :
           j < i /\ Near(pre[i], pre[j]) => pre[i].sync = 0 \/ pre[j].sync = 0
    BY DEF IInv, PairsSettled, Settled
  <1>12. PairsSettled'
    BY <1>4, <1>11 DEF PairsSettled
  <1>13. ASSUME NEW i \in DOMAIN pre, Near(pre[m], pre[i]) PROVE pre'[i].sync = 0
    <2>1. CASE i = m
      BY <1>4, <2>1
    <2>2. CASE i # m
      <3>1. Near(pre[i], pre[m])
        BY <1>4, <1>13, NearSymmetric
      <3>2. i < m \/ m < i
        BY <1>1, <2>2
      <3> QED
        BY <1>4, <1>5, <1>11, <1>13, <2>2, <3>1, <3>2
    <2> QED
      BY <2>1, <2>2
  <1>14. \A k \in DOMAIN out : out[k] \in Peaks /\ ~Near(out[k], pre[m]) /\ ~Near(pre[m], out[k])
    <2>1. \A k \in DOMAIN out : out[k] \in Peaks /\ ~Near(out[k], pre[m])
      BY <1>1, <1>5 DEF IInv, OutSpaced
    <2> QED
      BY <1>1, <2>1, NearSymmetric
  <1>15. OutSpaced'
    <2>1. \A k, l \in DOMAIN out' : k # l => ~Near(out'[k], out'[l])
      BY <1>3, <1>14 DEF IInv, OutSpaced
    <2>2. \A k \in DOMAIN out', i \in DOMAIN pre : Near(out'[k], pre'[i]) => pre'[i].sync = 0
      <3>1. \A k \in DOMAIN out, i \in DOMAIN pre : Near(out[k], pre'[i]) => pre'[i].sync = 0
        BY <1>4, <1>14 DEF IInv, OutSpaced
      <3>2. \A i \in DOMAIN pre : Near(pre[m], pre'[i]) => pre'[i].sync = 0
        BY <1>1, <1>4, <1>13
      <3> QED
        BY <1>3, <3>1, <3>2
    <2>3. pre[m] \in Range(peaks)
      BY <1>6 DEF Range
    <2>4. \A k \in DOMAIN out' : out'[k] \in Range(peaks) /\ out'[k].sync >= SyncMin
      BY <1>2, <1>3, <2>3 DEF IInv, OutSpaced
    <2> QED
      BY <1>4, <2>1, <2>2, <2>4 DEF OutSpaced
  <1>16. StrictKept'
    <2>1. \A i \in DOMAIN peaks : Strict(i)' <=> Strict(i)
      BY DEF Strict
    <2>2. ASSUME NEW i \in DOMAIN peaks, Strict(i)
          PROVE  pre'[i] = peaks[i] \/ \E k \in DOMAIN out' : out'[k] = peaks[i]
      <3>1. CASE i = m
        <4>1. out'[Len(out) + 1] = peaks[i] /\ Len(out) + 1 \in DOMAIN out'
          BY <1>3, <1>6, <3>1
        <4> QED
          BY <4>1
      <3>2. CASE i # m
        <4>1. pre'[i] = pre[i]
          BY <1>4, <3>2, PlacesAsFound
        <4>2. pre[i] = peaks[i] \/ \E k \in DOMAIN out : out[k] = peaks[i]
          BY <2>2 DEF IInv, StrictKept
        <4>3. \A k \in DOMAIN out : k \in DOMAIN out' /\ out'[k] = out[k]
          BY <1>3
        <4> QED
          BY <4>1, <4>2, <4>3
      <3> QED
        BY <3>1, <3>2
    <2> QED
      BY <2>1, <2>2 DEF StrictKept
  <1> QED
    BY <1>2, <1>3, <1>4, <1>5, <1>7, <1>8, <1>9, <1>10, <1>12, <1>15, <1>16

LEMMA ChooseNearQSOKeeps ==
  ASSUME IInv, ChooseNearQSO
  PROVE  IInv'
  <1>1. /\ searching = "qso" /\ at <= Len(pre) /\ at' = at + 1
        /\ UNCHANGED <<level, seen, before, peaks>>
    BY DEF ChooseNearQSO
  <1>2. /\ at \in Nat \ {0} /\ at \in DOMAIN pre /\ pre \in Seq(Peaks) /\ DOMAIN pre = 1..Len(pre)
        /\ Len(pre) \in Nat
    BY <1>1 DEF IInv, Types
  <1>3. /\ \A k \in DOMAIN out : NearQSO(out[k])
        /\ \A i \in DOMAIN pre : i < at /\ NearQSO(pre[i]) => pre[i].sync = 0
    BY <1>1 DEF IInv, OutBest
  <1>4. \A i \in DOMAIN pre : i < at' => i < at \/ i = at
    BY <1>1, <1>2
  <1>5. CASE NearQSO(pre[at]) /\ Return(at, "qso")
    <2>1. /\ Types' /\ Phases' /\ AsFound' /\ Distinct' /\ PairsSettled' /\ OutSpaced'
          /\ StrictKept'
          /\ Len(out) \in Nat /\ Len(out') = Len(out) + 1 /\ DOMAIN pre' = DOMAIN pre
          /\ DOMAIN out = 1..Len(out) /\ DOMAIN out' = 1..(Len(out) + 1)
          /\ searching' = IF Len(out') >= MaxCandidates THEN "found" ELSE searching
          /\ \A k \in DOMAIN out : out'[k] = out[k]
          /\ out'[Len(out) + 1] = pre[at]
          /\ \A i \in DOMAIN pre :
               /\ pre'[i].sync = IF i = at THEN 0 ELSE pre[i].sync
               /\ NearQSO(pre'[i]) <=> NearQSO(pre[i])
      <3>1. at' \in Nat \ {0}
        BY <1>1, <1>2
      <3> QED
        BY <1>1, <1>2, <1>5, <3>1, ReturnKeeps
    <2>2. \A k \in DOMAIN out' : NearQSO(out'[k])
      BY <1>3, <1>5, <2>1
    <2>3. \A i \in DOMAIN pre' : i < at' /\ NearQSO(pre'[i]) => pre'[i].sync = 0
      BY <1>3, <1>4, <2>1
    <2>4. searching' = "found" => Len(out') = MaxCandidates
      BY <1>1, <2>1, SyncMinPositive DEF Phases
    <2>5. searching' \in {"qso", "found"}
      BY <1>1, <2>1
    <2>6. OutBest'
      BY <2>2, <2>3, <2>4, <2>5 DEF OutBest
    <2> QED
      BY <2>1, <2>6 DEF IInv
  <1>6. CASE /\ ~(NearQSO(pre[at]) /\ pre[at].sync >= SyncMin)
             /\ UNCHANGED <<searching, pre, out>>
    <2>1. NearQSO(pre[at]) => pre[at].sync = 0
      <3>1. peaks[at] \in Peaks /\ at \in DOMAIN peaks
        BY <1>2, PlacesAsFound
      <3>2. pre[at].sync \in {0, peaks[at].sync} /\ peaks[at].sync >= SyncMin
        BY <1>2, <3>1, PlacesAsFound DEF IInv, AsFound
      <3> QED
        BY <1>6, <3>2
    <2>2. Types' /\ Phases' /\ AsFound' /\ Distinct' /\ OutSpaced'
      BY <1>1, <1>2, <1>6 DEF IInv, Types, Phases, AsFound, Distinct, OutSpaced
    <2>3. PairsSettled'
      BY <1>1, <1>6 DEF IInv, PairsSettled, Settled
    <2>4. StrictKept'
      BY <1>1, <1>6 DEF IInv, StrictKept, Strict
    <2>5. OutBest'
      BY <1>1, <1>3, <1>4, <1>6, <2>1 DEF OutBest
    <2> QED
      BY <2>2, <2>3, <2>4, <2>5 DEF IInv
  <1> QED
    BY <1>5, <1>6 DEF ChooseNearQSO

LEMMA ChooseBestKeeps ==
  ASSUME IInv, ChooseBest
  PROVE  IInv'
  <1>1. PICK m \in StrongestNext : Return(m, "best")
    BY DEF ChooseBest
  <1>2. /\ searching = "best" /\ UNCHANGED <<level, seen, at, before, peaks>>
        /\ m \in DOMAIN pre /\ \A j \in DOMAIN pre : pre[m].sync >= pre[j].sync
    BY DEF ChooseBest, StrongestNext
  <1>3. \A i \in DOMAIN pre : NearQSO(pre[i]) => pre[i].sync = 0
    BY <1>2 DEF IInv, OutBest
  <1>4. /\ Types' /\ Phases' /\ AsFound' /\ Distinct' /\ PairsSettled' /\ OutSpaced'
        /\ StrictKept'
        /\ Len(out) \in Nat /\ Len(out') = Len(out) + 1 /\ DOMAIN pre' = DOMAIN pre
        /\ DOMAIN out = 1..Len(out) /\ DOMAIN out' = 1..(Len(out) + 1)
        /\ searching' = IF Len(out') >= MaxCandidates THEN "found" ELSE searching
        /\ \A k \in DOMAIN out : out'[k] = out[k]
        /\ out'[Len(out) + 1] = pre[m]
        /\ \A i \in DOMAIN pre :
             /\ pre[i].sync \in Nat
             /\ pre'[i].sync = IF i = m THEN 0 ELSE pre[i].sync
             /\ NearQSO(pre'[i]) <=> NearQSO(pre[i])
    <2>1. at' \in Nat \ {0}
      BY <1>2 DEF IInv, Types
    <2> QED
      BY <1>1, <1>2, <2>1, ReturnKeeps
  <1>5. \A i \in DOMAIN pre' :
          /\ NearQSO(pre'[i]) => pre'[i].sync = 0
          /\ pre'[i].sync <= pre[i].sync /\ pre'[i].sync <= pre[m].sync
    BY <1>2, <1>3, <1>4
  <1>6. ASSUME NEW k \in DOMAIN out'
        PROVE  \/ NearQSO(out'[k])
               \/ \A i \in DOMAIN pre' :
                    pre'[i].sync <= out'[k].sync /\ (NearQSO(pre'[i]) => pre'[i].sync = 0)
    <2>1. CASE k \in DOMAIN out
      <3>1. \/ NearQSO(out[k])
            \/ \A i \in DOMAIN pre : pre[i].sync <= out[k].sync
        BY <2>1 DEF IInv, OutBest
      <3>2. out[k].sync \in Nat
        <4>1. out[k] \in Peaks
          BY <2>1 DEF IInv, Types
        <4> QED
          BY <4>1 DEF Peaks
      <3>3. \A i \in DOMAIN pre : pre[i].sync \in Nat /\ pre'[i].sync \in Nat
        BY <1>4
      <3> QED
        BY <1>4, <1>5, <2>1, <3>1, <3>2, <3>3
    <2>2. CASE k = Len(out) + 1
      BY <1>4, <1>5, <2>2
    <2> QED
      BY <1>4, <2>1, <2>2
  <1>7. searching' = "found" => Len(out') = MaxCandidates
    BY <1>2, <1>4, SyncMinPositive DEF Phases
  <1>8. searching' \in {"best", "found"}
    BY <1>2, <1>4
  <1>9. OutBest'
    BY <1>5, <1>6, <1>7, <1>8 DEF OutBest
  <1> QED
    BY <1>4, <1>9 DEF IInv

\* The steps between the loops.
LEMMA EndsKeep ==
  ASSUME IInv, BinsEnd \/ CompareEnd \/ QSOEnd \/ SearchEnd
  PROVE  IInv'
  <1>1. UNCHANGED <<level, seen, pre, before, peaks, out>> /\ at' \in Nat \ {0}
    BY DEF BinsEnd, CompareEnd, QSOEnd, SearchEnd, IInv, Types
  <1>2. /\ pre \in Seq(Peaks) /\ Len(pre) \in Nat /\ DOMAIN pre = 1..Len(pre)
    BY DEF IInv, Types
  <1>3. AsFound' /\ Distinct' /\ OutSpaced'
    BY <1>1 DEF IInv, AsFound, Distinct, OutSpaced
  <1>4. StrictKept'
    BY <1>1 DEF IInv, StrictKept, Strict
  <1>5. CASE BinsEnd
    <2>1. searching = "peaks" /\ searching' = "near" /\ at' = at /\ at = 2 /\ before < at /\ out = <<>>
      BY <1>5 DEF BinsEnd, IInv, Phases
    <2>2. Types' /\ Phases'
      BY <1>1, <2>1 DEF IInv, Types, Phases
    <2>3. \A i, j \in DOMAIN pre : j < i => ~Settled(i, j)'
      <3>1. before = 1
        BY <2>1 DEF IInv, Types
      <3> QED
        BY <1>1, <1>2, <2>1, <3>1 DEF Settled
    <2>4. PairsSettled'
      BY <1>1, <2>3 DEF PairsSettled
    <2>5. OutBest'
      BY <1>1, <2>1 DEF IInv, OutBest
    <2> QED
      BY <1>3, <1>4, <2>2, <2>4, <2>5 DEF IInv
  <1>6. CASE CompareEnd
    <2>1. searching = "near" /\ searching' = "qso" /\ at' = 1 /\ at > Len(pre) /\ out = <<>>
      BY <1>6 DEF CompareEnd, IInv, Phases
    <2>2. Types' /\ Phases'
      BY <1>1, <2>1 DEF IInv, Types, Phases
    <2>3. \A i, j \in DOMAIN pre : Settled(i, j)
      BY <1>2, <2>1 DEF IInv, Types, Settled
    <2>4. PairsSettled'
      BY <1>1, <2>3 DEF IInv, PairsSettled
    <2>5. \A i \in DOMAIN pre : ~(i < at')
      BY <1>2, <2>1
    <2>6. OutBest'
      BY <1>1, <2>1, <2>5 DEF OutBest
    <2> QED
      BY <1>3, <1>4, <2>2, <2>4, <2>6 DEF IInv
  <1>7. CASE QSOEnd
    <2>1. searching = "qso" /\ searching' = "best" /\ at > Len(pre) /\ at \in Nat
      BY <1>7 DEF QSOEnd, IInv, Types
    <2>2. Types' /\ Phases'
      BY <1>1, <2>1 DEF IInv, Types, Phases
    <2>3. PairsSettled'
      BY <1>1, <2>1 DEF IInv, PairsSettled, Settled
    <2>4. \A i \in DOMAIN pre : i < at
      BY <1>2, <2>1
    <2>5. OutBest'
      BY <1>1, <2>1, <2>4 DEF IInv, OutBest
    <2> QED
      BY <1>3, <1>4, <2>2, <2>3, <2>5 DEF IInv
  <1>8. CASE SearchEnd
    <2>1. /\ searching = "best" /\ searching' = "found"
          /\ \A i \in DOMAIN pre : pre[i].sync < SyncMin
      BY <1>8 DEF SearchEnd
    <2>2. Types' /\ Phases'
      BY <1>1, <2>1 DEF IInv, Types, Phases
    <2>3. PairsSettled'
      BY <1>1, <2>1 DEF IInv, PairsSettled, Settled
    <2>4. \A i \in DOMAIN pre : pre[i].sync = 0
      <3>1. \A i \in DOMAIN pre :
              /\ pre[i].sync \in {0, peaks[i].sync} /\ peaks[i].sync >= SyncMin
              /\ peaks[i] \in Peaks
        BY PlacesAsFound DEF IInv, AsFound
      <3>2. \A i \in DOMAIN pre : peaks[i].sync \in Nat
        BY <3>1 DEF Peaks
      <3> QED
        BY <2>1, <3>1, <3>2, SyncMinPositive
    <2>5. OutBest'
      BY <1>1, <2>1, <2>4 DEF IInv, OutBest
    <2> QED
      BY <1>3, <1>4, <2>2, <2>3, <2>5 DEF IInv
  <1> QED
    BY <1>5, <1>6, <1>7, <1>8

LEMMA NextKeeps == IInv /\ [SearchNext]_searchVars => IInv'
  <1> SUFFICES ASSUME IInv, [SearchNext]_searchVars PROVE IInv'
    OBVIOUS
  <1>1. CASE UNCHANGED searchVars
    BY <1>1 DEF searchVars, IInv, Types, Phases, AsFound, Distinct, PairsSettled, Settled,
                OutSpaced, StrictKept, Strict, OutBest
  <1>2. CASE AddBin
    BY <1>2, AddBinKeeps
  <1>3. CASE Compare
    BY <1>3, CompareKeeps
  <1>4. CASE ChooseNearQSO
    BY <1>4, ChooseNearQSOKeeps
  <1>5. CASE ChooseBest
    BY <1>5, ChooseBestKeeps
  <1>6. CASE BinsEnd \/ CompareEnd \/ QSOEnd \/ SearchEnd
    BY <1>6, EndsKeep
  <1> QED
    BY <1>1, <1>2, <1>3, <1>4, <1>5, <1>6 DEF SearchNext

\* No two near candidates are ever returned by findCandidates, whatever the peaks.
THEOREM SpacedAlways == SearchSpec => []Spaced
  <1>1. IInv => Spaced
    BY DEF IInv, OutSpaced, Spaced
  <1> QED
    BY InitKeeps, NextKeeps, <1>1, PTL DEF SearchSpec

\* findCandidates returns every peak that is stronger than all that are near it, or a
\* full list of candidates that come before it.
THEOREM StrongestAlways == SearchSpec => []StrongestDecoded
  <1>1. ASSUME IInv PROVE StrongestDecoded
    <2> SUFFICES ASSUME searching = "found", NEW c \in Range(peaks),
                        \A d \in Range(peaks) : d # c /\ Near(c, d) => d.sync < c.sync
                 PROVE  \/ c \in Range(out)
                        \/ /\ Len(out) = MaxCandidates
                           /\ \A k \in DOMAIN out :
                                NearQSO(out[k]) \/ (~NearQSO(c) /\ out[k].sync >= c.sync)
      BY DEF StrongestDecoded
    <2>1. PICK i \in DOMAIN peaks : c = peaks[i]
      BY DEF Range
    <2>2. Strict(i)
      <3>1. \A j \in DOMAIN peaks : j # i => peaks[j] # peaks[i] /\ peaks[j] \in Range(peaks)
        BY <1>1 DEF IInv, Distinct, Range
      <3> QED
        BY <2>1, <3>1 DEF Strict
    <2>3. CASE \E k \in DOMAIN out : out[k] = peaks[i]
      BY <2>1, <2>3 DEF Range
    <2>4. CASE pre[i] = peaks[i]
      <3>1. peaks[i].sync \in Nat /\ peaks[i].sync # 0 /\ i \in DOMAIN pre
        <4>1. peaks[i] \in Peaks /\ peaks[i].sync >= SyncMin /\ i \in DOMAIN pre
          BY <1>1, PlacesAsFound DEF IInv, AsFound
        <4> QED
          BY <4>1, SyncMinPositive DEF Peaks
      <3>2. Len(out) = MaxCandidates
        BY <1>1, <2>4, <3>1 DEF IInv, OutBest
      <3>3. ASSUME NEW k \in DOMAIN out
            PROVE  NearQSO(out[k]) \/ (~NearQSO(c) /\ out[k].sync >= c.sync)
        <4>1. \/ NearQSO(out[k])
              \/ c.sync <= out[k].sync /\ (NearQSO(c) => c.sync = 0)
          BY <1>1, <2>1, <2>4, <3>1 DEF IInv, OutBest
        <4>2. out[k].sync \in Nat
          <5>1. out[k] \in Peaks
            BY <1>1 DEF IInv, Types
          <5> QED
            BY <5>1 DEF Peaks
        <4> QED
          BY <2>1, <3>1, <4>1, <4>2
      <3> QED
        BY <3>2, <3>3
    <2> QED
      BY <1>1, <2>2, <2>3, <2>4 DEF IInv, StrictKept
  <1> QED
    BY InitKeeps, NextKeeps, <1>1, PTL DEF SearchSpec
------------------------------------------------------------------------------
(* The selection of hypotheses.  Of two of them one is always better, so that *)
(* a sorted list has one place for a new one; what a full list drops is worse *)
(* than all that stay, now and for as long as it is full.                     *)

Selections == [hint : Nat, field : {0, 1}, metric : {0, 1}, score : Int, matches : Nat]

Rank(a) == 2 * a.hint + a.field

Sorted(list) == \A i, j \in DOMAIN list : i < j => Better(list[i], list[j])

HintTypes ==
    /\ limit \in Nat /\ scored \in Nat /\ below \in Nat
    /\ top \in Seq(Selections) /\ passed \subseteq Selections /\ IsFiniteSet(passed)
    /\ \A a, b \in passed : Rank(a) = Rank(b) => a = b
    /\ \A a \in passed : Rank(a) < scored

TopOfPassed ==
    /\ Range(top) \subseteq passed /\ Len(top) = Cardinality(Range(top)) /\ IsFiniteSet(Range(top))
    /\ Len(top) <= limit /\ (Len(top) < limit => passed = Range(top))
    /\ Sorted(top)
    /\ \A a \in passed \ Range(top), b \in Range(top) : Better(b, a)
    /\ below + Cardinality(passed) = scored

HintInv == HintTypes /\ TopOfPassed

LEMMA LeastNat ==
  ASSUME NEW T, T \subseteq Nat, T # {}
  PROVE  \E least \in T : \A n \in T : least <= n
  <1>1. PICK least \in T : \A n \in T : ~(<<n, least>> \in OpToRel(<, Nat))
    BY NatLessThanWellFounded, WFMin
  <1>2. \A n \in T : n \in Nat /\ least \in Nat /\ ~(n < least)
    BY <1>1 DEF OpToRel
  <1>3. \A n \in T : least <= n
    BY <1>2
  <1> QED
    BY <1>1, <1>3

LEMMA BetterOrders ==
  /\ \A a, b \in Selections : Rank(a) # Rank(b) => Better(a, b) \/ Better(b, a)
  /\ \A a, b, c \in Selections : Better(a, b) /\ Better(b, c) => Better(a, c)
  /\ \A a \in Selections : ~Better(a, a)
  /\ \A a \in Selections : Rank(a) \in Nat
  BY DEF Better, Selections, Rank

\* Where a new hypothesis goes in a sorted list: those before it are better, those
\* from there on are worse.
LEMMA PlaceInSorted ==
  ASSUME NEW list \in Seq(Selections), Sorted(list), NEW a \in Selections,
         \A i \in DOMAIN list : Rank(list[i]) # Rank(a)
  PROVE  LET after == {i \in DOMAIN list : Better(a, list[i])}
             place == IF after = {} THEN Len(list) + 1
                      ELSE CHOOSE i \in after : \A j \in after : i <= j
         IN  /\ place \in 1..(Len(list) + 1)
             /\ \A i \in DOMAIN list : i < place => Better(list[i], a)
             /\ \A i \in DOMAIN list : i >= place => Better(a, list[i])
  <1> DEFINE after == {i \in DOMAIN list : Better(a, list[i])}
             place == IF after = {} THEN Len(list) + 1
                      ELSE CHOOSE i \in after : \A j \in after : i <= j
  <1>1. DOMAIN list = 1..Len(list) /\ Len(list) \in Nat /\ \A i \in DOMAIN list : list[i] \in Selections
    OBVIOUS
  <1>2. \A i \in DOMAIN list : i \notin after => Better(list[i], a)
    BY <1>1, BetterOrders
  <1>3. CASE after = {}
    BY <1>1, <1>2, <1>3
  <1>4. CASE after # {}
    <2>1. after \subseteq Nat
      BY <1>1
    <2> HIDE DEF after
    <2>2. \E i \in after : \A j \in after : i <= j
      BY <1>4, <2>1, LeastNat
    <2>3. place \in after /\ \A j \in after : place <= j
      BY <1>4, <2>2
    <2> HIDE DEF place
    <2>4. place \in DOMAIN list /\ Better(a, list[place])
      BY <2>3 DEF after
    <2>5. ASSUME NEW i \in DOMAIN list, i < place
          PROVE  Better(list[i], a)
      <3>1. i \notin after
        BY <1>1, <2>3, <2>4, <2>5
      <3> QED
        BY <1>2, <3>1
    <2>6. ASSUME NEW i \in DOMAIN list, i >= place
          PROVE  Better(a, list[i])
      <3>1. CASE i = place
        BY <2>4, <3>1
      <3>2. CASE i # place
        <4>1. Better(list[place], list[i])
          BY <1>1, <2>4, <2>6, <3>2 DEF Sorted
        <4> QED
          BY <1>1, <2>4, <4>1, BetterOrders
      <3> QED
        BY <3>1, <3>2
    <2>7. place \in 1..(Len(list) + 1)
      BY <1>1, <2>4
    <2> QED
      BY <2>5, <2>6, <2>7 DEF after, place
  <1> QED
    BY <1>3, <1>4

LEMMA InsertAtPlaces ==
  ASSUME NEW S, NEW list \in Seq(S), NEW a \in S, NEW place \in 1..(Len(list) + 1)
  PROVE  /\ InsertAt(list, place, a) \in Seq(S) /\ Len(InsertAt(list, place, a)) = Len(list) + 1
         /\ \A i \in 1..(Len(list) + 1) :
              InsertAt(list, place, a)[i] = IF i < place THEN list[i] ELSE IF i = place THEN a ELSE list[i - 1]
  <1> DEFINE n == Len(list)
             left == SubSeq(list, 1, place - 1)
             right == SubSeq(list, place, n)
  <1>1. n \in Nat /\ place \in Int /\ place >= 1 /\ place <= n + 1 /\ \A i \in 1..n : list[i] \in S
    OBVIOUS
  <1> HIDE DEF n
  <1>2. /\ left \in Seq(S) /\ Len(left) = place - 1
        /\ \A i \in 1..(place - 1) : left[i] = list[i]
    <2>1. \A i \in 1..(place - 1) : list[i] \in S
      BY <1>1
    <2>2. 1 \in Int /\ place - 1 \in Int
      BY <1>1
    <2>3. /\ left \in Seq(S)
          /\ Len(left) = IF 1 <= place - 1 THEN (place - 1) - 1 + 1 ELSE 0
          /\ \A i \in 1..((place - 1) - 1 + 1) : left[i] = list[1 + i - 1]
      BY <2>1, <2>2, SubSeqProperties
    <2> HIDE DEF left
    <2> QED
      BY <1>1, <2>3
  <1>3. /\ right \in Seq(S) /\ Len(right) = n - place + 1
        /\ \A i \in 1..(n - place + 1) : right[i] = list[place + i - 1]
    <2>1. \A i \in place..n : list[i] \in S
      BY <1>1
    <2>2. /\ right \in Seq(S)
          /\ Len(right) = IF place <= n THEN n - place + 1 ELSE 0
          /\ \A i \in 1..(n - place + 1) : right[i] = list[place + i - 1]
      BY <1>1, <2>1, SubSeqProperties
    <2> HIDE DEF right
    <2> QED
      BY <1>1, <2>2
  <1> HIDE DEF left, right
  <1>4. <<a>> \in Seq(S) /\ Len(<<a>>) = 1 /\ <<a>>[1] = a
    OBVIOUS
  <1> DEFINE one == <<a>>
  <1> HIDE DEF one
  <1>5. one \in Seq(S) /\ Len(one) = 1 /\ one[1] = a
    BY <1>4 DEF one
  <1> DEFINE begin == left \o one
  <1>6. /\ begin \in Seq(S) /\ Len(begin) = place
        /\ \A i \in 1..place : begin[i] = IF i <= place - 1 THEN left[i] ELSE one[i - (place - 1)]
    <2>1. /\ begin \in Seq(S) /\ Len(begin) = Len(left) + Len(one)
          /\ \A i \in 1..(Len(left) + Len(one)) :
               begin[i] = IF i <= Len(left) THEN left[i] ELSE one[i - Len(left)]
      BY <1>2, <1>5, ConcatProperties
    <2> HIDE DEF begin
    <2> QED
      BY <1>1, <1>2, <1>5, <2>1
  <1> HIDE DEF begin
  <1> DEFINE all == begin \o right
  <1>7. /\ all \in Seq(S) /\ Len(all) = n + 1
        /\ \A i \in 1..(n + 1) : all[i] = IF i <= place THEN begin[i] ELSE right[i - place]
    <2>1. /\ all \in Seq(S) /\ Len(all) = Len(begin) + Len(right)
          /\ \A i \in 1..(Len(begin) + Len(right)) :
               all[i] = IF i <= Len(begin) THEN begin[i] ELSE right[i - Len(begin)]
      BY <1>3, <1>6, ConcatProperties
    <2> HIDE DEF all
    <2> QED
      BY <1>1, <1>3, <1>6, <2>1
  <1>8. InsertAt(list, place, a) = all
    BY DEF InsertAt, left, right, one, begin, n
  <1> HIDE DEF all
  <1>9. ASSUME NEW i \in 1..(n + 1)
        PROVE  all[i] = IF i < place THEN list[i] ELSE IF i = place THEN a ELSE list[i - 1]
    <2>1. CASE i < place
      BY <1>1, <1>2, <1>6, <1>7, <2>1
    <2>2. CASE i = place
      <3>1. i - (place - 1) = 1 /\ ~(i <= place - 1)
        BY <1>1, <2>2
      <3>2. all[i] = one[1]
        BY <1>1, <1>6, <1>7, <2>2, <3>1
      <3> QED
        BY <1>1, <1>5, <2>2, <3>2
    <2>3. CASE i > place
      <3>1. i - place \in 1..(n - place + 1) /\ place + (i - place) - 1 = i - 1
        BY <1>1, <2>3
      <3>2. all[i] = right[i - place]
        BY <1>1, <1>7, <2>3
      <3>3. right[i - place] = list[place + (i - place) - 1]
        BY <1>3, <3>1
      <3> QED
        BY <1>1, <2>3, <3>1, <3>2, <3>3
    <2> QED
      BY <1>1, <2>1, <2>2, <2>3
  <1> QED
    BY <1>7, <1>8, <1>9 DEF n

\* What insertAPHintSelection makes of the list.
LEMMA InsertKeepsBest ==
  ASSUME HintInv, limit > 0, NEW a \in Selections, \A b \in passed : Rank(b) # Rank(a)
  PROVE  LET list == Insert(top, a)
             all  == passed \cup {a}
         IN  /\ list \in Seq(Selections) /\ Range(list) \subseteq all
             /\ IsFiniteSet(Range(list)) /\ Len(list) = Cardinality(Range(list))
             /\ Len(list) <= limit /\ (Len(list) < limit => all = Range(list))
             /\ Sorted(list)
             /\ \A x \in all \ Range(list), y \in Range(list) : Better(y, x)
  <1> DEFINE n     == Len(top)
             all   == passed \cup {a}
             after == {i \in DOMAIN top : Better(a, top[i])}
             place == IF after = {} THEN Len(top) + 1
                      ELSE CHOOSE i \in after : \A j \in after : i <= j
             grown == InsertAt(top, place, a)
             last  == IF Len(grown) > limit THEN limit ELSE Len(grown)
             list  == SubSeq(grown, 1, last)
  <1>1. /\ top \in Seq(Selections) /\ DOMAIN top = 1..n /\ n \in Nat /\ limit \in Nat /\ n <= limit
        /\ \A i \in 1..n : top[i] \in Selections /\ top[i] \in passed
        /\ passed \subseteq Selections /\ IsFiniteSet(passed)
    <2>1. /\ top \in Seq(Selections) /\ limit \in Nat /\ passed \subseteq Selections
          /\ IsFiniteSet(passed) /\ n <= limit /\ \A i \in DOMAIN top : top[i] \in passed
      BY DEF HintInv, HintTypes, TopOfPassed, Range
    <2>2. DOMAIN top = 1..n /\ n \in Nat
      BY <2>1, LenProperties
    <2> HIDE DEF n
    <2> QED
      BY <2>1, <2>2
  <1>2. /\ \A i, j \in 1..n : i < j => Better(top[i], top[j])
        /\ Range(top) = {top[i] : i \in 1..n} /\ IsFiniteSet(Range(top)) /\ n = Cardinality(Range(top))
        /\ n < limit => passed = Range(top)
        /\ \A x \in passed \ Range(top), y \in Range(top) : Better(y, x)
    BY <1>1 DEF HintInv, TopOfPassed, Sorted, Range
  <1>3. a \notin passed /\ a \notin Range(top)
    BY <1>1, <1>2
  <1>4. /\ place \in 1..(n + 1)
        /\ \A i \in 1..n : i < place => Better(top[i], a)
        /\ \A i \in 1..n : i >= place => Better(a, top[i])
    <2>1. Sorted(top) /\ \A i \in DOMAIN top : Rank(top[i]) # Rank(a)
      BY <1>1, <1>2 DEF Sorted
    <2> QED
      BY <1>1, <2>1, PlaceInSorted
  <1>5. Insert(top, a) = list
    BY DEF Insert
  <1> HIDE DEF place
  <1>6. /\ grown \in Seq(Selections) /\ Len(grown) = n + 1
        /\ \A i \in 1..(n + 1) :
             grown[i] = IF i < place THEN top[i] ELSE IF i = place THEN a ELSE top[i - 1]
    BY <1>1, <1>4, InsertAtPlaces
  <1> HIDE DEF grown, n
  <1>7. last \in Nat /\ last <= n + 1 /\ last <= limit /\ last >= 1 /\ last \in {n, n + 1}
        /\ (last = n => n = limit) /\ (last < limit => last = n + 1 /\ n < limit)
    BY <1>1, <1>6
  <1> HIDE DEF last
  <1>8. /\ list \in Seq(Selections) /\ Len(list) = last /\ DOMAIN list = 1..last
        /\ \A i \in 1..last : list[i] = grown[i]
    <2>1. \A i \in 1..last : grown[i] \in Selections
      BY <1>1, <1>6, <1>7
    <2>2. 1 \in Int /\ last \in Int
      BY <1>7
    <2>3. /\ list \in Seq(Selections)
          /\ Len(list) = IF 1 <= last THEN last - 1 + 1 ELSE 0
          /\ \A i \in 1..(last - 1 + 1) : list[i] = grown[1 + i - 1]
      BY <2>1, <2>2, SubSeqProperties
    <2> HIDE DEF list
    <2> QED
      BY <1>7, <2>3
  <1> HIDE DEF list
  <1>9. \A i, j \in 1..(n + 1) : i < j => Better(grown[i], grown[j])
    <2> SUFFICES ASSUME NEW i \in 1..(n + 1), NEW j \in 1..(n + 1), i < j
                 PROVE  Better(grown[i], grown[j])
      OBVIOUS
    <2>1. CASE j < place
      <3>1. i \in 1..n /\ j \in 1..n /\ i < place
        BY <1>1, <1>4, <2>1
      <3>2. grown[i] = top[i] /\ grown[j] = top[j]
        BY <1>6, <2>1, <3>1
      <3> QED
        BY <1>2, <3>1, <3>2
    <2>2. CASE j = place
      BY <1>1, <1>4, <1>6, <2>2
    <2>3. CASE i = place
      <3>1. j - 1 \in 1..n /\ j - 1 >= place
        BY <1>1, <1>4, <2>3
      <3> QED
        BY <1>1, <1>4, <1>6, <2>3, <3>1
    <2>4. CASE i < place /\ place < j
      <3>1. j - 1 \in 1..n /\ i \in 1..n /\ i <= j - 1 /\ j - 1 >= place
        BY <1>1, <1>4, <2>4
      <3>2. grown[i] = top[i] /\ grown[j] = top[j - 1]
        BY <1>1, <1>4, <1>6, <2>4
      <3>3. i < j - 1
        BY <1>1, <1>4, <2>4, <3>1
      <3> QED
        BY <1>2, <3>1, <3>2, <3>3
    <2>5. CASE i > place
      <3>1. i - 1 \in 1..n /\ j - 1 \in 1..n /\ i - 1 < j - 1
        BY <1>1, <1>4, <2>5
      <3>2. grown[i] = top[i - 1] /\ grown[j] = top[j - 1]
        BY <1>1, <1>4, <1>6, <2>5
      <3> QED
        BY <1>2, <3>1, <3>2
    <2> QED
      BY <1>1, <1>4, <2>1, <2>2, <2>3, <2>4, <2>5
  <1>10. Sorted(list)
    BY <1>1, <1>7, <1>8, <1>9 DEF Sorted
  <1>11. {grown[i] : i \in 1..(n + 1)} = Range(top) \cup {a}
    <2>1. ASSUME NEW i \in 1..(n + 1)
          PROVE  grown[i] \in Range(top) \cup {a}
      <3>1. CASE i < place
        <4>1. i \in 1..n /\ grown[i] = top[i]
          BY <1>1, <1>4, <1>6, <3>1
        <4> QED
          BY <1>2, <4>1
      <3>2. CASE i = place
        BY <1>1, <1>6, <3>2
      <3>3. CASE i > place
        <4>1. i - 1 \in 1..n /\ grown[i] = top[i - 1]
          BY <1>1, <1>4, <1>6, <3>3
        <4> QED
          BY <1>2, <4>1
      <3> QED
        BY <1>1, <1>4, <3>1, <3>2, <3>3
    <2>2. ASSUME NEW i \in 1..n
          PROVE  \E j \in 1..(n + 1) : grown[j] = top[i]
      <3>1. CASE i < place
        BY <1>1, <1>6, <3>1
      <3>2. CASE i >= place
        <4>1. i + 1 \in 1..(n + 1) /\ i + 1 > place /\ (i + 1) - 1 = i
          BY <1>1, <1>4, <3>2
        <4>2. grown[i + 1] = top[i]
          BY <1>1, <1>4, <1>6, <4>1
        <4> QED
          BY <4>1, <4>2
      <3> QED
        BY <1>1, <1>4, <3>1, <3>2
    <2>3. \E j \in 1..(n + 1) : grown[j] = a
      BY <1>1, <1>4, <1>6
    <2>4. {grown[i] : i \in 1..(n + 1)} \subseteq Range(top) \cup {a}
      BY <2>1
    <2>5. Range(top) \cup {a} \subseteq {grown[i] : i \in 1..(n + 1)}
      <3>1. ASSUME NEW x \in Range(top)
            PROVE  x \in {grown[i] : i \in 1..(n + 1)}
        <4>1. PICK i \in 1..n : x = top[i]
          BY <1>2
        <4> QED
          BY <2>2, <4>1
      <3> QED
        BY <2>3, <3>1
    <2> QED
      BY <2>4, <2>5
  <1>12. Range(list) = {grown[i] : i \in 1..last}
    BY <1>8 DEF Range
  <1>13. CASE last = n + 1
    <2>1. Range(list) = Range(top) \cup {a}
      BY <1>11, <1>12, <1>13
    <2>2. IsFiniteSet(Range(list)) /\ Cardinality(Range(list)) = n + 1
      <3> DEFINE held == Range(top)
      <3>1. IsFiniteSet(held) /\ n = Cardinality(held) /\ a \notin held
        BY <1>2, <1>3
      <3> HIDE DEF held
      <3>2. IsFiniteSet(held \cup {a}) /\ Cardinality(held \cup {a}) = n + 1
        BY <3>1, FS_AddElement
      <3> QED
        BY <2>1, <3>2 DEF held
    <2>3. n < limit /\ passed = Range(top)
      <3>1. n < limit
        BY <1>1, <1>7, <1>13
      <3> QED
        BY <1>2, <3>1
    <2>4. all = Range(list) /\ Len(list) = n + 1 /\ Len(list) <= limit
      BY <1>7, <1>8, <1>13, <2>1, <2>3
    <2> HIDE DEF all
    <2> QED
      BY <1>5, <1>8, <1>10, <2>2, <2>4 DEF all
  <1>14. CASE last = n
    <2> DEFINE w == grown[n + 1]
    <2>1. n = limit /\ n >= 1
      BY <1>7, <1>14
    <2>2. \A i \in 1..n : Better(grown[i], w)
      <3>1. \A i \in 1..n : i \in 1..(n + 1) /\ n + 1 \in 1..(n + 1) /\ i < n + 1
        BY <1>1
      <3> QED
        BY <1>9, <3>1
    <2>3. w \in Selections /\ w \in Range(top) \cup {a}
      <3>1. n + 1 \in 1..(n + 1)
        BY <1>1
      <3> QED
        BY <1>6, <1>11, <3>1
    <2>4. \A i \in 1..n : grown[i] # w
      BY <2>2, <2>3, BetterOrders
    <2>5. Range(list) = (Range(top) \cup {a}) \ {w}
      <3>1. \A i \in 1..(n + 1) : i \in 1..n \/ i = n + 1
        BY <1>1
      <3>2. \A i \in 1..n : i \in 1..(n + 1)
        BY <1>1
      <3> HIDE DEF w
      <3>3. \A i \in 1..(n + 1) : i \in 1..n \/ grown[i] = w
        BY <3>1 DEF w
      <3> QED
        BY <1>11, <1>12, <1>14, <2>4, <3>2, <3>3
    <2>6. IsFiniteSet(Range(list)) /\ Cardinality(Range(list)) = n
      <3> DEFINE both == Range(top) \cup {a}
      <3>1. IsFiniteSet(both) /\ Cardinality(both) = n + 1
        <4> DEFINE held == Range(top)
        <4>1. IsFiniteSet(held) /\ n = Cardinality(held) /\ a \notin held
          BY <1>2, <1>3
        <4> HIDE DEF held
        <4>2. IsFiniteSet(held \cup {a}) /\ Cardinality(held \cup {a}) = n + 1
          BY <4>1, FS_AddElement
        <4> QED
          BY <4>2 DEF held
      <3> HIDE DEF both, w
      <3>2. w \in both
        BY <2>3 DEF both
      <3>3. IsFiniteSet(both \ {w}) /\ Cardinality(both \ {w}) = Cardinality(both) - 1
        BY <3>1, <3>2, FS_RemoveElement
      <3> QED
        BY <1>1, <2>5, <3>1, <3>3 DEF both
    <2>7. ASSUME NEW x \in all \ Range(list), NEW y \in Range(list)
          PROVE  Better(y, x)
      <3>1. PICK i \in 1..n : y = grown[i]
        BY <1>12, <1>14
      <3>2. CASE x = w
        BY <2>2, <3>1, <3>2
      <3>3. CASE x # w
        <4>1. x \in passed \ Range(top)
          BY <2>5, <2>7, <3>3
        <4>2. y \in Range(top) \/ y = a
          BY <2>5
        <4>3. CASE y \in Range(top)
          BY <1>2, <4>1, <4>3
        <4>4. CASE y = a
          <5>1. w \in Range(top)
            BY <2>3, <2>4, <3>1, <4>4
          <5>2. Better(w, x) /\ Better(a, w)
            BY <1>2, <2>2, <3>1, <4>1, <4>4, <5>1
          <5> HIDE DEF w
          <5> QED
            BY <1>1, <2>3, <4>1, <4>4, <5>2, BetterOrders
        <4> QED
          BY <4>2, <4>3, <4>4
      <3> QED
        BY <3>2, <3>3
    <2>8. Range(list) \subseteq all /\ Len(list) = n
      <3>1. Range(top) \subseteq passed
        BY <1>1, <1>2
      <3> QED
        BY <1>8, <1>14, <2>5, <3>1
    <2> QED
      BY <1>5, <1>8, <1>10, <2>1, <2>6, <2>7, <2>8
  <1> QED
    BY <1>7, <1>13, <1>14

LEMMA ScoreKeeps == HintInv /\ Score => HintInv'
  <1> SUFFICES ASSUME HintInv, Score PROVE HintInv'
    OBVIOUS
  <1>1. /\ limit > 0 /\ scored' = scored + 1 /\ limit' = limit
        /\ limit \in Nat /\ scored \in Nat /\ below \in Nat /\ IsFiniteSet(passed)
        /\ top \in Seq(Selections) /\ passed \subseteq Selections
        /\ \A b \in passed : Rank(b) < scored
        /\ below + Cardinality(passed) = scored /\ Cardinality(passed) \in Nat
    BY FS_CardinalityType DEF Score, HintInv, HintTypes, TopOfPassed
  <1>2. PICK single \in [score : Scores, matches : MatchCounts],
             triple \in [score : Scores, matches : MatchCounts] :
          LET selection == Scored(scored \div 2, scored % 2, single, triple)
          IN  IF selection.matches < MinMatches \/ selection.score < MinScore
              THEN below' = below + 1 /\ UNCHANGED <<top, passed>>
              ELSE /\ top' = Insert(top, selection) /\ passed' = passed \cup {selection}
                   /\ UNCHANGED below
    BY DEF Score
  <1> DEFINE a == Scored(scored \div 2, scored % 2, single, triple)
  <1>3. a \in Selections /\ Rank(a) = scored
    <2>1. /\ scored \div 2 \in Nat /\ scored % 2 \in {0, 1}
          /\ 2 * (scored \div 2) + (scored % 2) = scored
      BY <1>1
    <2>2. /\ \A x \in Scores : x \in Int
          /\ \A x \in MatchCounts : x \in Nat
      BY HintsAssumption
    <2> DEFINE h == scored \div 2
               f == scored % 2
    <2>3. h \in Nat /\ f \in {0, 1} /\ 2 * h + f = scored /\ a = Scored(h, f, single, triple)
      BY <2>1
    <2> HIDE DEF h, f, a
    <2>4. /\ a.hint = h /\ a.field = f /\ a \in [hint : {h}, field : {f}, metric : {0, 1},
                                                score : Scores, matches : MatchCounts]
      BY <2>3 DEF Scored
    <2>5. a \in Selections
      BY <2>2, <2>3, <2>4 DEF Selections
    <2> QED
      BY <2>3, <2>4, <2>5 DEF Rank
  <1> HIDE DEF a
  <1>4. CASE below' = below + 1 /\ UNCHANGED <<top, passed>>
    <2>1. HintTypes'
      BY <1>1, <1>4, BetterOrders DEF HintInv, HintTypes
    <2>2. TopOfPassed'
      BY <1>1, <1>4 DEF HintInv, TopOfPassed, Sorted
    <2> QED
      BY <2>1, <2>2 DEF HintInv
  <1>5. CASE top' = Insert(top, a) /\ passed' = passed \cup {a} /\ below' = below
    <2>1. \A b \in passed : Rank(b) # Rank(a)
      BY <1>1, <1>3, BetterOrders
    <2>2. /\ top' \in Seq(Selections) /\ Range(top') \subseteq passed'
          /\ IsFiniteSet(Range(top')) /\ Len(top') = Cardinality(Range(top'))
          /\ Len(top') <= limit /\ (Len(top') < limit => passed' = Range(top'))
          /\ Sorted(top')
          /\ \A x \in passed' \ Range(top'), y \in Range(top') : Better(y, x)
      BY <1>1, <1>3, <1>5, <2>1, InsertKeepsBest
    <2>3. IsFiniteSet(passed') /\ Cardinality(passed') = Cardinality(passed) + 1
      BY <1>1, <1>5, <2>1, FS_AddElement
    <2>4. HintTypes'
      <3>1. \A b, c \in passed' : Rank(b) = Rank(c) => b = c
        BY <1>5, <2>1 DEF HintInv, HintTypes
      <3>2. \A b \in passed' : Rank(b) < scored'
        BY <1>1, <1>3, <1>5, BetterOrders
      <3> QED
        BY <1>1, <1>3, <1>5, <2>2, <2>3, <3>1, <3>2 DEF HintTypes
    <2>5. TopOfPassed'
      <3>1. below' + Cardinality(passed') = scored'
        BY <1>1, <1>5, <2>3
      <3>2. Sorted(top)'
        BY <2>2 DEF Sorted
      <3> QED
        BY <1>1, <2>2, <3>1, <3>2 DEF TopOfPassed
    <2> QED
      BY <2>4, <2>5 DEF HintInv
  <1> QED
    BY <1>2, <1>4, <1>5 DEF a

\* Whatever the hypotheses score, and in whatever order they are scored, the list that
\* selectAPCallHintHypotheses returns holds the best of those that passed, sorted,
\* as many as it may; none is counted twice or forgotten.
THEOREM BestAlwaysKept == HintsSpec => []BestHypotheses
  <1>1. HintsInit => HintInv
    <2> SUFFICES ASSUME HintsInit PROVE HintInv
      OBVIOUS
    <2>1. /\ scored = 0 /\ top = <<>> /\ below = 0 /\ passed = {} /\ limit \in Nat
      BY HintsAssumption DEF HintsInit, MaxAPCallHypotheses
    <2>2. Range(top) = {} /\ Len(top) = 0 /\ DOMAIN top = {} /\ top \in Seq(Selections)
      BY <2>1 DEF Range
    <2> QED
      BY <2>1, <2>2, FS_EmptySet DEF HintInv, HintTypes, TopOfPassed, Sorted
  <1>2. HintInv /\ [Score]_hintVars => HintInv'
    <2>1. ASSUME HintInv, UNCHANGED hintVars
          PROVE  HintInv'
      BY <2>1 DEF HintInv, HintTypes, TopOfPassed, Sorted, hintVars
    <2> QED
      BY <2>1, ScoreKeeps
  <1>3. ASSUME HintInv
        PROVE  BestHypotheses
    <2>1. Len(top) = IF Cardinality(passed) < limit THEN Cardinality(passed) ELSE limit
      <3>1. Len(top) <= Cardinality(passed)
        BY <1>3, FS_Subset DEF HintInv, HintTypes, TopOfPassed
      <3>2. limit \in Nat /\ Len(top) \in Nat /\ Cardinality(passed) \in Nat
        BY <1>3, FS_CardinalityType DEF HintInv, HintTypes
      <3>3. Len(top) <= limit /\ (Len(top) < limit => Len(top) = Cardinality(passed))
        BY <1>3 DEF HintInv, TopOfPassed
      <3> QED
        BY <3>1, <3>2, <3>3
    <2> QED
      BY <1>3, <2>1 DEF HintInv, TopOfPassed, BestHypotheses, Sorted
  <1> QED
    BY <1>1, <1>2, <1>3, PTL DEF HintsSpec
------------------------------------------------------------------------------
\* The iterations whose sums are saved before iteration n.
SavedBefore(n) == IF n <= 1 THEN <<>> ELSE IF n = 2 THEN <<1>> ELSE <<1, 2>>

\* No check was gained in the iterations that are counted.
CountsStale ==
    /\ iter \in Nat /\ stale \in Nat /\ stale <= iter /\ (iter > 0 => stale < iter)
    /\ unsatisfied \in Seq(Nat) /\ Len(unsatisfied) = iter
    /\ \A i \in (iter - stale)..(iter - 1) : unsatisfied[i] <= unsatisfied[i + 1]

WhyStopped ==
    \/ iter = MaxIterations + 1
    \/ iter > MinIterations /\ stale >= StaleLimit /\ Last(unsatisfied) > Hopeful

SumsKept ==
    CASE pc \in {"propagate", "stopped"} ->
           tried = <<>> /\ saved = IF hybrid THEN SavedBefore(iter) ELSE <<>>
      [] pc = "search" -> /\ hybrid /\ saved = <<1, 2>>
                          /\ tried \in Seq(Received) /\ Len(tried) < MaxSaved
      [] OTHER -> hybrid /\ ~answer.ok => Len(tried) = MaxSaved /\ saved = <<1, 2>>

AttemptInv ==
    /\ hybrid \in BOOLEAN /\ pc \in {"propagate", "stopped", "search", "return"}
    /\ pc # "return" => CountsStale
    /\ pc = "propagate" => iter <= MaxIterations
    /\ pc = "stopped" => WhyStopped
    /\ SumsKept

LEMMA AttemptStarts == Init => AttemptInv
<1> SUFFICES ASSUME Init PROVE AttemptInv
  OBVIOUS
<1>1. CountsStale
  BY DEF Init, CountsStale
<1>2. SumsKept
  BY DEF Init, SumsKept, SavedBefore
<1> QED BY <1>1, <1>2, LdpcAssumption DEF Init, AttemptInv

LEMMA SaveKeeps ==
    ASSUME iter \in Nat, hybrid \in BOOLEAN, Save,
           saved = IF hybrid THEN SavedBefore(iter) ELSE <<>>
    PROVE  saved' = IF hybrid THEN SavedBefore(iter + 1) ELSE <<>>
<1>1. CASE ~hybrid
  BY <1>1 DEF Save
<1>2. CASE hybrid /\ iter = 0
  BY <1>2 DEF Save, SavedBefore
<1>3. CASE hybrid /\ iter = 1
  <2>1. saved = <<>> /\ Append(saved, iter) = <<1>> /\ Len(saved) < MaxSaved
    BY <1>3 DEF SavedBefore, MaxSaved
  <2>2. saved' = Append(saved, iter)
    BY <1>3, <2>1 DEF Save
  <2>3. iter + 1 = 2 /\ SavedBefore(2) = <<1>>
    BY <1>3 DEF SavedBefore
  <2> QED BY <1>3, <2>1, <2>2, <2>3, Zenon
<1>4. CASE hybrid /\ iter = 2
  <2>1. saved = <<1>> /\ Len(saved) < MaxSaved /\ Append(<<1>>, 2) = <<1, 2>>
    <3>1. SavedBefore(2) = <<1>> /\ Len(<<1>>) < 2
      BY DEF SavedBefore
    <3>2. Append(<<1>>, 2) = <<1, 2>>
      <4> DEFINE u == Append(<<1>>, 2)
      <4>1. u \in Seq(Nat) /\ Len(u) = 2 /\ u[1] = 1 /\ u[2] = 2
        OBVIOUS
      <4> HIDE DEF u
      <4>2. u = <<u[1], u[2]>>
        BY <4>1, LenProperties
      <4> QED BY <4>1, <4>2 DEF u
    <3> QED BY <1>4, <3>1, <3>2, Zenon DEF MaxSaved
  <2>2. saved' = Append(saved, iter)
    BY <1>4, <2>1 DEF Save
  <2>3. iter + 1 = 3 /\ SavedBefore(3) = <<1, 2>>
    BY <1>4 DEF SavedBefore
  <2> QED BY <1>4, <2>1, <2>2, <2>3, Zenon
<1>5. CASE hybrid /\ iter > 2
  <2>1. saved = <<1, 2>> /\ ~(Len(saved) < MaxSaved)
    BY <1>5 DEF SavedBefore, MaxSaved
  <2> QED BY <1>5, <2>1 DEF Save, SavedBefore
<1> QED BY <1>1, <1>2, <1>3, <1>4, <1>5

LEMMA IterateKeeps ==
    ASSUME AttemptInv, Iterate
    PROVE  AttemptInv'
<1> USE DEF Iterate
<1>1. /\ CountsStale /\ iter <= MaxIterations /\ tried = <<>> /\ hybrid \in BOOLEAN
      /\ saved = IF hybrid THEN SavedBefore(iter) ELSE <<>>
  BY DEF AttemptInv, SumsKept
<1>2. PICK n \in Checks :
        /\ unsatisfied' = Append(unsatisfied, n)
        /\ stale' = Stale(n)
        /\ pc' = IF \/ iter = MaxIterations
                    \/ iter > 0 /\ iter >= MinIterations /\ stale' >= StaleLimit /\ n > Hopeful
                 THEN "stopped" ELSE "propagate"
  OBVIOUS
<1>3. n \in Nat /\ iter' = iter + 1 /\ iter \in Nat
  BY <1>1, LdpcAssumption DEF CountsStale
<1>4. unsatisfied' \in Seq(Nat) /\ Len(unsatisfied') = iter' /\ unsatisfied'[iter'] = n
      /\ \A i \in 1..iter : unsatisfied'[i] = unsatisfied[i]
  BY <1>1, <1>2, <1>3 DEF CountsStale
<1>5. CountsStale'
  <2>1. CASE iter = 0
    <3>1. stale' = 0 /\ iter' = 1
      BY <1>1, <1>2, <1>3, <2>1 DEF CountsStale, Stale
    <3> QED BY <1>4, <3>1 DEF CountsStale
  <2>2. CASE iter > 0
    <3>1. Last(unsatisfied) = unsatisfied[iter] /\ unsatisfied[iter] \in Nat
      BY <1>1, <2>2 DEF CountsStale, Last
    <3>2. CASE n < unsatisfied[iter]
      <4>1. stale' = 0
        BY <1>2, <2>2, <3>1, <3>2 DEF Stale
      <4> QED BY <1>3, <1>4, <4>1 DEF CountsStale
    <3>3. CASE n >= unsatisfied[iter]
      <4>1. stale' = stale + 1 /\ stale \in Nat /\ stale < iter
        BY <1>1, <1>3, <2>2, <3>1, <3>3, <1>2 DEF Stale, CountsStale
      <4>2. \A i \in (iter' - stale')..(iter' - 1) : unsatisfied'[i] <= unsatisfied'[i + 1]
        <5> TAKE i \in (iter' - stale')..(iter' - 1)
        <5>1. i \in 1..iter
          BY <1>3, <4>1
        <5>2. CASE i = iter
          BY <1>3, <1>4, <3>3, <5>1, <5>2
        <5>3. CASE i # iter
          <6>1. i + 1 \in 1..iter /\ i \in (iter - stale)..(iter - 1)
            BY <1>3, <4>1, <5>1, <5>3
          <6> QED BY <1>1, <1>4, <5>1, <6>1 DEF CountsStale
        <5> QED BY <5>2, <5>3
      <4> QED BY <1>3, <1>4, <4>1, <4>2 DEF CountsStale
    <3> QED BY <1>3, <3>1, <3>2, <3>3
  <2> QED BY <1>3, <2>1, <2>2
<1>6. Last(unsatisfied') = n
  BY <1>3, <1>4 DEF Last
<1>7. pc' = "stopped" => WhyStopped'
  BY <1>2, <1>3, <1>6, LdpcAssumption DEF WhyStopped
<1>8. pc' = "propagate" => iter' <= MaxIterations
  BY <1>1, <1>2, <1>3, LdpcAssumption
<1>9. saved' = IF hybrid' THEN SavedBefore(iter') ELSE <<>>
  BY <1>1, <1>3, SaveKeeps
<1>10. pc' \in {"propagate", "stopped"} /\ tried' = <<>> /\ hybrid' \in BOOLEAN
  BY <1>1, <1>2
<1>11. SumsKept'
  BY <1>9, <1>10 DEF SumsKept
<1> QED BY <1>5, <1>7, <1>8, <1>10, <1>11 DEF AttemptInv

\* Both sums are saved when the propagation stops.
LEMMA StopKeeps ==
    ASSUME AttemptInv, Stop
    PROVE  AttemptInv'
<1>1. /\ CountsStale /\ WhyStopped /\ hybrid \in BOOLEAN /\ tried = <<>>
      /\ saved = IF hybrid THEN SavedBefore(iter) ELSE <<>>
  BY DEF AttemptInv, SumsKept, Stop
<1>2. iter > 2
  BY <1>1, LdpcAssumption DEF WhyStopped, CountsStale, MaxSaved
<1>3. saved = IF hybrid THEN <<1, 2>> ELSE <<>>
  BY <1>1, <1>2 DEF SavedBefore, CountsStale
<1>4. pc' = IF hybrid THEN "search" ELSE "return"
  BY <1>1, <1>3 DEF Stop
<1>5. CountsStale'
  BY DEF Stop, CountsStale
<1>6. tried' = <<>> /\ Len(tried') < MaxSaved /\ tried' \in Seq(Received) /\ saved' = saved
      /\ hybrid' = hybrid
  BY <1>1 DEF Stop, MaxSaved
<1>7. SumsKept'
  BY <1>1, <1>3, <1>4, <1>6 DEF SumsKept
<1> QED BY <1>1, <1>4, <1>5, <1>6, <1>7 DEF AttemptInv

LEMMA SearchKeeps ==
    ASSUME AttemptInv, Search
    PROVE  AttemptInv'
<1>1. /\ CountsStale /\ hybrid \in BOOLEAN /\ hybrid /\ saved = <<1, 2>>
      /\ tried \in Seq(Received) /\ Len(tried) < MaxSaved
  BY DEF AttemptInv, SumsKept, Search
<1>2. PICK rx \in Received : tried' = Append(tried, rx)
  BY DEF Search
<1>3. tried' \in Seq(Received) /\ Len(tried') = Len(tried) + 1 /\ Len(tried) \in Nat
  BY <1>1, <1>2
<1>4. pc' = IF answer'.ok \/ Len(tried') = Len(saved) THEN "return" ELSE "search"
  BY DEF Search
<1>5. /\ Len(saved) = MaxSaved /\ saved' = saved /\ hybrid' = hybrid
      /\ UNCHANGED <<iter, unsatisfied, stale>>
  BY <1>1 DEF Search, MaxSaved
<1>6. CountsStale'
  BY <1>1, <1>5 DEF CountsStale
<1>7. SumsKept'
  BY <1>1, <1>3, <1>4, <1>5 DEF SumsKept, MaxSaved
<1> QED BY <1>1, <1>4, <1>5, <1>6, <1>7 DEF AttemptInv

LEMMA FoundKeeps ==
    ASSUME AttemptInv, Found
    PROVE  AttemptInv'
<1>1. pc' = "return" /\ answer'.ok /\ hybrid' = hybrid
  BY DEF Found
<1> QED BY <1>1 DEF AttemptInv, SumsKept

LEMMA AttemptStutters ==
    ASSUME AttemptInv, UNCHANGED vars
    PROVE  AttemptInv'
BY DEF AttemptInv, SumsKept, CountsStale, WhyStopped, vars

\* The propagation stops at its last iteration, or when for as many iterations in a
\* row as are allowed no check was gained; and a hybrid attempt that fails has tried
\* the sums of both iterations it saves (decode17491BP, ldpc.go, and
\* decode17491HybridWithAP, osd.go).
THEOREM AttemptsAlwaysExhausted == Spec => []FailsOnlyWhenExhausted
<1>1. AttemptInv /\ [Next]_vars => AttemptInv'
  BY IterateKeeps, StopKeeps, SearchKeeps, FoundKeeps, AttemptStutters DEF Next
<1>2. AttemptInv => FailsOnlyWhenExhausted
  <2> SUFFICES ASSUME AttemptInv PROVE FailsOnlyWhenExhausted
    OBVIOUS
  <2>1. ASSUME pc = "stopped", iter # MaxIterations + 1
        PROVE  /\ iter > MinIterations /\ Last(unsatisfied) > Hopeful
               /\ \A i \in (iter - StaleLimit)..(iter - 1) : unsatisfied[i] <= unsatisfied[i + 1]
    <3>1. WhyStopped /\ CountsStale
      BY <2>1 DEF AttemptInv
    <3>2. \A i \in (iter - StaleLimit)..(iter - 1) : i \in (iter - stale)..(iter - 1)
      BY <2>1, <3>1, LdpcAssumption DEF WhyStopped, CountsStale
    <3> QED BY <2>1, <3>1, <3>2 DEF WhyStopped, CountsStale
  <2>2. pc = "return" /\ hybrid /\ ~answer.ok => Len(tried) = MaxSaved /\ saved = <<1, 2>>
    BY DEF AttemptInv, SumsKept
  <2> QED BY <2>1, <2>2 DEF FailsOnlyWhenExhausted
<1> QED BY AttemptStarts, <1>1, <1>2, PTL DEF Spec
------------------------------------------------------------------------------
(* The search of Osd.  A fold is a function on subsets, or the last of a    *)
(* sequence of steps; a weight is the size of a set, and so does not depend *)
(* on the order in which it is summed; a bit of a sum of rows is 1 just if  *)
(* an odd number of them have it.                                           *)

\* Induction up to a number.
LEMMA UpTo ==
    ASSUME NEW n \in Nat, NEW G, 0 \in G, \A k \in 0..(n - 1) : k \in G => k + 1 \in G
    PROVE  \A k \in 0..n : k \in G
<1> DEFINE T == {k \in 0..n : k \notin G}
<1> SUFFICES ASSUME T # {} PROVE FALSE
  OBVIOUS
<1>1. T \subseteq Nat
  OBVIOUS
<1>2. PICK k \in T : \A i \in T : k <= i
  <2> HIDE DEF T
  <2> QED BY <1>1, LeastNat
<1>3. k \in 0..n /\ k \notin G /\ k # 0
  OBVIOUS
<1>4. k - 1 \in 0..(n - 1) /\ k - 1 \in 0..n /\ ~(k <= k - 1) /\ k = (k - 1) + 1
  BY <1>3
<1>5. k - 1 \in G
  BY <1>2, <1>4
<1>6. (k - 1) + 1 \in G
  BY <1>4, <1>5
<1> QED BY <1>3, <1>4, <1>6, Zenon

\* Induction over the subsets of a finite set, one element of each at a time.
LEMMA SubsetByOne ==
    ASSUME NEW S, IsFiniteSet(S), NEW G, {} \in G,
           \A d \in SUBSET S : d # {} => \E x \in d : d \ {x} \in G => d \in G
    PROVE  \A d \in SUBSET S : d \in G
<1> DEFINE size(d) == Cardinality(d)
           n == Cardinality(S)
           Up == {k \in Nat : \A d \in SUBSET S : size(d) <= k => d \in G}
<1>1. /\ n \in Nat
      /\ \A d \in SUBSET S : IsFiniteSet(d) /\ size(d) \in Nat /\ size(d) <= n
                             /\ (size(d) = 0 <=> d = {})
  <2>1. n \in Nat
    BY FS_CardinalityType
  <2>2. ASSUME NEW d \in SUBSET S
        PROVE  IsFiniteSet(d) /\ size(d) \in Nat /\ size(d) <= n /\ (size(d) = 0 <=> d = {})
    BY FS_Subset, FS_CardinalityType, FS_EmptySet
  <2> QED BY <2>1, <2>2
<1>2. ASSUME NEW d \in SUBSET S, NEW x \in d PROVE size(d \ {x}) = size(d) - 1
  BY <1>1, FS_RemoveElement
<1> HIDE DEF size, n
<1>3. 0 \in Up
  <2>1. \A d \in SUBSET S : size(d) <= 0 => d = {}
    BY <1>1
  <2>2. \A d \in SUBSET S : size(d) <= 0 => d \in G
    BY <2>1, Zenon
  <2> QED BY <2>2
<1>4. ASSUME NEW k \in 0..(n - 1), k \in Up PROVE k + 1 \in Up
  <2>1. ASSUME NEW d \in SUBSET S, size(d) <= k + 1 PROVE d \in G
    <3>1. CASE d = {}
      BY <3>1
    <3>2. CASE d # {}
      <4>1. PICK x \in d : d \ {x} \in G => d \in G
        BY <3>2
      <4>2. d \ {x} \in SUBSET S /\ size(d \ {x}) <= k
        BY <1>1, <1>2, <2>1
      <4> QED BY <1>4, <4>1, <4>2
    <3> QED BY <3>1, <3>2
  <2>2. k + 1 \in Nat
    OBVIOUS
  <2> QED BY <2>1, <2>2
<1>5. n \in Up
  <2> HIDE DEF Up
  <2>1. \A k \in 0..n : k \in Up
    BY <1>1, <1>3, <1>4, UpTo
  <2>2. n \in 0..n
    BY <1>1
  <2> QED BY <2>1, <2>2
<1> QED BY <1>1, <1>5

\* A fold over a set, as the library defines it, of a step that is a function: the
\* element pick[d] of d comes last.
FoldOf(f, base, step, pick, S) ==
    \A d \in SUBSET S :
      f[d] = IF d = {} THEN base ELSE step[<<f[d \ {pick[d]}], pick[d]>>]

\* How a fold chooses the element that it takes out next.
Picking(pick, S) == \A d \in SUBSET S : d # {} => pick[d] \in d

LEMMA FoldOfExists ==
    ASSUME NEW S, IsFiniteSet(S), NEW T, NEW base \in T, NEW step \in [T \X S -> T],
           NEW pick, Picking(pick, S)
    PROVE  \E f \in [SUBSET S -> T] : FoldOf(f, base, step, pick, S)
<1> DEFINE size(d) == Cardinality(d)
           n == Cardinality(S)
           now(f, d) == IF d = {} THEN base ELSE step[<<f[d \ {pick[d]}], pick[d]>>]
           Upto(f, k) == \A d \in SUBSET S : size(d) <= k => f[d] = now(f, d)
           Up == {k \in Nat : \E f \in [SUBSET S -> T] : Upto(f, k)}
<1>1. /\ n \in Nat
      /\ \A d \in SUBSET S : IsFiniteSet(d) /\ size(d) \in Nat /\ size(d) <= n
                             /\ (size(d) = 0 <=> d = {})
  <2>1. n \in Nat
    BY FS_CardinalityType
  <2>2. ASSUME NEW d \in SUBSET S
        PROVE  IsFiniteSet(d) /\ size(d) \in Nat /\ size(d) <= n /\ (size(d) = 0 <=> d = {})
    BY FS_Subset, FS_CardinalityType, FS_EmptySet
  <2> QED BY <2>1, <2>2
<1>2. ASSUME NEW d \in SUBSET S, d # {}
      PROVE  pick[d] \in S /\ d \ {pick[d]} \in SUBSET S /\ size(d \ {pick[d]}) = size(d) - 1
  <2>1. pick[d] \in d
    BY <1>2 DEF Picking
  <2> QED BY <1>1, <2>1, FS_RemoveElement
<1> HIDE DEF size, n
<1>3. ASSUME NEW f \in [SUBSET S -> T], NEW d \in SUBSET S PROVE now(f, d) \in T
  BY <1>2
<1> HIDE DEF now
<1>4. 0 \in Up
  <2> DEFINE f == [d \in SUBSET S |-> base]
  <2>1. \A d \in SUBSET S : size(d) <= 0 => f[d] = now(f, d)
    BY <1>1 DEF now
  <2>2. f \in [SUBSET S -> T]
    OBVIOUS
  <2> HIDE DEF f
  <2> QED BY <2>1, <2>2
<1>5. ASSUME NEW k \in 0..(n - 1), k \in Up PROVE k + 1 \in Up
  <2>1. PICK f \in [SUBSET S -> T] : Upto(f, k)
    BY <1>5
  <2> DEFINE g == [d \in SUBSET S |-> IF size(d) <= k THEN f[d] ELSE now(f, d)]
  <2>2. g \in [SUBSET S -> T]
    BY <1>3
  <2>3. ASSUME NEW d \in SUBSET S, size(d) <= k + 1 PROVE g[d] = now(g, d)
    <3>1. g[d] = now(f, d)
      BY <2>1
    <3>2. now(f, d) = now(g, d)
      <4>1. CASE d = {}
        BY <4>1 DEF now
      <4>2. CASE d # {}
        <5>1. d \ {pick[d]} \in SUBSET S /\ size(d \ {pick[d]}) <= k
          BY <1>1, <1>2, <2>3, <4>2
        <5>2. g[d \ {pick[d]}] = f[d \ {pick[d]}]
          BY <5>1
        <5> QED BY <5>2, Zenon DEF now
      <4> QED BY <4>1, <4>2
    <3> QED BY <3>1, <3>2
  <2> HIDE DEF g
  <2>4. k + 1 \in Nat
    OBVIOUS
  <2> QED BY <2>2, <2>3, <2>4
<1>6. n \in Up
  <2> HIDE DEF Up
  <2>1. \A k \in 0..n : k \in Up
    BY <1>1, <1>4, <1>5, UpTo
  <2>2. n \in 0..n
    BY <1>1
  <2> QED BY <2>1, <2>2
<1>7. PICK f \in [SUBSET S -> T] : Upto(f, n)
  BY <1>6
<1>8. \A d \in SUBSET S : f[d] = now(f, d)
  BY <1>1, <1>7
<1> QED BY <1>8, Zenon DEF FoldOf, now

AnyOf(d) == CHOOSE x \in d : TRUE

LEMMA AnyPicks == ASSUME NEW S PROVE Picking([d \in SUBSET S |-> AnyOf(d)], S)
BY DEF Picking, AnyOf

\* What the elements of a set weigh, a pair for each unit.
Units(w, S) == {p \in S \X Nat : p[2] < w[p[1]]}

LEMMA UnitsOfOneMore ==
    ASSUME NEW S, NEW w, NEW x \in S, w[x] \in Nat, IsFiniteSet(Units(w, S \ {x}))
    PROVE  /\ IsFiniteSet(Units(w, S))
           /\ Cardinality(Units(w, S)) = Cardinality(Units(w, S \ {x})) + w[x]
<1> DEFINE n == w[x]
           own == {p \in {x} \X Nat : p[2] < n}
           f == [i \in 1..n |-> <<x, i - 1>>]
<1>1. f \in Bijection(1..n, own)
  <2>1. \A i \in 1..n : i - 1 \in Nat /\ i - 1 < n
    OBVIOUS
  <2>2. f \in [1..n -> own]
    BY <2>1
  <2>3. \A i, j \in 1..n : f[i] = f[j] => i = j
    OBVIOUS
  <2>4. \A p \in own : \E i \in 1..n : f[i] = p
    <3> TAKE p \in own
    <3>1. p[2] + 1 \in 1..n /\ (p[2] + 1) - 1 = p[2] /\ p = <<x, p[2]>>
      OBVIOUS
    <3>2. f[p[2] + 1] = p
      BY <3>1
    <3> QED BY <3>1, <3>2
  <2> HIDE DEF f, own, n
  <2> QED BY <2>2, <2>3, <2>4, Zenon DEF Bijection, Injection, Surjection, IsInjective
<1>2. IsFiniteSet(1..n) /\ Cardinality(1..n) = n
  BY FS_Interval
<1>3. IsFiniteSet(own) /\ Cardinality(own) = n
  <2>1. ExistsBijection(1..n, own)
    BY <1>1 DEF ExistsBijection
  <2> HIDE DEF own, n
  <2> QED BY <1>2, <2>1, FS_Bijection
<1> DEFINE rest == Units(w, S \ {x})
<1>4. n \in Nat
  OBVIOUS
<1>5. Units(w, S) = rest \cup own /\ rest \cap own = {}
  BY DEF Units
<1> HIDE DEF own, rest, n
<1>6. Cardinality(rest \cup own) = Cardinality(rest) + Cardinality(own) - Cardinality(rest \cap own)
      /\ IsFiniteSet(rest \cup own)
  BY <1>3, FS_Union DEF rest
<1>7. Cardinality({}) = 0 /\ Cardinality(rest) \in Nat
  BY FS_EmptySet, FS_CardinalityType DEF rest
<1>8. Cardinality(rest \cap own) = 0
  BY <1>5, <1>7, Zenon
<1>9. Cardinality(rest \cup own) = Cardinality(rest) + n
  BY <1>4, <1>3, <1>6, <1>7, <1>8
<1> QED BY <1>5, <1>6, <1>9, Zenon DEF rest, n

\* Sums over the subsets of a set, as the library takes them.
SumsOf(f, w, S) ==
    f[{}] = 0 /\ \A d \in SUBSET S : d # {} => f[d] = f[d \ {AnyOf(d)}] + w[AnyOf(d)]

\* A sum over a set counts units, in whatever order it is taken.
LEMMA SumCounts ==
    ASSUME NEW S, IsFiniteSet(S), NEW w \in [S -> Nat], NEW f, SumsOf(f, w, S)
    PROVE  \A d \in SUBSET S : IsFiniteSet(Units(w, d)) /\ f[d] = Cardinality(Units(w, d))
<1> DEFINE G == {d \in SUBSET S : IsFiniteSet(Units(w, d)) /\ f[d] = Cardinality(Units(w, d))}
<1>1. {} \in G
  <2>1. Units(w, {}) = {}
    BY DEF Units
  <2> QED BY <2>1, FS_EmptySet DEF SumsOf
<1>2. ASSUME NEW d \in SUBSET S, d # {} PROVE \E x \in d : d \ {x} \in G => d \in G
  <2> DEFINE x == AnyOf(d)
  <2>1. x \in d /\ x \in S
    BY <1>2 DEF AnyOf
  <2>2. f[d] = f[d \ {x}] + w[x]
    BY <1>2 DEF SumsOf
  <2>3. w[x] \in Nat
    BY <2>1
  <2>4. ASSUME d \ {x} \in G PROVE d \in G
    <3> HIDE DEF x
    <3>1. IsFiniteSet(Units(w, d \ {x})) /\ f[d \ {x}] = Cardinality(Units(w, d \ {x}))
      BY <2>4
    <3>2. /\ IsFiniteSet(Units(w, d))
          /\ Cardinality(Units(w, d)) = Cardinality(Units(w, d \ {x})) + w[x]
      BY <2>1, <2>3, <3>1, UnitsOfOneMore
    <3> QED BY <2>2, <3>1, <3>2
  <2> QED BY <2>1, <2>4, Zenon
<1>3. \A d \in SUBSET S : d \in G
  <2> HIDE DEF G
  <2> QED BY <1>1, <1>2, SubsetByOne
<1> QED BY <1>3

\* Words that came in, and orders of their bits.
Words == [Bits -> Int]
Orders == {indices \in [Bits -> Bits] :
             /\ \A c, d \in Bits : indices[c] = indices[d] => c = d
             /\ \A b \in Bits : \E c \in Bits : indices[c] = b}

LEMMA BitsFinite == \A S \in SUBSET Bits : IsFiniteSet(S)
<1>1. IsFiniteSet(Bits)
  BY OsdAssumption, FS_Interval DEF Bits
<1> QED BY <1>1, FS_Subset

LEMMA WeightCounts ==
    ASSUME NEW rx \in Words, NEW indices \in [Bits -> Bits], NEW S \in SUBSET Bits
    PROVE  LET w == [c \in Bits |-> Magnitude(rx[indices[c]])]
           IN  IsFiniteSet(Units(w, S)) /\ Weight(indices, rx, S) = Cardinality(Units(w, S))
<1> DEFINE w == [c \in Bits |-> Magnitude(rx[indices[c]])]
           v == [c \in S |-> Magnitude(rx[indices[c]])]
           pick == [d \in SUBSET S |-> AnyOf(d)]
           step == [p \in Nat \X S |-> p[1] + v[p[2]]]
           Fold(f) == f = [d \in SUBSET S |->
                             IF d = {} THEN 0
                             ELSE f[d \ {AnyOf(d)}] + Magnitude(rx[indices[AnyOf(d)]])]
           fold == CHOOSE f : Fold(f)
<1>1. v \in [S -> Nat]
  BY DEF Magnitude, Words
<1>2. step \in [Nat \X S -> Nat]
  BY <1>1
<1>3. IsFiniteSet(S)
  BY BitsFinite
<1>4. PICK f \in [SUBSET S -> Nat] : FoldOf(f, 0, step, pick, S)
  <2> HIDE DEF step, pick
  <2>1. Picking(pick, S)
    BY AnyPicks DEF pick
  <2> QED BY <1>2, <1>3, <2>1, FoldOfExists
<1>5. Fold(f)
  <2>1. ASSUME NEW d \in SUBSET S, d # {}
        PROVE  f[d] = f[d \ {AnyOf(d)}] + Magnitude(rx[indices[AnyOf(d)]])
    <3>1. AnyOf(d) \in S /\ d \ {AnyOf(d)} \in SUBSET S /\ pick[d] = AnyOf(d)
      BY <2>1 DEF AnyOf
    <3>2. f[d] = step[<<f[d \ {AnyOf(d)}], AnyOf(d)>>]
      BY <1>4, <2>1, <3>1 DEF FoldOf
    <3>3. f[d \ {AnyOf(d)}] \in Nat
      BY <3>1
    <3> QED BY <3>1, <3>2, <3>3
  <2>2. f[{}] = 0
    BY <1>4 DEF FoldOf
  <2> QED BY <2>1, <2>2
<1>6. Fold(fold)
  <2> HIDE DEF Fold
  <2> QED BY <1>5, Zenon
<1>7. Weight(indices, rx, S) = fold[S]
  BY Zenon DEF Weight, FoldSet, MapThenFoldSet, AnyOf
<1> HIDE DEF fold
<1>8. SumsOf(fold, v, S)
  BY <1>6 DEF AnyOf, SumsOf
<1>9. IsFiniteSet(Units(v, S)) /\ fold[S] = Cardinality(Units(v, S))
  <2> HIDE DEF v, Fold
  <2>1. S \in SUBSET S
    OBVIOUS
  <2> QED BY <1>1, <1>3, <1>8, <2>1, SumCounts
<1>10. Units(v, S) = Units(w, S)
  BY DEF Units
<1> QED BY <1>7, <1>9, <1>10, Zenon

LEMMA WeightOfOneMore ==
    ASSUME NEW rx \in Words, NEW indices \in [Bits -> Bits], NEW S \in SUBSET Bits
    PROVE  /\ Weight(indices, rx, S) \in Nat /\ Weight(indices, rx, {}) = 0
           /\ \A x \in S : /\ Magnitude(rx[indices[x]]) \in Nat
                           /\ Weight(indices, rx, S)
                                = Weight(indices, rx, S \ {x}) + Magnitude(rx[indices[x]])
<1> DEFINE w == [c \in Bits |-> Magnitude(rx[indices[c]])]
<1>1. w \in [Bits -> Nat]
  BY DEF Magnitude, Words
<1>2. \A d \in SUBSET Bits :
        IsFiniteSet(Units(w, d)) /\ Weight(indices, rx, d) = Cardinality(Units(w, d))
  BY WeightCounts
<1>3. \A c \in Bits : w[c] = Magnitude(rx[indices[c]])
  OBVIOUS
<1> HIDE DEF w
<1>4. Weight(indices, rx, S) \in Nat
  <2>1. Cardinality(Units(w, S)) \in Nat
    BY <1>2, FS_CardinalityType
  <2> QED BY <1>2, <2>1
<1>5. Weight(indices, rx, {}) = 0
  <2>1. Units(w, {}) = {}
    BY DEF Units
  <2>2. Cardinality({}) = 0
    BY FS_EmptySet
  <2>3. {} \in SUBSET Bits
    OBVIOUS
  <2> QED BY <1>2, <2>1, <2>2, <2>3, Zenon
<1>6. ASSUME NEW x \in S
      PROVE  /\ w[x] \in Nat
             /\ Weight(indices, rx, S) = Weight(indices, rx, S \ {x}) + w[x]
  <2>1. x \in Bits /\ w[x] \in Nat /\ S \ {x} \in SUBSET Bits
    BY <1>1
  <2>2. Cardinality(Units(w, S)) = Cardinality(Units(w, S \ {x})) + w[x]
    BY <1>2, <2>1, UnitsOfOneMore
  <2> QED BY <1>2, <2>1, <2>2
<1> QED BY <1>3, <1>4, <1>5, <1>6

LEMMA WeightOfBoth ==
    ASSUME NEW rx \in Words, NEW indices \in [Bits -> Bits],
           NEW A \in SUBSET Bits, NEW B \in SUBSET Bits, A \cap B = {}
    PROVE  Weight(indices, rx, A \cup B) = Weight(indices, rx, A) + Weight(indices, rx, B)
<1> DEFINE W(S) == Weight(indices, rx, S)
           of(x) == Magnitude(rx[indices[x]])
           G == {d \in SUBSET B : W(A \cup d) = W(A) + W(d)}
<1>1. \A S \in SUBSET Bits : W(S) \in Nat /\ \A x \in S : of(x) \in Nat /\ W(S) = W(S \ {x}) + of(x)
  BY WeightOfOneMore
<1>2. W({}) = 0
  BY WeightOfOneMore
<1> HIDE DEF W, of
<1>3. {} \in G
  <2>1. A \cup {} = A /\ W(A) \in Nat
    BY <1>1
  <2> QED BY <1>2, <2>1
<1>4. ASSUME NEW d \in SUBSET B, d # {} PROVE \E x \in d : d \ {x} \in G => d \in G
  <2>1. PICK x \in d : TRUE
    BY <1>4
  <2>2. ASSUME d \ {x} \in G PROVE d \in G
    <3>1. (A \cup d) \ {x} = A \cup (d \ {x})
      OBVIOUS
    <3>2. /\ W(A \cup d) = W((A \cup d) \ {x}) + of(x) /\ W(d) = W(d \ {x}) + of(x)
          /\ of(x) \in Nat /\ W(A) \in Nat /\ W(d \ {x}) \in Nat
      BY <1>1
    <3>3. W(A \cup (d \ {x})) = W(A) + W(d \ {x})
      BY <2>2
    <3>4. W((A \cup d) \ {x}) = W(A) + W(d \ {x})
      BY <3>1, <3>3, Zenon
    <3> QED BY <3>2, <3>4
  <2> QED BY <2>2
<1>5. \A d \in SUBSET B : d \in G
  <2> HIDE DEF G
  <2>1. IsFiniteSet(B)
    BY BitsFinite
  <2> QED BY <1>3, <1>4, <2>1, SubsetByOne
<1> QED BY <1>5 DEF W

\* The bits that columns stand for, and the places of the bits.
BitsOf(indices, columns) == {indices[c] : c \in columns}
Unordered == [bit \in Bits |-> bit]

LEMMA WeightReordered ==
    ASSUME NEW rx \in Words, NEW indices \in Orders, NEW S \in SUBSET Bits
    PROVE  Weight(indices, rx, S) = Weight(Unordered, rx, BitsOf(indices, S))
<1> DEFINE W(T) == Weight(indices, rx, T)
           V(T) == Weight(Unordered, rx, T)
           G == {d \in SUBSET S : W(d) = V(BitsOf(indices, d))}
<1>1. indices \in [Bits -> Bits] /\ Unordered \in [Bits -> Bits]
  BY DEF Orders, Unordered
<1>2. \A T \in SUBSET Bits :
        \A x \in T : /\ W(T) = W(T \ {x}) + Magnitude(rx[indices[x]])
                     /\ V(T) = V(T \ {x}) + Magnitude(rx[x])
  BY <1>1, WeightOfOneMore DEF Unordered
<1>3. W({}) = 0 /\ V({}) = 0
  BY <1>1, WeightOfOneMore
<1> HIDE DEF W, V
<1>4. {} \in G
  <2>1. BitsOf(indices, {}) = {}
    BY DEF BitsOf
  <2> QED BY <1>3, <2>1, Zenon
<1>5. ASSUME NEW d \in SUBSET S, d # {} PROVE \E x \in d : d \ {x} \in G => d \in G
  <2>1. PICK x \in d : TRUE
    BY <1>5
  <2>2. ASSUME d \ {x} \in G PROVE d \in G
    <3>1. BitsOf(indices, d) \in SUBSET Bits /\ indices[x] \in BitsOf(indices, d)
      BY <1>1 DEF BitsOf
    <3>2. BitsOf(indices, d \ {x}) = BitsOf(indices, d) \ {indices[x]}
      BY DEF BitsOf, Orders
    <3>3. /\ W(d) = W(d \ {x}) + Magnitude(rx[indices[x]])
          /\ V(BitsOf(indices, d))
               = V(BitsOf(indices, d) \ {indices[x]}) + Magnitude(rx[indices[x]])
      BY <1>2, <3>1
    <3> QED BY <2>2, <3>2, <3>3, Zenon
  <2> QED BY <2>2
<1>6. \A d \in SUBSET S : d \in G
  <2> HIDE DEF G
  <2>1. IsFiniteSet(S)
    BY BitsFinite
  <2> QED BY <1>4, <1>5, <2>1, SubsetByOne
<1> QED BY <1>6 DEF W, V
------------------------------------------------------------------------------
\* The rows of a generator.
Rows == [1..K -> SUBSET Bits]

\* The rows of a message that have a column.
With(rows, message, c) == {r \in message : c \in rows[r]}
Odd(n) == n % 2 = 1

LEMMA WithOneMore ==
    ASSUME NEW rows, NEW d, IsFiniteSet(d), NEW x \in d, NEW c
    PROVE  Odd(Cardinality(With(rows, d, c))) <=>
             ~(Odd(Cardinality(With(rows, d \ {x}, c))) <=> c \in rows[x])
<1> DEFINE all == With(rows, d, c)
           rest == With(rows, d \ {x}, c)
<1>1. IsFiniteSet(all) /\ IsFiniteSet(rest) /\ Cardinality(all) \in Nat /\ Cardinality(rest) \in Nat
  <2>1. all \in SUBSET d /\ rest \in SUBSET d
    BY DEF With
  <2> HIDE DEF all, rest
  <2> QED BY <2>1, FS_Subset, FS_CardinalityType
<1>2. CASE c \in rows[x]
  <2>1. rest = all \ {x} /\ x \in all
    BY <1>2 DEF With
  <2> HIDE DEF all, rest
  <2>2. Cardinality(all) = Cardinality(rest) + 1
    BY <1>1, <2>1, FS_RemoveElement
  <2> QED BY <1>1, <1>2, <2>2 DEF Odd, all, rest
<1>3. CASE c \notin rows[x]
  <2>1. rest = all
    BY <1>3 DEF With
  <2> QED BY <1>3, <2>1
<1> QED BY <1>2, <1>3

\* A bit of a word is 1 just if an odd number of the rows summed have it.
LEMMA EncodeParity ==
    ASSUME NEW rows \in Rows, NEW message \in SUBSET (1..K)
    PROVE  Encode(rows, message) = {c \in Bits : Odd(Cardinality(With(rows, message, c)))}
<1> DEFINE S == message
           odd(d) == {c \in Bits : Odd(Cardinality(With(rows, d, c)))}
           pick == [d \in SUBSET S |-> AnyOf(d)]
           step == [p \in (SUBSET Bits) \X S |-> SymDiff(p[1], rows[p[2]])]
           Fold(f) == f = [d \in SUBSET S |->
                             IF d = {} THEN {} ELSE SymDiff(f[d \ {AnyOf(d)}], rows[AnyOf(d)])]
           fold == CHOOSE f : Fold(f)
<1>1. IsFiniteSet(S) /\ \A d \in SUBSET S : IsFiniteSet(d)
  <2>1. IsFiniteSet(1..K)
    BY OsdAssumption, FS_Interval
  <2>2. IsFiniteSet(S)
    BY <2>1, FS_Subset
  <2> HIDE DEF S
  <2> QED BY <2>2, FS_Subset
<1>2. step \in [(SUBSET Bits) \X S -> SUBSET Bits] /\ {} \in SUBSET Bits
  BY DEF SymDiff, Rows
<1>3. PICK f \in [SUBSET S -> SUBSET Bits] : FoldOf(f, {}, step, pick, S)
  <2> HIDE DEF step, pick
  <2>1. Picking(pick, S)
    BY AnyPicks DEF pick
  <2> QED BY <1>1, <1>2, <2>1, FoldOfExists
<1>4. Fold(f)
  <2>1. ASSUME NEW d \in SUBSET S, d # {}
        PROVE  f[d] = SymDiff(f[d \ {AnyOf(d)}], rows[AnyOf(d)])
    <3>1. AnyOf(d) \in S /\ d \ {AnyOf(d)} \in SUBSET S /\ pick[d] = AnyOf(d)
      BY <2>1 DEF AnyOf
    <3>2. f[d] = step[<<f[d \ {AnyOf(d)}], AnyOf(d)>>]
      BY <1>3, <2>1, <3>1 DEF FoldOf
    <3>3. f[d \ {AnyOf(d)}] \in SUBSET Bits
      BY <3>1
    <3> QED BY <3>1, <3>2, <3>3
  <2>2. f[{}] = {}
    BY <1>3 DEF FoldOf
  <2> QED BY <2>1, <2>2
<1>5. Fold(fold)
  <2> HIDE DEF Fold
  <2> QED BY <1>4, Zenon
<1>6. Encode(rows, S) = fold[S]
  BY Zenon DEF Encode, FoldSet, MapThenFoldSet, AnyOf
<1> HIDE DEF fold
<1>7. /\ fold[{}] = {}
      /\ \A d \in SUBSET S : d # {} => fold[d] = SymDiff(fold[d \ {AnyOf(d)}], rows[AnyOf(d)])
  BY <1>5
<1> HIDE DEF Fold
<1> DEFINE G == {d \in SUBSET S : fold[d] = odd(d)}
<1>8. {} \in G
  <2>1. \A c : With(rows, {}, c) = {}
    BY DEF With
  <2>2. ~Odd(Cardinality({}))
    BY FS_EmptySet DEF Odd
  <2>3. odd({}) = {}
    BY <2>1, <2>2, Zenon
  <2> QED BY <1>7, <2>3
<1>9. ASSUME NEW d \in SUBSET S, d # {} PROVE \E x \in d : d \ {x} \in G => d \in G
  <2> DEFINE x == AnyOf(d)
  <2>1. x \in d /\ fold[d] = SymDiff(fold[d \ {x}], rows[x])
    BY <1>7, <1>9 DEF AnyOf
  <2> HIDE DEF x
  <2>2. ASSUME fold[d \ {x}] = odd(d \ {x}) PROVE fold[d] = odd(d)
    <3>1. \A c \in Bits : c \in odd(d) <=> ~(c \in odd(d \ {x}) <=> c \in rows[x])
      BY <1>1, <2>1, WithOneMore
    <3>2. rows[x] \in SUBSET Bits /\ odd(d) \in SUBSET Bits /\ odd(d \ {x}) \in SUBSET Bits
      BY <2>1 DEF Rows
    <3> HIDE DEF odd
    <3>3. SymDiff(odd(d \ {x}), rows[x]) = odd(d)
      BY <3>1, <3>2 DEF SymDiff
    <3> QED BY <2>1, <2>2, <3>3, Zenon
  <2> QED BY <2>1, <2>2
<1>10. \A d \in SUBSET S : d \in G
  <2> HIDE DEF G
  <2> QED BY <1>1, <1>8, <1>9, SubsetByOne
<1> QED BY <1>6, <1>10

\* One bit of the message changes the word by its row.
LEMMA EncodeToggles ==
    ASSUME NEW rows \in Rows, NEW message \in SUBSET (1..K), NEW r \in 1..K
    PROVE  /\ Encode(rows, message) \in SUBSET Bits
           /\ Encode(rows, SymDiff(message, {r})) = SymDiff(Encode(rows, message), rows[r])
<1> DEFINE other == SymDiff(message, {r})
           E(m) == Encode(rows, m)
           odd(m, c) == Odd(Cardinality(With(rows, m, c)))
<1>1. other \in SUBSET (1..K) /\ IsFiniteSet(message) /\ IsFiniteSet(other)
  <2>1. IsFiniteSet(1..K)
    BY OsdAssumption, FS_Interval
  <2>2. other \in SUBSET (1..K)
    BY DEF SymDiff
  <2> HIDE DEF other
  <2> QED BY <2>1, <2>2, FS_Subset
<1>2. /\ E(message) = {c \in Bits : odd(message, c)}
      /\ E(other) = {c \in Bits : odd(other, c)}
  BY <1>1, EncodeParity
<1>3. \A c \in Bits : odd(other, c) <=> ~(odd(message, c) <=> c \in rows[r])
  <2>1. CASE r \in message
    <3>1. other = message \ {r}
      BY <2>1 DEF SymDiff
    <3>2. \A c \in Bits : odd(message, c) <=> ~(odd(message \ {r}, c) <=> c \in rows[r])
      BY <1>1, <2>1, WithOneMore
    <3> HIDE DEF odd, other
    <3>3. \A c \in Bits : odd(message, c) <=> ~(odd(other, c) <=> c \in rows[r])
      BY <3>1, <3>2
    <3> QED BY <3>3
  <2>2. CASE r \notin message
    <3>1. r \in other /\ message = other \ {r}
      BY <2>2 DEF SymDiff
    <3> HIDE DEF other
    <3>2. \A c \in Bits : odd(other, c) <=> ~(odd(other \ {r}, c) <=> c \in rows[r])
      BY <1>1, <3>1, WithOneMore
    <3> HIDE DEF odd
    <3> QED BY <3>1, <3>2
  <2> QED BY <2>1, <2>2
<1>4. rows[r] \in SUBSET Bits
  BY DEF Rows
<1> HIDE DEF odd, other, E
<1>5. E(message) \in SUBSET Bits /\ E(other) \in SUBSET Bits
  BY <1>2
<1>6. \A c \in Bits : c \in E(other) <=> ~(c \in E(message) <=> c \in rows[r])
  BY <1>2, <1>3
<1>7. E(other) = SymDiff(E(message), rows[r])
  BY <1>4, <1>5, <1>6 DEF SymDiff
<1> QED BY <1>5, <1>7, Zenon DEF E, other

LEMMA EncodeNothing == ASSUME NEW rows \in Rows PROVE Encode(rows, {}) = {}
<1>1. \A c : With(rows, {}, c) = {}
  BY DEF With
<1>2. ~Odd(Cardinality({}))
  BY FS_EmptySet DEF Odd
<1>3. Encode(rows, {}) = {c \in Bits : Odd(Cardinality(With(rows, {}, c)))}
  <2>1. {} \in SUBSET (1..K)
    OBVIOUS
  <2> QED BY <2>1, EncodeParity
<1> QED BY <1>1, <1>2, <1>3, Zenon

\* A message of one bit more.
LEMMA EncodeOneMore ==
    ASSUME NEW rows \in Rows, NEW message \in SUBSET (1..K), NEW r \in message
    PROVE  Encode(rows, message) = SymDiff(Encode(rows, message \ {r}), rows[r])
<1>1. message \ {r} \in SUBSET (1..K) /\ r \in 1..K
  OBVIOUS
<1>2. SymDiff(message \ {r}, {r}) = message
  BY DEF SymDiff
<1>3. Encode(rows, SymDiff(message \ {r}, {r})) = SymDiff(Encode(rows, message \ {r}), rows[r])
  BY <1>1, EncodeToggles
<1> QED BY <1>2, <1>3, Zenon

LEMMA MessagesByOne ==
    ASSUME NEW G, {} \in G,
           \A m \in SUBSET (1..K), r \in 1..K : r \in m /\ m \ {r} \in G => m \in G
    PROVE  \A m \in SUBSET (1..K) : m \in G
<1>1. IsFiniteSet(1..K)
  BY OsdAssumption, FS_Interval
<1>2. ASSUME NEW m \in SUBSET (1..K), m # {} PROVE \E r \in m : m \ {r} \in G => m \in G
  <2>1. PICK r \in m : TRUE
    BY <1>2
  <2> QED BY <2>1
<1> QED BY <1>1, <1>2, SubsetByOne

\* The first K columns are those of the identity.
Identity(rows) == \A r, c \in 1..K : c \in rows[r] <=> c = r

\* The basis of a word whose rows are the identity there is the message.
LEMMA EncodeIdentity ==
    ASSUME NEW rows \in Rows, Identity(rows), NEW message \in SUBSET (1..K)
    PROVE  Encode(rows, message) \cap (1..K) = message
<1> DEFINE G == {m \in SUBSET (1..K) : Encode(rows, m) \cap (1..K) = m}
<1>1. {} \in G
  BY EncodeNothing
<1>2. ASSUME NEW m \in SUBSET (1..K), NEW r \in 1..K, r \in m, m \ {r} \in G PROVE m \in G
  <2>1. Encode(rows, m) = SymDiff(Encode(rows, m \ {r}), rows[r])
    BY <1>2, EncodeOneMore
  <2>2. Encode(rows, m \ {r}) \cap (1..K) = m \ {r}
    BY <1>2
  <2>3. rows[r] \cap (1..K) = {r}
    BY DEF Identity
  <2>4. Encode(rows, m) \cap (1..K) = m
    BY <1>2, <2>1, <2>2, <2>3 DEF SymDiff
  <2> QED BY <2>4
<1>3. \A m \in SUBSET (1..K) : m \in G
  <2> HIDE DEF G
  <2> QED BY <1>1, <1>2, MessagesByOne
<1> QED BY <1>3

\* A word of the reordered columns is that of the rows of bits.
LEMMA EncodeOfBits ==
    ASSUME NEW rows \in Rows, NEW indices \in Orders, NEW message \in SUBSET (1..K)
    PROVE  LET bits == [r \in 1..K |-> BitsOf(indices, rows[r])]
           IN  bits \in Rows
               /\ Encode(bits, message) = BitsOf(indices, Encode(rows, message))
<1> DEFINE bits == [r \in 1..K |-> BitsOf(indices, rows[r])]
           G == {m \in SUBSET (1..K) : Encode(bits, m) = BitsOf(indices, Encode(rows, m))}
<1>1. bits \in Rows
  BY DEF Rows, BitsOf, Orders
<1>2. \A r \in 1..K : bits[r] = BitsOf(indices, rows[r])
  OBVIOUS
<1> HIDE DEF bits
<1>3. {} \in G
  <2>1. BitsOf(indices, {}) = {}
    BY DEF BitsOf
  <2>2. Encode(bits, {}) = {} /\ Encode(rows, {}) = {}
    BY <1>1, EncodeNothing
  <2> QED BY <2>1, <2>2
<1>4. ASSUME NEW m \in SUBSET (1..K), NEW r \in 1..K, r \in m, m \ {r} \in G PROVE m \in G
  <2> DEFINE a == Encode(rows, m \ {r})
             b == rows[r]
  <2>1. /\ Encode(rows, m) = SymDiff(a, b)
        /\ Encode(bits, m) = SymDiff(Encode(bits, m \ {r}), bits[r])
    BY <1>1, <1>4, EncodeOneMore
  <2>2. Encode(bits, m \ {r}) = BitsOf(indices, a)
    BY <1>4
  <2>3. a \in SUBSET Bits /\ b \in SUBSET Bits
    <3>1. m \ {r} \in SUBSET (1..K)
      OBVIOUS
    <3>2. b \in SUBSET Bits
      BY DEF Rows
    <3> QED BY <3>1, <3>2, EncodeToggles
  <2> HIDE DEF a, b
  <2>4. SymDiff(BitsOf(indices, a), BitsOf(indices, b)) = BitsOf(indices, SymDiff(a, b))
    BY <2>3 DEF SymDiff, BitsOf, Orders
  <2>5. Encode(bits, m) = BitsOf(indices, Encode(rows, m))
    BY <1>2, <2>1, <2>2, <2>4 DEF b
  <2> QED BY <2>5
<1>5. \A m \in SUBSET (1..K) : m \in G
  <2> HIDE DEF G
  <2> QED BY <1>3, <1>4, MessagesByOne
<1> QED BY <1>1, <1>5 DEF bits

\* The words that rows span.
Span(rows) == {Encode(rows, message) : message \in SUBSET (1..K)}

\* Adding rows to others leads to no new words.
LEMMA SpanWithin ==
    ASSUME NEW rows \in Rows, NEW sums \in Rows,
           \A r \in 1..K : \/ sums[r] = rows[r]
                           \/ \E q \in 1..K : sums[r] = SymDiff(rows[r], rows[q])
    PROVE  Span(sums) \subseteq Span(rows)
<1> DEFINE G == {m \in SUBSET (1..K) : \E n \in SUBSET (1..K) : Encode(sums, m) = Encode(rows, n)}
<1>1. {} \in G
  <2>1. {} \in SUBSET (1..K) /\ Encode(sums, {}) = Encode(rows, {})
    BY EncodeNothing
  <2> QED BY <2>1
<1>2. ASSUME NEW m \in SUBSET (1..K), NEW r \in 1..K, r \in m, m \ {r} \in G PROVE m \in G
  <2>1. PICK n \in SUBSET (1..K) : Encode(sums, m \ {r}) = Encode(rows, n)
    BY <1>2
  <2>2. Encode(sums, m) = SymDiff(Encode(rows, n), sums[r])
    BY <1>2, <2>1, EncodeOneMore
  <2>3. SymDiff(n, {r}) \in SUBSET (1..K)
    BY DEF SymDiff
  <2>4. Encode(rows, SymDiff(n, {r})) = SymDiff(Encode(rows, n), rows[r])
    BY EncodeToggles
  <2>5. CASE sums[r] = rows[r]
    BY <2>2, <2>3, <2>4, <2>5
  <2>6. CASE \E q \in 1..K : sums[r] = SymDiff(rows[r], rows[q])
    <3>1. PICK q \in 1..K : sums[r] = SymDiff(rows[r], rows[q])
      BY <2>6
    <3> DEFINE k == SymDiff(n, {r})
               e == Encode(rows, n)
    <3>2. SymDiff(k, {q}) \in SUBSET (1..K)
      BY DEF SymDiff
    <3> HIDE DEF k, e
    <3>3. Encode(rows, SymDiff(k, {q})) = SymDiff(Encode(rows, k), rows[q])
      BY <2>3, EncodeToggles DEF k
    <3>4. SymDiff(SymDiff(e, rows[r]), rows[q]) = SymDiff(e, SymDiff(rows[r], rows[q]))
      BY DEF SymDiff
    <3>5. Encode(sums, m) = Encode(rows, SymDiff(k, {q}))
      BY <2>2, <2>4, <3>1, <3>3, <3>4, Zenon DEF k, e
    <3> QED BY <3>2, <3>5
  <2> QED BY <2>5, <2>6
<1>3. \A m \in SUBSET (1..K) : m \in G
  <2> HIDE DEF G
  <2> QED BY <1>1, <1>2, MessagesByOne
<1> QED BY <1>3 DEF Span

LEMMA LargestOf ==
    ASSUME NEW m \in Nat, NEW d \in SUBSET (1..m), m \in d
    PROVE  Max(d) = m
<1>1. \A x \in d : (\A y \in d : x >= y) <=> x = m
  OBVIOUS
<1> QED BY <1>1 DEF Max

LEMMA LargestIn ==
    ASSUME NEW n \in Nat, NEW d \in SUBSET (1..n), d # {}
    PROVE  Max(d) \in d
<1> DEFINE T == {i \in 0..n : n - i \in d}
<1>1. T # {}
  <2>1. PICK x \in d : TRUE
    OBVIOUS
  <2>2. n - x \in 0..n /\ n - (n - x) = x
    OBVIOUS
  <2> QED BY <2>2
<1>2. T \subseteq Nat
  OBVIOUS
<1>3. PICK i \in T : \A j \in T : i <= j
  <2> HIDE DEF T
  <2> QED BY <1>1, <1>2, LeastNat
<1>4. \A y \in d : n - i >= y
  <2> TAKE y \in d
  <2>1. n - y \in 0..n /\ n - (n - y) = y
    OBVIOUS
  <2>2. i <= n - y
    BY <1>3, <2>1
  <2> QED BY <2>1, <2>2
<1>5. n - i \in d
  OBVIOUS
<1> QED BY <1>4, <1>5, Zenon DEF Max

\* What one step of a fold that is a function is, of the fold before.
LEMMA FoldUnrolls ==
    ASSUME NEW n \in Nat, NEW k \in 1..n
    PROVE  /\ 1..k \in SUBSET (1..n) /\ 1..k # {} /\ Max(1..k) = k
           /\ (1..k) \ {k} = 1..(k - 1) /\ 1..(k - 1) \in SUBSET (1..n)
<1>1. k \in 1..k /\ k \in Nat
  OBVIOUS
<1>2. Max(1..k) = k
  BY <1>1, LargestOf
<1> QED BY <1>1, <1>2

\* The same of a fold that is known to be one only where its values are typed.
IsFoldFrom(f, base, step, n, T) ==
    /\ f[{}] = base
    /\ \A d \in SUBSET (1..n) :
         d # {} /\ f[d \ {Max(d)}] \in T => f[d] = step[<<f[d \ {Max(d)}], Max(d)>>]

\* Values that follow from one another.
Iterates(c, base, step, n, T, last) ==
    /\ c \in [0..n -> T] /\ c[0] = base /\ c[n] = last
    /\ \A k \in 1..n : c[k] = step[<<c[k-1], k>>]

LEMMA FoldIterates ==
    ASSUME NEW T, NEW base \in T, NEW n \in Nat, NEW step \in [T \X (1..n) -> T],
           NEW f, IsFoldFrom(f, base, step, n, T)
    PROVE  \E c : Iterates(c, base, step, n, T, f[1..n])
<1> DEFINE c == [k \in 0..n |-> f[1..k]]
<1>1. c[0] = base /\ c[n] = f[1..n]
  BY DEF IsFoldFrom
<1>2. ASSUME NEW k \in 1..n, c[k-1] \in T PROVE c[k] = step[<<c[k-1], k>>]
  <2>1. k - 1 \in 0..n /\ k \in 0..n
    OBVIOUS
  <2>2. /\ 1..k \in SUBSET (1..n) /\ 1..k # {} /\ Max(1..k) = k
        /\ (1..k) \ {k} = 1..(k - 1)
    BY FoldUnrolls
  <2>3. f[(1..k) \ {Max(1..k)}] \in T
    BY <1>2, <2>1, <2>2
  <2>4. f[1..k] = step[<<f[(1..k) \ {Max(1..k)}], Max(1..k)>>]
    BY <2>2, <2>3, Zenon DEF IsFoldFrom
  <2> QED BY <2>1, <2>2, <2>4
<1> HIDE DEF c
<1>3. c \in [0..n -> T] /\ \A k \in 0..n : c[k] \in T
  <2> DEFINE G == {k \in 0..n : c[k] \in T}
  <2>1. 0 \in G
    BY <1>1
  <2>2. ASSUME NEW k \in 0..(n-1), k \in G PROVE k + 1 \in G
    <3>1. k + 1 \in 1..n /\ (k + 1) - 1 = k /\ c[k] \in T
      BY <2>2
    <3>2. c[k+1] = step[<<c[k], k + 1>>]
      BY <1>2, <3>1
    <3> QED BY <3>1, <3>2
  <2>3. \A k \in 0..n : k \in G
    <3> HIDE DEF G
    <3> QED BY <2>1, <2>2, UpTo
  <2> QED BY <2>3 DEF c
<1>4. \A k \in 1..n : c[k] = step[<<c[k-1], k>>]
  <2> TAKE k \in 1..n
  <2>1. k - 1 \in 0..n
    OBVIOUS
  <2> QED BY <1>2, <1>3, <2>1
<1> QED BY <1>1, <1>3, <1>4, Zenon DEF Iterates

LEMMA LeastIn ==
    ASSUME NEW d \in SUBSET Nat, d # {}
    PROVE  Min(d) \in d /\ \A y \in d : Min(d) <= y
<1>1. PICK least \in d : \A y \in d : least <= y
  BY LeastNat
<1> QED BY <1>1 DEF Min
\* Bit a is more reliable than bit b.
Before(rx, a, b) == \/ Magnitude(rx[a]) > Magnitude(rx[b])
                    \/ Magnitude(rx[a]) = Magnitude(rx[b]) /\ a > b

\* Sorting by reliability permutes the bits.
LEMMA OrderIsOrder == ASSUME NEW rx \in Words PROVE Order(rx) \in Orders
<1> DEFINE ahead(b) == {a \in Bits : Before(rx, a, b)}
           rank == [b \in Bits |-> Cardinality(ahead(b))]
<1>1. \A b \in Bits : b \in Int /\ Magnitude(rx[b]) \in Nat
  BY DEF Words, Magnitude, Bits
<1>2. \A b, c \in Bits : b # c => Before(rx, b, c) \/ Before(rx, c, b)
  BY <1>1 DEF Before
<1>3. \A b \in Bits : ~Before(rx, b, b)
  BY <1>1 DEF Before
<1>4. \A a, b, c \in Bits : Before(rx, a, b) /\ Before(rx, b, c) => Before(rx, a, c)
  BY <1>1 DEF Before
<1>5. \A b \in Bits : IsFiniteSet(ahead(b)) /\ Cardinality(ahead(b)) \in Nat
  BY BitsFinite, FS_CardinalityType
<1>6. ASSUME NEW b \in Bits, NEW c \in Bits, Before(rx, b, c) PROVE rank[b] < rank[c]
  <2>1. ahead(b) \cup {b} \subseteq ahead(c) /\ b \notin ahead(b)
    BY <1>3, <1>4, <1>6
  <2> HIDE DEF ahead
  <2>2. Cardinality(ahead(b) \cup {b}) = Cardinality(ahead(b)) + 1
    BY <1>5, <2>1, FS_AddElement
  <2>3. Cardinality(ahead(b) \cup {b}) <= Cardinality(ahead(c))
    BY <1>5, <2>1, FS_Subset
  <2> QED BY <1>5, <2>2, <2>3
<1>7. Cardinality(Bits) = N /\ N \in Nat /\ IsFiniteSet(Bits)
  BY OsdAssumption, FS_Interval DEF Bits
<1>8. ASSUME NEW b \in Bits PROVE rank[b] \in 0..(N - 1)
  <2>1. ahead(b) \cup {b} \subseteq Bits /\ b \notin ahead(b)
    BY <1>3
  <2> HIDE DEF ahead
  <2>2. Cardinality(ahead(b) \cup {b}) = Cardinality(ahead(b)) + 1
    BY <1>5, <2>1, FS_AddElement
  <2>3. Cardinality(ahead(b) \cup {b}) <= Cardinality(Bits)
    BY <1>7, <2>1, FS_Subset
  <2> QED BY <1>5, <1>7, <2>2, <2>3
<1>9. \A b, c \in Bits : rank[b] = rank[c] => b = c
  <2> TAKE b, c \in Bits
  <2>1. rank[b] \in Int /\ rank[c] \in Int
    BY <1>8
  <2> QED BY <1>2, <1>6, <2>1
<1>10. Order(rx) = [col \in Bits |-> CHOOSE b \in Bits : Cardinality(ahead(b)) = col - 1]
  BY DEF Order, Before
<1>11. \A b \in Bits : rank[b] = Cardinality(ahead(b))
  OBVIOUS
<1>12. \A b \in Bits : rank[b] \in 0..(N - 1)
  BY <1>8
<1>13. rank \in [Bits -> 0..(N - 1)]
  BY <1>12
<1> HIDE DEF rank
<1>14. \A i \in 0..(N - 1) : \E b \in Bits : rank[b] = i
  <2> DEFINE ranks == 0..(N - 1)
  <2>1. IsFiniteSet(ranks) /\ Cardinality(ranks) = N
    BY <1>7, FS_Interval
  <2> HIDE DEF ranks
  <2>2. rank \in Injection(Bits, ranks)
    BY <1>9, <1>13, Zenon DEF Injection, IsInjective, ranks
  <2>3. rank \in Surjection(Bits, ranks)
    BY <1>7, <2>1, <2>2, FS_Injection
  <2> QED BY <2>3 DEF Surjection, ranks
<1> DEFINE order == Order(rx)
<1>15. \A col \in Bits : col - 1 \in 0..(N - 1) /\ col \in Int
  BY <1>7 DEF Bits
<1>16. \A col \in Bits : order[col] \in Bits /\ rank[order[col]] = col - 1
  <2> TAKE col \in Bits
  <2>1. \E b \in Bits : Cardinality(ahead(b)) = col - 1
    BY <1>14, <1>15, <1>11
  <2>2. order[col] = CHOOSE b \in Bits : Cardinality(ahead(b)) = col - 1
    BY <1>10
  <2> QED BY <1>11, <2>1, <2>2, Zenon
<1>17. \A c, d \in Bits : order[c] = order[d] => c = d
  BY <1>15, <1>16
<1>18. \A b \in Bits : \E c \in Bits : order[c] = b
  <2> TAKE b \in Bits
  <2>1. rank[b] + 1 \in Bits /\ (rank[b] + 1) - 1 = rank[b]
    BY <1>7, <1>12 DEF Bits
  <2> QED BY <1>9, <1>16, <2>1
<1>19. order \in [Bits -> Bits]
  BY <1>10, <1>16
<1> QED BY <1>17, <1>18, <1>19 DEF Orders
------------------------------------------------------------------------------
\* What a step of the elimination starts from and leaves.
States == [ok : BOOLEAN, indices : [Bits -> Bits], rows : Rows]

\* The rows of the generator as bits, whatever their columns are swapped to.
RowBits(s) == [r \in 1..K |-> BitsOf(s.indices, s.rows[r])]

\* The first k columns are those of the identity, and the rows span the code.
Reduced(s, k) ==
    s.ok => /\ s.indices \in Orders
            /\ \A r \in 1..K, c \in 1..k : c \in s.rows[r] <=> c = r
            /\ Span(RowBits(s)) = Codewords

LEMMA SwappedBits ==
    ASSUME NEW a \in Bits, NEW b \in Bits
    PROVE  /\ \A c \in Bits : Swapped(a, b, c) \in Bits /\ Swapped(a, b, Swapped(a, b, c)) = c
           /\ \A c \in Bits : c # a /\ c # b => Swapped(a, b, c) = c
           /\ Swapped(a, b, b) = a /\ Swapped(a, b, a) = b
BY DEF Swapped

\* What one step of the elimination finds and does.
Pivots(s, diag) == {col \in diag..(K + PivotWindow) : col <= N /\ col \in s.rows[diag]}
Columns(s, diag, row) ==
    {Swapped(diag, Min(Pivots(s, diag)), col) : col \in s.rows[row]}
Summed(s, diag, row) == row # diag /\ diag \in Columns(s, diag, row)

LEMMA DiagonalSteps ==
    ASSUME NEW s \in States, NEW diag \in 1..K, s.ok, Pivots(s, diag) # {}
    PROVE  LET p == Min(Pivots(s, diag))
               t == Diagonal(s, diag)
           IN  /\ diag \in Bits /\ p \in Bits /\ p >= diag /\ p \in s.rows[diag]
               /\ t.ok = TRUE
               /\ t.indices = [col \in Bits |-> s.indices[Swapped(diag, p, col)]]
               /\ t.rows = [row \in 1..K |->
                              IF Summed(s, diag, row)
                              THEN SymDiff(Columns(s, diag, row), Columns(s, diag, diag))
                              ELSE Columns(s, diag, row)]
               /\ t = [ok |-> TRUE, indices |-> t.indices, rows |-> t.rows]
<1> DEFINE p == Min(Pivots(s, diag))
           swap == [row \in 1..K |-> Columns(s, diag, row)]
<1>1. diag \in Bits /\ Pivots(s, diag) \subseteq Bits /\ Pivots(s, diag) \subseteq Nat
      /\ \A c \in Pivots(s, diag) : c >= diag /\ c \in s.rows[diag]
  BY OsdAssumption DEF Pivots, Bits
<1>2. p \in Pivots(s, diag)
  BY <1>1, LeastIn
<1>3. Diagonal(s, diag) =
        [ok |-> TRUE,
         indices |-> [col \in Bits |-> s.indices[Swapped(diag, p, col)]],
         rows |-> [row \in 1..K |-> IF row # diag /\ diag \in swap[row]
                                    THEN SymDiff(swap[row], swap[diag]) ELSE swap[row]]]
  BY Zenon DEF Diagonal, Pivots, Columns
<1>4. \A row \in 1..K : swap[row] = Columns(s, diag, row)
  OBVIOUS
<1> HIDE DEF swap, p
<1>5. [row \in 1..K |-> IF row # diag /\ diag \in swap[row]
                        THEN SymDiff(swap[row], swap[diag]) ELSE swap[row]]
      = [row \in 1..K |-> IF Summed(s, diag, row)
                          THEN SymDiff(Columns(s, diag, row), Columns(s, diag, diag))
                          ELSE Columns(s, diag, row)]
  BY <1>4, Zenon DEF Summed
<1> QED BY <1>1, <1>2, <1>3, <1>5 DEF p

LEMMA DiagonalFails ==
    ASSUME NEW s \in States, NEW diag \in 1..K, ~s.ok \/ Pivots(s, diag) = {}
    PROVE  Diagonal(s, diag) \in States /\ ~Diagonal(s, diag).ok
<1>1. Diagonal(s, diag) = [s EXCEPT !.ok = FALSE]
  BY Zenon DEF Diagonal, Pivots
<1> QED BY <1>1 DEF States

LEMMA ColumnsTyped ==
    ASSUME NEW s \in States, NEW diag \in 1..K, s.ok, Pivots(s, diag) # {}, NEW row \in 1..K
    PROVE  LET p == Min(Pivots(s, diag))
           IN  /\ Columns(s, diag, row) \in SUBSET Bits
               /\ \A c \in Bits : c \in Columns(s, diag, row) <=>
                                    Swapped(diag, p, c) \in s.rows[row]
<1> DEFINE p == Min(Pivots(s, diag))
           swapped(c) == Swapped(diag, p, c)
<1>1. diag \in Bits /\ p \in Bits
  BY DiagonalSteps
<1>2. Columns(s, diag, row) = {swapped(c) : c \in s.rows[row]}
  BY Zenon DEF Columns
<1> HIDE DEF p
<1>3. \A c \in Bits : swapped(c) \in Bits /\ swapped(swapped(c)) = c
  BY <1>1, SwappedBits
<1>4. s.rows[row] \in SUBSET Bits
  BY DEF States, Rows
<1> HIDE DEF swapped
<1>5. /\ Columns(s, diag, row) \in SUBSET Bits
      /\ \A c \in Bits : c \in Columns(s, diag, row) <=> swapped(c) \in s.rows[row]
  <2>1. Columns(s, diag, row) \subseteq Bits
    BY <1>3, <1>4, <1>2
  <2>2. ASSUME NEW c \in Bits PROVE c \in Columns(s, diag, row) <=> swapped(c) \in s.rows[row]
    <3>1. ASSUME c \in Columns(s, diag, row) PROVE swapped(c) \in s.rows[row]
      <4>1. PICK e \in s.rows[row] : c = swapped(e)
        BY <1>2, <3>1
      <4>2. swapped(swapped(e)) = e
        BY <1>3, <1>4
      <4> QED BY <4>1, <4>2
    <3>2. ASSUME swapped(c) \in s.rows[row] PROVE c \in Columns(s, diag, row)
      BY <1>3, <1>2, <3>2
    <3> QED BY <3>1, <3>2
  <2> QED BY <2>1, <2>2
<1> QED BY <1>5 DEF swapped, p

LEMMA DiagonalTyped ==
    ASSUME NEW s \in States, NEW diag \in 1..K
    PROVE  Diagonal(s, diag) \in States
<1>1. CASE ~s.ok \/ Pivots(s, diag) = {}
  BY <1>1, DiagonalFails
<1>2. CASE s.ok /\ Pivots(s, diag) # {}
  <2> DEFINE t == Diagonal(s, diag)
             p == Min(Pivots(s, diag))
  <2>1. /\ diag \in Bits /\ p \in Bits /\ t.ok = TRUE
        /\ t.indices = [col \in Bits |-> s.indices[Swapped(diag, p, col)]]
        /\ t.rows = [row \in 1..K |->
                       IF Summed(s, diag, row)
                       THEN SymDiff(Columns(s, diag, row), Columns(s, diag, diag))
                       ELSE Columns(s, diag, row)]
        /\ t = [ok |-> TRUE, indices |-> t.indices, rows |-> t.rows]
    BY <1>2, DiagonalSteps
  <2> HIDE DEF t, p
  <2>2. t.indices \in [Bits -> Bits]
    BY <2>1, SwappedBits DEF States
  <2>3. \A row \in 1..K : Columns(s, diag, row) \in SUBSET Bits
    BY <1>2, ColumnsTyped
  <2>4. t.rows \in Rows
    BY <2>1, <2>3 DEF Rows, SymDiff
  <2>5. t \in States
    BY <2>1, <2>2, <2>4 DEF States
  <2> QED BY <2>5 DEF t
<1> QED BY <1>1, <1>2

LEMMA SymDiffOfBits ==
    ASSUME NEW indices \in Orders, NEW A \in SUBSET Bits, NEW B \in SUBSET Bits
    PROVE  BitsOf(indices, SymDiff(A, B)) = SymDiff(BitsOf(indices, A), BitsOf(indices, B))
BY DEF SymDiff, BitsOf, Orders

LEMMA BitsOfTyped ==
    ASSUME NEW indices \in [Bits -> Bits], NEW A \in SUBSET Bits
    PROVE  BitsOf(indices, A) \in SUBSET Bits
BY DEF BitsOf

\* One more column is that of the identity, and no word is lost or won.
LEMMA DiagonalReduces ==
    ASSUME NEW s \in States, NEW k \in 0..(K - 1), Reduced(s, k)
    PROVE  Reduced(Diagonal(s, k + 1), k + 1)
<1> DEFINE g == k + 1
           t == Diagonal(s, g)
           p == Min(Pivots(s, g))
           C(r) == Columns(s, g, r)
           W == RowBits(s)
           V == RowBits(t)
<1>1. g \in 1..K /\ K \in Nat
  BY OsdAssumption
<1>2. CASE ~s.ok \/ Pivots(s, g) = {}
  <2>1. ~t.ok
    BY <1>1, <1>2, DiagonalFails
  <2> QED BY <2>1 DEF Reduced
<1>3. CASE s.ok /\ Pivots(s, g) # {}
  <2>1. /\ g \in Bits /\ p \in Bits /\ p >= g /\ p \in s.rows[g]
        /\ t.indices = [col \in Bits |-> s.indices[Swapped(g, p, col)]]
        /\ t.rows = [row \in 1..K |-> IF Summed(s, g, row) THEN SymDiff(C(row), C(g)) ELSE C(row)]
    BY <1>1, <1>3, DiagonalSteps
  <2>2. \A r \in 1..K : /\ C(r) \in SUBSET Bits
                        /\ \A c \in Bits : c \in C(r) <=> Swapped(g, p, c) \in s.rows[r]
    BY <1>1, <1>3, ColumnsTyped
  <2>3. \A r \in 1..K : Summed(s, g, r) <=> r # g /\ g \in C(r)
    BY DEF Summed
  <2>4. \A r \in 1..K : C(r) = {Swapped(g, p, col) : col \in s.rows[r]}
    BY Zenon DEF Columns
  <2>5. k \in 0..K /\ (\A c \in 1..g : c \in 1..k \/ c = g) /\ \A c \in 1..k : c < g /\ c \in 1..K
    BY <1>1
  <2> HIDE DEF g, p, t, C
  <2>6. /\ s.indices \in Orders /\ s.rows \in Rows
        /\ \A r \in 1..K, c \in 1..k : c \in s.rows[r] <=> c = r
        /\ Span(W) = Codewords
    BY <1>3 DEF Reduced, States
  <2>7. /\ \A c \in Bits : Swapped(g, p, c) \in Bits /\ Swapped(g, p, Swapped(g, p, c)) = c
        /\ \A c \in Bits : c # g /\ c # p => Swapped(g, p, c) = c
        /\ Swapped(g, p, g) = p
    BY <2>1, SwappedBits
  <2>8. 1..K \subseteq Bits
    BY OsdAssumption DEF Bits
  <2>9. \A r \in 1..K, c \in 1..k : c \in C(r) <=> c = r
    <3> TAKE r \in 1..K, c \in 1..k
    <3>1. c \in Bits /\ c # g /\ c # p
      BY <2>1, <2>8, <2>5 DEF Bits
    <3>2. Swapped(g, p, c) = c
      BY <2>7, <3>1
    <3> QED BY <2>2, <2>6, <3>1, <3>2
  <2>10. g \in C(g)
    BY <1>1, <2>1, <2>2, <2>7
  <2>11. \A r \in 1..K, c \in 1..g : c \in t.rows[r] <=> c = r
    <3> TAKE r \in 1..K, c \in 1..g
    <3>1. t.rows[r] = IF r # g /\ g \in C(r) THEN SymDiff(C(r), C(g)) ELSE C(r)
      BY <2>1, <2>3
    <3>2. CASE c \in 1..k
      <4>1. (c \in C(r) <=> c = r) /\ (c \in C(g) <=> c = g) /\ c # g
        BY <1>1, <2>9, <2>5, <3>2
      <4> QED BY <3>1, <4>1 DEF SymDiff
    <3>3. CASE c = g
      BY <2>10, <3>1, <3>3 DEF SymDiff
    <3> QED BY <2>5, <3>2, <3>3
  <2>12. t.indices \in Orders
    <3>1. t.indices \in [Bits -> Bits] /\ \A c \in Bits : t.indices[c] = s.indices[Swapped(g, p, c)]
      BY <2>1, <2>6, <2>7 DEF Orders
    <3>2. \A c, d \in Bits : t.indices[c] = t.indices[d] => c = d
      <4> TAKE c, d \in Bits
      <4>1. t.indices[c] = t.indices[d] => Swapped(g, p, c) = Swapped(g, p, d)
        BY <2>6, <2>7, <3>1 DEF Orders
      <4>2. ASSUME Swapped(g, p, c) = Swapped(g, p, d) PROVE c = d
        <5>1. Swapped(g, p, Swapped(g, p, c)) = c /\ Swapped(g, p, Swapped(g, p, d)) = d
          BY <2>7
        <5> QED BY <4>2, <5>1
      <4> QED BY <4>1, <4>2
    <3>3. \A b \in Bits : \E c \in Bits : t.indices[c] = b
      <4> TAKE b \in Bits
      <4>1. PICK c \in Bits : s.indices[c] = b
        BY <2>6 DEF Orders
      <4>2. t.indices[Swapped(g, p, c)] = b
        BY <2>7, <3>1, <4>1
      <4> QED BY <2>7, <4>2
    <3> QED BY <3>1, <3>2, <3>3 DEF Orders
  <2>13. \A r \in 1..K : W[r] = BitsOf(s.indices, s.rows[r]) /\ V[r] = BitsOf(t.indices, t.rows[r])
    BY DEF RowBits
  <2>14. \A r \in 1..K : BitsOf(t.indices, C(r)) = W[r]
    <3> TAKE r \in 1..K
    <3>1. s.rows[r] \in SUBSET Bits
      BY <2>6 DEF Rows
    <3>2. \A c \in s.rows[r] : t.indices[Swapped(g, p, c)] = s.indices[c]
      BY <2>1, <2>7, <3>1
    <3>3. BitsOf(t.indices, C(r)) = {s.indices[c] : c \in s.rows[r]}
      BY <2>4, <3>2 DEF BitsOf
    <3> QED BY <2>13, <3>3, Zenon DEF BitsOf
  <2>15. \A r \in 1..K : V[r] = IF Summed(s, g, r) THEN SymDiff(W[r], W[g]) ELSE W[r]
    <3> TAKE r \in 1..K
    <3>1. CASE Summed(s, g, r)
      <4>1. V[r] = BitsOf(t.indices, SymDiff(C(r), C(g)))
        BY <2>1, <2>13, <3>1
      <4>2. BitsOf(t.indices, SymDiff(C(r), C(g)))
              = SymDiff(BitsOf(t.indices, C(r)), BitsOf(t.indices, C(g)))
        BY <1>1, <2>2, <2>12, SymDiffOfBits
      <4> QED BY <1>1, <2>14, <3>1, <4>1, <4>2, Zenon
    <3>2. CASE ~Summed(s, g, r)
      BY <2>1, <2>13, <2>14, <3>2
    <3> QED BY <3>1, <3>2
  <2>16. W \in Rows /\ V \in Rows
    <3>1. \A r \in 1..K : W[r] \in SUBSET Bits
      <4> TAKE r \in 1..K
      <4>1. s.indices \in [Bits -> Bits] /\ s.rows[r] \in SUBSET Bits
        BY <2>6 DEF Rows, Orders
      <4>2. BitsOf(s.indices, s.rows[r]) \in SUBSET Bits
        BY <4>1, BitsOfTyped
      <4> QED BY <2>13, <4>2
    <3>2. \A r \in 1..K : V[r] \in SUBSET Bits
      BY <1>1, <2>15, <3>1 DEF SymDiff
    <3>3. W = [r \in 1..K |-> W[r]] /\ V = [r \in 1..K |-> V[r]]
      BY DEF RowBits
    <3> HIDE DEF W, V
    <3> QED BY <3>1, <3>2, <3>3 DEF Rows
  <2> HIDE DEF W, V
  <2>17. Span(V) = Span(W)
    <3>1. \A r \in 1..K : V[r] = W[r] \/ \E q \in 1..K : V[r] = SymDiff(W[r], W[q])
      BY <1>1, <2>15
    <3>2. \A r \in 1..K : W[r] = V[r] \/ \E q \in 1..K : W[r] = SymDiff(V[r], V[q])
      <4> TAKE r \in 1..K
      <4>1. V[g] = W[g]
        BY <1>1, <2>3, <2>15
      <4>2. SymDiff(SymDiff(W[r], W[g]), W[g]) = W[r]
        BY DEF SymDiff
      <4> QED BY <1>1, <2>15, <4>1, <4>2
    <3>3. Span(V) \subseteq Span(W)
      BY <2>16, <3>1, SpanWithin
    <3>4. Span(W) \subseteq Span(V)
      BY <2>16, <3>2, SpanWithin
    <3> QED BY <3>3, <3>4
  <2> QED BY <2>6, <2>11, <2>12, <2>17, Zenon DEF Reduced, g, t, V
<1> QED BY <1>2, <1>3

LEMMA LargestPicks == ASSUME NEW n \in Nat PROVE Picking([d \in SUBSET (1..n) |-> Max(d)], 1..n)
BY LargestIn DEF Picking

\* The generator in the order of reliability.
Start(rx) == [ok |-> TRUE, indices |-> Order(rx),
              rows |-> [row \in 1..K |-> {col \in Bits : Order(rx)[col] \in Generator[row]}]]

LEMMA StartReduced == ASSUME NEW rx \in Words PROVE Start(rx) \in States /\ Reduced(Start(rx), 0)
<1> DEFINE s == Start(rx)
           order == Order(rx)
<1>1. order \in Orders
  BY OrderIsOrder
<1> HIDE DEF order
<1>2. s = [ok |-> TRUE, indices |-> order,
           rows |-> [row \in 1..K |-> {col \in Bits : order[col] \in Generator[row]}]]
  BY Zenon DEF Start, order
<1> HIDE DEF s
<1>3. s.ok = TRUE /\ s.indices = order
      /\ \A r \in 1..K : s.rows[r] = {col \in Bits : order[col] \in Generator[r]}
  BY <1>2
<1>4. s \in States
  BY <1>1, <1>2 DEF States, Orders, Rows
<1>5. Generator \in [1..K -> SUBSET Bits]
  BY OsdAssumption DEF Bits
<1>6. \A r \in 1..K : BitsOf(order, s.rows[r]) = Generator[r]
  BY <1>1, <1>3, <1>5 DEF BitsOf, Orders
<1>7. RowBits(s) = Generator
  <2>1. RowBits(s) = [r \in 1..K |-> Generator[r]]
    BY <1>3, <1>6, Zenon DEF RowBits
  <2> QED BY <1>5, <2>1
<1>8. Span(RowBits(s)) = Codewords
  BY <1>7 DEF Span, Codewords
<1> QED BY <1>1, <1>3, <1>4, <1>8 DEF Reduced, s

\* When the elimination succeeds, the basis is that of the identity, and the words
\* are those of the code.
LEMMA DiagonalizedReduced ==
    ASSUME NEW rx \in Words
    PROVE  Diagonalized(rx) \in States /\ Reduced(Diagonalized(rx), K)
<1> DEFINE start == Start(rx)
           seq == [diag \in 1..K |-> diag]
           step == [p \in States \X (1..K) |-> Diagonal(p[1], p[2])]
           pick == [d \in SUBSET (1..K) |-> Max(d)]
           Fold(f) == f = [d \in SUBSET DOMAIN seq |->
                             IF d = {} THEN start ELSE Diagonal(f[d \ {Max(d)}], seq[Max(d)])]
           fold == CHOOSE f : Fold(f)
<1>1. K \in Nat /\ IsFiniteSet(1..K) /\ DOMAIN seq = 1..K /\ \A i \in 1..K : seq[i] = i
  BY OsdAssumption, FS_Interval
<1>2. Diagonalized(rx) = fold[DOMAIN seq]
  BY Zenon DEF Diagonalized, FoldLeft, MapThenFoldSet, Start
<1>3. start \in States /\ Reduced(start, 0)
  BY StartReduced
<1>4. step \in [States \X (1..K) -> States]
  BY DiagonalTyped
<1> HIDE DEF start
<1>5. PICK f \in [SUBSET (1..K) -> States] : FoldOf(f, start, step, pick, 1..K)
  <2> HIDE DEF step, pick
  <2>1. Picking(pick, 1..K)
    BY <1>1, LargestPicks DEF pick
  <2> QED BY <1>1, <1>3, <1>4, <2>1, FoldOfExists
<1> HIDE DEF seq
<1>6. Fold(f)
  <2>1. ASSUME NEW d \in SUBSET (1..K), d # {}
        PROVE  f[d] = Diagonal(f[d \ {Max(d)}], seq[Max(d)])
    <3>1. Max(d) \in 1..K /\ f[d \ {Max(d)}] \in States /\ pick[d] = Max(d)
      BY <1>1, <2>1, LargestIn
    <3>2. f[d] = step[<<f[d \ {Max(d)}], Max(d)>>]
      BY <1>5, <2>1, <3>1 DEF FoldOf
    <3> QED BY <1>1, <3>1, <3>2
  <2>2. f[{}] = start
    BY <1>5 DEF FoldOf
  <2> QED BY <1>1, <2>1, <2>2
<1>7. Fold(fold)
  <2> HIDE DEF Fold
  <2> QED BY <1>6, Zenon
<1> HIDE DEF fold
<1>8. IsFoldFrom(fold, start, step, K, States)
  <2>1. fold[{}] = start
    BY <1>7
  <2>2. ASSUME NEW d \in SUBSET (1..K), d # {}, fold[d \ {Max(d)}] \in States
        PROVE  fold[d] = step[<<fold[d \ {Max(d)}], Max(d)>>]
    <3>1. Max(d) \in 1..K
      BY <1>1, <2>2, LargestIn
    <3>2. fold[d] = Diagonal(fold[d \ {Max(d)}], seq[Max(d)])
      BY <1>1, <1>7, <2>2
    <3> QED BY <1>1, <2>2, <3>1, <3>2
  <2> HIDE DEF step
  <2> QED BY <2>1, <2>2, Zenon DEF IsFoldFrom
<1>9. PICK c : Iterates(c, start, step, K, States, fold[1..K])
  <2> HIDE DEF step
  <2> QED BY <1>1, <1>3, <1>4, <1>8, FoldIterates, Zenon
<1> DEFINE G == {k \in 0..K : Reduced(c[k], k)}
<1>10. c \in [0..K -> States] /\ c[0] = start /\ c[K] = fold[1..K]
  BY <1>9 DEF Iterates
<1>11. 0 \in G
  BY <1>1, <1>3, <1>10
<1>12. ASSUME NEW k \in 0..(K - 1), k \in G PROVE k + 1 \in G
  <2>1. k + 1 \in 1..K /\ k + 1 \in 0..K /\ (k + 1) - 1 = k /\ k \in 0..K
    BY <1>1
  <2>2. c[k+1] = step[<<c[k], k + 1>>]
    BY <1>9, <2>1 DEF Iterates
  <2>3. c[k+1] = Diagonal(c[k], k + 1)
    BY <1>10, <2>1, <2>2
  <2>4. Reduced(Diagonal(c[k], k + 1), k + 1)
    BY <1>10, <1>12, <2>1, DiagonalReduces
  <2> QED BY <2>1, <2>3, <2>4
<1>13. \A k \in 0..K : k \in G
  <2> HIDE DEF G
  <2> QED BY <1>1, <1>11, <1>12, UpTo
<1>14. K \in 0..K
  BY <1>1
<1>15. c[K] \in States /\ Reduced(c[K], K)
  BY <1>10, <1>13, <1>14
<1>16. Diagonalized(rx) = c[K]
  BY <1>1, <1>2, <1>10, Zenon
<1> QED BY <1>15, <1>16, Zenon

\* Sequences joined one after the other.
Joined(c, s, n) == c[1] = s[1] /\ \A k \in 2..n : c[k] = c[k-1] \o s[k]

LEMMA FlattenJoins ==
    ASSUME NEW X, NEW n \in Nat \ {0}, NEW s \in [1..n -> Seq(X)]
    PROVE  \E c \in [1..n -> Seq(X)] : Joined(c, s, n) /\ c[n] = FlattenSeq(s)
<1> DEFINE G == {m \in 0..n : m >= 1 => \E c \in [1..m -> Seq(X)] : Joined(c, s, m)}
<1>1. 0 \in G
  OBVIOUS
<1>2. ASSUME NEW m \in 0..(n - 1), m \in G PROVE m + 1 \in G
  <2>1. m + 1 \in 0..n /\ m + 1 \in 1..n /\ m \in Nat
    OBVIOUS
  <2>2. CASE m = 0
    <3> DEFINE c == [k \in 1..1 |-> s[1]]
    <3>1. c \in [1..1 -> Seq(X)] /\ Joined(c, s, 1)
      BY DEF Joined
    <3> HIDE DEF c
    <3> QED BY <2>1, <2>2, <3>1
  <2>3. CASE m >= 1
    <3>1. PICK c \in [1..m -> Seq(X)] : Joined(c, s, m)
      BY <1>2, <2>3
    <3> DEFINE e == [k \in 1..(m + 1) |-> IF k = m + 1 THEN c[m] \o s[k] ELSE c[k]]
    <3>2. c[m] \in Seq(X) /\ s[m + 1] \in Seq(X)
      BY <2>1, <2>3
    <3>3. c[m] \o s[m + 1] \in Seq(X)
      BY <3>2, ConcatProperties
    <3>4. e \in [1..(m + 1) -> Seq(X)]
      <4>1. \A k \in 1..(m + 1) : k # m + 1 => k \in 1..m
        BY <2>1
      <4> QED BY <3>3, <4>1
    <3>5. Joined(e, s, m + 1)
      <4>1. e[1] = s[1]
        BY <2>1, <2>3, <3>1 DEF Joined
      <4>2. ASSUME NEW k \in 2..(m + 1) PROVE e[k] = e[k-1] \o s[k]
        <5>1. k - 1 \in 1..m /\ k - 1 # m + 1 /\ k \in 1..(m + 1) /\ k - 1 \in 1..(m + 1)
          BY <2>1
        <5>2. e[k-1] = c[k-1]
          BY <5>1
        <5>3. CASE k = m + 1
          <6>1. k - 1 = m
            BY <2>1, <5>3
          <6> QED BY <5>1, <5>2, <5>3, <6>1, Zenon
        <5>4. CASE k # m + 1
          <6>1. k \in 2..m
            BY <2>1, <5>4
          <6>2. c[k] = c[k-1] \o s[k]
            BY <3>1, <6>1, Zenon DEF Joined
          <6> QED BY <5>1, <5>2, <5>4, <6>2, Zenon
        <5> QED BY <5>3, <5>4
      <4> QED BY <4>1, <4>2 DEF Joined
    <3> HIDE DEF e
    <3> QED BY <2>1, <3>4, <3>5
  <2> QED BY <2>1, <2>2, <2>3
<1>3. PICK c \in [1..n -> Seq(X)] : Joined(c, s, n)
  <2> HIDE DEF G
  <2>1. n \in Nat /\ \A k \in 0..n : k \in G
    BY <1>1, <1>2, UpTo
  <2>2. n \in 0..n /\ n >= 1
    OBVIOUS
  <2> QED BY <2>1, <2>2, Zenon DEF G
<1> DEFINE Rec(f) == f = [i \in 1..Len(s) |-> IF i = 1 THEN s[i] ELSE f[i-1] \o s[i]]
           flat == CHOOSE f : Rec(f)
<1>4. Len(s) = n /\ Len(s) # 0
  <2>1. s \in Seq(Seq(X)) /\ DOMAIN s = 1..n
    BY IsASeq
  <2>2. DOMAIN s = 1..Len(s) /\ Len(s) \in Nat
    BY <2>1, LenProperties
  <2> QED BY <2>1, <2>2
<1>5. Rec(c)
  <2>1. ASSUME NEW i \in 1..n, i # 1 PROVE c[i] = c[i-1] \o s[i]
    <3>1. i \in 2..n
      BY <2>1
    <3> QED BY <1>3, <3>1, Zenon DEF Joined
  <2>2. c[1] = s[1]
    BY <1>3 DEF Joined
  <2>3. c = [i \in 1..n |-> c[i]]
    OBVIOUS
  <2> QED BY <1>4, <2>1, <2>2, <2>3, Zenon
<1>6. Rec(flat)
  <2> HIDE DEF Rec
  <2> QED BY <1>5, Zenon
<1>7. FlattenSeq(s) = flat[Len(s)]
  BY <1>4, Zenon DEF FlattenSeq
<1> HIDE DEF flat
<1>8. \A i \in 1..n : flat[i] = IF i = 1 THEN s[i] ELSE flat[i-1] \o s[i]
  BY <1>4, <1>6, Zenon
<1> HIDE DEF Rec
<1> DEFINE H == {m \in 0..n : m >= 1 => flat[m] = c[m]}
<1>9. 0 \in H
  OBVIOUS
<1>10. ASSUME NEW m \in 0..(n - 1), m \in H PROVE m + 1 \in H
  <2>1. m + 1 \in 1..n /\ m + 1 \in 0..n /\ (m + 1) - 1 = m
    OBVIOUS
  <2>2. flat[m + 1] = c[m + 1]
    <3>1. CASE m = 0
      BY <1>3, <1>8, <2>1, <3>1 DEF Joined
    <3>2. CASE m # 0
      <4>1. m + 1 # 1 /\ m + 1 \in 2..n /\ m >= 1
        BY <3>2
      <4>2. flat[m + 1] = flat[m] \o s[m + 1]
        BY <1>8, <2>1, <4>1
      <4>3. c[m + 1] = c[(m + 1) - 1] \o s[m + 1]
        BY <1>3, <4>1, Zenon DEF Joined
      <4> QED BY <1>10, <2>1, <4>1, <4>2, <4>3
    <3> QED BY <3>1, <3>2
  <2> QED BY <2>1, <2>2
<1>11. \A k \in 0..n : k \in H
  <2> HIDE DEF H
  <2> QED BY <1>9, <1>10, UpTo
<1>12. n \in 0..n /\ n >= 1
  OBVIOUS
<1>13. flat[n] = c[n]
  BY <1>11, <1>12
<1> QED BY <1>3, <1>4, <1>7, <1>13, Zenon
------------------------------------------------------------------------------
\* The pairs of the search, and those with the same first bit, in order.
Couples == (1..K) \X (1..K)
Block(k) == [j \in 1..(K + 1 - k) |-> <<K + 1 - k, K + 2 - k - j>>]

LEMMA BlockFromRight ==
    ASSUME NEW k \in 1..K, NEW m, m = K + 1 - k
    PROVE  /\ Block(k) \in Seq(Couples) /\ Len(Block(k)) = m
           /\ \A j \in 1..m : /\ Block(k)[j] = <<m, m + 1 - j>>
                              /\ Block(k)[j][1] = m /\ Block(k)[j][2] = m + 1 - j
<1>1. K \in Nat /\ m \in 1..K /\ m \in Nat
  BY OsdAssumption
<1>2. \A j \in 1..m : K + 2 - k - j = m + 1 - j /\ m + 1 - j \in 1..K
  BY <1>1
<1>3. Block(k) = [j \in 1..m |-> <<m, m + 1 - j>>]
  <2>1. Block(k) = [j \in 1..m |-> <<m, K + 2 - k - j>>]
    BY Zenon DEF Block
  <2> QED BY <1>2, <2>1, Zenon
<1>4. \A j \in 1..m : Block(k)[j] = <<m, m + 1 - j>>
  BY <1>3
<1>5. Block(k) \in [1..m -> Couples]
  <2>1. \A j \in 1..m : <<m, m + 1 - j>> \in Couples
    BY <1>1, <1>2 DEF Couples
  <2> QED BY <1>3, <2>1
<1>6. Block(k) \in Seq(Couples) /\ DOMAIN Block(k) = 1..m
  BY <1>1, <1>5, IsASeq
<1>7. DOMAIN Block(k) = 1..Len(Block(k)) /\ Len(Block(k)) \in Nat
  BY <1>6, LenProperties
<1>8. Len(Block(k)) = m
  BY <1>1, <1>6, <1>7
<1> QED BY <1>4, <1>6, <1>8

\* The first k blocks of the search: every pair of a flip before it, and each one of
\* two bits right behind one of the same first bit.
Blocks(q, k) ==
    /\ \A i \in 1..Len(q) : /\ q[i][1] \in (K + 1 - k)..K /\ q[i][2] \in 1..q[i][1]
                            /\ q[i][2] # q[i][1] => i > 1 /\ q[i-1][1] = q[i][1]
    /\ \A b \in (K + 1 - k)..K : \A f \in 1..b : \E i \in 1..Len(q) : q[i] = <<b, f>>

LEMMA BlockBlocks == Blocks(Block(1), 1)
<1>1. K \in Nat /\ 1 \in 1..K /\ K + 1 - 1 = K
  BY OsdAssumption
<1>2. Len(Block(1)) = K
      /\ \A j \in 1..K : /\ Block(1)[j] = <<K, K + 1 - j>>
                         /\ Block(1)[j][1] = K /\ Block(1)[j][2] = K + 1 - j
  BY <1>1, BlockFromRight
<1>3. \A i \in 1..K : K + 1 - i \in 1..K /\ (K + 1 - i # K => i > 1 /\ i - 1 \in 1..K)
  BY <1>1
<1>4. ASSUME NEW b \in K..K, NEW f \in 1..b PROVE \E i \in 1..K : Block(1)[i] = <<b, f>>
  <2>1. b = K /\ K + 1 - f \in 1..K /\ K + 1 - (K + 1 - f) = f
    BY <1>1
  <2> QED BY <1>2, <2>1
<1>5. ASSUME NEW i \in 1..K
      PROVE  /\ Block(1)[i][1] \in K..K /\ Block(1)[i][2] \in 1..Block(1)[i][1]
             /\ Block(1)[i][2] # Block(1)[i][1] => i > 1 /\ Block(1)[i-1][1] = Block(1)[i][1]
  <2>1. K \in K..K /\ K + 1 - i \in 1..K
    BY <1>1
  <2>2. Block(1)[i][1] = K /\ Block(1)[i][2] = K + 1 - i
    BY <1>2
  <2>3. K + 1 - i # K => i > 1 /\ Block(1)[i-1][1] = K
    BY <1>2, <1>3
  <2> QED BY <2>1, <2>2, <2>3, Zenon
<1>6. Len(Block(1)) = K /\ K + 1 - 1 = K
  BY <1>1, <1>2
<1> QED BY <1>4, <1>5, <1>6, Zenon DEF Blocks

LEMMA BlocksJoin ==
    ASSUME NEW k \in 2..K, NEW q \in Seq(Couples), Blocks(q, k - 1)
    PROVE  Blocks(q \o Block(k), k)
<1> DEFINE B == Block(k)
           r == q \o B
           n == Len(q)
<1>1. PICK m : m = K + 1 - k
  OBVIOUS
<1>2. K \in Nat /\ k \in 1..K /\ m \in 1..K /\ m \in Nat /\ K + 1 - (k - 1) = m + 1
  BY <1>1, OsdAssumption
<1>3. /\ B \in Seq(Couples) /\ Len(B) = m
      /\ \A j \in 1..m : B[j] = <<m, m + 1 - j>> /\ B[j][1] = m /\ B[j][2] = m + 1 - j
  <2>1. k \in 1..K
    BY <1>2
  <2>2. /\ Block(k) \in Seq(Couples) /\ Len(Block(k)) = m
        /\ \A j \in 1..m : /\ Block(k)[j] = <<m, m + 1 - j>>
                           /\ Block(k)[j][1] = m /\ Block(k)[j][2] = m + 1 - j
    BY <1>1, <2>1, BlockFromRight
  <2> QED BY <2>2
<1> HIDE DEF B
<1>4. n \in Nat /\ Len(r) = n + m /\ \A i \in 1..(n + m) : r[i] = IF i <= n THEN q[i] ELSE B[i-n]
  <2>1. Len(r) = n + m /\ n \in Nat
    BY <1>3, ConcatProperties, LenProperties
  <2>2. \A i \in 1..(Len(q) + Len(B)) : r[i] = IF i <= Len(q) THEN q[i] ELSE B[i - Len(q)]
    BY <1>3, ConcatProperties
  <2> QED BY <1>3, <2>1, <2>2
<1> HIDE DEF r, n
<1>5. ASSUME NEW i \in 1..(n + m)
      PROVE  /\ r[i][1] \in m..K /\ r[i][2] \in 1..r[i][1]
             /\ r[i][2] # r[i][1] => i > 1 /\ r[i-1][1] = r[i][1]
  <2>1. CASE i <= n
    <3>1. i \in 1..n /\ (i > 1 => i - 1 \in 1..(n + m) /\ i - 1 <= n)
      BY <1>2, <1>4, <2>1
    <3>2. /\ q[i][1] \in (m + 1)..K /\ q[i][2] \in 1..q[i][1]
          /\ q[i][2] # q[i][1] => i > 1 /\ q[i-1][1] = q[i][1]
      BY <1>1, <1>2, <3>1 DEF Blocks, n
    <3>3. r[i] = q[i] /\ (i > 1 => r[i-1] = q[i-1])
      BY <1>4, <2>1, <3>1
    <3>4. q[i][1] \in m..K
      BY <1>2, <3>2
    <3> QED BY <3>2, <3>3, <3>4
  <2>2. CASE i > n
    <3>1. i - n \in 1..m /\ ~(i <= n)
      BY <1>2, <1>4, <2>2
    <3>2. r[i] = B[i-n]
      BY <1>4, <3>1
    <3>3. r[i][1] = m /\ r[i][2] = m + 1 - (i - n)
      BY <1>3, <3>1, <3>2
    <3>4. m + 1 - (i - n) \in 1..m /\ m \in m..K
      BY <1>2, <3>1
    <3>5. ASSUME m + 1 - (i - n) # m PROVE i > 1 /\ r[i-1][1] = m
      <4>1. i - 1 \in 1..(n + m) /\ ~(i - 1 <= n) /\ (i - 1) - n \in 1..m /\ i > 1
        BY <1>2, <1>4, <2>2, <3>1, <3>5
      <4>2. r[i-1] = B[(i-1) - n]
        BY <1>4, <4>1
      <4> QED BY <1>3, <4>1, <4>2
    <3> QED BY <3>3, <3>4, <3>5
  <2> QED BY <1>2, <1>4, <2>1, <2>2
<1>6. ASSUME NEW b \in m..K, NEW f \in 1..b PROVE \E i \in 1..(n + m) : r[i] = <<b, f>>
  <2>1. CASE b = m
    <3>1. f \in 1..m /\ m + 1 - f \in 1..m /\ m + 1 - (m + 1 - f) = f
      BY <1>2, <2>1
    <3>2. /\ n + (m + 1 - f) \in 1..(n + m) /\ ~(n + (m + 1 - f) <= n)
          /\ (n + (m + 1 - f)) - n = m + 1 - f
      BY <1>2, <1>4, <3>1
    <3>3. r[n + (m + 1 - f)] = B[m + 1 - f]
      BY <1>4, <3>2
    <3>4. B[m + 1 - f] = <<b, f>>
      BY <1>3, <2>1, <3>1
    <3> QED BY <3>2, <3>3, <3>4
  <2>2. CASE b # m
    <3>1. b \in (m + 1)..K
      BY <1>2, <2>2
    <3>2. PICK i \in 1..n : q[i] = <<b, f>>
      BY <1>1, <1>2, <3>1 DEF Blocks, n
    <3>3. i \in 1..(n + m) /\ i <= n
      BY <1>2, <1>4
    <3> QED BY <1>4, <3>2, <3>3
  <2> QED BY <2>1, <2>2
<1>7. Blocks(r, k)
  BY <1>1, <1>4, <1>5, <1>6 DEF Blocks
<1> QED BY <1>7 DEF r, B

LEMMA PairsAreBlocks == Pairs \in Seq(Couples) /\ Blocks(Pairs, K)
<1> DEFINE s == [k \in 1..K |-> Block(k)]
<1>1. K \in Nat \ {0} /\ 1 \in 1..K
  BY OsdAssumption
<1>2. s \in [1..K -> Seq(Couples)]
  BY BlockFromRight
<1>3. Pairs = FlattenSeq(s)
  BY Zenon DEF Pairs, Block
<1>4. \A k \in 1..K : s[k] = Block(k)
  OBVIOUS
<1> HIDE DEF s
<1>5. PICK c \in [1..K -> Seq(Couples)] : Joined(c, s, K) /\ c[K] = FlattenSeq(s)
  BY <1>1, <1>2, FlattenJoins
<1> DEFINE G == {k \in 0..K : k >= 1 => Blocks(c[k], k)}
<1>6. 0 \in G
  BY <1>1
<1>7. ASSUME NEW k \in 0..(K - 1), k \in G PROVE k + 1 \in G
  <2>1. k + 1 \in 1..K /\ k + 1 \in 0..K /\ (k + 1) - 1 = k
    BY <1>1
  <2>2. CASE k = 0
    <3>1. k + 1 = 1 /\ c[1] = Block(1)
      BY <1>1, <1>4, <1>5, <2>2 DEF Joined
    <3> QED BY <2>1, <3>1, BlockBlocks
  <2>3. CASE k # 0
    <3>1. k >= 1 /\ k + 1 \in 2..K /\ k \in 1..K
      BY <1>1, <2>1, <2>3
    <3>2. c[k+1] = c[k] \o Block(k + 1)
      BY <1>4, <1>5, <2>1, <3>1 DEF Joined
    <3>3. c[k] \in Seq(Couples) /\ Blocks(c[k], k)
      BY <1>7, <3>1
    <3>4. Blocks(c[k] \o Block(k + 1), k + 1)
      BY <2>1, <3>1, <3>3, BlocksJoin
    <3> QED BY <2>1, <3>2, <3>4
  <2> QED BY <2>2, <2>3
<1>8. \A k \in 0..K : k \in G
  <2> HIDE DEF G
  <2> QED BY <1>1, <1>6, <1>7, UpTo
<1>9. K \in 0..K /\ K >= 1 /\ K \in 1..K
  BY <1>1
<1>10. c[K] \in Seq(Couples) /\ Blocks(c[K], K)
  BY <1>8, <1>9
<1> QED BY <1>3, <1>5, <1>10

\* The word of a pair of the search, and how it differs from the hard decisions.
One(rows, base, b) == SymDiff(base, rows[b])
PairWord(rows, base, b, f) ==
    IF f = b THEN One(rows, base, b) ELSE SymDiff(One(rows, base, b), rows[f])
Base(rows, hard) == Encode(rows, hard \cap (1..K))
Fits(hard, b, f, word) == Cardinality({b, f}) + Cardinality(Pruning(SymDiff(word, hard))) <= NTheta
Away(d, rx, hard, word) == Weight(d.indices, rx, SymDiff(word, hard))

LEMMA BaseWord ==
    ASSUME NEW rows \in Rows, Identity(rows), NEW hard \in SUBSET Bits
    PROVE  /\ Base(rows, hard) \in Span(rows) /\ Base(rows, hard) \in SUBSET Bits
           /\ SymDiff(Base(rows, hard), hard) \cap (1..K) = {}
<1> DEFINE M == hard \cap (1..K)
           e == Encode(rows, M)
<1>1. M \in SUBSET (1..K)
  OBVIOUS
<1>2. e \cap (1..K) = M
  BY <1>1, EncodeIdentity
<1>3. e \in SUBSET Bits
  <2>1. 1 \in 1..K
    BY OsdAssumption
  <2> QED BY <1>1, <2>1, EncodeToggles
<1>4. e \in Span(rows)
  BY <1>1 DEF Span
<1> HIDE DEF e
<1>5. SymDiff(e, hard) \cap (1..K) = {}
  BY <1>2 DEF SymDiff
<1> QED BY <1>3, <1>4, <1>5 DEF e, Base

LEMMA PairIsWord ==
    ASSUME NEW rows \in Rows, Identity(rows), NEW hard \in SUBSET Bits,
           NEW b \in 1..K, NEW f \in 1..K
    PROVE  LET word == PairWord(rows, Base(rows, hard), b, f)
           IN  /\ word \in Span(rows) /\ word \in SUBSET Bits
               /\ One(rows, Base(rows, hard), b) \in SUBSET Bits
               /\ SymDiff(word, hard) \cap (1..K) = {b, f}
<1> DEFINE M == hard \cap (1..K)
           e == Encode(rows, M)
           m == SymDiff(M, {b})
           g == SymDiff(e, rows[b])
           n == SymDiff(m, {f})
           h == SymDiff(g, rows[f])
<1>1. M \in SUBSET (1..K)
  OBVIOUS
<1>2. e \cap (1..K) = M /\ e \in SUBSET Bits /\ Encode(rows, m) = g
  <2>1. e \cap (1..K) = M
    BY <1>1, EncodeIdentity
  <2>2. e \in SUBSET Bits /\ Encode(rows, m) = g
    BY <1>1, EncodeToggles
  <2> QED BY <2>1, <2>2
<1>3. m \in SUBSET (1..K)
  BY DEF SymDiff
<1> HIDE DEF m
<1>4. Encode(rows, n) = SymDiff(Encode(rows, m), rows[f]) /\ Encode(rows, m) \in SUBSET Bits
  BY <1>3, EncodeToggles
<1>5. n \in SUBSET (1..K)
  BY <1>3 DEF SymDiff
<1> HIDE DEF e
<1>6. g \in Span(rows) /\ h \in Span(rows)
  <2>1. Encode(rows, n) = h
    BY <1>2, <1>4
  <2> HIDE DEF g, h, n
  <2> QED BY <1>2, <1>3, <1>5, <2>1 DEF Span
<1>7. rows[b] \in SUBSET Bits /\ rows[f] \in SUBSET Bits
      /\ rows[b] \cap (1..K) = {b} /\ rows[f] \cap (1..K) = {f}
  <2>1. 1..K \subseteq Bits
    BY OsdAssumption DEF Bits
  <2> QED BY <2>1 DEF Rows, Identity
<1>8. g \in SUBSET Bits /\ h \in SUBSET Bits
  BY <1>2, <1>7 DEF SymDiff
<1>9. SymDiff(g, hard) \cap (1..K) = {b}
  BY <1>2, <1>7 DEF SymDiff
<1>10. f # b => SymDiff(h, hard) \cap (1..K) = {b, f}
  BY <1>2, <1>7 DEF SymDiff
<1>11. One(rows, Base(rows, hard), b) = g
  BY Zenon DEF One, Base, e
<1>12. PairWord(rows, Base(rows, hard), b, f) = IF f = b THEN g ELSE h
  BY <1>11, Zenon DEF PairWord
<1> HIDE DEF g, h
<1> QED BY <1>6, <1>8, <1>9, <1>10, <1>11, <1>12

\* There are no other words of the code as near as these to the hard decisions in
\* the basis.
LEMMA NearIsPair ==
    ASSUME NEW rows \in Rows, Identity(rows), NEW hard \in SUBSET Bits, NEW word \in Span(rows)
    PROVE  LET basis == SymDiff(word, hard) \cap (1..K)
           IN  /\ basis = {} => word = Base(rows, hard)
               /\ \A b, f \in 1..K : basis = {b, f} => word = PairWord(rows, Base(rows, hard), b, f)
<1> DEFINE M == hard \cap (1..K)
           e == Encode(rows, M)
           basis == SymDiff(word, hard) \cap (1..K)
<1>1. M \in SUBSET (1..K)
  OBVIOUS
<1>2. PICK m \in SUBSET (1..K) : word = Encode(rows, m)
  BY DEF Span
<1>3. word \cap (1..K) = m
  BY <1>2, EncodeIdentity
<1>4. basis = SymDiff(m, M)
  BY <1>3 DEF SymDiff
<1>5. basis = {} => m = M
  BY <1>1, <1>4 DEF SymDiff
<1>6. ASSUME NEW b \in 1..K, NEW f \in 1..K, basis = {b, f}
      PROVE  word = PairWord(rows, Base(rows, hard), b, f)
  <2> DEFINE n == SymDiff(M, {b})
  <2>1. n \in SUBSET (1..K)
    BY DEF SymDiff
  <2>2. Encode(rows, n) = SymDiff(e, rows[b])
    BY <1>1, EncodeToggles
  <2>3. Encode(rows, SymDiff(n, {f})) = SymDiff(Encode(rows, n), rows[f])
    <3> HIDE DEF n
    <3> QED BY <2>1, EncodeToggles
  <2>4. m = IF f = b THEN n ELSE SymDiff(n, {f})
    <3>1. SymDiff(m, M) = {b, f}
      BY <1>4, <1>6
    <3>2. CASE f = b
      <4>1. m = n
        BY <3>1, <3>2 DEF SymDiff
      <4> QED BY <3>2, <4>1
    <3>3. CASE f # b
      <4>1. m = SymDiff(n, {f})
        BY <3>1, <3>3 DEF SymDiff
      <4> QED BY <3>3, <4>1
    <3> QED BY <3>2, <3>3
  <2> HIDE DEF n, e
  <2> QED BY <1>2, <2>2, <2>3, <2>4, Zenon DEF PairWord, One, Base, e
<1>7. basis = {} => word = Base(rows, hard)
  BY <1>2, <1>5, Zenon DEF Base
<1> HIDE DEF basis
<1>8. \A b, f \in 1..K : basis = {b, f} => word = PairWord(rows, Base(rows, hard), b, f)
  BY <1>6
<1> QED BY <1>7, <1>8, Zenon DEF basis

LEMMA OneOrTwo ==
    ASSUME NEW S \in SUBSET (1..K), S # {}, Cardinality(S) <= 2
    PROVE  \E b \in 1..K : \E f \in 1..b : S = {b, f}
<1>1. IsFiniteSet(S) /\ K \in Nat
  <2>1. IsFiniteSet(1..K)
    BY OsdAssumption, FS_Interval
  <2>2. IsFiniteSet(S)
    BY <2>1, FS_Subset
  <2> QED BY <2>2, OsdAssumption
<1>2. PICK b \in S : TRUE
  OBVIOUS
<1>3. b \in 1..K
  OBVIOUS
<1>4. CASE S = {b}
  <2>1. b \in 1..b /\ S = {b, b}
    BY <1>1, <1>3, <1>4
  <2> QED BY <1>3, <2>1
<1>5. CASE S # {b}
  <2>1. PICK f \in S : f # b
    BY <1>5
  <2> DEFINE U == S \ {b}
             V == U \ {f}
  <2>2. f \in U /\ f \in 1..K
    BY <2>1
  <2>3. IsFiniteSet(U) /\ Cardinality(U) = Cardinality(S) - 1
    BY <1>1, <1>2, FS_RemoveElement
  <2> HIDE DEF U
  <2>4. IsFiniteSet(V) /\ Cardinality(V) = Cardinality(U) - 1
    BY <2>2, <2>3, FS_RemoveElement
  <2> HIDE DEF V
  <2>5. Cardinality(V) \in Nat /\ Cardinality(S) \in Nat
    BY <1>1, <2>4, FS_CardinalityType
  <2>6. Cardinality(V) = 0
    BY <2>3, <2>4, <2>5
  <2>7. V = {}
    BY <2>4, <2>6, FS_EmptySet
  <2>8. S = {b, f} /\ S = {f, b}
    <3>1. \A x : x \in S <=> x = b \/ x = f
      BY <2>1, <2>7 DEF U, V
    <3> QED BY <3>1
  <2>9. f \in 1..b \/ b \in 1..f
    BY <1>1, <1>3, <2>2
  <2> QED BY <1>3, <2>2, <2>8, <2>9
<1> QED BY <1>4, <1>5
------------------------------------------------------------------------------
\* What a step of the search starts from and leaves.
Searches == [best : SUBSET Bits, distance : Nat, e2sub : SUBSET Bits]

\* The differences that a step of the search looks at, and how far its word is.
TailOf(rows, base, hard, e2sub, b, f) ==
    IF f = b THEN TailColumns(SymDiff(SymDiff(base, rows[b]), hard))
    ELSE Differences(rows, e2sub, f)
Second(d, rx, base, hard, b, f) ==
    IF f # b /\ (f \in SymDiff(SymDiff(base, d.rows[b]), d.rows[f])) # (f \in hard)
    THEN Weight(d.indices, rx, {f}) ELSE 0
Measured(d, rx, base, hard, e2sub, b, f) ==
    Weight(d.indices, rx, {b}) + Second(d, rx, base, hard, b, f)
      + Weight(d.indices, rx, TailOf(d.rows, base, hard, e2sub, b, f))
Points(rows, base, hard, e2sub, b, f) ==
    Cardinality({b, f}) + Cardinality(Pruning(TailOf(rows, base, hard, e2sub, b, f)))

LEMMA FlipSteps ==
    ASSUME NEW d, NEW rx, NEW base, NEW hard, NEW known, NEW s, NEW b, NEW f, NEW pair,
           pair[1] = b, pair[2] = f
    PROVE  LET first == IF f = b THEN TailColumns(SymDiff(SymDiff(base, d.rows[b]), hard))
                        ELSE s.e2sub
               t == Flip(d, rx, base, hard, known, s, pair)
               distance == Measured(d, rx, base, hard, s.e2sub, b, f)
               tries == b \notin known /\ f \notin known
               kept == \/ Points(d.rows, base, hard, s.e2sub, b, f) > NTheta
                       \/ distance >= s.distance
           IN  /\ ~tries => t = s
               /\ tries /\ kept => t = [s EXCEPT !.e2sub = first]
               /\ tries /\ ~kept => t = [best |-> PairWord(d.rows, base, b, f),
                                         distance |-> distance, e2sub |-> first]
BY Zenon DEF Flip, Tried, Measured, Points, TailOf, Second, PairWord, One

\* The tails that a step looks at are those of its word.
LEMMA TailOfWord ==
    ASSUME NEW rows \in Rows, NEW base \in SUBSET Bits, NEW hard \in SUBSET Bits,
           NEW b \in 1..K, NEW f \in 1..K, NEW e2sub,
           f = b \/ e2sub = TailColumns(SymDiff(One(rows, base, b), hard))
    PROVE  TailOf(rows, base, hard, e2sub, b, f)
             = TailColumns(SymDiff(PairWord(rows, base, b, f), hard))
<1> DEFINE g == One(rows, base, b)
<1>1. CASE f = b
  BY <1>1, Zenon DEF TailOf, PairWord, One
<1>2. CASE f # b
  <2>1. TailOf(rows, base, hard, e2sub, b, f)
          = SymDiff(TailColumns(SymDiff(g, hard)), TailColumns(rows[f]))
    BY <1>2, Zenon DEF TailOf, Differences
  <2>2. PairWord(rows, base, b, f) = SymDiff(g, rows[f])
    BY <1>2, Zenon DEF PairWord
  <2> HIDE DEF g
  <2>3. SymDiff(TailColumns(SymDiff(g, hard)), TailColumns(rows[f]))
          = TailColumns(SymDiff(SymDiff(g, rows[f]), hard))
    BY DEF SymDiff, TailColumns
  <2> QED BY <2>1, <2>2, <2>3, Zenon
<1> QED BY <1>1, <1>2

LEMMA TailsTyped ==
    ASSUME NEW rows \in Rows, NEW base, NEW hard,
           NEW e2sub \in SUBSET Bits, NEW b \in 1..K, NEW f \in 1..K
    PROVE  /\ TailColumns(SymDiff(SymDiff(base, rows[b]), hard)) \in SUBSET Bits
           /\ TailOf(rows, base, hard, e2sub, b, f) \in SUBSET Bits
<1>1. \A S : TailColumns(S) \in SUBSET Bits
  BY OsdAssumption DEF TailColumns, Bits
<1>2. \A S, T \in SUBSET Bits : SymDiff(S, T) \in SUBSET Bits
  BY DEF SymDiff
<1>3. Differences(rows, e2sub, f) \in SUBSET Bits
  BY <1>1, <1>2 DEF Differences
<1> QED BY <1>1, <1>3, Zenon DEF TailOf

LEMMA MeasuredTyped ==
    ASSUME NEW rx \in Words, NEW d \in States, NEW base, NEW hard,
           NEW e2sub \in SUBSET Bits, NEW b \in 1..K, NEW f \in 1..K
    PROVE  Measured(d, rx, base, hard, e2sub, b, f) \in Nat
<1>1. d.indices \in [Bits -> Bits] /\ d.rows \in Rows /\ {b} \in SUBSET Bits /\ {f} \in SUBSET Bits
  BY OsdAssumption DEF States, Bits
<1>2. \A S \in SUBSET Bits : Weight(d.indices, rx, S) \in Nat
  BY <1>1, WeightOfOneMore
<1>3. Second(d, rx, base, hard, b, f) \in Nat
  BY <1>1, <1>2 DEF Second
<1>4. TailOf(d.rows, base, hard, e2sub, b, f) \in SUBSET Bits
  BY <1>1, TailsTyped
<1> QED BY <1>1, <1>2, <1>3, <1>4 DEF Measured

LEMMA FlipTyped ==
    ASSUME NEW rx \in Words, NEW d \in States, NEW base \in SUBSET Bits, NEW hard \in SUBSET Bits,
           NEW known, NEW s \in Searches, NEW pair \in Couples
    PROVE  Flip(d, rx, base, hard, known, s, pair) \in Searches
<1> DEFINE b == pair[1]
           f == pair[2]
           first == IF f = b THEN TailColumns(SymDiff(SymDiff(base, d.rows[b]), hard)) ELSE s.e2sub
           t == Flip(d, rx, base, hard, known, s, pair)
           distance == Measured(d, rx, base, hard, s.e2sub, b, f)
           word == PairWord(d.rows, base, b, f)
<1>1. b \in 1..K /\ f \in 1..K /\ d.rows \in Rows /\ s.e2sub \in SUBSET Bits
  BY DEF Couples, States, Searches
<1>2. t = s \/ t = [s EXCEPT !.e2sub = first]
      \/ t = [best |-> word, distance |-> distance, e2sub |-> first]
  <2> DEFINE tries == b \notin known /\ f \notin known
             kept == \/ Points(d.rows, base, hard, s.e2sub, b, f) > NTheta
                     \/ distance >= s.distance
  <2>1. pair[1] = b /\ pair[2] = f
    OBVIOUS
  <2> HIDE DEF b, f
  <2>2. /\ ~tries => t = s
        /\ tries /\ kept => t = [s EXCEPT !.e2sub = first]
        /\ tries /\ ~kept => t = [best |-> word, distance |-> distance, e2sub |-> first]
    BY <2>1, FlipSteps
  <2> HIDE DEF t, tries, kept, first, distance, word
  <2> QED BY <2>2, Zenon
<1> HIDE DEF b, f, t
<1>3. first \in SUBSET Bits /\ distance \in Nat
  BY <1>1, TailsTyped, MeasuredTyped
<1>4. word \in SUBSET Bits
  BY <1>1 DEF PairWord, One, SymDiff, Rows
<1> HIDE DEF first, distance, word
<1>5. t \in Searches
  BY <1>2, <1>3, <1>4 DEF Searches
<1> QED BY <1>5 DEF t

\* What is kept of the first bit is what it changes, where a second one is flipped.
Follows(rows, hard, e2sub, b, f) ==
    f = b \/ e2sub = TailColumns(SymDiff(One(rows, Base(rows, hard), b), hard))

\* What a step of the search measures is how far its word is, and what it prunes by
\* are the word's differences.
LEMMA WordMeasured ==
    ASSUME NEW rx \in Words, NEW d \in States, Identity(d.rows), NEW hard \in SUBSET Bits,
           NEW b \in 1..K, NEW f \in 1..K, NEW e, Follows(d.rows, hard, e, b, f)
    PROVE  LET base == Base(d.rows, hard)
               word == PairWord(d.rows, base, b, f)
           IN  /\ Measured(d, rx, base, hard, e, b, f) = Away(d, rx, hard, word)
               /\ Points(d.rows, base, hard, e, b, f)
                    = Cardinality({b, f}) + Cardinality(Pruning(SymDiff(word, hard)))
<1> DEFINE base == Base(d.rows, hard)
           word == PairWord(d.rows, base, b, f)
           D == SymDiff(word, hard)
           W(S) == Weight(d.indices, rx, S)
<1>1. d.rows \in Rows /\ d.indices \in [Bits -> Bits]
  BY DEF States
<1>2. word \in SUBSET Bits /\ D \cap (1..K) = {b, f} /\ base \in SUBSET Bits
  BY <1>1, PairIsWord, BaseWord
<1>3. D \in SUBSET Bits
  BY <1>2 DEF SymDiff
<1>4. TailOf(d.rows, base, hard, e, b, f) = TailColumns(D)
  BY <1>1, <1>2, TailOfWord DEF Follows
<1>5. Second(d, rx, base, hard, b, f) = IF f = b THEN 0 ELSE W({f})
  <2>1. CASE f = b
    BY <2>1, Zenon DEF Second
  <2>2. CASE f # b
    <3>1. word = SymDiff(SymDiff(base, d.rows[b]), d.rows[f])
      BY <2>2, Zenon DEF PairWord, One
    <3> HIDE DEF word, base
    <3>2. (f \in word) # (f \in hard)
      <4>1. f \in D
        BY <1>2
      <4> QED BY <4>1 DEF SymDiff
    <3> QED BY <2>2, <3>1, <3>2, Zenon DEF Second
  <2> QED BY <2>1, <2>2
<1>6. Measured(d, rx, base, hard, e, b, f)
        = W({b}) + (IF f = b THEN 0 ELSE W({f})) + W(TailColumns(D))
  BY <1>4, <1>5, Zenon DEF Measured
<1> HIDE DEF word, base
<1>7. /\ D = {b, f} \cup TailColumns(D) /\ {b, f} \cap TailColumns(D) = {}
      /\ TailColumns(D) \in SUBSET Bits /\ {b} \in SUBSET Bits /\ {f} \in SUBSET Bits
  <2> HIDE DEF D
  <2>1. K \in Nat /\ N \in Nat /\ K <= N /\ Bits = 1..N
    BY OsdAssumption DEF Bits
  <2>2. \A c \in Bits : c \in 1..K \/ c \in (K + 1)..N
    BY <2>1
  <2>3. D = (D \cap (1..K)) \cup TailColumns(D)
    BY <1>3, <2>2 DEF TailColumns
  <2>4. {b, f} \cap TailColumns(D) = {}
    BY <2>1 DEF TailColumns
  <2>5. TailColumns(D) \in SUBSET Bits /\ {b} \in SUBSET Bits /\ {f} \in SUBSET Bits
    BY <1>3, <2>1 DEF TailColumns
  <2> QED BY <1>2, <2>3, <2>4, <2>5
<1>8. W(D) = W({b, f}) + W(TailColumns(D))
  <2> DEFINE T == TailColumns(D)
             P == {b, f}
  <2>1. T \in SUBSET Bits /\ P \in SUBSET Bits /\ P \cap T = {} /\ D = P \cup T
    BY <1>7
  <2> HIDE DEF T, P, D
  <2>2. W(P \cup T) = W(P) + W(T)
    BY <1>1, <2>1, WeightOfBoth
  <2>3. W(D) = W(P) + W(T)
    BY <2>1, <2>2, Zenon
  <2> QED BY <2>3, Zenon DEF P, T
<1>9. W({b, f}) = W({b}) + (IF f = b THEN 0 ELSE W({f}))
  <2>1. W({b}) \in Nat
    BY <1>1, <1>7, WeightOfOneMore
  <2>2. CASE f = b
    <3>1. {b, f} = {b}
      BY <2>2
    <3> QED BY <2>1, <2>2, <3>1
  <2>3. CASE f # b
    <3> DEFINE P == {b}
               Q == {f}
    <3>1. P \in SUBSET Bits /\ Q \in SUBSET Bits /\ P \cap Q = {} /\ {b, f} = P \cup Q
      BY <1>7, <2>3
    <3> HIDE DEF P, Q
    <3>2. W(P \cup Q) = W(P) + W(Q)
      BY <1>1, <3>1, WeightOfBoth
    <3>3. W({b, f}) = W(P) + W(Q)
      BY <3>1, <3>2, Zenon
    <3> QED BY <2>3, <3>3, Zenon DEF P, Q
  <2> QED BY <2>2, <2>3
<1>10. Measured(d, rx, base, hard, e, b, f) = W(D)
  <2> HIDE DEF W, D
  <2> QED BY <1>6, <1>8, <1>9
<1>11. Pruning(TailColumns(D)) = Pruning(D)
  <2> HIDE DEF D
  <2>1. \A c \in (K + 1)..(K + NT) : c \in (K + 1)..N
    BY OsdAssumption
  <2> QED BY <2>1 DEF Pruning, TailColumns
<1>12. Points(d.rows, base, hard, e, b, f) = Cardinality({b, f}) + Cardinality(Pruning(D))
  BY <1>4, <1>11, Zenon DEF Points
<1> QED BY <1>10, <1>12, Zenon DEF Away, D, W, word, base
\* A pair of the search that is measured.
Counts(d, hard, known, b, f) ==
    /\ b \notin known /\ f \notin known
    /\ Fits(hard, b, f, PairWord(d.rows, Base(d.rows, hard), b, f))

\* The nearest of the words of the first k pairs is kept.
Nearest(d, rx, hard, known, s, k) ==
    LET base == Base(d.rows, hard)
        far(b, f) == Away(d, rx, hard, PairWord(d.rows, base, b, f))
    IN  /\ s.distance = Away(d, rx, hard, s.best) /\ s.distance <= Away(d, rx, hard, base)
        /\ \/ s.best = base
           \/ \E b \in 1..K : \E f \in 1..b : /\ Counts(d, hard, known, b, f)
                                              /\ s.best = PairWord(d.rows, base, b, f)
        /\ \A i \in 1..k : LET b == Pairs[i][1]
                               f == Pairs[i][2]
                           IN  Counts(d, hard, known, b, f) => s.distance <= far(b, f)

\* What is kept of a first bit is what it changes.
Cached(d, hard, known, s, k) ==
    k > 0 /\ Pairs[k][1] \notin known =>
      s.e2sub = TailColumns(SymDiff(One(d.rows, Base(d.rows, hard), Pairs[k][1]), hard))

LEMMA AwayTyped ==
    ASSUME NEW rx \in Words, NEW d \in States, NEW hard \in SUBSET Bits, NEW word \in SUBSET Bits
    PROVE  Away(d, rx, hard, word) \in Nat
<1>1. SymDiff(word, hard) \in SUBSET Bits /\ d.indices \in [Bits -> Bits]
  BY DEF SymDiff, States
<1> QED BY <1>1, WeightOfOneMore DEF Away

LEMMA PairAt ==
    ASSUME NEW k \in 1..Len(Pairs)
    PROVE  /\ k \in Nat /\ Pairs[k] \in Couples
           /\ Pairs[k][1] \in 1..K /\ Pairs[k][2] \in 1..Pairs[k][1] /\ Pairs[k][2] \in 1..K
           /\ Pairs[k][2] # Pairs[k][1] => k > 1 /\ Pairs[k-1][1] = Pairs[k][1]
<1>1. Pairs \in Seq(Couples) /\ Blocks(Pairs, K) /\ K \in Nat
  BY PairsAreBlocks, OsdAssumption
<1>2. Len(Pairs) \in Nat /\ Pairs \in [1..Len(Pairs) -> Couples]
  BY <1>1, LenProperties
<1>3. /\ Pairs[k][1] \in (K + 1 - K)..K /\ Pairs[k][2] \in 1..Pairs[k][1]
      /\ Pairs[k][2] # Pairs[k][1] => k > 1 /\ Pairs[k-1][1] = Pairs[k][1]
  BY <1>1, Zenon DEF Blocks
<1>4. Pairs[k] \in Couples
  BY <1>2
<1>5. Pairs[k][1] \in 1..K /\ Pairs[k][2] \in 1..K
  BY <1>4 DEF Couples
<1> QED BY <1>2, <1>3, <1>4, <1>5

\* One step of the search keeps the nearest word, and what its first bit changes.
LEMMA FlipNearest ==
    ASSUME NEW rx \in Words, NEW d \in States, Identity(d.rows), NEW hard \in SUBSET Bits,
           NEW known, NEW s \in Searches, NEW k \in 1..Len(Pairs),
           Nearest(d, rx, hard, known, s, k - 1), Cached(d, hard, known, s, k - 1)
    PROVE  LET t == Flip(d, rx, Base(d.rows, hard), hard, known, s, Pairs[k])
           IN  Nearest(d, rx, hard, known, t, k) /\ Cached(d, hard, known, t, k)
<1> DEFINE base == Base(d.rows, hard)
           t == Flip(d, rx, base, hard, known, s, Pairs[k])
           far(x, y) == Away(d, rx, hard, PairWord(d.rows, base, x, y))
           counts(x, y) == Counts(d, hard, known, x, y)
           right(x) == TailColumns(SymDiff(One(d.rows, base, x), hard))
           first(x, y) == IF y = x THEN right(x) ELSE s.e2sub
           measured(x, y) == Measured(d, rx, base, hard, s.e2sub, x, y)
           points(x, y) == Points(d.rows, base, hard, s.e2sub, x, y)
<1>1. PICK b \in 1..K, f \in 1..K : Pairs[k][1] = b /\ Pairs[k][2] = f
  BY PairAt
<1>2. /\ k \in Nat /\ k - 1 \in Nat /\ Pairs[k] \in Couples
      /\ f \in 1..b /\ (f # b => k - 1 > 0 /\ Pairs[k-1][1] = b)
  BY <1>1, PairAt
<1>3. base \in SUBSET Bits /\ d.rows \in Rows
      /\ \A x, y \in 1..K : PairWord(d.rows, base, x, y) \in SUBSET Bits
  BY BaseWord, PairIsWord DEF States
<1>4. \A x, y \in 1..K : far(x, y) \in Nat
  <2> HIDE DEF base
  <2> QED BY <1>3, AwayTyped
<1>5. t \in Searches
  <2> HIDE DEF base
  <2> QED BY <1>2, <1>3, FlipTyped
<1>6. /\ ~(b \notin known /\ f \notin known) => t = s
      /\ (b \notin known /\ f \notin known)
         /\ (points(b, f) > NTheta \/ measured(b, f) >= s.distance)
           => t = [s EXCEPT !.e2sub = first(b, f)]
      /\ (b \notin known /\ f \notin known)
         /\ ~(points(b, f) > NTheta \/ measured(b, f) >= s.distance)
           => t = [best |-> PairWord(d.rows, base, b, f), distance |-> measured(b, f),
                   e2sub |-> first(b, f)]
  <2> DEFINE pair == Pairs[k]
  <2>1. pair[1] = b /\ pair[2] = f
    BY <1>1
  <2> HIDE DEF pair, base
  <2>2. Flip(d, rx, base, hard, known, s, pair) = Flip(d, rx, base, hard, known, s, Pairs[k])
    BY DEF pair
  <2> QED BY <2>1, <2>2, FlipSteps DEF One
<1>7. b \notin known => f = b \/ s.e2sub = right(b)
  BY <1>1, <1>2, Zenon DEF Cached
<1>8. b \notin known => Follows(d.rows, hard, s.e2sub, b, f)
  BY <1>7, Zenon DEF Follows
<1>9. ASSUME Follows(d.rows, hard, s.e2sub, b, f)
      PROVE  /\ measured(b, f) = far(b, f)
             /\ (points(b, f) > NTheta <=> ~Fits(hard, b, f, PairWord(d.rows, base, b, f)))
  <2> DEFINE D == SymDiff(PairWord(d.rows, base, b, f), hard)
  <2>1. measured(b, f) = far(b, f) /\ points(b, f) = Cardinality({b, f}) + Cardinality(Pruning(D))
    BY <1>9, WordMeasured
  <2>2. Cardinality({b, f}) \in Nat /\ Cardinality(Pruning(D)) \in Nat
    <3>1. {b, f} \in SUBSET Bits
      BY OsdAssumption DEF Bits
    <3>2. Pruning(D) \in SUBSET Bits
      BY OsdAssumption DEF Bits, Pruning
    <3> QED BY <3>1, <3>2, BitsFinite, FS_CardinalityType
  <2>3. Fits(hard, b, f, PairWord(d.rows, base, b, f))
          <=> Cardinality({b, f}) + Cardinality(Pruning(D)) <= NTheta
    BY Zenon DEF Fits
  <2> HIDE DEF D, measured, far, points
  <2> QED BY <2>1, <2>2, <2>3, OsdAssumption
<1>10. b \notin known => /\ measured(b, f) = far(b, f)
                         /\ points(b, f) > NTheta
                              <=> ~Fits(hard, b, f, PairWord(d.rows, base, b, f))
  <2> HIDE DEF measured, far, points, base
  <2> QED BY <1>8, <1>9
<1>11. first(b, f) = right(b) \/ b \in known
  BY <1>7
<1>12. s.distance \in Nat /\ t.distance \in Nat
  BY <1>5 DEF Searches
<1>13. counts(b, f) <=> /\ b \notin known /\ f \notin known
                        /\ Fits(hard, b, f, PairWord(d.rows, base, b, f))
  BY Zenon DEF Counts
<1>14. \/ /\ t.best = s.best /\ t.distance = s.distance
          /\ counts(b, f) => s.distance <= far(b, f)
       \/ /\ t.best = PairWord(d.rows, base, b, f) /\ t.distance = far(b, f)
          /\ counts(b, f) /\ far(b, f) < s.distance
  <2>1. far(b, f) \in Nat
    BY <1>4
  <2> HIDE DEF far, counts, measured, points, t, first, base
  <2>2. CASE ~(b \notin known /\ f \notin known)
    BY <1>6, <1>13, <2>2
  <2>3. CASE /\ b \notin known /\ f \notin known
             /\ points(b, f) > NTheta \/ measured(b, f) >= s.distance
    <3>1. t = [s EXCEPT !.e2sub = first(b, f)]
      BY <1>6, <2>3
    <3>2. t.best = s.best /\ t.distance = s.distance
      BY <3>1 DEF Searches
    <3> QED BY <1>10, <1>12, <1>13, <2>1, <2>3, <3>2
  <2>4. CASE /\ b \notin known /\ f \notin known
             /\ ~(points(b, f) > NTheta \/ measured(b, f) >= s.distance)
    <3>1. t = [best |-> PairWord(d.rows, base, b, f), distance |-> measured(b, f),
               e2sub |-> first(b, f)]
      BY <1>6, <2>4
    <3>2. t.best = PairWord(d.rows, base, b, f) /\ t.distance = measured(b, f)
      BY <3>1
    <3> QED BY <1>10, <1>12, <1>13, <2>1, <2>4, <3>2
  <2> QED BY <2>2, <2>3, <2>4
<1>15. Cached(d, hard, known, t, k)
  <2>1. ASSUME b \notin known PROVE t.e2sub = right(b)
    <3> HIDE DEF t, first, base, right, measured, points
    <3>1. CASE ~(b \notin known /\ f \notin known)
      <4>1. f # b
        BY <2>1, <3>1
      <4> QED BY <1>6, <1>7, <2>1, <3>1, <4>1
    <3>2. CASE b \notin known /\ f \notin known
      <4>1. \/ t = [s EXCEPT !.e2sub = first(b, f)]
            \/ t = [best |-> PairWord(d.rows, base, b, f), distance |-> measured(b, f),
                    e2sub |-> first(b, f)]
        BY <1>6, <3>2, Zenon
      <4>2. t.e2sub = first(b, f)
        BY <4>1 DEF Searches
      <4> QED BY <1>11, <2>1, <4>2
    <3> QED BY <3>1, <3>2
  <2> HIDE DEF t
  <2> QED BY <1>1, <2>1, Zenon DEF Cached
<1>16. Nearest(d, rx, hard, known, t, k)
  <2> DEFINE away(w) == Away(d, rx, hard, w)
             word(x, y) == PairWord(d.rows, base, x, y)
             searched(w) == \/ w = base
                            \/ \E x \in 1..K : \E y \in 1..x : counts(x, y) /\ w = word(x, y)
  <2>1. /\ s.distance = away(s.best) /\ s.distance <= away(base) /\ searched(s.best)
        /\ \A i \in 1..(k - 1) :
             counts(Pairs[i][1], Pairs[i][2]) => s.distance <= away(word(Pairs[i][1], Pairs[i][2]))
    BY Zenon DEF Nearest
  <2>2. far(b, f) = away(word(b, f))
    OBVIOUS
  <2>3. away(base) \in Nat
    <3> HIDE DEF base
    <3> QED BY <1>3, AwayTyped
  <2>4. \A i \in 1..(k - 1) : away(word(Pairs[i][1], Pairs[i][2])) \in Nat
    <3>1. ASSUME NEW i \in 1..(k - 1) PROVE Pairs[i][1] \in 1..K /\ Pairs[i][2] \in 1..K
      <4>1. Pairs \in Seq(Couples)
        BY PairsAreBlocks
      <4>2. Len(Pairs) \in Nat
        BY <4>1, LenProperties
      <4>3. i \in 1..Len(Pairs)
        BY <1>2, <4>2
      <4> QED BY <4>3, PairAt
    <3> HIDE DEF away, word, base
    <3> QED BY <1>4, <3>1 DEF away, word
  <2>5. searched(t.best) /\ t.distance = away(t.best) /\ t.distance <= s.distance
    <3>1. CASE t.best = s.best /\ t.distance = s.distance
      <4> HIDE DEF t, searched, away, base
      <4> QED BY <1>12, <2>1, <3>1
    <3>2. CASE /\ t.best = word(b, f) /\ t.distance = far(b, f)
               /\ counts(b, f) /\ far(b, f) < s.distance
      <4>1. searched(t.best)
        <5> HIDE DEF t, counts, word, base
        <5> QED BY <1>2, <3>2
      <4> HIDE DEF t, searched, away, word, counts, base, far
      <4> QED BY <1>12, <2>2, <3>2, <4>1
    <3> QED BY <1>14, <3>1, <3>2, Zenon
  <2>6. counts(b, f) => t.distance <= away(word(b, f))
    <3>1. far(b, f) \in Nat
      BY <1>4
    <3> HIDE DEF t, away, word, counts, base, far
    <3> QED BY <1>12, <1>14, <2>2, <3>1
  <2>7. t.distance <= away(base)
    <3> HIDE DEF t, away, base
    <3> QED BY <1>12, <2>1, <2>3, <2>5
  <2>8. ASSUME NEW i \in 1..k
        PROVE  counts(Pairs[i][1], Pairs[i][2])
                 => t.distance <= away(word(Pairs[i][1], Pairs[i][2]))
    <3>1. CASE i = k
      BY <1>1, <2>6, <3>1, Zenon
    <3>2. CASE i # k
      <4>1. i \in 1..(k - 1)
        BY <1>2, <3>2
      <4> HIDE DEF t, away, word, counts, base
      <4> QED BY <1>12, <2>1, <2>4, <2>5, <4>1
    <3> QED BY <3>1, <3>2
  <2> HIDE DEF t
  <2> QED BY <2>5, <2>7, <2>8, Zenon DEF Nearest
<1> QED BY <1>15, <1>16

\* What the search starts from, and what it finds.
Unsearched(d, rx, hard) ==
    [best |-> Base(d.rows, hard),
     distance |-> Weight(d.indices, rx, SymDiff(Base(d.rows, hard), hard)), e2sub |-> {}]
SearchFinds(d, rx, hard, known) ==
    FoldLeft(LAMBDA s, pair : Flip(d, rx, Base(d.rows, hard), hard, known, s, pair),
             Unsearched(d, rx, hard), Pairs)

LEMMA UnsearchedNearest ==
    ASSUME NEW rx \in Words, NEW d \in States, Identity(d.rows), NEW hard \in SUBSET Bits, NEW known
    PROVE  LET s == Unsearched(d, rx, hard)
           IN  s \in Searches /\ Nearest(d, rx, hard, known, s, 0) /\ Cached(d, hard, known, s, 0)
<1> DEFINE s == Unsearched(d, rx, hard)
           base == Base(d.rows, hard)
<1>1. d.rows \in Rows
  BY DEF States
<1>2. base \in SUBSET Bits
  BY <1>1, BaseWord
<1> HIDE DEF base
<1>3. Away(d, rx, hard, base) \in Nat
  BY <1>2, AwayTyped
<1>4. s = [best |-> base, distance |-> Away(d, rx, hard, base), e2sub |-> {}]
  BY Zenon DEF Unsearched, Away, base
<1> HIDE DEF s
<1>5. s \in Searches
  BY <1>2, <1>3, <1>4 DEF Searches
<1>6. s.best = base /\ s.distance = Away(d, rx, hard, base) /\ s.distance <= Away(d, rx, hard, base)
  BY <1>3, <1>4
<1>7. ~(0 > 0) /\ ~(\E i \in 1..0 : TRUE)
  OBVIOUS
<1> QED BY <1>5, <1>6, <1>7, Zenon DEF Nearest, Cached, base, s

\* The search finds the nearest of the words of its pairs.
LEMMA SearchNearest ==
    ASSUME NEW rx \in Words, NEW d \in States, Identity(d.rows), NEW hard \in SUBSET Bits, NEW known
    PROVE  LET s == SearchFinds(d, rx, hard, known)
           IN  s \in Searches /\ Nearest(d, rx, hard, known, s, Len(Pairs))
<1> DEFINE n == Len(Pairs)
           start == Unsearched(d, rx, hard)
           flip(s, pair) == Flip(d, rx, Base(d.rows, hard), hard, known, s, pair)
           step == [p \in Searches \X (1..n) |-> flip(p[1], Pairs[p[2]])]
           pick == [e \in SUBSET (1..n) |-> Max(e)]
           Fold(f) == f = [e \in SUBSET DOMAIN Pairs |->
                             IF e = {} THEN start ELSE flip(f[e \ {Max(e)}], Pairs[Max(e)])]
           fold == CHOOSE f : Fold(f)
<1>1. n \in Nat /\ IsFiniteSet(1..n) /\ DOMAIN Pairs = 1..n
  <2>1. Len(Pairs) \in Nat /\ DOMAIN Pairs = 1..Len(Pairs)
    BY PairsAreBlocks, LenProperties
  <2> QED BY <2>1, FS_Interval
<1>2. SearchFinds(d, rx, hard, known) = fold[DOMAIN Pairs]
  BY Zenon DEF SearchFinds, FoldLeft, MapThenFoldSet
<1>3. /\ start \in Searches
      /\ Nearest(d, rx, hard, known, start, 0) /\ Cached(d, hard, known, start, 0)
  BY UnsearchedNearest
<1> HIDE DEF start
<1>4. \A i \in 1..n : Pairs[i] \in Couples
  BY PairAt
<1>5. step \in [Searches \X (1..n) -> Searches]
  <2>1. Base(d.rows, hard) \in SUBSET Bits
    BY BaseWord DEF States
  <2>2. \A s \in Searches, pair \in Couples : flip(s, pair) \in Searches
    BY <2>1, FlipTyped
  <2> HIDE DEF flip, n
  <2> QED BY <1>4, <2>2
<1>6. \A s \in Searches, i \in 1..n : step[<<s, i>>] = flip(s, Pairs[i])
  <2> HIDE DEF flip, n
  <2> QED OBVIOUS
<1> HIDE DEF step, n
<1>7. PICK f \in [SUBSET (1..n) -> Searches] : FoldOf(f, start, step, pick, 1..n)
  <2> HIDE DEF pick
  <2>1. Picking(pick, 1..n)
    BY <1>1, LargestPicks DEF pick
  <2> QED BY <1>1, <1>3, <1>5, <2>1, FoldOfExists
<1> HIDE DEF flip
<1>8. Fold(f)
  <2>1. ASSUME NEW e \in SUBSET (1..n), e # {}
        PROVE  f[e] = flip(f[e \ {Max(e)}], Pairs[Max(e)])
    <3>1. Max(e) \in 1..n /\ f[e \ {Max(e)}] \in Searches /\ pick[e] = Max(e)
      BY <1>1, <2>1, LargestIn
    <3>2. f[e] = step[<<f[e \ {Max(e)}], Max(e)>>]
      BY <1>7, <2>1, <3>1 DEF FoldOf
    <3> QED BY <1>6, <3>1, <3>2
  <2>2. f[{}] = start
    BY <1>7 DEF FoldOf
  <2> QED BY <1>1, <2>1, <2>2
<1>9. Fold(fold)
  <2> HIDE DEF Fold
  <2> QED BY <1>8, Zenon
<1> HIDE DEF fold
<1>10. IsFoldFrom(fold, start, step, n, Searches)
  <2>1. fold[{}] = start
    BY <1>9
  <2>2. ASSUME NEW e \in SUBSET (1..n), e # {}, fold[e \ {Max(e)}] \in Searches
        PROVE  fold[e] = step[<<fold[e \ {Max(e)}], Max(e)>>]
    <3>1. Max(e) \in 1..n
      BY <1>1, <2>2, LargestIn
    <3>2. fold[e] = flip(fold[e \ {Max(e)}], Pairs[Max(e)])
      BY <1>1, <1>9, <2>2
    <3> QED BY <1>6, <2>2, <3>1, <3>2
  <2> QED BY <2>1, <2>2, Zenon DEF IsFoldFrom
<1>11. PICK c : Iterates(c, start, step, n, Searches, fold[1..n])
  BY <1>1, <1>3, <1>5, <1>10, FoldIterates, Zenon
<1>12. c \in [0..n -> Searches] /\ c[0] = start /\ c[n] = fold[1..n]
  BY <1>11 DEF Iterates
<1> DEFINE G == {k \in 0..n : /\ Nearest(d, rx, hard, known, c[k], k)
                              /\ Cached(d, hard, known, c[k], k)}
<1>13. 0 \in G
  BY <1>1, <1>3, <1>12
<1>14. ASSUME NEW k \in 0..(n - 1), k \in G PROVE k + 1 \in G
  <2>1. k + 1 \in 1..n /\ k + 1 \in 0..n /\ (k + 1) - 1 = k /\ k \in 0..n
    BY <1>1
  <2>2. c[k+1] = step[<<c[k], k + 1>>]
    BY <1>11, <2>1 DEF Iterates
  <2>3. c[k] \in Searches
    BY <1>12, <2>1
  <2>4. c[k+1] = flip(c[k], Pairs[k+1])
    BY <1>6, <2>1, <2>2, <2>3
  <2>5. Nearest(d, rx, hard, known, c[k], (k + 1) - 1) /\ Cached(d, hard, known, c[k], (k + 1) - 1)
    BY <1>14, <2>1
  <2>6. k + 1 \in 1..Len(Pairs)
    BY <2>1 DEF n
  <2>7. /\ Nearest(d, rx, hard, known, flip(c[k], Pairs[k+1]), k + 1)
        /\ Cached(d, hard, known, flip(c[k], Pairs[k+1]), k + 1)
    BY <2>3, <2>5, <2>6, FlipNearest DEF flip
  <2> QED BY <2>1, <2>4, <2>7
<1>15. \A k \in 0..n : k \in G
  <2> HIDE DEF G
  <2> QED BY <1>1, <1>13, <1>14, UpTo
<1>16. n \in 0..n
  BY <1>1
<1>17. c[n] \in Searches /\ Nearest(d, rx, hard, known, c[n], n)
  BY <1>12, <1>15, <1>16
<1>18. SearchFinds(d, rx, hard, known) = c[n]
  BY <1>1, <1>2, <1>12, Zenon
<1> QED BY <1>17, <1>18, Zenon DEF n

\* The words that the search is for, as columns.
NearWords(d, hard, known) ==
    {word \in Span(d.rows) :
       LET basis == SymDiff(word, hard) \cap (1..K)
       IN  \/ basis = {}
           \/ /\ Cardinality(basis) <= 2 /\ basis \cap known = {}
              /\ Cardinality(basis) + Cardinality(Pruning(SymDiff(word, hard))) <= NTheta}

LEMMA SpanTyped == ASSUME NEW rows \in Rows PROVE Span(rows) \subseteq SUBSET Bits
<1>1. 1 \in 1..K
  BY OsdAssumption
<1>2. \A m \in SUBSET (1..K) : Encode(rows, m) \in SUBSET Bits
  BY <1>1, EncodeToggles
<1> QED BY <1>2 DEF Span

LEMMA PairIsNear ==
    ASSUME NEW d \in States, Identity(d.rows), NEW hard \in SUBSET Bits, NEW known,
           NEW b \in 1..K, NEW f \in 1..b, Counts(d, hard, known, b, f)
    PROVE  PairWord(d.rows, Base(d.rows, hard), b, f) \in NearWords(d, hard, known)
<1> DEFINE word == PairWord(d.rows, Base(d.rows, hard), b, f)
           basis == SymDiff(word, hard) \cap (1..K)
<1>1. d.rows \in Rows /\ f \in 1..K
  BY OsdAssumption DEF States
<1>2. word \in Span(d.rows) /\ basis = {b, f}
  BY <1>1, PairIsWord
<1>3. /\ b \notin known /\ f \notin known
      /\ Cardinality({b, f}) + Cardinality(Pruning(SymDiff(word, hard))) <= NTheta
  BY Zenon DEF Counts, Fits
<1>4. Cardinality({b, f}) <= 2
  <2>1. IsFiniteSet({b}) /\ Cardinality({b}) = 1
    BY FS_Singleton
  <2>2. Cardinality({b} \cup {f}) \in {1, 2}
    <3>1. Cardinality({b} \cup {f}) = IF f \in {b} THEN Cardinality({b}) ELSE Cardinality({b}) + 1
      BY <2>1, FS_AddElement
    <3> QED BY <2>1, <3>1
  <2>3. {b} \cup {f} = {b, f}
    OBVIOUS
  <2>4. Cardinality({b, f}) \in {1, 2}
    BY <2>2, <2>3, Zenon
  <2> QED BY <2>4
<1>5. basis \cap known = {}
  BY <1>2, <1>3
<1> QED BY <1>2, <1>3, <1>4, <1>5, Zenon DEF NearWords

\* The search finds the nearest of them.
LEMMA FoundIsNearest ==
    ASSUME NEW rx \in Words, NEW d \in States, Identity(d.rows), NEW hard \in SUBSET Bits, NEW known
    PROVE  LET best == SearchFinds(d, rx, hard, known).best
           IN  /\ best \in NearWords(d, hard, known)
               /\ \A word \in NearWords(d, hard, known) :
                    Away(d, rx, hard, best) <= Away(d, rx, hard, word)
<1> DEFINE s == SearchFinds(d, rx, hard, known)
           base == Base(d.rows, hard)
           pair(b, f) == PairWord(d.rows, base, b, f)
           away(word) == Away(d, rx, hard, word)
           counts(b, f) == Counts(d, hard, known, b, f)
<1>1. s \in Searches /\ Nearest(d, rx, hard, known, s, Len(Pairs))
  BY SearchNearest
<1>2. d.rows \in Rows
  BY DEF States
<1> HIDE DEF s
<1>3. /\ s.distance = away(s.best) /\ s.distance <= away(base)
      /\ s.best = base \/ \E b \in 1..K : \E f \in 1..b : counts(b, f) /\ s.best = pair(b, f)
      /\ \A i \in 1..Len(Pairs) :
           counts(Pairs[i][1], Pairs[i][2]) => s.distance <= away(pair(Pairs[i][1], Pairs[i][2]))
  BY <1>1, Zenon DEF Nearest
<1>4. s.best \in NearWords(d, hard, known)
  <2>1. base \in Span(d.rows) /\ SymDiff(base, hard) \cap (1..K) = {}
    BY <1>2, BaseWord
  <2>2. base \in NearWords(d, hard, known)
    <3> HIDE DEF base
    <3> QED BY <2>1, Zenon DEF NearWords
  <2>3. \A b \in 1..K : \A f \in 1..b : counts(b, f) => pair(b, f) \in NearWords(d, hard, known)
    BY PairIsNear
  <2> HIDE DEF base, counts, pair
  <2> QED BY <1>3, <2>2, <2>3
<1>5. ASSUME NEW word \in NearWords(d, hard, known) PROVE away(s.best) <= away(word)
  <2> DEFINE basis == SymDiff(word, hard) \cap (1..K)
  <2>1. /\ word \in Span(d.rows)
        /\ \/ basis = {}
           \/ /\ Cardinality(basis) <= 2 /\ basis \cap known = {}
              /\ Cardinality(basis) + Cardinality(Pruning(SymDiff(word, hard))) <= NTheta
    BY Zenon DEF NearWords
  <2>2. /\ basis = {} => word = base
        /\ \A b, f \in 1..K : basis = {b, f} => word = pair(b, f)
    BY <1>2, <2>1, NearIsPair
  <2>3. CASE basis = {}
    BY <1>3, <2>2, <2>3, Zenon
  <2>4. CASE basis # {}
    <3>1. basis \in SUBSET (1..K) /\ Cardinality(basis) <= 2 /\ basis \cap known = {}
          /\ Cardinality(basis) + Cardinality(Pruning(SymDiff(word, hard))) <= NTheta
      BY <2>1, <2>4
    <3> HIDE DEF basis
    <3>2. PICK b \in 1..K, f \in 1..K : f \in 1..b /\ basis = {b, f}
      <4>1. PICK b \in 1..K : \E f \in 1..b : basis = {b, f}
        BY <2>4, <3>1, OneOrTwo
      <4>2. PICK f \in 1..b : basis = {b, f}
        BY <4>1
      <4>3. f \in 1..K
        BY OsdAssumption
      <4> QED BY <4>2, <4>3
    <3>3. word = pair(b, f)
      BY <2>2, <3>2
    <3>4. counts(b, f)
      <4>1. b \notin known /\ f \notin known
        BY <3>1, <3>2
      <4>2. Cardinality({b, f}) + Cardinality(Pruning(SymDiff(pair(b, f), hard))) <= NTheta
        BY <3>1, <3>2, <3>3, Zenon
      <4> QED BY <4>1, <4>2, Zenon DEF Counts, Fits
    <3>5. \E i \in 1..Len(Pairs) : Pairs[i] = <<b, f>>
      <4>1. \A x \in (K + 1 - K)..K : \A y \in 1..x : \E i \in 1..Len(Pairs) : Pairs[i] = <<x, y>>
        BY PairsAreBlocks, Zenon DEF Blocks
      <4>2. b \in (K + 1 - K)..K
        BY OsdAssumption
      <4> QED BY <3>2, <4>1, <4>2, Zenon
    <3>6. PICK i \in 1..Len(Pairs) : Pairs[i] = <<b, f>>
      BY <3>5
    <3>7. Pairs[i][1] = b /\ Pairs[i][2] = f
      BY <3>6
    <3>8. s.distance <= away(pair(b, f))
      BY <1>3, <3>4, <3>7, Zenon
    <3> QED BY <1>3, <3>3, <3>8, Zenon
  <2> QED BY <2>3, <2>4
<1> QED BY <1>4, <1>5, Zenon DEF s
------------------------------------------------------------------------------
\* The bits that are decided to be 1, and the columns of those that are known.
HardBits(rx, channel, sure) ==
    {bit \in Bits : IF bit \in sure THEN channel[bit] > 0 ELSE rx[bit] > 0}
KnownColumns(indices, sure) == {col \in Bits : indices[col] \in sure}

Decides(indices, hard, H) == \A col \in Bits : col \in hard <=> indices[col] \in H

LEMMA HardReordered ==
    ASSUME NEW indices \in Orders, NEW rx, NEW channel, NEW sure
    PROVE  /\ HardColumns(indices, rx, channel, sure) \in SUBSET Bits
           /\ Decides(indices, HardColumns(indices, rx, channel, sure), HardBits(rx, channel, sure))
BY DEF HardColumns, HardBits, Orders, Decides

\* The wrong columns of a word are the columns of its wrong bits.
LEMMA WrongReordered ==
    ASSUME NEW indices \in Orders, NEW C \in SUBSET Bits, NEW hard \in SUBSET Bits,
           NEW H, Decides(indices, hard, H)
    PROVE  /\ {col \in Bits : (indices[col] \in BitsOf(indices, C)) # (col \in hard)}
                = SymDiff(C, hard)
           /\ {bit \in Bits : (bit \in BitsOf(indices, C)) # (bit \in H)}
                = BitsOf(indices, SymDiff(C, hard))
           /\ SymDiff(C, hard) \in SUBSET Bits
<1>1. \A col \in Bits : col \in hard <=> indices[col] \in H
  BY Zenon DEF Decides
<1>2. \A col \in Bits : indices[col] \in BitsOf(indices, C) <=> col \in C
  BY DEF BitsOf, Orders
<1>3. SymDiff(C, hard) \in SUBSET Bits
  BY DEF SymDiff
<1>4. {col \in Bits : (indices[col] \in BitsOf(indices, C)) # (col \in hard)} = SymDiff(C, hard)
  <2>1. \A col \in Bits : col \in SymDiff(C, hard)
                            <=> ((indices[col] \in BitsOf(indices, C)) # (col \in hard))
    BY <1>2 DEF SymDiff
  <2> QED BY <1>3, <2>1
<1>5. \A col \in Bits : indices[col] \in BitsOf(indices, SymDiff(C, hard))
                          <=> ((indices[col] \in BitsOf(indices, C)) # (indices[col] \in H))
  <2>1. \A col \in Bits : indices[col] \in BitsOf(indices, SymDiff(C, hard))
                            <=> col \in SymDiff(C, hard)
    BY <1>3 DEF BitsOf, Orders
  <2>2. \A col \in Bits : col \in SymDiff(C, hard) <=> ((col \in C) # (col \in hard))
    BY DEF SymDiff
  <2> QED BY <1>1, <1>2, <2>1, <2>2
<1>6. \A bit \in Bits : \E col \in Bits : indices[col] = bit
  BY DEF Orders
<1>7. BitsOf(indices, SymDiff(C, hard)) \in SUBSET Bits
  BY <1>3 DEF BitsOf, Orders
<1>8. \A bit \in Bits : bit \in BitsOf(indices, SymDiff(C, hard))
                          <=> ((bit \in BitsOf(indices, C)) # (bit \in H))
  BY <1>5, <1>6
<1> QED BY <1>3, <1>4, <1>7, <1>8

\* How far a word is does not depend on the order of the bits.
LEMMA DistanceReordered ==
    ASSUME NEW rx \in Words, NEW d \in States, d.indices \in Orders, NEW channel, NEW sure,
           NEW C \in SUBSET Bits
    PROVE  Distance(rx, channel, sure, BitsOf(d.indices, C))
             = Away(d, rx, HardColumns(d.indices, rx, channel, sure), C)
<1> DEFINE hard == HardColumns(d.indices, rx, channel, sure)
           H == HardBits(rx, channel, sure)
           bits == BitsOf(d.indices, C)
           wrong == {bit \in Bits : (bit \in bits) # (bit \in H)}
<1>1. hard \in SUBSET Bits /\ Decides(d.indices, hard, H)
  BY HardReordered
<1>2. wrong = BitsOf(d.indices, SymDiff(C, hard)) /\ SymDiff(C, hard) \in SUBSET Bits
  <2> HIDE DEF hard, H
  <2>1. SymDiff(C, hard) \in SUBSET Bits
    BY <1>1 DEF SymDiff
  <2>2. {bit \in Bits : (bit \in BitsOf(d.indices, C)) # (bit \in H)}
          = BitsOf(d.indices, SymDiff(C, hard))
    BY <1>1, WrongReordered
  <2> QED BY <2>1, <2>2, Zenon
<1>3. Distance(rx, channel, sure, bits) = Weight(Unordered, rx, wrong)
  <2>1. \A bit \in Bits : bit \in H <=> IF bit \in sure THEN channel[bit] > 0 ELSE rx[bit] > 0
    BY Zenon DEF HardBits
  <2>2. wrong = {bit \in Bits :
                   (bit \in bits) # (IF bit \in sure THEN channel[bit] > 0 ELSE rx[bit] > 0)}
    <3> HIDE DEF H, bits
    <3> QED BY <2>1
  <2>3. Distance(rx, channel, sure, bits)
          = Weight(Unordered, rx,
                   {bit \in Bits :
                      (bit \in bits) # (IF bit \in sure THEN channel[bit] > 0 ELSE rx[bit] > 0)})
    BY Zenon DEF Distance, Unordered
  <2> HIDE DEF wrong, bits
  <2> QED BY <2>2, <2>3, Zenon
<1>4. Weight(d.indices, rx, SymDiff(C, hard))
        = Weight(Unordered, rx, BitsOf(d.indices, SymDiff(C, hard)))
  <2> HIDE DEF hard
  <2> QED BY <1>2, WeightReordered
<1> QED BY <1>2, <1>3, <1>4, Zenon DEF Away, hard, bits

\* What is searched is what is near, as bits.
LEMMA SearchedIsNear ==
    ASSUME NEW rx, NEW channel, NEW sure,
           Diagonalized(rx) \in States, Diagonalized(rx).ok, Reduced(Diagonalized(rx), K)
    PROVE  LET d == Diagonalized(rx)
               near == NearWords(d, HardColumns(d.indices, rx, channel, sure),
                                 KnownColumns(d.indices, sure))
           IN  Searched(rx, channel, sure) = {BitsOf(d.indices, C) : C \in near}
<1> DEFINE d == Diagonalized(rx)
           hard == HardColumns(d.indices, rx, channel, sure)
           known == KnownColumns(d.indices, sure)
           near == NearWords(d, hard, known)
           wrong(word) == {col \in Bits : (d.indices[col] \in word) # (col \in hard)}
           fits(cols) == LET basis == cols \cap (1..K)
                         IN  \/ basis = {}
                             \/ /\ Cardinality(basis) <= 2
                                /\ \A col \in basis : d.indices[col] \notin sure
                                /\ Cardinality(basis) + Cardinality(Pruning(cols)) <= NTheta
<1>1. d \in States /\ d.indices \in Orders /\ d.rows \in Rows /\ Span(RowBits(d)) = Codewords
  BY DEF Reduced, States
<1>2. Searched(rx, channel, sure) = {word \in Codewords : fits(wrong(word))}
  BY Zenon DEF Searched
<1>3. hard \in SUBSET Bits /\ Decides(d.indices, hard, HardBits(rx, channel, sure))
  <2> HIDE DEF d
  <2> QED BY <1>1, HardReordered
<1>4. \A S : S \cap (1..K) \cap known = {} <=> \A col \in S \cap (1..K) : d.indices[col] \notin sure
  <2>1. 1..K \subseteq Bits
    BY OsdAssumption DEF Bits
  <2> HIDE DEF d
  <2> QED BY <2>1 DEF KnownColumns
<1>5. near = {C \in Span(d.rows) : fits(SymDiff(C, hard))}
  <2>1. near = {C \in Span(d.rows) :
                  LET basis == SymDiff(C, hard) \cap (1..K)
                  IN  \/ basis = {}
                      \/ /\ Cardinality(basis) <= 2 /\ basis \cap known = {}
                         /\ Cardinality(basis) + Cardinality(Pruning(SymDiff(C, hard))) <= NTheta}
    BY Zenon DEF NearWords
  <2> HIDE DEF near, known, hard, d
  <2> QED BY <1>4, <2>1, Zenon
<1> HIDE DEF d, hard, known, near
<1>6. \A C \in SUBSET Bits : wrong(BitsOf(d.indices, C)) = SymDiff(C, hard)
  BY <1>1, <1>3, WrongReordered
<1> HIDE DEF wrong, fits
<1>7. Codewords = {BitsOf(d.indices, C) : C \in Span(d.rows)}
  <2> DEFINE bits == [r \in 1..K |-> BitsOf(d.indices, d.rows[r])]
  <2>1. RowBits(d) = bits
    BY Zenon DEF RowBits
  <2>2. \A m \in SUBSET (1..K) : Encode(bits, m) = BitsOf(d.indices, Encode(d.rows, m))
    BY <1>1, EncodeOfBits
  <2> HIDE DEF bits
  <2>3. Codewords = {Encode(bits, m) : m \in SUBSET (1..K)}
    BY <1>1, <2>1, Zenon DEF Span
  <2>4. Span(d.rows) = {Encode(d.rows, m) : m \in SUBSET (1..K)}
    BY Zenon DEF Span
  <2> QED BY <2>2, <2>3, <2>4, Zenon
<1>8. Span(d.rows) \subseteq SUBSET Bits
  BY <1>1, SpanTyped
<1>9. \A C \in Span(d.rows) : wrong(BitsOf(d.indices, C)) = SymDiff(C, hard)
  BY <1>6, <1>8
<1>10. Searched(rx, channel, sure) = {BitsOf(d.indices, C) : C \in near}
  BY <1>2, <1>5, <1>7, <1>9, Zenon
<1> QED BY <1>10, Zenon DEF d, hard, known, near

\* What the decoder answers is what the search finds, if its CRC is right.
LEMMA OSDAnswers ==
    ASSUME NEW rx, NEW channel, NEW sure
    PROVE  LET d == Diagonalized(rx)
               hard == HardColumns(d.indices, rx, channel, sure)
               columns == KnownColumns(d.indices, sure)
               word == BitsOf(d.indices, SearchFinds(d, rx, hard, columns).best)
           IN  OSD(rx, channel, sure) = IF d.ok /\ word \in GoodChecksums
                                      THEN [ok |-> TRUE, word |-> word] ELSE NotFound
BY Zenon DEF OSD, SearchFinds, Unsearched, Base, BitsOf, KnownColumns

\* An answer is the nearest of the words searched; none is given only if no basis is
\* found or a nearest word has a wrong CRC.
AnswersNearest(rx, channel, known, given) ==
    LET words      == Searched(rx, channel, known)
        away(word) == Distance(rx, channel, known, word)
        nearest    == {word \in words : \A other \in words : away(word) <= away(other)}
    IN  IF given.ok THEN given.word \in nearest \cap GoodChecksums
        ELSE Diagonalized(rx).ok => ~(nearest \subseteq GoodChecksums)

LEMMA OSDNearest ==
    ASSUME NEW rx \in Words, NEW channel, NEW known
    PROVE  AnswersNearest(rx, channel, known, OSD(rx, channel, known))
<1> DEFINE d == Diagonalized(rx)
           hard == HardColumns(d.indices, rx, channel, known)
           columns == KnownColumns(d.indices, known)
           best == SearchFinds(d, rx, hard, columns).best
           near == NearWords(d, hard, columns)
           found == BitsOf(d.indices, best)
           words == Searched(rx, channel, known)
           away(word) == Distance(rx, channel, known, word)
           nearest == {word \in words : \A other \in words : away(word) <= away(other)}
           given == OSD(rx, channel, known)
<1>1. given = IF d.ok /\ found \in GoodChecksums THEN [ok |-> TRUE, word |-> found] ELSE NotFound
  BY OSDAnswers, Zenon
<1>2. CASE ~d.ok
  <2>1. given.ok = FALSE
    BY <1>1, <1>2 DEF NotFound
  <2> HIDE DEF given
  <2> QED BY <1>2, <2>1, Zenon DEF AnswersNearest, given
<1>3. CASE d.ok
  <2>1. d \in States /\ Reduced(d, K)
    BY DiagonalizedReduced
  <2>2. words = {BitsOf(d.indices, C) : C \in near}
    BY <1>3, <2>1, SearchedIsNear, Zenon
  <2>3. d.indices \in Orders /\ d.rows \in Rows /\ Identity(d.rows)
    <3> HIDE DEF d
    <3> QED BY <1>3, <2>1 DEF Reduced, Identity, States
  <2>4. hard \in SUBSET Bits
    <3> HIDE DEF d
    <3> QED BY <2>3, HardReordered
  <2> HIDE DEF d
  <2>5. \A C \in SUBSET Bits : away(BitsOf(d.indices, C)) = Away(d, rx, hard, C)
    BY <2>1, <2>3, DistanceReordered
  <2> HIDE DEF hard, columns, away
  <2>6. best \in near /\ \A C \in near : Away(d, rx, hard, best) <= Away(d, rx, hard, C)
    BY <2>1, <2>3, <2>4, FoundIsNearest
  <2>7. \A C \in near : C \in SUBSET Bits
    BY <2>3, SpanTyped DEF NearWords
  <2> HIDE DEF best, near, words
  <2>8. found \in nearest
    BY <2>2, <2>5, <2>6, <2>7, Zenon
  <2> HIDE DEF found, nearest, given
  <2>9. IF given.ok THEN given.word \in nearest \cap GoodChecksums
        ELSE ~(nearest \subseteq GoodChecksums)
    <3>1. CASE found \in GoodChecksums
      <4>1. given = [ok |-> TRUE, word |-> found]
        BY <1>1, <1>3, <3>1
      <4>2. given.ok = TRUE /\ given.word = found
        BY <4>1
      <4> QED BY <2>8, <3>1, <4>2
    <3>2. CASE found \notin GoodChecksums
      <4>1. given.ok = FALSE
        BY <1>1, <3>2 DEF NotFound
      <4> QED BY <2>8, <3>2, <4>1
    <3> QED BY <3>1, <3>2
  <2> QED BY <2>9, Zenon DEF AnswersNearest, nearest, words, away, given
<1> QED BY <1>2, <1>3
------------------------------------------------------------------------------
\* The last answer is that of the last search.
SearchInv ==
    /\ tried \in Seq(Received)
    /\ tried # <<>> => answer = OSD(Last(tried), llr, ap)
    /\ pc = "propagate" => tried = <<>>

\* The search with its pruning, its cached word and its swapped columns answers as if
\* every word it may look at had been measured from scratch (src/ft8/osd.go:116-264).
THEOREM SearchAlwaysNearest == Spec => []NearestOfSearch
<1>1. Init => SearchInv
  BY DEF Init, SearchInv
<1>2. SearchInv /\ [Next]_vars => SearchInv'
  <2> SUFFICES ASSUME SearchInv, [Next]_vars PROVE SearchInv'
    OBVIOUS
  <2>1. CASE Found
    BY <2>1, Zenon DEF Found, SearchInv
  <2>2. CASE Iterate
    BY <2>2, Zenon DEF Iterate, SearchInv
  <2>3. CASE Stop
    <3>1. pc' # "propagate"
      BY <2>3 DEF Stop
    <3> QED BY <2>3, <3>1, Zenon DEF Stop, SearchInv
  <2>4. CASE Search
    <3>1. PICK rx \in Received : answer' = OSD(rx, llr, ap) /\ tried' = Append(tried, rx)
      BY <2>4, Zenon DEF Search
    <3>2. llr' = llr /\ ap' = ap /\ pc' # "propagate"
      BY <2>4 DEF Search
    <3>3. tried \in Seq(Received)
      BY DEF SearchInv
    <3>4. Append(tried, rx) \in Seq(Received) /\ Last(Append(tried, rx)) = rx
      BY <3>3 DEF Last
    <3> QED BY <3>1, <3>2, <3>4, Zenon DEF SearchInv
  <2>5. CASE UNCHANGED vars
    BY <2>5, Zenon DEF vars, SearchInv
  <2> QED BY <2>1, <2>2, <2>3, <2>4, <2>5 DEF Next
<1>3. SearchInv => NearestOfSearch
  <2> SUFFICES ASSUME SearchInv, tried # <<>>
               PROVE  AnswersNearest(Last(tried), llr, ap, answer)
    BY Zenon DEF NearestOfSearch, AnswersNearest
  <2>1. Last(tried) \in Received /\ answer = OSD(Last(tried), llr, ap)
    BY DEF SearchInv, Last
  <2>2. Last(tried) \in Words
    BY <2>1, LdpcAssumption DEF Words
  <2> QED BY <2>1, <2>2, OSDNearest, Zenon
<1> QED BY <1>1, <1>2, <1>3, PTL DEF Spec
==============================================================================
