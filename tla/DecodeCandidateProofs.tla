------------------------ MODULE DecodeCandidateProofs ------------------------
(***************************************************************************)
(* The state of the candidate decoder is well typed, its diagnostics add up *)
(* for any number of passes, profiles, hints and candidates, a message      *)
(* resolves only calls heard before it, and a candidate is one step of its  *)
(* caller.  What a sum over the profiles or the sources is worth is proved  *)
(* from the definition of SumFunction, by induction on the names summed.    *)
(***************************************************************************)
EXTENDS DecodeCandidate, UnpackLemmas, FiniteSetTheorems

\* Setting one counter leaves every other as it was.
LEMMA SetCounted ==
    ASSUME NEW d, Counted(d), NEW c \in Counters, NEW n \in Nat
    PROVE  LET a == [d EXCEPT ![c] = n]
           IN  Counted(a) /\ a[c] = n /\ \A e \in Counters : e # c => a[e] = d[e]
<1> DEFINE D == Counters \cup ByProfile \cup BySource
           a == [d EXCEPT ![c] = n]
<1>1. d = [e \in D |-> d[e]] /\ DOMAIN d = D
  BY DEF Counted
<1>2. c \notin ByProfile /\ c \notin BySource
  BY DEF Counters, ByProfile, BySource
<1>3. a = [e \in D |-> IF e = c THEN n ELSE d[e]]
  BY <1>1
<1>4. \A e \in D : a[e] = IF e = c THEN n ELSE d[e]
  BY <1>3
<1>5. a = [e \in D |-> a[e]]
  BY <1>3, <1>4
<1>6. \A e \in Counters : a[e] \in Nat
  BY <1>4 DEF Counted
<1>7. \A e \in ByProfile : a[e] \in [ProfileNames -> Nat]
  BY <1>2, <1>4 DEF Counted
<1>8. \A e \in BySource : a[e] \in [SourceNames -> Nat]
  BY <1>2, <1>4 DEF Counted
<1> HIDE DEF a
<1>9. Counted(a)
  BY <1>5, <1>6, <1>7, <1>8 DEF Counted
<1> QED BY <1>4, <1>9 DEF a

\* Advancing one counter leaves every other as it was.
LEMMA AddCounted ==
    ASSUME NEW d, Counted(d), NEW c \in Counters, NEW n \in Nat
    PROVE  /\ Counted(Add(d, c, n))
           /\ Add(d, c, n)[c] = d[c] + n
           /\ \A e \in Counters : e # c => Add(d, c, n)[e] = d[e]
<1>1. d[c] + n \in Nat
  BY DEF Counted
<1>2. Add(d, c, n) = [d EXCEPT ![c] = d[c] + n]
  BY DEF Add
<1> DEFINE a == Add(d, c, n)
<1>3. Counted(a) /\ a[c] = d[c] + n /\ \A e \in Counters : e # c => a[e] = d[e]
  <2> DEFINE m == d[c] + n
  <2> HIDE DEF m
  <2>1. m \in Nat /\ a = [d EXCEPT ![c] = m]
    BY <1>1, <1>2 DEF m
  <2> HIDE DEF a
  <2>2. LET b == [d EXCEPT ![c] = m]
        IN  Counted(b) /\ b[c] = m /\ \A e \in Counters : e # c => b[e] = d[e]
    <3>1. m \in Nat
      BY <2>1
    <3> QED BY <3>1, SetCounted
  <2>3. Counted(a) /\ a[c] = m /\ \A e \in Counters : e # c => a[e] = d[e]
    BY <2>1, <2>2, Zenon
  <2> QED BY <2>3 DEF m
<1> QED BY <1>3

\* The tallies are functions beside the counters.
LEMMA TallyCounted ==
    ASSUME NEW d, Counted(d), NEW t \in ByProfile \cup BySource, NEW name
    PROVE  /\ Counted(Tally(d, t, name))
           /\ \A e \in Counters : Tally(d, t, name)[e] = d[e]
<1> DEFINE D == Counters \cup ByProfile \cup BySource
           a == Tally(d, t, name)
           raised(f) == [f EXCEPT ![name] = @ + 1]
<1>1. d = [e \in D |-> d[e]] /\ DOMAIN d = D
  BY DEF Counted
<1>2. t \notin Counters
  BY DEF Counters, ByProfile, BySource
<1>3. a = [e \in D |-> IF e = t THEN raised(d[e]) ELSE d[e]]
  BY <1>1 DEF Tally
<1>4. \A e \in D : a[e] = IF e = t THEN raised(d[e]) ELSE d[e]
  BY <1>3
<1>5. a = [e \in D |-> a[e]]
  BY <1>3, <1>4
<1>6. ASSUME NEW S, NEW f \in [S -> Nat]
      PROVE  raised(f) \in [S -> Nat]
  <2>1. raised(f) = [x \in S |-> IF x = name THEN f[x] + 1 ELSE f[x]]
    OBVIOUS
  <2>2. \A x \in S : f[x] \in Nat /\ f[x] + 1 \in Nat
    OBVIOUS
  <2> HIDE DEF raised
  <2> QED BY <2>1, <2>2
<1> HIDE DEF a, raised
<1>7. \A e \in Counters : a[e] = d[e]
  BY <1>2, <1>4
<1>8. \A e \in ByProfile : a[e] \in [ProfileNames -> Nat]
  <2> TAKE e \in ByProfile
  <2>1. d[e] \in [ProfileNames -> Nat]
    BY DEF Counted
  <2>2. raised(d[e]) \in [ProfileNames -> Nat]
    BY <2>1, <1>6
  <2> QED BY <1>4, <2>1, <2>2
<1>9. \A e \in BySource : a[e] \in [SourceNames -> Nat]
  <2> TAKE e \in BySource
  <2>1. d[e] \in [SourceNames -> Nat]
    BY DEF Counted
  <2>2. raised(d[e]) \in [SourceNames -> Nat]
    BY <2>1, <1>6
  <2> QED BY <1>4, <2>1, <2>2
<1>10. Counted(a)
  BY <1>5, <1>7, <1>8, <1>9 DEF Counted
<1> QED BY <1>7, <1>10 DEF a

\* The counter of the attempts and those it is split into.
AttemptCounters == {"LDPCAttempts", "MetricLDPCAttempts", "APAttempts"}
OutcomeCounters == {"APSuccesses", "APRejectedAfterLDPC"}

\* One counter for each way decodeLLRPass can end.
EndCounters == {"LDPCFailures", "RejectedHardErrors", "RejectedAllZero", "UnpackFailures",
                "RejectedMessageFilter", "DecodedCandidates"}

Balanced(d) ==
    /\ d.LDPCAttempts = d.MetricLDPCAttempts + d.APAttempts
    /\ d.LDPCAttempts = d.LDPCFailures + d.RejectedHardErrors
                          + d.RejectedAllZero + d.UnpackFailures
                          + d.RejectedMessageFilter + d.DecodedCandidates

LEMMA TallyPassCounted ==
    ASSUME NEW d, Counted(d), NEW p \in ByProfile, NEW s \in BySource, NEW pass
    PROVE  /\ Counted(TallyPass(d, p, s, pass))
           /\ \A e \in Counters : TallyPass(d, p, s, pass)[e] = d[e]
<1> DEFINE a == Tally(d, p, pass.profile)
<1>1. Counted(a) /\ \A e \in Counters : a[e] = d[e]
  BY TallyCounted
<1> HIDE DEF a
<1>2. LET b == Tally(a, s, pass.source)
      IN  Counted(b) /\ \A e \in Counters : b[e] = a[e]
  BY <1>1, TallyCounted
<1> QED BY <1>1, <1>2 DEF TallyPass, a

\* An attempt is counted, and counted as a metric or an AP pass.
LEMMA AttemptCounted ==
    ASSUME NEW d, Counted(d), NEW pass
    PROVE  LET a == RecordLDPCAttempt(d, pass)
           IN  /\ Counted(a)
               /\ a.LDPCAttempts = d.LDPCAttempts + 1
               /\ a.MetricLDPCAttempts + a.APAttempts
                    = d.MetricLDPCAttempts + d.APAttempts + 1
               /\ \A e \in Counters \ AttemptCounters : a[e] = d[e]
<1> DEFINE once == Count(d, "LDPCAttempts")
           metric == Count(once, "MetricLDPCAttempts")
           ap == Count(once, "APAttempts")
           tallied == TallyPass(ap, "APAttemptsByProfile", "APAttemptsBySource", pass)
<1>1. AttemptCounters \subseteq Counters /\ \A e \in Counters : d[e] \in Nat
  BY DEF AttemptCounters, Counters, Counted
<1>2. /\ Counted(once) /\ once.LDPCAttempts = d.LDPCAttempts + 1
      /\ \A e \in Counters : e # "LDPCAttempts" => once[e] = d[e]
  BY <1>1, AddCounted DEF Count, AttemptCounters
<1> HIDE DEF once
<1>3. /\ Counted(metric) /\ metric.MetricLDPCAttempts = once.MetricLDPCAttempts + 1
      /\ \A e \in Counters : e # "MetricLDPCAttempts" => metric[e] = once[e]
  BY <1>1, <1>2, AddCounted DEF Count, AttemptCounters
<1>4. /\ Counted(ap) /\ ap.APAttempts = once.APAttempts + 1
      /\ \A e \in Counters : e # "APAttempts" => ap[e] = once[e]
  BY <1>1, <1>2, AddCounted DEF Count, AttemptCounters
<1> HIDE DEF metric, ap
<1>5. Counted(tallied) /\ \A e \in Counters : tallied[e] = ap[e]
  BY <1>4, TallyPassCounted DEF ByProfile, BySource
<1> HIDE DEF tallied
<1>6. RecordLDPCAttempt(d, pass) = IF pass.profile = "" THEN metric ELSE tallied
  BY DEF RecordLDPCAttempt, once, metric, ap, tallied
<1>7. /\ {"LDPCAttempts", "MetricLDPCAttempts", "APAttempts"} \subseteq Counters
      /\ once.MetricLDPCAttempts = d.MetricLDPCAttempts /\ once.APAttempts = d.APAttempts
      /\ \A e \in Counters \ AttemptCounters : once[e] = d[e]
  BY <1>1, <1>2 DEF AttemptCounters
<1>8. /\ metric.LDPCAttempts = d.LDPCAttempts + 1
      /\ metric.MetricLDPCAttempts = d.MetricLDPCAttempts + 1
      /\ metric.APAttempts = d.APAttempts
      /\ \A e \in Counters \ AttemptCounters : metric[e] = d[e]
  BY <1>2, <1>3, <1>7 DEF AttemptCounters
<1>9. /\ tallied.LDPCAttempts = d.LDPCAttempts + 1
      /\ tallied.MetricLDPCAttempts = d.MetricLDPCAttempts
      /\ tallied.APAttempts = d.APAttempts + 1
      /\ \A e \in Counters \ AttemptCounters : tallied[e] = d[e]
  BY <1>2, <1>4, <1>5, <1>7 DEF AttemptCounters
<1>10. d.MetricLDPCAttempts \in Nat /\ d.APAttempts \in Nat
  BY <1>1, <1>7
<1> DEFINE a == RecordLDPCAttempt(d, pass)
<1> HIDE DEF a
<1>11. CASE pass.profile = ""
  <2>1. a = metric
    BY <1>6, <1>11 DEF a
  <2>2. a.MetricLDPCAttempts + a.APAttempts = d.MetricLDPCAttempts + d.APAttempts + 1
    BY <1>8, <1>10, <2>1
  <2> QED BY <1>3, <1>8, <2>1, <2>2 DEF a
<1>12. CASE pass.profile # ""
  <2>1. a = tallied
    BY <1>6, <1>12 DEF a
  <2>2. a.MetricLDPCAttempts + a.APAttempts = d.MetricLDPCAttempts + d.APAttempts + 1
    BY <1>9, <1>10, <2>1
  <2> QED BY <1>5, <1>9, <2>1, <2>2 DEF a
<1> QED BY <1>11, <1>12

\* The AP counters by outcome are no part of the balance.
LEMMA OutcomeCounted ==
    ASSUME NEW d, Counted(d), NEW pass,
           NEW r \in {RecordAPRejectedAfterLDPC(d, pass), RecordAPSuccess(d, pass)}
    PROVE  Counted(r) /\ \A e \in Counters \ OutcomeCounters : r[e] = d[e]
<1> DEFINE success == Count(d, "APSuccesses")
           rejection == Count(d, "APRejectedAfterLDPC")
<1>1. OutcomeCounters \subseteq Counters
  BY DEF OutcomeCounters, Counters
<1>2. /\ Counted(success) /\ \A e \in Counters \ OutcomeCounters : success[e] = d[e]
      /\ Counted(rejection) /\ \A e \in Counters \ OutcomeCounters : rejection[e] = d[e]
  BY <1>1, AddCounted DEF Count, OutcomeCounters
<1> HIDE DEF success, rejection
<1>3. CASE pass.profile = ""
  BY <1>3 DEF RecordAPRejectedAfterLDPC, RecordAPSuccess
<1>4. CASE pass.profile # ""
  <2>1. r \in {TallyPass(rejection, "APRejectedAfterLDPCByProfile",
                         "APRejectedAfterLDPCBySource", pass),
               TallyPass(success, "APSuccessesByProfile", "APSuccessesBySource", pass)}
    BY <1>4, Zenon DEF RecordAPRejectedAfterLDPC, RecordAPSuccess, success, rejection
  <2> QED BY <1>2, <2>1, TallyPassCounted DEF ByProfile, BySource
<1> QED BY <1>3, <1>4

\* An attempt that ends in one of the ways decodeLLRPass can end is in balance.
LEMMA AttemptEnds ==
    ASSUME NEW d, Counted(d), Balanced(d), NEW pass, NEW end \in EndCounters,
           NEW a, Counted(a),
           \A e \in Counters \ OutcomeCounters : a[e] = RecordLDPCAttempt(d, pass)[e]
    PROVE  Counted(Count(a, end)) /\ Balanced(Count(a, end))
<1> DEFINE attempted == RecordLDPCAttempt(d, pass)
           done == Count(a, end)
<1>1. /\ attempted.LDPCAttempts = d.LDPCAttempts + 1
      /\ attempted.MetricLDPCAttempts + attempted.APAttempts
           = d.MetricLDPCAttempts + d.APAttempts + 1
      /\ \A e \in Counters \ AttemptCounters : attempted[e] = d[e]
  BY AttemptCounted
<1> HIDE DEF attempted
<1>2. /\ a.LDPCAttempts = d.LDPCAttempts + 1
      /\ a.MetricLDPCAttempts + a.APAttempts = d.MetricLDPCAttempts + d.APAttempts + 1
      /\ \A e \in EndCounters : a[e] = d[e]
  BY <1>1 DEF attempted, Counters, AttemptCounters, OutcomeCounters, EndCounters
<1>3. /\ Counted(done) /\ done[end] = a[end] + 1
      /\ \A e \in Counters : e # end => done[e] = a[e]
  <2>1. end \in Counters
    BY DEF EndCounters, Counters
  <2> QED BY <2>1, AddCounted DEF Count
<1>4. /\ \A e \in Counters : a[e] \in Nat /\ d[e] \in Nat
      /\ EndCounters \subseteq Counters /\ AttemptCounters \subseteq Counters
      /\ EndCounters \cap AttemptCounters = {}
  BY DEF Counted, EndCounters, AttemptCounters, Counters
<1> HIDE DEF done
<1>5. /\ done.LDPCAttempts = d.LDPCAttempts + 1
      /\ done.LDPCAttempts = done.MetricLDPCAttempts + done.APAttempts
  BY <1>2, <1>3, <1>4 DEF Balanced, AttemptCounters
<1>6. /\ done[end] = d[end] + 1
      /\ \A e \in EndCounters : done[e] \in Nat /\ d[e] \in Nat
      /\ \A e \in EndCounters : e # end => done[e] = d[e]
  BY <1>2, <1>3, <1>4
<1>7. done.LDPCFailures + done.RejectedHardErrors + done.RejectedAllZero
        + done.UnpackFailures + done.RejectedMessageFilter + done.DecodedCandidates
      = d.LDPCFailures + d.RejectedHardErrors + d.RejectedAllZero
          + d.UnpackFailures + d.RejectedMessageFilter + d.DecodedCandidates + 1
  BY <1>6 DEF EndCounters
<1> QED BY <1>3, <1>5, <1>7 DEF done, Balanced

\* No other counter enters the balance.
LEMMA OthersBalanced ==
    ASSUME NEW d, Balanced(d), NEW a,
           \A e \in AttemptCounters \cup EndCounters : a[e] = d[e]
    PROVE  Balanced(a)
  BY DEF Balanced, AttemptCounters, EndCounters

LEMMA AddBalanced ==
    ASSUME NEW d, Counted(d), Balanced(d), NEW n \in Nat,
           NEW c \in Counters \ (AttemptCounters \cup EndCounters)
    PROVE  Counted(Add(d, c, n)) /\ Balanced(Add(d, c, n))
<1>1. AttemptCounters \cup EndCounters \subseteq Counters
  BY DEF AttemptCounters, EndCounters, Counters
<1>2. \A e \in AttemptCounters \cup EndCounters : Add(d, c, n)[e] = d[e]
  BY <1>1, AddCounted
<1> QED BY <1>2, AddCounted, OthersBalanced

\* Scoring the hints is no attempt.
LEMMA ScoredBalanced ==
    ASSUME NEW d, Counted(d), Balanced(d),
           NEW hints \in Nat, NEW selected \in Nat, NEW below \in Nat
    PROVE  LET a == RecordAPHintScored(d, hints, selected, below)
           IN  Counted(a) /\ Balanced(a)
<1> DEFINE others == Counters \ (AttemptCounters \cup EndCounters)
           one == Add(d, "APHintProfilesScored", 2 * hints)
           two == Add(one, "APHintHypothesesSelected", selected)
           scored == Add(two, "APHintHypothesesBelowThreshold", below)
           a == [scored EXCEPT !["APCallHints"] = hints]
<1>1. {"APHintProfilesScored", "APHintHypothesesSelected",
       "APHintHypothesesBelowThreshold", "APCallHints"} \subseteq others
  BY DEF Counters, AttemptCounters, EndCounters
<1> HIDE DEF others
<1>2. Counted(one) /\ Balanced(one)
  BY <1>1, AddBalanced DEF others
<1> HIDE DEF one
<1>3. Counted(two) /\ Balanced(two)
  BY <1>1, <1>2, AddBalanced DEF others
<1> HIDE DEF two
<1>4. Counted(scored) /\ Balanced(scored)
  BY <1>1, <1>3, AddBalanced DEF others
<1> HIDE DEF scored
<1>5. Counted(a) /\ \A e \in Counters : e # "APCallHints" => a[e] = scored[e]
  BY <1>1, <1>4, SetCounted DEF others
<1>6. \A e \in AttemptCounters \cup EndCounters : e \in Counters /\ e # "APCallHints"
  BY DEF Counters, AttemptCounters, EndCounters
<1> HIDE DEF a
<1>7. Balanced(a)
  BY <1>4, <1>5, <1>6, OthersBalanced
<1> QED BY <1>5, <1>7 DEF RecordAPHintScored, a, scored, two, one

\* The plans are sequences of passes.
LEMMA ProfilePlanTyped ==
    ASSUME NEW names \in Seq(STRING), Range(names) \subseteq ProfileNames,
           Range(names) \subseteq SourceNames
    PROVE  ProfilePlan(names) \in Seq(Pass)
<1>1. Len(names) \in Nat /\ DOMAIN names = 1..Len(names)
  BY LenProperties
<1>2. \A i \in 1..(2 * Len(names)) : (i + 1) \div 2 \in 1..Len(names)
  BY <1>1
<1>3. \A i \in 1..Len(names) : names[i] \in Range(names)
  BY <1>1 DEF Range
<1>4. ProfilePlan(names) \in [1..(2 * Len(names)) -> Pass]
  BY <1>2, <1>3 DEF ProfilePlan, Pass
<1> QED BY <1>1, <1>4, FunctionIsSequence

LEMMA BuiltinPlanTyped == BuiltinPlan \in Seq(Pass)
<1>1. /\ ProfilePlan(DefaultProfiles) \in Seq(Pass)
      /\ ProfilePlan(BroadProfiles) \in Seq(Pass)
  BY CandidateAssumption, ProfilePlanTyped DEF CandidateAssumption, ProfileNames, SourceNames
<1>2. MetricPlan \in Seq(Pass)
  BY CandidateAssumption, FunctionIsSequence DEF CandidateAssumption, MetricPlan, Pass
<1> QED BY <1>1, <1>2, ConcatProperties DEF BuiltinPlan

LEMMA HintPlanTyped ==
    ASSUME NEW passing \in SUBSET Hypotheses, NEW selection \in Selections(passing)
    PROVE  /\ HintPlan(selection) \in Seq(Pass)
           /\ Len(selection) \in Nat
           /\ Cardinality(Hypotheses \ passing) \in Nat
<1>1. Len(HintSources) \in Nat /\ DOMAIN HintSources = 1..Len(HintSources)
  BY CandidateAssumption, LenProperties DEF CandidateAssumption
<1>2. IsFiniteSet(Hypotheses)
  <2>1. IsFiniteSet(1..Len(HintSources))
    BY <1>1, FS_Interval
  <2>2. IsFiniteSet(HintProfiles)
    <3>1. IsFiniteSet({} \cup {"hint-call1"})
      BY FS_EmptySet, FS_AddElement
    <3>2. IsFiniteSet(({} \cup {"hint-call1"}) \cup {"hint-call2"})
      BY <3>1, FS_AddElement
    <3>3. HintProfiles = ({} \cup {"hint-call1"}) \cup {"hint-call2"}
      BY DEF HintProfiles
    <3> QED BY <3>2, <3>3
  <2> QED BY <2>1, <2>2, FS_Product DEF Hypotheses
<1>3. Cardinality(Hypotheses \ passing) \in Nat /\ Cardinality(passing) \in Nat
  BY <1>2, FS_Subset, FS_CardinalityType
<1> DEFINE n == MinOf(Cardinality(passing), MaxHypotheses)
<1>4. n \in Nat
  BY <1>3, CandidateAssumption DEF CandidateAssumption, MinOf
<1>5. selection \in [1..n -> passing]
  BY DEF Selections, Injection
<1> HIDE DEF n
<1>6. Len(selection) = n /\ DOMAIN selection = 1..n
  BY <1>4, <1>5, FunctionIsSequence
<1>7. \A i \in 1..n : selection[i][1] \in 1..Len(HintSources) /\ selection[i][2] \in HintProfiles
  BY <1>5 DEF Hypotheses
<1>8. \A i \in 1..Len(HintSources) : HintSources[i] \in SourceNames
  BY <1>1 DEF SourceNames, Range
<1>9. HintPlan(selection) \in [1..n -> Pass]
  BY <1>6, <1>7, <1>8 DEF HintPlan, Pass, ProfileNames
<1> QED BY <1>3, <1>4, <1>6, <1>9, FunctionIsSequence

IInv == TypeOK /\ AttemptsAccounted

LEMMA InitOK == Init => IInv
<1> SUFFICES ASSUME Init PROVE IInv
  OBVIOUS
<1>1. Counted(diag)
  BY DEF Init, ZeroDiag, Counted, Counters, ByProfile, BySource
<1>2. Balanced(diag)
  BY DEF Init, ZeroDiag, Balanced
<1>3. WellFormed(calls22)
  BY MaxHashAssumption DEF Init, WellFormed
<1> QED BY <1>1, <1>2, <1>3, CandidateAssumption
        DEF Init, IInv, TypeOK, AttemptsAccounted, Balanced, CandidateAssumption

\* An attempt leaves well typed, balanced diagnostics however it ends.
LEMMA PassingStep ==
    ASSUME IInv, Passing
    PROVE  /\ Counted(Count(Attempted, "LDPCFailures"))
           /\ Balanced(Count(Attempted, "LDPCFailures"))
           /\ \A end \in EndCounters : /\ Counted(Count(AttemptRejected, end))
                                       /\ Balanced(Count(AttemptRejected, end))
           /\ LET success == Count(RecordAPSuccess(Attempted, Head(plan)), "DecodedCandidates")
              IN  Counted(success) /\ Balanced(success)
           /\ Tail(plan) \in Seq(Pass)
<1>1. Counted(diag) /\ Balanced(diag)
  BY DEF IInv, TypeOK, AttemptsAccounted, Balanced
<1>2. Counted(Attempted)
  BY <1>1, AttemptCounted DEF Attempted
<1>3. /\ Counted(AttemptRejected)
      /\ \A e \in Counters \ OutcomeCounters : AttemptRejected[e] = Attempted[e]
  BY <1>2, OutcomeCounted DEF AttemptRejected
<1> DEFINE accepted == RecordAPSuccess(Attempted, Head(plan))
<1>4. Counted(accepted) /\ \A e \in Counters \ OutcomeCounters : accepted[e] = Attempted[e]
  BY <1>2, OutcomeCounted
<1> HIDE DEF accepted
<1>5. Tail(plan) \in Seq(Pass)
  BY DEF IInv, TypeOK, Passing
<1>6. {"LDPCFailures", "DecodedCandidates"} \subseteq EndCounters
  BY DEF EndCounters
<1>7. \A a : Counted(a) /\ (\A e \in Counters \ OutcomeCounters : a[e] = Attempted[e])
               => \A end \in EndCounters : Counted(Count(a, end)) /\ Balanced(Count(a, end))
  BY <1>1, AttemptEnds DEF Attempted
<1> QED BY <1>2, <1>3, <1>4, <1>5, <1>6, <1>7 DEF accepted

\* A codeword may be thrown away only while there is room for one.
LEMMA ThrowAwayStep ==
    ASSUME IInv, ThrowAway, calls22' \in Seq(Entry), WellFormed(calls22'),
           Counted(diag'), Balanced(diag')
    PROVE  IInv'
<1>1. plan' \in Seq(Pass)
  BY PassingStep DEF ThrowAway
<1>2. rejected' \in 0..MaxRejected
  BY CandidateAssumption DEF ThrowAway, IInv, TypeOK, CandidateAssumption
<1> QED BY <1>1, <1>2 DEF ThrowAway, IInv, TypeOK, AttemptsAccounted, Balanced

\* One statement of the candidate decoder keeps the invariant.
LEMMA StepOK == IInv /\ [Next]_vars => IInv'
<1> SUFFICES ASSUME IInv, [Next]_vars PROVE IInv'
  OBVIOUS
<1>1. /\ stage \in {"idle", "gates", "builtin", "hints"} /\ plan \in Seq(Pass)
      /\ Counted(diag) /\ Balanced(diag)
      /\ calls22 \in Seq(Entry) /\ WellFormed(calls22) /\ rejected \in 0..MaxRejected
  BY DEF IInv, TypeOK, AttemptsAccounted, Balanced
<1>2. MaxRejected \in Nat /\ Payloads \subseteq Payload
  BY CandidateAssumption DEF CandidateAssumption
<1>3. SUFFICES /\ stage' \in {"idle", "gates", "builtin", "hints"} /\ plan' \in Seq(Pass)
               /\ Counted(diag') /\ Balanced(diag')
               /\ calls22' \in Seq(Entry) /\ WellFormed(calls22')
               /\ rejected' \in 0..MaxRejected
  BY DEF IInv, TypeOK, AttemptsAccounted, Balanced
<1>4. {"CandidatesAnalyzed", "RejectedHardSync", "RejectedCostas"}
        \subseteq Counters \ (AttemptCounters \cup EndCounters)
  BY DEF Counters, AttemptCounters, EndCounters
<1>5. CASE StartCandidate
  BY <1>1, <1>2, <1>4, <1>5, AddBalanced DEF StartCandidate, Count
<1>6. CASE RejectHardSync
  BY <1>1, <1>4, <1>6, AddBalanced DEF RejectHardSync, EndWithout, Count
<1>7. CASE RejectCostas
  BY <1>1, <1>4, <1>7, AddBalanced DEF RejectCostas, EndWithout, Count
<1>8. CASE PassGates
  BY <1>1, <1>8, BuiltinPlanTyped DEF PassGates
<1>9. CASE LDPCFails
  BY <1>1, <1>9, PassingStep DEF LDPCFails
<1>10. CASE RejectHardErrors
  <2>1. diag' = Count(AttemptRejected, "RejectedHardErrors") /\ ThrowAway /\ calls22' = calls22
    BY <1>10 DEF RejectHardErrors
  <2>2. Counted(diag') /\ Balanced(diag')
    BY <2>1, PassingStep DEF ThrowAway, EndCounters
  <2> QED BY <1>1, <2>1, <2>2, ThrowAwayStep DEF IInv, TypeOK
<1>11. CASE RejectAllZero
  <2>1. diag' = Count(AttemptRejected, "RejectedAllZero") /\ ThrowAway /\ calls22' = calls22
    BY <1>11 DEF RejectAllZero
  <2>2. Counted(diag') /\ Balanced(diag')
    BY <2>1, PassingStep DEF ThrowAway, EndCounters
  <2> QED BY <1>1, <2>1, <2>2, ThrowAwayStep DEF IInv, TypeOK
<1>12. CASE \E payload \in Payloads :
              FailUnpack(payload) \/ RejectMessage(payload) \/ Accept(payload)
  <2>1. PICK payload \in Payloads :
          FailUnpack(payload) \/ RejectMessage(payload) \/ Accept(payload)
    BY <1>12
  <2>2. calls22' = Unpack77(payload, calls22).table
    BY <2>1 DEF FailUnpack, RejectMessage, Accept
  <2>3. calls22' \in Seq(Entry) /\ WellFormed(calls22')
    BY <1>1, <1>2, <2>2, UnpackKeepsWellFormed
  <2>4. CASE FailUnpack(payload)
    <3>1. diag' = Count(AttemptRejected, "UnpackFailures") /\ ThrowAway
      BY <2>4 DEF FailUnpack
    <3>2. Counted(diag') /\ Balanced(diag')
      BY <3>1, PassingStep DEF ThrowAway, EndCounters
    <3> QED BY <2>3, <3>1, <3>2, ThrowAwayStep DEF IInv, TypeOK
  <2>5. CASE RejectMessage(payload)
    <3>1. diag' = Count(AttemptRejected, "RejectedMessageFilter") /\ ThrowAway
      BY <2>5 DEF RejectMessage
    <3>2. Counted(diag') /\ Balanced(diag')
      BY <3>1, PassingStep DEF ThrowAway, EndCounters
    <3> QED BY <2>3, <3>1, <3>2, ThrowAwayStep DEF IInv, TypeOK
  <2>6. CASE Accept(payload)
    <3>1. /\ Passing /\ stage' = "idle" /\ plan' = <<>> /\ rejected' = rejected
          /\ diag' = Count(RecordAPSuccess(Attempted, Head(plan)), "DecodedCandidates")
      BY <2>6 DEF Accept
    <3> QED BY <1>1, <2>3, <3>1, PassingStep
  <2> QED BY <2>1, <2>4, <2>5, <2>6
<1>13. CASE SelectHints
  <2>1. PICK passing \in SUBSET Hypotheses : \E selection \in Selections(passing) :
          /\ plan' = HintPlan(selection)
          /\ diag' = RecordAPHintScored(diag, Len(HintSources), Len(selection),
                                        Cardinality(Hypotheses \ passing))
    BY <1>13 DEF SelectHints
  <2>2. PICK selection \in Selections(passing) :
          /\ plan' = HintPlan(selection)
          /\ diag' = RecordAPHintScored(diag, Len(HintSources), Len(selection),
                                        Cardinality(Hypotheses \ passing))
    BY <2>1
  <2>3. Len(HintSources) \in Nat
    BY CandidateAssumption, LenProperties DEF CandidateAssumption
  <2>4. Counted(diag') /\ Balanced(diag') /\ plan' \in Seq(Pass)
    BY <1>1, <2>2, <2>3, HintPlanTyped, ScoredBalanced
  <2> QED BY <1>1, <1>13, <2>4 DEF SelectHints
<1>14. CASE GiveUp
  BY <1>1, <1>14 DEF GiveUp, EndWithout
<1>15. CASE UNCHANGED vars
  BY <1>1, <1>15 DEF vars
<1> QED BY <1>5, <1>6, <1>7, <1>8, <1>9, <1>10, <1>11, <1>12, <1>13, <1>14, <1>15
        DEF Next, Step

\* Whatever candidates, passes, profiles and hints there are, the decoder's
\* state is well typed, its callsign table included, and every attempt is
\* counted once by its kind and once by how it ended (decodeLLRPass, decode.go).
THEOREM AttemptsAlwaysAccounted == Spec => [](TypeOK /\ AttemptsAccounted)
<1>1. IInv => TypeOK /\ AttemptsAccounted
  BY DEF IInv
<1> QED BY <1>1, InitOK, StepOK, PTL DEF Spec
------------------------------------------------------------------------------
\* The counters the account of the candidates is kept in, and the candidates it
\* has to account for: the one being decoded is not among them.
CandidateCounters == {"CandidatesAnalyzed", "RejectedHardSync", "RejectedCostas"}

Decided(d, phase) == d.CandidatesAnalyzed - (IF phase = "idle" THEN 0 ELSE 1)
Vainly(d, phase) == Decided(d, phase) - (d.RejectedHardSync + d.RejectedCostas) - d.DecodedCandidates

\* The attempts the candidates decided so far have made at least.
Spent(d, phase) == Len(BuiltinPlan) * Vainly(d, phase) + d.DecodedCandidates

\* The candidate being decoded has made an attempt for every built-in pass it no
\* longer has to try.
PassesTried ==
    /\ Vainly(diag, stage) \in Nat
    /\ diag.LDPCAttempts >= Spent(diag, stage)
    /\ stage = "builtin" =>
         /\ Len(plan) <= Len(BuiltinPlan)
         /\ diag.LDPCAttempts + Len(plan) >= Spent(diag, stage) + Len(BuiltinPlan)
    /\ stage = "hints" => diag.LDPCAttempts >= Spent(diag, stage) + Len(BuiltinPlan)

LEMMA CountersTyped ==
    ASSUME NEW d, Counted(d)
    PROVE  /\ d.CandidatesAnalyzed \in Nat /\ d.RejectedHardSync \in Nat
           /\ d.RejectedCostas \in Nat /\ d.DecodedCandidates \in Nat
           /\ d.LDPCAttempts \in Nat
  BY DEF Counted, Counters

\* However an attempt ends it is one more, and no candidate is decided by it
\* unless it is decoded.
LEMMA PassCounts ==
    ASSUME IInv, Passing, NEW end \in EndCounters,
           NEW a \in {Attempted, AttemptRejected, RecordAPSuccess(Attempted, Head(plan))}
    PROVE  LET done == Count(a, end)
           IN  /\ done.LDPCAttempts = diag.LDPCAttempts + 1
               /\ \A e \in CandidateCounters : done[e] = diag[e]
               /\ done.DecodedCandidates = diag.DecodedCandidates
                                            + (IF end = "DecodedCandidates" THEN 1 ELSE 0)
<1> DEFINE done == Count(a, end)
<1>1. Counted(diag)
  BY DEF IInv, TypeOK
<1>2. /\ Counted(Attempted) /\ Attempted.LDPCAttempts = diag.LDPCAttempts + 1
      /\ \A e \in Counters \ AttemptCounters : Attempted[e] = diag[e]
  BY <1>1, AttemptCounted DEF Attempted
<1>3. Counted(a) /\ \A e \in Counters \ OutcomeCounters : a[e] = Attempted[e]
  BY <1>2, OutcomeCounted DEF AttemptRejected
<1>4. end \in Counters
  BY DEF EndCounters, Counters
<1>5. done[end] = a[end] + 1 /\ \A e \in Counters : e # end => done[e] = a[e]
  BY <1>3, <1>4, AddCounted DEF Count
<1> HIDE DEF done
<1>6. done.LDPCAttempts = diag.LDPCAttempts + 1
  BY <1>2, <1>3, <1>5 DEF Counters, OutcomeCounters, EndCounters
<1>7. \A e \in CandidateCounters : done[e] = diag[e]
  BY <1>2, <1>3, <1>5 DEF CandidateCounters, Counters, AttemptCounters, OutcomeCounters, EndCounters
<1>8. a.DecodedCandidates = diag.DecodedCandidates /\ diag.DecodedCandidates \in Nat
  BY <1>1, <1>2, <1>3, CountersTyped DEF Counters, AttemptCounters, OutcomeCounters
<1>9. done.DecodedCandidates = diag.DecodedCandidates
                                + (IF end = "DecodedCandidates" THEN 1 ELSE 0)
  BY <1>5, <1>8 DEF Counters
<1> QED BY <1>6, <1>7, <1>9 DEF done

LEMMA ScoredCounts ==
    ASSUME NEW d, Counted(d), NEW hints \in Nat, NEW selected \in Nat, NEW below \in Nat
    PROVE  LET a == RecordAPHintScored(d, hints, selected, below)
           IN  /\ \A e \in CandidateCounters : a[e] = d[e]
               /\ a.LDPCAttempts = d.LDPCAttempts
               /\ a.DecodedCandidates = d.DecodedCandidates
<1> DEFINE kept == CandidateCounters \cup {"LDPCAttempts", "DecodedCandidates"}
           one == Add(d, "APHintProfilesScored", 2 * hints)
           two == Add(one, "APHintHypothesesSelected", selected)
           scored == Add(two, "APHintHypothesesBelowThreshold", below)
           a == [scored EXCEPT !["APCallHints"] = hints]
<1>1. /\ {"APHintProfilesScored", "APHintHypothesesSelected",
          "APHintHypothesesBelowThreshold", "APCallHints"} \subseteq Counters \ kept
      /\ kept \subseteq Counters
  BY DEF Counters, CandidateCounters
<1> HIDE DEF kept
<1>2. 2 * hints \in Nat
  OBVIOUS
<1>3. Counted(one) /\ \A e \in kept : one[e] = d[e]
  BY <1>1, <1>2, AddCounted
<1> HIDE DEF one
<1>4. Counted(two) /\ \A e \in kept : two[e] = d[e]
  BY <1>1, <1>3, AddCounted
<1> HIDE DEF two
<1>5. Counted(scored) /\ \A e \in kept : scored[e] = d[e]
  BY <1>1, <1>4, AddCounted
<1> HIDE DEF scored
<1>6. \A e \in kept : a[e] = d[e]
  BY <1>1, <1>5, SetCounted
<1> HIDE DEF a
<1> QED BY <1>6 DEF kept, RecordAPHintScored, a, scored, two, one

\* Nothing is decided by an action that goes on with the candidate.
LEMMA SameSpent ==
    ASSUME NEW d, NEW a, NEW phase, NEW after,
           \A e \in CandidateCounters : a[e] = d[e],
           a.DecodedCandidates = d.DecodedCandidates,
           phase # "idle", after # "idle"
    PROVE  Vainly(a, after) = Vainly(d, phase) /\ Spent(a, after) = Spent(d, phase)
  BY DEF CandidateCounters, Decided, Vainly, Spent

LEMMA BuiltinTimes ==
    /\ Len(BuiltinPlan) \in Nat
    /\ \A v \in Nat : Len(BuiltinPlan) * (v + 1) = Len(BuiltinPlan) * v + Len(BuiltinPlan)
    /\ \A v \in Nat : Len(BuiltinPlan) * v \in Nat
<1>1. Len(BuiltinPlan) \in Nat
  BY BuiltinPlanTyped, LenProperties
<1> QED BY <1>1

\* An attempt that goes on leaves one pass less to try.
LEMMA PassLeavesTried ==
    ASSUME IInv, PassesTried, Passing, stage' = stage, plan' = Tail(plan),
           NEW end \in EndCounters \ {"DecodedCandidates"},
           NEW a \in {Attempted, AttemptRejected}, diag' = Count(a, end)
    PROVE  PassesTried'
<1>1. /\ diag'.LDPCAttempts = diag.LDPCAttempts + 1
      /\ \A e \in CandidateCounters : diag'[e] = diag[e]
      /\ diag.DecodedCandidates \in Nat /\ diag.LDPCAttempts \in Nat
  BY PassCounts, CountersTyped DEF IInv, TypeOK
<1>2. diag'.DecodedCandidates = diag.DecodedCandidates
  <2>1. diag'.DecodedCandidates = diag.DecodedCandidates + 0
    BY PassCounts
  <2> QED BY <1>1, <2>1
<1>3. stage # "idle" /\ plan # <<>>
  BY DEF Passing
<1>4. Vainly(diag', stage') = Vainly(diag, stage) /\ Spent(diag', stage') = Spent(diag, stage)
  BY <1>1, <1>2, <1>3, SameSpent
<1>5. Len(plan') = Len(plan) - 1 /\ Len(plan) \in Nat
  BY <1>3, HeadTailProperties, LenProperties DEF IInv, TypeOK
<1>6. Spent(diag, stage) \in Nat
  BY <1>1, BuiltinTimes DEF PassesTried, Spent
<1> HIDE DEF Passing
<1> QED BY <1>1, <1>4, <1>5, <1>6, BuiltinTimes DEF PassesTried

\* A candidate given up is one more tried in vain.
LEMMA GiveUpTried == IInv /\ PassesTried /\ GiveUp => PassesTried'
<1> SUFFICES ASSUME IInv, PassesTried, GiveUp PROVE PassesTried'
  OBVIOUS
<1>1. stage \in {"builtin", "hints"} /\ plan = <<>> /\ stage' = "idle" /\ diag' = diag
  BY DEF GiveUp, EndWithout
<1>2. /\ diag.CandidatesAnalyzed \in Nat /\ diag.RejectedHardSync \in Nat
      /\ diag.RejectedCostas \in Nat /\ diag.DecodedCandidates \in Nat
      /\ diag.LDPCAttempts \in Nat
  BY CountersTyped DEF IInv, TypeOK
<1>3. Vainly(diag', stage') = Vainly(diag, stage) + 1 /\ Vainly(diag, stage) \in Nat
  <2>1. /\ Decided(diag', stage') = diag.CandidatesAnalyzed
        /\ Decided(diag, stage) = diag.CandidatesAnalyzed - 1
    BY <1>1, <1>2 DEF Decided
  <2>2. Vainly(diag', stage') = Vainly(diag, stage) + 1
    BY <1>1, <1>2, <2>1 DEF Vainly
  <2> QED BY <2>2 DEF PassesTried
<1>4. Spent(diag', stage') = Spent(diag, stage) + Len(BuiltinPlan) /\ Spent(diag, stage) \in Nat
  <2> DEFINE v == Vainly(diag, stage)
  <2>1. Spent(diag', stage') = Len(BuiltinPlan) * (v + 1) + diag.DecodedCandidates
    BY <1>1, <1>3 DEF Spent
  <2>2. /\ Len(BuiltinPlan) * (v + 1) = Len(BuiltinPlan) * v + Len(BuiltinPlan)
        /\ Len(BuiltinPlan) * v \in Nat /\ Len(BuiltinPlan) \in Nat
    BY <1>3, BuiltinTimes
  <2>3. Spent(diag, stage) = Len(BuiltinPlan) * v + diag.DecodedCandidates
    BY DEF Spent
  <2> QED BY <1>2, <2>1, <2>2, <2>3
<1>5. diag.LDPCAttempts >= Spent(diag, stage) + Len(BuiltinPlan)
  BY <1>1, <1>2, <1>4, BuiltinTimes DEF PassesTried
<1> QED BY <1>1, <1>2, <1>3, <1>4, <1>5 DEF PassesTried

LEMMA AcceptTried ==
    ASSUME IInv, PassesTried, NEW payload \in Payloads, Accept(payload)
    PROVE  PassesTried'
<1>1. /\ stage # "idle" /\ stage' = "idle" /\ Passing
      /\ diag' = Count(RecordAPSuccess(Attempted, Head(plan)), "DecodedCandidates")
  BY DEF Accept, Passing
<1>2. /\ diag'.LDPCAttempts = diag.LDPCAttempts + 1
      /\ \A e \in CandidateCounters : diag'[e] = diag[e]
      /\ diag'.DecodedCandidates = diag.DecodedCandidates + 1
  BY <1>1, PassCounts DEF EndCounters
<1>3. /\ diag.CandidatesAnalyzed \in Nat /\ diag.RejectedHardSync \in Nat
      /\ diag.RejectedCostas \in Nat /\ diag.DecodedCandidates \in Nat
      /\ diag.LDPCAttempts \in Nat
  BY CountersTyped DEF IInv, TypeOK
<1>4. Vainly(diag', stage') = Vainly(diag, stage)
  BY <1>1, <1>2, <1>3 DEF Vainly, Decided, CandidateCounters
<1>5. Spent(diag', stage') = Spent(diag, stage) + 1 /\ Spent(diag, stage) \in Nat
  <2> DEFINE v == Vainly(diag, stage)
  <2>1. Len(BuiltinPlan) * v \in Nat
    BY BuiltinTimes DEF PassesTried
  <2>2. /\ Spent(diag', stage') = Len(BuiltinPlan) * v + (diag.DecodedCandidates + 1)
        /\ Spent(diag, stage) = Len(BuiltinPlan) * v + diag.DecodedCandidates
    BY <1>2, <1>4 DEF Spent
  <2> QED BY <1>3, <2>1, <2>2
<1> QED BY <1>1, <1>2, <1>3, <1>4, <1>5 DEF PassesTried

LEMMA PassesTriedKept == IInv /\ PassesTried /\ [Next]_vars => PassesTried'
<1> SUFFICES ASSUME IInv, PassesTried, [Next]_vars PROVE PassesTried'
  OBVIOUS
<1>1. /\ Counted(diag) /\ plan \in Seq(Pass)
      /\ diag.CandidatesAnalyzed \in Nat /\ diag.RejectedHardSync \in Nat
      /\ diag.RejectedCostas \in Nat /\ diag.DecodedCandidates \in Nat
      /\ diag.LDPCAttempts \in Nat
  BY CountersTyped DEF IInv, TypeOK
<1>2. ASSUME NEW c \in CandidateCounters
      PROVE  /\ Count(diag, c)[c] = diag[c] + 1
             /\ \A e \in Counters : e # c => Count(diag, c)[e] = diag[e]
  <2>1. c \in Counters
    BY DEF CandidateCounters, Counters
  <2> QED BY <1>1, <2>1, AddCounted DEF Count
<1>3. Spent(diag, stage) \in Nat
  BY <1>1, BuiltinTimes DEF PassesTried, Spent
<1>4. CASE StartCandidate
  <2>1. stage = "idle" /\ stage' = "gates" /\ diag' = Count(diag, "CandidatesAnalyzed")
    BY <1>4 DEF StartCandidate
  <2>2. /\ diag'.CandidatesAnalyzed = diag.CandidatesAnalyzed + 1
        /\ diag'.RejectedHardSync = diag.RejectedHardSync
        /\ diag'.RejectedCostas = diag.RejectedCostas
        /\ diag'.DecodedCandidates = diag.DecodedCandidates
        /\ diag'.LDPCAttempts = diag.LDPCAttempts
    BY <1>2, <2>1 DEF CandidateCounters, Counters
  <2>3. Vainly(diag', stage') = Vainly(diag, stage)
    <3>1. /\ Decided(diag', stage') = diag.CandidatesAnalyzed
          /\ Decided(diag, stage) = diag.CandidatesAnalyzed
      BY <1>1, <2>1, <2>2 DEF Decided
    <3> QED BY <2>2, <3>1 DEF Vainly
  <2>4. Spent(diag', stage') = Spent(diag, stage)
    BY <2>2, <2>3 DEF Spent
  <2> QED BY <2>1, <2>2, <2>3, <2>4 DEF PassesTried
<1>5. CASE RejectHardSync \/ RejectCostas
  <2>1. PICK c \in {"RejectedHardSync", "RejectedCostas"} :
          stage = "gates" /\ stage' = "idle" /\ diag' = Count(diag, c)
    BY <1>5 DEF RejectHardSync, RejectCostas, EndWithout
  <2>2. /\ diag'.CandidatesAnalyzed = diag.CandidatesAnalyzed
        /\ diag'.RejectedHardSync + diag'.RejectedCostas
             = diag.RejectedHardSync + diag.RejectedCostas + 1
        /\ diag'.DecodedCandidates = diag.DecodedCandidates
        /\ diag'.LDPCAttempts = diag.LDPCAttempts
    <3>1. c \in CandidateCounters /\ c \in Counters
      BY DEF CandidateCounters, Counters
    <3>2. diag'[c] = diag[c] + 1 /\ \A e \in Counters : e # c => diag'[e] = diag[e]
      BY <1>2, <2>1, <3>1
    <3> QED BY <1>1, <2>1, <3>2 DEF Counters
  <2>3. Vainly(diag', stage') = Vainly(diag, stage)
    <3>1. /\ Decided(diag', stage') = diag.CandidatesAnalyzed
          /\ Decided(diag, stage) = diag.CandidatesAnalyzed - 1
      BY <1>1, <2>1, <2>2 DEF Decided
    <3> QED BY <1>1, <2>2, <3>1 DEF Vainly
  <2>4. Spent(diag', stage') = Spent(diag, stage)
    BY <2>2, <2>3 DEF Spent
  <2> QED BY <2>1, <2>2, <2>3, <2>4 DEF PassesTried
<1>6. CASE PassGates
  <2>1. stage = "gates" /\ stage' = "builtin" /\ plan' = BuiltinPlan /\ diag' = diag
    BY <1>6 DEF PassGates
  <2>2. Vainly(diag', stage') = Vainly(diag, stage) /\ Spent(diag', stage') = Spent(diag, stage)
    BY <2>1 DEF Vainly, Decided, Spent
  <2> QED BY <1>1, <1>3, <2>1, <2>2, BuiltinTimes DEF PassesTried
<1>7. CASE LDPCFails
  BY <1>7, PassLeavesTried DEF LDPCFails, EndCounters
<1>8. CASE RejectHardErrors
  BY <1>8, PassLeavesTried DEF RejectHardErrors, ThrowAway, EndCounters
<1>9. CASE RejectAllZero
  BY <1>9, PassLeavesTried DEF RejectAllZero, ThrowAway, EndCounters
<1>10. ASSUME NEW payload \in Payloads, FailUnpack(payload)
       PROVE  PassesTried'
  BY <1>10, PassLeavesTried DEF FailUnpack, ThrowAway, EndCounters
<1>11. ASSUME NEW payload \in Payloads, RejectMessage(payload)
       PROVE  PassesTried'
  BY <1>11, PassLeavesTried DEF RejectMessage, ThrowAway, EndCounters
<1>12. ASSUME NEW payload \in Payloads, Accept(payload)
       PROVE  PassesTried'
  BY <1>12, AcceptTried
<1>13. CASE SelectHints
  <2>1. stage = "builtin" /\ plan = <<>> /\ stage' = "hints"
    BY <1>13 DEF SelectHints
  <2>2. PICK passing \in SUBSET Hypotheses : \E selection \in Selections(passing) :
          diag' = RecordAPHintScored(diag, Len(HintSources), Len(selection),
                                     Cardinality(Hypotheses \ passing))
    BY <1>13 DEF SelectHints
  <2>3. PICK selection \in Selections(passing) :
          diag' = RecordAPHintScored(diag, Len(HintSources), Len(selection),
                                     Cardinality(Hypotheses \ passing))
    BY <2>2
  <2>4. Len(HintSources) \in Nat
    BY CandidateAssumption, LenProperties DEF CandidateAssumption
  <2>5. /\ \A e \in CandidateCounters : diag'[e] = diag[e]
        /\ diag'.LDPCAttempts = diag.LDPCAttempts
        /\ diag'.DecodedCandidates = diag.DecodedCandidates
    <3>1. Len(selection) \in Nat /\ Cardinality(Hypotheses \ passing) \in Nat
      BY HintPlanTyped
    <3> DEFINE scored == RecordAPHintScored(diag, Len(HintSources), Len(selection),
                                            Cardinality(Hypotheses \ passing))
    <3>2. /\ \A e \in CandidateCounters : scored[e] = diag[e]
          /\ scored.LDPCAttempts = diag.LDPCAttempts
          /\ scored.DecodedCandidates = diag.DecodedCandidates
      <4>1. \A h, n, b \in Nat :
              /\ \A e \in CandidateCounters : RecordAPHintScored(diag, h, n, b)[e] = diag[e]
              /\ RecordAPHintScored(diag, h, n, b).LDPCAttempts = diag.LDPCAttempts
              /\ RecordAPHintScored(diag, h, n, b).DecodedCandidates = diag.DecodedCandidates
        BY <1>1, ScoredCounts
      <4> QED BY <2>4, <3>1, <4>1, Zenon
    <3> QED BY <2>3, <3>2
  <2>6. Vainly(diag', stage') = Vainly(diag, stage) /\ Spent(diag', stage') = Spent(diag, stage)
    BY <2>1, <2>5, SameSpent
  <2> QED BY <1>1, <1>3, <2>1, <2>5, <2>6, BuiltinTimes DEF PassesTried
<1>14. CASE GiveUp
  BY <1>14, GiveUpTried
<1>15. CASE UNCHANGED vars
  BY <1>15 DEF vars, PassesTried
<1> QED BY <1>4, <1>5, <1>6, <1>7, <1>8, <1>9, <1>10, <1>11, <1>12, <1>13, <1>14, <1>15
        DEF Next, Step

\* Every candidate analysed was rejected at a gate, or decoded, or tried with
\* every built-in pass there is (decodeCandidateVariantsForMetricSet, decode.go).
THEOREM CandidatesAlwaysAccounted == Spec => []CandidatesAccounted
<1>1. Init => PassesTried
  <2> SUFFICES ASSUME Init PROVE PassesTried
    OBVIOUS
  <2>1. /\ diag.CandidatesAnalyzed = 0 /\ diag.RejectedHardSync = 0 /\ diag.RejectedCostas = 0
        /\ diag.DecodedCandidates = 0 /\ diag.LDPCAttempts = 0 /\ stage = "idle"
    BY DEF Init, ZeroDiag
  <2>2. Vainly(diag, stage) = 0
    BY <2>1 DEF Vainly, Decided
  <2>3. Spent(diag, stage) = 0
    BY <2>1, <2>2, BuiltinTimes DEF Spent
  <2> QED BY <2>1, <2>2, <2>3 DEF PassesTried
<1>2. IInv /\ PassesTried => CandidatesAccounted
  <2> SUFFICES ASSUME IInv, PassesTried, stage = "idle"
               PROVE  /\ Vainly(diag, stage) >= 0
                      /\ diag.LDPCAttempts >= Spent(diag, stage)
                      /\ Vainly(diag, stage) = diag.CandidatesAnalyzed
                            - (diag.RejectedHardSync + diag.RejectedCostas) - diag.DecodedCandidates
    BY DEF CandidatesAccounted, Spent
  <2>1. diag.CandidatesAnalyzed \in Nat
    BY CountersTyped DEF IInv, TypeOK
  <2>2. Decided(diag, stage) = diag.CandidatesAnalyzed
    BY <2>1 DEF Decided
  <2> QED BY <2>2 DEF PassesTried, Vainly
<1> QED BY <1>1, <1>2, InitOK, StepOK, PassesTriedKept, PTL DEF Spec
------------------------------------------------------------------------------
\* A call shown between brackets, and known, was in the table under a hash that
\* the payload carries, whatever the payload itself saves.
HeardBefore(payload, table, shown) ==
    shown.hashed /\ shown.call # NoCall =>
      /\ \E e \in Range(table) : e.call = shown.call
      /\ HashMatches(payload, shown.call)

LEMMA FieldResolves ==
    ASSUME NEW table \in Seq(Entry), WellFormed(table), NEW payload,
           payload.kind # "type4", NEW field \in {payload.call1, payload.call2}
    PROVE  HeardBefore(payload, table, Unpack28(field, table))
<1> SUFFICES ASSUME Unpack28(field, table).hashed, Unpack28(field, table).call # NoCall
             PROVE  /\ \E e \in Range(table) : e.call = Unpack28(field, table).call
                    /\ HashMatches(payload, Unpack28(field, table).call)
  BY DEF HeardBefore
<1>1. field.kind = "hash" /\ Unpack28(field, table).call = Lookup22(table, field.hash)
  BY DEF Unpack28, Bracketed, Plain
<1>2. PICK i \in DOMAIN table : /\ table[i].call = Lookup22(table, field.hash)
                               /\ Hash22[table[i].call] = field.hash
  BY <1>1, LookupsFind
<1>3. table[i] \in Range(table)
  BY DEF Range
<1> QED BY <1>1, <1>2, <1>3 DEF HashMatches

LEMMA SuffixResolves ==
    ASSUME NEW payload, NEW table, NEW shown, HeardBefore(payload, table, shown),
           NEW flag, NEW i3
    PROVE  HeardBefore(payload, table, AddPortableSuffix(shown, flag, i3))
  BY DEF HeardBefore, AddPortableSuffix, Plain

LEMMA UnpackedText ==
    /\ \A table : ~Failed(table).ok
    /\ \A calls, tail, table : Unpacked(Text(calls, tail), table).text.calls = calls
  BY DEF Failed, Unpacked, Text

LEMMA UnpackResolves ==
    ASSUME NEW payload \in Payload, NEW table \in Seq(Entry), WellFormed(table),
           Unpack77(payload, table).ok,
           NEW i \in DOMAIN Unpack77(payload, table).text.calls
    PROVE  HeardBefore(payload, table, Unpack77(payload, table).text.calls[i])
<1>1. CASE payload \in Standard
  <2> DEFINE call1 == AddPortableSuffix(Unpack28(payload.call1, table), payload.ipa, payload.i3)
             call2 == AddPortableSuffix(Unpack28(payload.call2, table), payload.ipb, payload.i3)
  <2>1. payload.kind = "standard"
    BY <1>1 DEF Standard
  <2>2. HeardBefore(payload, table, call1) /\ HeardBefore(payload, table, call2)
    BY <2>1, FieldResolves, SuffixResolves
  <2>3. Unpack77(payload, table).text.calls = <<call1, call2>>
    <3>1. Unpack77(payload, table) = UnpackStandard(payload, table)
      BY <2>1 DEF Unpack77
    <3> DEFINE saved == IF call2.hashed THEN table ELSE Save(table, call2.call)
    <3>2. UnpackStandard(payload, table)
            \in {Failed(table), Failed(saved), Unpacked(Text(<<call1, call2>>, payload.tail), saved)}
      BY Zenon DEF UnpackStandard
    <3> HIDE DEF call1, call2, saved
    <3> QED BY <3>1, <3>2, UnpackedText
  <2> HIDE DEF call1, call2
  <2> QED BY <2>2, <2>3
<1>2. CASE payload \in Type4
  <2> DEFINE other == Bracketed(Lookup12(table, payload.n12))
             own == Plain(payload.text)
  <2>1. payload.kind = "type4"
    BY <1>2 DEF Type4
  <2>2. HeardBefore(payload, table, own) /\ HeardBefore(payload, table, Plain(CQText))
    BY DEF HeardBefore, Plain
  <2>3. HeardBefore(payload, table, other)
    <3> SUFFICES ASSUME Lookup12(table, payload.n12) # NoCall
                 PROVE  /\ \E e \in Range(table) : e.call = Lookup12(table, payload.n12)
                        /\ HashMatches(payload, Lookup12(table, payload.n12))
      BY DEF HeardBefore, Bracketed
    <3>1. PICK j \in DOMAIN table : /\ table[j].call = Lookup12(table, payload.n12)
                                   /\ Hash12(table[j].call) = payload.n12
      BY LookupsFind
    <3>2. table[j] \in Range(table)
      BY DEF Range
    <3> QED BY <2>1, <3>1, <3>2 DEF HashMatches
  <2>4. Unpack77(payload, table).text.calls
          \in {<<Plain(CQText), other>>, <<Plain(CQText), own>>, <<other, own>>, <<own, other>>}
    <3>1. Unpack77(payload, table) = UnpackType4(payload, table)
      BY <2>1 DEF Unpack77
    <3> DEFINE calls == IF payload.iflip = 0 THEN <<other, own>> ELSE <<own, other>>
    <3>2. \/ Unpack77(payload, table) = Failed(table)
          \/ \E tail, t : \/ Unpack77(payload, table)
                                = Unpacked(Text(<<Plain(CQText), calls[2]>>, tail), t)
                          \/ Unpack77(payload, table) = Unpacked(Text(calls, tail), t)
      BY <3>1, Zenon DEF UnpackType4
    <3>3. Unpack77(payload, table).text.calls \in {<<Plain(CQText), calls[2]>>, calls}
      <4> HIDE DEF calls
      <4> QED BY <3>2, UnpackedText
    <3> HIDE DEF other, own
    <3>4. calls \in {<<other, own>>, <<own, other>>} /\ calls[2] \in {other, own}
      OBVIOUS
    <3> HIDE DEF calls
    <3> QED BY <3>3, <3>4
  <2> HIDE DEF other, own
  <2> QED BY <2>2, <2>3, <2>4
<1>3. CASE payload \in FieldDay
  <2>1. payload.kind = "field day"
    BY <1>3 DEF FieldDay
  <2>2. /\ HeardBefore(payload, table, Unpack28(payload.call1, table))
        /\ HeardBefore(payload, table, Unpack28(payload.call2, table))
    BY <2>1, FieldResolves
  <2>3. Unpack77(payload, table).text.calls
          = <<Unpack28(payload.call1, table), Unpack28(payload.call2, table)>>
    <3>1. Unpack77(payload, table) = UnpackFieldDay(payload, table)
      BY <2>1 DEF Unpack77
    <3> DEFINE calls == <<Unpack28(payload.call1, table), Unpack28(payload.call2, table)>>
    <3>2. \/ Unpack77(payload, table) = Failed(table)
          \/ \E tail : Unpack77(payload, table) = Unpacked(Text(calls, tail), table)
      BY <3>1, Zenon DEF UnpackFieldDay
    <3> HIDE DEF calls
    <3>3. Unpack77(payload, table).text.calls = calls
      BY <3>2, UnpackedText
    <3> QED BY <3>3 DEF calls
  <2> QED BY <2>2, <2>3
<1>4. CASE payload \in FreeText
  <2>1. Unpack77(payload, table) \in {Failed(table), Unpacked(Text(<<>>, payload.tail), table)}
    <3>1. payload.kind = "free text"
      BY <1>4 DEF FreeText
    <3> QED BY <3>1 DEF Unpack77
  <2>2. Unpack77(payload, table).text.calls = <<>>
    BY <2>1, UnpackedText
  <2> QED BY <2>2
<1>5. CASE payload \in Unknown
  BY <1>5, UnpackedText DEF Unknown, Unpack77
<1> QED BY <1>1, <1>2, <1>3, <1>4, <1>5 DEF Payload

\* A call between brackets in an accepted message had been heard before the
\* message, under a hash the message carries (unpack77WithHashes, unpack.go).
THEOREM ResolvesOnlyEarlierCalls == Spec => ResolvesEarlierCalls
<1> DEFINE Resolved ==
      result'.ok /\ result' # result =>
         \A i \in DOMAIN result'.text.calls :
           LET shown == result'.text.calls[i]
           IN  shown.hashed /\ shown.call # NoCall =>
                 /\ \E e \in Range(calls22) : e.call = shown.call
                 /\ HashMatches(result'.payload, shown.call)
<1>1. IInv /\ [Next]_vars => [Resolved]_vars
  <2> SUFFICES ASSUME IInv, Next, result'.ok, result' # result,
                      NEW i \in DOMAIN result'.text.calls
               PROVE  HeardBefore(result'.payload, calls22, result'.text.calls[i])
    BY DEF HeardBefore, vars
  <2>1. PICK payload \in Payloads : Accept(payload)
    <3>1. ~NoResult.ok
      BY DEF NoResult
    <3>2. \/ result' = result \/ result' = NoResult
          \/ \E payload \in Payloads : Accept(payload)
      BY DEF Next, Step, StartCandidate, RejectHardSync, RejectCostas, EndWithout, PassGates,
             SelectHints, GiveUp, LDPCFails, RejectHardErrors, RejectAllZero, FailUnpack,
             RejectMessage, ThrowAway
    <3> QED BY <3>1, <3>2
  <2>2. result' = Result(payload, Unpack77(payload, calls22).text) /\ Unpack77(payload, calls22).ok
    BY <2>1 DEF Accept
  <2>3. result'.payload = payload /\ result'.text = Unpack77(payload, calls22).text
    BY <2>2 DEF Result
  <2>4. payload \in Payload /\ calls22 \in Seq(Entry) /\ WellFormed(calls22)
    BY CandidateAssumption DEF CandidateAssumption, IInv, TypeOK
  <2> QED BY <2>2, <2>3, <2>4, UnpackResolves
<1> QED BY <1>1, InitOK, StepOK, PTL DEF Spec, ResolvesEarlierCalls
------------------------------------------------------------------------------
\* CandidateOutcome unpacks with the same operators as the passes do.
LEMMA SameUnpacking ==
    /\ \A p, t : Outcome!Unpack77(p, t) = Unpack77(p, t)
    /\ \A x : Outcome!Filtered(x) = Filtered(x)
    /\ Outcome!NoResult = NoResult
    /\ \A p, x : Outcome!Result(p, x) = Result(p, x)
<1>1. ASSUME NEW p, NEW t PROVE Outcome!Unpack77(p, t) = Unpack77(p, t)
  BY Zenon DEF
        Outcome!Unpack77, Unpack77, Outcome!UnpackStandard, UnpackStandard,
        Outcome!UnpackType4, UnpackType4, Outcome!UnpackFieldDay,
        UnpackFieldDay, Outcome!Unpack28, Unpack28, Outcome!AddPortableSuffix,
        AddPortableSuffix, Outcome!Lookup22, Lookup22, Outcome!Lookup12,
        Lookup12, Outcome!Hash12, Hash12, Outcome!Hits, Hits, Outcome!First,
        First, Outcome!Save, Save, Outcome!MoveToFront, MoveToFront,
        Outcome!PushFront, PushFront, Outcome!Plain, Plain, Outcome!Bracketed,
        Bracketed, Outcome!Text, Text, Outcome!NoText, NoText, Outcome!Failed,
        Failed, Outcome!Unpacked, Unpacked, Outcome!FreeTails, FreeTails
<1>2. \A x : Outcome!Filtered(x) = Filtered(x)
  BY Zenon DEF Outcome!Filtered, Filtered
<1>3. Outcome!NoResult = NoResult
  BY Zenon DEF Outcome!NoResult, NoResult, Outcome!NoText, NoText, Outcome!Text, Text
<1>4. \A p, x : Outcome!Result(p, x) = Result(p, x)
  BY Zenon DEF Outcome!Result, Result
<1> QED BY <1>1, <1>2, <1>3, <1>4

\* The recursive definition of the tables reached is one a function satisfies.
LEMMA ReachedSteps ==
    ASSUME NEW t
    PROVE  Outcome!Reached(t) = [n \in 0..MaxRejected |->
              IF n = 0 THEN {t} ELSE Outcome!OneMore(Outcome!Reached(t)[n-1])]
<1> DEFINE Steps(f, m) ==
      f = [n \in 0..m |-> IF n = 0 THEN {t} ELSE Outcome!OneMore(f[n-1])]
           stuck == {m \in Nat : ~\E f : Steps(f, m)}
<1>1. MaxRejected \in Nat
  BY CandidateAssumption DEF CandidateAssumption
<1>2. ASSUME stuck # {} PROVE FALSE
  <2>1. PICK m \in stuck : \A n \in stuck : m <= n
    BY <1>2, LeastNat
  <2>2. m \in Nat /\ ~\E f : Steps(f, m)
    OBVIOUS
  <2>3. CASE m = 0
    <3>1. Steps([n \in 0..0 |-> {t}], 0)
      OBVIOUS
    <3> QED BY <2>2, <2>3, <3>1
  <2>4. CASE m # 0
    <3>1. m - 1 \in Nat /\ ~(m <= m - 1)
      BY <2>2, <2>4
    <3>2. m - 1 \notin stuck
      BY <2>1, <3>1
    <3>3. PICK f : Steps(f, m - 1)
      BY <3>1, <3>2
    <3> DEFINE g == [n \in 0..m |-> IF n = m THEN Outcome!OneMore(f[m-1]) ELSE f[n]]
    <3>4. \A n \in 0..(m - 1) : f[n] = IF n = 0 THEN {t} ELSE Outcome!OneMore(f[n-1])
      BY <3>3
    <3>5. \A n \in 0..m : g[n] = IF n = 0 THEN {t} ELSE Outcome!OneMore(g[n-1])
      <4> TAKE n \in 0..m
      <4>1. CASE n = m
        BY <2>2, <2>4, <4>1
      <4>2. CASE n # m
        <5>1. n \in 0..(m - 1) /\ (n # 0 => n - 1 \in 0..m /\ n - 1 # m)
          BY <2>2, <4>2
        <5> QED BY <3>4, <4>2, <5>1
      <4> QED BY <4>1, <4>2
    <3>6. Steps(g, m)
      BY <3>5
    <3> HIDE DEF g
    <3> QED BY <2>2, <3>6
  <2> QED BY <2>3, <2>4
<1>3. PICK f : Steps(f, MaxRejected)
  BY <1>1, <1>2
<1> HIDE DEF stuck
<1>4. Steps(Outcome!Reached(t), MaxRejected)
  BY <1>3 DEF Outcome!Reached
<1> QED BY <1>4

\* Rejecting another codeword keeps the tables there were.
LEMMA ReachedGrows ==
    ASSUME NEW t, NEW n \in 0..MaxRejected
    PROVE  Outcome!Reached(t)[n] \subseteq Outcome!AfterRejects(t)
<1> DEFINE R == Outcome!Reached(t)
           lost == {m \in Nat : m \in n..MaxRejected /\ ~(R[n] \subseteq R[m])}
<1>1. MaxRejected \in Nat /\ n \in Nat /\ n <= MaxRejected
  BY CandidateAssumption DEF CandidateAssumption
<1>2. \A m \in 0..MaxRejected : m # 0 => R[m] = Outcome!OneMore(R[m-1])
  BY ReachedSteps
<1> HIDE DEF R
<1>3. \A m \in 0..MaxRejected : m # 0 => R[m-1] \subseteq R[m]
  BY <1>2 DEF Outcome!OneMore
<1>4. ASSUME lost # {} PROVE FALSE
  <2>1. PICK m \in lost : \A k \in lost : m <= k
    BY <1>4, LeastNat
  <2>2. m # n /\ m \in 0..MaxRejected /\ m # 0 /\ m - 1 \in Nat /\ m - 1 \in n..MaxRejected
    BY <1>1, <2>1
  <2>3. m - 1 \notin lost
    BY <2>1, <2>2
  <2>4. R[n] \subseteq R[m-1]
    BY <2>2, <2>3
  <2> QED BY <1>3, <2>1, <2>2, <2>4
<1>5. R[n] \subseteq R[MaxRejected]
  BY <1>1, <1>4
<1> QED BY <1>5 DEF R, Outcome!AfterRejects

\* While a candidate is decoded, the table is one that the codewords thrown
\* away so far can have left.
Reachable == stage # "idle" => calls22 \in Outcome!Reached(calls0)[rejected]

\* A codeword thrown away leads to a table one more rejection reaches, whether
\* or not it got as far as being unpacked.
LEMMA RejectionReaches ==
    ASSUME IInv, Reachable, stage # "idle", rejected < MaxRejected
    PROVE  /\ calls22 \in Outcome!Reached(calls0)[rejected + 1]
           /\ \A payload \in Payloads :
                LET got == Unpack77(payload, calls22)
                IN  ~got.ok \/ Filtered(got.text)
                      => got.table \in Outcome!Reached(calls0)[rejected + 1]
<1> DEFINE R == Outcome!Reached(calls0)
<1>1. /\ rejected \in Nat /\ rejected + 1 \in 0..MaxRejected /\ rejected + 1 # 0
      /\ (rejected + 1) - 1 = rejected
  BY CandidateAssumption DEF CandidateAssumption, IInv, TypeOK
<1>2. R[rejected + 1] = Outcome!OneMore(R[rejected])
  <2>1. \A n \in 0..MaxRejected : n # 0 => R[n] = Outcome!OneMore(R[n-1])
    BY ReachedSteps
  <2> HIDE DEF R
  <2> QED BY <1>1, <2>1
<1>3. calls22 \in R[rejected]
  BY DEF Reachable
<1> HIDE DEF R
<1>4. calls22 \in Outcome!OneMore(R[rejected])
  BY <1>3 DEF Outcome!OneMore
<1>5. ASSUME NEW payload \in Payloads,
             ~Unpack77(payload, calls22).ok \/ Filtered(Unpack77(payload, calls22).text)
      PROVE  Unpack77(payload, calls22).table \in Outcome!OneMore(R[rejected])
  <2>1. Outcome!Rejects(payload, calls22)
    BY <1>5, SameUnpacking DEF Outcome!Rejects
  <2>2. Outcome!Leaves(payload, calls22) = Unpack77(payload, calls22).table
    BY SameUnpacking DEF Outcome!Leaves
  <2>3. Outcome!Leaves(payload, calls22) \in Outcome!OneMore(R[rejected])
    BY <1>3, <2>1 DEF Outcome!OneMore
  <2> QED BY <2>2, <2>3
<1> QED BY <1>2, <1>4, <1>5 DEF R

LEMMA ReachableKept == IInv /\ Reachable /\ [Next]_vars => Reachable'
<1> SUFFICES ASSUME IInv, Reachable, [Next]_vars, stage' # "idle"
             PROVE  calls22' \in Outcome!Reached(calls0')[rejected']
  BY DEF Reachable
<1>1. CASE StartCandidate
  <2>1. calls22' = calls22 /\ calls0' = calls22 /\ rejected' = 0
    BY <1>1 DEF StartCandidate
  <2>2. Outcome!Reached(calls22)[0] = {calls22}
    <3>1. 0 \in 0..MaxRejected
      BY CandidateAssumption DEF CandidateAssumption
    <3> QED BY <3>1, ReachedSteps
  <2> QED BY <2>1, <2>2
<1>2. CASE stage # "idle" /\ UNCHANGED <<calls22, calls0, rejected>>
  BY <1>2 DEF Reachable
<1>3. ASSUME ThrowAway, calls22' = calls22
      PROVE  calls22' \in Outcome!Reached(calls0')[rejected']
  <2>1. stage # "idle" /\ rejected < MaxRejected /\ rejected' = rejected + 1 /\ calls0' = calls0
    BY <1>3 DEF ThrowAway, Passing
  <2>2. calls22 \in Outcome!Reached(calls0)[rejected + 1]
    BY <2>1, RejectionReaches
  <2> QED BY <1>3, <2>1, <2>2
<1>4. ASSUME NEW payload \in Payloads, FailUnpack(payload) \/ RejectMessage(payload)
      PROVE  calls22' \in Outcome!Reached(calls0')[rejected']
  <2>1. /\ stage # "idle" /\ rejected < MaxRejected /\ rejected' = rejected + 1 /\ calls0' = calls0
        /\ calls22' = Unpack77(payload, calls22).table
        /\ ~Unpack77(payload, calls22).ok \/ Filtered(Unpack77(payload, calls22).text)
    BY <1>4 DEF FailUnpack, RejectMessage, ThrowAway, Passing
  <2> QED BY <2>1, RejectionReaches
<1>5. CASE UNCHANGED vars
  BY <1>5 DEF vars, Reachable
<1> QED BY <1>1, <1>2, <1>3, <1>4, <1>5
        DEF Next, Step, RejectHardSync, RejectCostas, EndWithout, PassGates, LDPCFails, Passing,
            RejectHardErrors, RejectAllZero, Accept, SelectHints, GiveUp

\* A candidate's own steps change nothing its caller sees; the one that ends it
\* is the one step of the abstract specification.
LEMMA StepSeen ==
    ASSUME IInv, IInv', Reachable, [Next]_vars
    PROVE  [Outcome!Decode]_(Outcome!vars)
<1> DEFINE table == IF stage = "idle" THEN calls22 ELSE calls0
           decided == diag.CandidatesAnalyzed - (IF stage = "idle" THEN 0 ELSE 1)
           Unseen == result' = result /\ table' = table /\ decided' = decided
           Seen == \E o \in Outcome!Outcomes(table) :
                      result' = o.result /\ table' = o.table /\ decided' = decided + 1
<1>1. /\ diag.CandidatesAnalyzed \in Nat
      /\ \A c \in Counters : Count(diag, c)[c] = diag[c] + 1
                           /\ \A e \in Counters : e # c => Count(diag, c)[e] = diag[e]
  <2>1. Counted(diag)
    BY DEF IInv, TypeOK
  <2> QED BY <2>1, AddCounted, CountersTyped DEF Count
<1>2. {"CandidatesAnalyzed", "RejectedHardSync", "RejectedCostas"} \subseteq Counters
  BY DEF Counters
<1>3. ASSUME stage # "idle", stage' # "idle", result' = result, calls0' = calls0,
             diag'.CandidatesAnalyzed = diag.CandidatesAnalyzed
      PROVE  Unseen
  BY <1>3
<1>4. stage # "idle" => calls22 \in Outcome!AfterRejects(calls0)
  BY ReachedGrows DEF Reachable, IInv, TypeOK
<1>5. ASSUME stage # "idle", stage' = "idle", result' = NoResult, calls22' = calls22,
             diag'.CandidatesAnalyzed = diag.CandidatesAnalyzed
      PROVE  Seen
  <2> DEFINE o == [result |-> NoResult, table |-> calls22]
  <2>1. o \in Outcome!Outcomes(calls0)
    BY <1>4, <1>5, SameUnpacking DEF Outcome!Outcomes
  <2>2. result' = o.result /\ table' = o.table /\ decided' = decided + 1
    BY <1>1, <1>5
  <2>3. table = calls0
    BY <1>5
  <2> HIDE DEF table, decided, o
  <2> QED BY <2>1, <2>2, <2>3
<1>6. CASE StartCandidate
  <2>1. /\ stage = "idle" /\ stage' = "gates" /\ calls0' = calls22 /\ result' = result
        /\ diag'.CandidatesAnalyzed = diag.CandidatesAnalyzed + 1
    BY <1>1, <1>2, <1>6 DEF StartCandidate
  <2>2. Unseen
    BY <1>1, <2>1
  <2> QED BY <2>2 DEF Outcome!vars
<1>7. CASE RejectHardSync \/ RejectCostas \/ GiveUp
  <2>1. /\ stage # "idle" /\ stage' = "idle" /\ result' = NoResult /\ calls22' = calls22
        /\ diag'.CandidatesAnalyzed = diag.CandidatesAnalyzed
    BY <1>1, <1>2, <1>7 DEF RejectHardSync, RejectCostas, GiveUp, EndWithout
  <2>2. Seen
    BY <1>5, <2>1
  <2> QED BY <2>2 DEF Outcome!Decode
<1>8. CASE PassGates
  <2>1. Unseen
    BY <1>3, <1>8 DEF PassGates
  <2> QED BY <2>1 DEF Outcome!vars
<1>9. CASE SelectHints
  <2>1. /\ stage = "builtin" /\ stage' = "hints" /\ calls0' = calls0 /\ result' = result
        /\ \E passing \in SUBSET Hypotheses : \E selection \in Selections(passing) :
             diag' = RecordAPHintScored(diag, Len(HintSources), Len(selection),
                                        Cardinality(Hypotheses \ passing))
    BY <1>9 DEF SelectHints
  <2>2. PICK passing \in SUBSET Hypotheses : \E selection \in Selections(passing) :
          diag' = RecordAPHintScored(diag, Len(HintSources), Len(selection),
                                     Cardinality(Hypotheses \ passing))
    BY <2>1
  <2>3. PICK selection \in Selections(passing) :
          diag' = RecordAPHintScored(diag, Len(HintSources), Len(selection),
                                     Cardinality(Hypotheses \ passing))
    BY <2>2
  <2>4. Len(HintSources) \in Nat /\ Len(selection) \in Nat
          /\ Cardinality(Hypotheses \ passing) \in Nat
    BY HintPlanTyped, CandidateAssumption, LenProperties DEF CandidateAssumption
  <2>5. \A h, n, b \in Nat :
          RecordAPHintScored(diag, h, n, b).CandidatesAnalyzed = diag.CandidatesAnalyzed
    <3>1. Counted(diag) /\ "CandidatesAnalyzed" \in CandidateCounters
      BY DEF IInv, TypeOK, CandidateCounters
    <3> QED BY <3>1, ScoredCounts
  <2>6. diag'.CandidatesAnalyzed = diag.CandidatesAnalyzed
    BY <2>3, <2>4, <2>5, Zenon
  <2>7. Unseen
    BY <1>3, <2>1, <2>6
  <2> QED BY <2>7 DEF Outcome!vars
<1>10. \A end \in EndCounters, a \in {Attempted, AttemptRejected,
                                       RecordAPSuccess(Attempted, Head(plan))} :
          Passing => Count(a, end).CandidatesAnalyzed = diag.CandidatesAnalyzed
  BY PassCounts DEF CandidateCounters
<1>11. CASE \/ LDPCFails \/ RejectHardErrors \/ RejectAllZero
            \/ \E payload \in Payloads : FailUnpack(payload) \/ RejectMessage(payload)
  <2>1. /\ stage # "idle" /\ stage' # "idle" /\ result' = result /\ calls0' = calls0
        /\ Passing
    BY <1>11 DEF LDPCFails, RejectHardErrors, RejectAllZero, FailUnpack, RejectMessage,
                ThrowAway, Passing
  <2>2. \E end \in EndCounters, a \in {Attempted, AttemptRejected} : diag' = Count(a, end)
    BY <1>11 DEF LDPCFails, RejectHardErrors, RejectAllZero, FailUnpack, RejectMessage,
                EndCounters
  <2>3. diag'.CandidatesAnalyzed = diag.CandidatesAnalyzed
    BY <1>10, <2>1, <2>2
  <2>4. Unseen
    BY <1>3, <2>1, <2>3
  <2> QED BY <2>4 DEF Outcome!vars
<1>12. ASSUME NEW payload \in Payloads, Accept(payload)
       PROVE  Seen
  <2> DEFINE got == Unpack77(payload, calls22)
             o == [result |-> Result(payload, got.text), table |-> got.table]
  <2>1. /\ stage # "idle" /\ stage' = "idle" /\ Passing /\ got.ok /\ ~Filtered(got.text)
        /\ result' = o.result /\ calls22' = o.table
        /\ diag' = Count(RecordAPSuccess(Attempted, Head(plan)), "DecodedCandidates")
    BY <1>12 DEF Accept, Passing
  <2>2. diag'.CandidatesAnalyzed = diag.CandidatesAnalyzed
    BY <1>10, <2>1 DEF EndCounters
  <2>3. ~Outcome!Rejects(payload, calls22)
    BY <2>1, SameUnpacking DEF Outcome!Rejects
  <2>4. o = [result |-> Outcome!Result(payload, Outcome!Unpack77(payload, calls22).text),
             table |-> Outcome!Leaves(payload, calls22)]
    BY SameUnpacking DEF Outcome!Leaves
  <2> HIDE DEF o
  <2>5. o \in Outcome!Outcomes(calls0)
    BY <1>4, <2>1, <2>3, <2>4 DEF Outcome!Outcomes
  <2>6. table = calls0 /\ table' = o.table /\ decided' = decided + 1
    BY <1>1, <2>1, <2>2
  <2> HIDE DEF table, decided
  <2> QED BY <2>1, <2>5, <2>6
<1>13. CASE UNCHANGED vars
  <2>1. Unseen
    BY <1>13 DEF vars
  <2> QED BY <2>1 DEF Outcome!vars
<1>14. ASSUME Seen PROVE Outcome!Decode
  BY <1>14 DEF Outcome!Decode
<1> QED BY <1>6, <1>7, <1>8, <1>9, <1>11, <1>12, <1>13, <1>14 DEF Next, Step

\* To its caller a candidate is one step: a result, or none, and a table that
\* has gone through the codewords thrown away before it and through nothing
\* else (decodeCandidateVariantsForMetricSet, decode.go).
THEOREM ImplementsCandidateOutcome == Spec => RefinesCandidateOutcome
<1>1. Init => Reachable /\ Outcome!Init
  <2> SUFFICES ASSUME Init PROVE Reachable /\ Outcome!Init
    OBVIOUS
  <2>1. stage = "idle" /\ calls22 = <<>> /\ result = NoResult /\ diag.CandidatesAnalyzed = 0
    BY DEF Init, ZeroDiag
  <2> QED BY <2>1, SameUnpacking DEF Reachable, Outcome!Init
<1>2. Spec => []IInv
  BY InitOK, StepOK, PTL DEF Spec
<1>3. Spec => []Reachable
  BY <1>1, <1>2, ReachableKept, PTL DEF Spec
<1> QED BY <1>1, <1>2, <1>3, StepSeen, PTL DEF Spec, RefinesCandidateOutcome, Outcome!Spec
------------------------------------------------------------------------------
\* The sum of a function on a subset of its domain, as SumFunction computes it:
\* the value at an element that is picked, and the sum on the rest.
Picked(s) == CHOOSE x \in s : TRUE
Adds(f, sum, s) == IF s = {} THEN 0 ELSE f[Picked(s)] + sum[s \ {Picked(s)}]
Sums(f, S, sum) == sum = [s \in SUBSET S |-> Adds(f, sum, s)]

LEMMA SumComputed ==
    ASSUME NEW f
    PROVE  LET S == DOMAIN f IN SumFunction(f) = (CHOOSE sum : Sums(f, S, sum))[S]
  BY DEF SumFunction, SumFunctionOnSet, FoldFunctionOnSet, MapThenFoldSet, Sums, Adds, Picked

\* A nonempty finite set without the element picked is smaller.
LEMMA PickedLess ==
    ASSUME NEW S, IsFiniteSet(S), NEW s \in SUBSET S
    PROVE  /\ IsFiniteSet(s) /\ Cardinality(s) \in Nat
           /\ s # {} => /\ Picked(s) \in s /\ s \ {Picked(s)} \in SUBSET S
                        /\ Cardinality(s \ {Picked(s)}) = Cardinality(s) - 1
                        /\ Cardinality(s) # 0
<1>1. IsFiniteSet(s) /\ Cardinality(s) \in Nat
  BY FS_Subset, FS_CardinalityType
<1>2. ASSUME s # {} PROVE Picked(s) \in s
  BY <1>2 DEF Picked
<1>3. ASSUME NEW x \in s PROVE Cardinality(s \ {x}) = Cardinality(s) - 1
  BY <1>1, FS_RemoveElement
<1>4. s # {} => Cardinality(s) # 0
  BY <1>1, FS_EmptySet
<1> QED BY <1>1, <1>2, <1>3, <1>4

\* There is a function that computes the sums: one that does so for the sets of
\* fewer than n elements gives one that does so for those of n.
LEMMA SumExists ==
    ASSUME NEW S, IsFiniteSet(S), NEW f \in [S -> Nat]
    PROVE  \E sum \in [SUBSET S -> Nat] : Sums(f, S, sum)
<1> DEFINE Upto(n, sum) == \A s \in SUBSET S : Cardinality(s) <= n => sum[s] = Adds(f, sum, s)
           Bad == {n \in Nat : ~ \E sum \in [SUBSET S -> Nat] : Upto(n, sum)}
<1>1. \A s \in SUBSET S :
        /\ Cardinality(s) \in Nat
        /\ s # {} => /\ Picked(s) \in s /\ s \ {Picked(s)} \in SUBSET S
                     /\ Cardinality(s \ {Picked(s)}) = Cardinality(s) - 1
                     /\ Cardinality(s) # 0
  BY PickedLess
<1>2. Bad = {}
  <2> SUFFICES ASSUME Bad # {} PROVE FALSE
    OBVIOUS
  <2>1. PICK n \in Bad : \A m \in Bad : n <= m
    <3>1. Bad \subseteq Nat
      OBVIOUS
    <3> HIDE DEF Bad
    <3> QED BY <3>1, LeastNat
  <2> HIDE DEF Upto
  <2>2. n \in Nat /\ \A sum \in [SUBSET S -> Nat] : ~Upto(n, sum)
    BY <2>1
  <2>3. ASSUME NEW m \in Nat, m < n
        PROVE  \E sum \in [SUBSET S -> Nat] : Upto(m, sum)
    <3>1. m \notin Bad
      <4>1. ~(n <= m)
        BY <2>2, <2>3
      <4> HIDE DEF Bad
      <4> QED BY <2>1, <4>1
    <3> QED BY <2>3, <3>1
  <2>4. n # 0
    <3> DEFINE zero == [s \in SUBSET S |-> 0]
    <3>1. zero \in [SUBSET S -> Nat]
      OBVIOUS
    <3>2. \A s \in SUBSET S : Cardinality(s) <= 0 => s = {}
      <4> TAKE s \in SUBSET S
      <4>1. Cardinality(s) \in Nat /\ (s # {} => Cardinality(s) # 0)
        BY <1>1
      <4> QED BY <4>1
    <3>3. Upto(0, zero)
      BY <3>2 DEF Adds, Upto
    <3> HIDE DEF zero
    <3> QED BY <2>2, <3>1, <3>3
  <2>5. n - 1 \in Nat /\ n - 1 < n
    BY <2>2, <2>4
  <2>6. PICK sum \in [SUBSET S -> Nat] : Upto(n - 1, sum)
    BY <2>5, <2>3
  <2> DEFINE next == [s \in SUBSET S |-> IF Cardinality(s) = n THEN Adds(f, sum, s) ELSE sum[s]]
  <2>7. \A s \in SUBSET S : Adds(f, sum, s) \in Nat
    BY <1>1 DEF Adds
  <2>8. next \in [SUBSET S -> Nat]
    BY <2>7
  <2>9. ASSUME NEW s \in SUBSET S, Cardinality(s) <= n
        PROVE  next[s] = Adds(f, next, s)
    <3>1. Adds(f, next, s) = Adds(f, sum, s)
      BY <2>5, <2>9, <1>1 DEF Adds
    <3>2. Cardinality(s) # n => Cardinality(s) <= n - 1
      <4>1. Cardinality(s) \in Nat
        BY <1>1
      <4> QED BY <2>2, <2>9, <4>1
    <3> QED BY <2>6, <3>1, <3>2 DEF Upto
  <2> HIDE DEF next
  <2>10. Upto(n, next)
    BY <2>9 DEF Upto
  <2> QED BY <2>2, <2>8, <2>10
<1>3. Cardinality(S) \in Nat /\ \A s \in SUBSET S : Cardinality(s) <= Cardinality(S)
  BY FS_CardinalityType, FS_Subset
<1>4. PICK sum \in [SUBSET S -> Nat] : Upto(Cardinality(S), sum)
  BY <1>2, <1>3
<1> QED BY <1>3, <1>4 DEF Sums, Upto

\* What holds of the empty set, and of a set whenever it holds of the set without
\* the element picked, holds of every subset of a finite set.
LEMMA PickedInduction ==
    ASSUME NEW S, IsFiniteSet(S), NEW T, {} \in T,
           \A s \in SUBSET S : s # {} /\ s \ {Picked(s)} \in T => s \in T
    PROVE  SUBSET S \subseteq T
<1> DEFINE Bad == {Cardinality(s) : s \in (SUBSET S) \ T}
<1>1. \A s \in SUBSET S :
        /\ Cardinality(s) \in Nat
        /\ s # {} => /\ s \ {Picked(s)} \in SUBSET S
                     /\ Cardinality(s \ {Picked(s)}) = Cardinality(s) - 1
  BY PickedLess
<1> SUFFICES ASSUME (SUBSET S) \ T # {} PROVE FALSE
  OBVIOUS
<1>2. PICK c \in Bad : \A n \in Bad : c <= n
  <2>1. \A s \in (SUBSET S) \ T : Cardinality(s) \in Nat
    BY <1>1
  <2>2. Bad \subseteq Nat /\ Bad # {}
    BY <2>1
  <2> HIDE DEF Bad
  <2> QED BY <2>2, LeastNat
<1>3. PICK s \in (SUBSET S) \ T : c = Cardinality(s)
  OBVIOUS
<1>4. s # {} /\ s \ {Picked(s)} \in (SUBSET S) \ T
  <2>1. s \in SUBSET S /\ s \notin T
    OBVIOUS
  <2>2. s # {}
    BY <2>1
  <2>3. s \ {Picked(s)} \in SUBSET S
    BY <2>1, <2>2, <1>1
  <2>4. s \ {Picked(s)} \notin T
    BY <2>1, <2>2
  <2> QED BY <2>2, <2>3, <2>4
<1>5. c \in Nat /\ c - 1 \in Bad
  BY <1>1, <1>3, <1>4
<1> HIDE DEF Bad
<1> QED BY <1>2, <1>5

LEMMA SumDefined ==
    ASSUME NEW S, IsFiniteSet(S), NEW f \in [S -> Nat]
    PROVE  LET sum == CHOOSE sum : Sums(f, S, sum)
           IN  /\ \A s \in SUBSET S : sum[s] = Adds(f, sum, s)
               /\ SumFunction(f) = sum[S]
<1>1. DOMAIN f = S
  OBVIOUS
<1>2. Sums(f, S, CHOOSE sum : Sums(f, S, sum))
  BY SumExists
<1> DEFINE sum == CHOOSE sum : Sums(f, S, sum)
<1>3. SumFunction(f) = sum[S]
  BY <1>1, SumComputed
<1>4. \A s \in SUBSET S : sum[s] = Adds(f, sum, s)
  <2> HIDE DEF sum
  <2> QED BY <1>2 DEF Sums, sum
<1> QED BY <1>3, <1>4

LEMMA SumOfZeros ==
    ASSUME NEW S, IsFiniteSet(S)
    PROVE  SumFunction([x \in S |-> 0]) = 0
<1> DEFINE f == [x \in S |-> 0]
           sum == CHOOSE sum : Sums(f, S, sum)
           T == {s \in SUBSET S : sum[s] = 0}
<1>1. f \in [S -> Nat] /\ \A x \in S : f[x] = 0
  OBVIOUS
<1> HIDE DEF f
<1>2. (\A s \in SUBSET S : sum[s] = Adds(f, sum, s)) /\ SumFunction(f) = sum[S]
  BY <1>1, SumDefined
<1> HIDE DEF sum
<1>3. {} \in T
  BY <1>2 DEF Adds
<1>4. ASSUME NEW s \in SUBSET S, s # {}, s \ {Picked(s)} \in T
      PROVE  s \in T
  <2>1. Picked(s) \in S
    BY <1>4, PickedLess
  <2> QED BY <1>1, <1>2, <1>4, <2>1 DEF Adds
<1>5. SUBSET S \subseteq T
  <2> HIDE DEF T
  <2> QED BY <1>3, <1>4, PickedInduction
<1> QED BY <1>2, <1>5 DEF f

\* Raising one value raises the sum.
LEMMA SumRaised ==
    ASSUME NEW S, IsFiniteSet(S), NEW f \in [S -> Nat], NEW a \in S
    PROVE  SumFunction([f EXCEPT ![a] = @ + 1]) = SumFunction(f) + 1
<1> DEFINE g == [f EXCEPT ![a] = @ + 1]
           sumF == CHOOSE sum : Sums(f, S, sum)
           sumG == CHOOSE sum : Sums(g, S, sum)
           T == {s \in SUBSET S : /\ sumF[s] \in Nat
                                  /\ sumG[s] = sumF[s] + (IF a \in s THEN 1 ELSE 0)}
<1>1. g \in [S -> Nat] /\ \A x \in S : g[x] = f[x] + (IF x = a THEN 1 ELSE 0)
  OBVIOUS
<1> HIDE DEF g
<1>2. (\A s \in SUBSET S : sumF[s] = Adds(f, sumF, s)) /\ SumFunction(f) = sumF[S]
  BY SumDefined
<1>3. (\A s \in SUBSET S : sumG[s] = Adds(g, sumG, s)) /\ SumFunction(g) = sumG[S]
  BY <1>1, SumDefined
<1> HIDE DEF sumF, sumG
<1>4. {} \in T
  <2>1. sumF[{}] = 0 /\ sumG[{}] = 0
    BY <1>2, <1>3 DEF Adds
  <2> QED BY <2>1
<1>5. ASSUME NEW s \in SUBSET S, s # {}, s \ {Picked(s)} \in T
      PROVE  s \in T
  <2>1. Picked(s) \in s
    BY <1>5, PickedLess
  <2>2. /\ sumF[s] = f[Picked(s)] + sumF[s \ {Picked(s)}]
        /\ sumG[s] = g[Picked(s)] + sumG[s \ {Picked(s)}]
    BY <1>2, <1>3, <1>5 DEF Adds
  <2>3. /\ f[Picked(s)] \in Nat
        /\ g[Picked(s)] = f[Picked(s)] + (IF Picked(s) = a THEN 1 ELSE 0)
    BY <1>1, <2>1
  <2> QED BY <1>5, <2>1, <2>2, <2>3
<1>6. SUBSET S \subseteq T
  <2> HIDE DEF T
  <2> QED BY <1>4, <1>5, PickedInduction
<1>7. S \in T
  BY <1>6
<1> QED BY <1>2, <1>3, <1>7 DEF g
------------------------------------------------------------------------------
\* The AP tallies: a total, and the same total by profile and by source.
APCounters == {"APAttempts", "APSuccesses", "APRejectedAfterLDPC"}
AttemptKind == <<"APAttempts", "APAttemptsByProfile", "APAttemptsBySource">>
SuccessKind == <<"APSuccesses", "APSuccessesByProfile", "APSuccessesBySource">>
RejectionKind == <<"APRejectedAfterLDPC", "APRejectedAfterLDPCByProfile",
                   "APRejectedAfterLDPCBySource">>
APKinds == {AttemptKind, SuccessKind, RejectionKind}
APFields == APCounters \cup ByProfile \cup BySource

Told(d) == \A kind \in APKinds : /\ d[kind[1]] = SumFunction(d[kind[2]])
                                 /\ d[kind[1]] = SumFunction(d[kind[3]])

\* Every profile has at least spare attempts that have not ended in either way.
Spare(d, n, spare) ==
    d.APSuccessesByProfile[n] + d.APRejectedAfterLDPCByProfile[n] + spare
      <= d.APAttemptsByProfile[n]
Ended(d) == \A n \in ProfileNames : Spare(d, n, 0)

\* An AP pass names a source that has a tally.
IsAP(pass) == pass.profile # ""
NamedPass == {pass \in Pass : IsAP(pass) => pass.source \in SourceNames}

APTold == Told(diag) /\ Ended(diag) /\ plan \in Seq(NamedPass)

Raised(f, name) == [f EXCEPT ![name] = @ + 1]

LEMMA NamesFinite == IsFiniteSet(ProfileNames) /\ IsFiniteSet(SourceNames)
<1>1. ASSUME NEW names \in Seq(STRING) PROVE IsFiniteSet(Range(names))
  <2>1. IsFiniteSet(DOMAIN names)
    BY FS_Interval, LenProperties
  <2>2. names \in Surjection(DOMAIN names, Range(names))
    BY DEF Surjection, Range
  <2> QED BY <2>1, <2>2, FS_Surjection
<1>2. IsFiniteSet(HintProfiles)
  <2>1. IsFiniteSet({} \cup {"hint-call1"})
    BY FS_EmptySet, FS_AddElement
  <2>2. IsFiniteSet(({} \cup {"hint-call1"}) \cup {"hint-call2"})
    BY <2>1, FS_AddElement
  <2>3. HintProfiles = ({} \cup {"hint-call1"}) \cup {"hint-call2"}
    BY DEF HintProfiles
  <2> QED BY <2>2, <2>3
<1>3. /\ IsFiniteSet(Range(DefaultProfiles)) /\ IsFiniteSet(Range(BroadProfiles))
      /\ IsFiniteSet(Range(HintSources))
  BY <1>1, CandidateAssumption DEF CandidateAssumption
<1>4. \A S, T : IsFiniteSet(S) /\ IsFiniteSet(T) => IsFiniteSet(S \cup T)
  BY FS_Union
<1> QED BY <1>2, <1>3, <1>4 DEF ProfileNames, SourceNames

\* The tallies stand beside the counters: advancing one of those leaves them.
LEMMA AddTallies ==
    ASSUME NEW d, Counted(d), NEW c \in Counters, NEW n
    PROVE  \A e \in ByProfile \cup BySource : /\ Add(d, c, n)[e] = d[e]
                                              /\ [d EXCEPT ![c] = n][e] = d[e]
<1> DEFINE D == Counters \cup ByProfile \cup BySource
<1>1. d = [e \in D |-> d[e]] /\ DOMAIN d = D
  BY DEF Counted
<1>2. c \notin ByProfile /\ c \notin BySource
  BY DEF Counters, ByProfile, BySource
<1> QED BY <1>1, <1>2 DEF Add

LEMMA TallyRaises ==
    ASSUME NEW d, Counted(d), NEW t \in ByProfile \cup BySource, NEW name
    PROVE  /\ Tally(d, t, name)[t] = Raised(d[t], name)
           /\ \A e \in (ByProfile \cup BySource) \ {t} : Tally(d, t, name)[e] = d[e]
<1> DEFINE D == Counters \cup ByProfile \cup BySource
<1>1. d = [e \in D |-> d[e]] /\ DOMAIN d = D
  BY DEF Counted
<1>2. Tally(d, t, name) = [e \in D |-> IF e = t THEN Raised(d[e], name) ELSE d[e]]
  BY <1>1 DEF Tally, Raised
<1> QED BY <1>2

LEMMA KindFields ==
    /\ AttemptKind[1] = "APAttempts" /\ AttemptKind[2] = "APAttemptsByProfile"
    /\ AttemptKind[3] = "APAttemptsBySource"
    /\ SuccessKind[1] = "APSuccesses" /\ SuccessKind[2] = "APSuccessesByProfile"
    /\ SuccessKind[3] = "APSuccessesBySource"
    /\ RejectionKind[1] = "APRejectedAfterLDPC"
    /\ RejectionKind[2] = "APRejectedAfterLDPCByProfile"
    /\ RejectionKind[3] = "APRejectedAfterLDPCBySource"
  BY DEF AttemptKind, SuccessKind, RejectionKind

LEMMA KindTables ==
    \A kind \in APKinds : /\ kind[1] \in APCounters /\ kind[1] \in Counters
                          /\ kind[2] \in ByProfile /\ kind[3] \in BySource
                          /\ kind[2] # kind[3]
  BY KindFields DEF APKinds, APCounters, Counters, ByProfile, BySource

OneOfKind(d, kind, pass) == TallyPass(Count(d, kind[1]), kind[2], kind[3], pass)

\* One AP pass of a kind: its total and its two tallies advance together.
Advances(a, d, kind, pass) ==
    /\ a[kind[1]] = d[kind[1]] + 1
    /\ a[kind[2]] = Raised(d[kind[2]], pass.profile)
    /\ a[kind[3]] = Raised(d[kind[3]], pass.source)
    /\ \A e \in APFields \ {kind[1], kind[2], kind[3]} : a[e] = d[e]

LEMMA KindRaised ==
    ASSUME NEW d, Counted(d), NEW kind \in APKinds, NEW pass
    PROVE  Counted(OneOfKind(d, kind, pass)) /\ Advances(OneOfKind(d, kind, pass), d, kind, pass)
<1>1. /\ kind[1] \in APCounters /\ kind[1] \in Counters
      /\ kind[2] \in ByProfile /\ kind[3] \in BySource /\ kind[2] # kind[3]
  BY KindTables
<1> DEFINE total == kind[1]
           p == kind[2]
           s == kind[3]
           one == Count(d, total)
           two == Tally(one, p, pass.profile)
           a == Tally(two, s, pass.source)
<1> HIDE DEF total, p, s
<1>2. /\ total \in APCounters /\ total \in Counters
      /\ p \in ByProfile /\ s \in BySource /\ p # s
  BY <1>1 DEF total, p, s
<1>3. /\ Counted(one) /\ one[total] = d[total] + 1
      /\ \A e \in Counters : e # total => one[e] = d[e]
      /\ \A e \in ByProfile \cup BySource : one[e] = d[e]
  BY <1>2, AddCounted, AddTallies DEF Count
<1> HIDE DEF one
<1>4. /\ Counted(two) /\ \A e \in Counters : two[e] = one[e]
      /\ two[p] = Raised(one[p], pass.profile)
      /\ \A e \in (ByProfile \cup BySource) \ {p} : two[e] = one[e]
  BY <1>2, <1>3, TallyCounted, TallyRaises
<1> HIDE DEF two
<1>5. /\ Counted(a) /\ \A e \in Counters : a[e] = two[e]
      /\ a[s] = Raised(two[s], pass.source)
      /\ \A e \in (ByProfile \cup BySource) \ {s} : a[e] = two[e]
  BY <1>2, <1>4, TallyCounted, TallyRaises
<1> HIDE DEF a
<1>6. APCounters \subseteq Counters
  BY DEF APCounters, Counters
<1>7. /\ a[total] = d[total] + 1
      /\ a[p] = Raised(d[p], pass.profile) /\ a[s] = Raised(d[s], pass.source)
      /\ \A e \in APFields \ {total, p, s} : a[e] = d[e]
  BY <1>2, <1>3, <1>4, <1>5, <1>6 DEF APFields
<1> QED BY <1>5, <1>7 DEF Advances, OneOfKind, TallyPass, a, two, one, total, p, s

LEMMA KindsApart ==
    ASSUME NEW one \in APKinds, NEW two \in APKinds, one # two
    PROVE  {one[1], one[2], one[3]} \subseteq APFields \ {two[1], two[2], two[3]}
  BY KindFields DEF APKinds, APFields, APCounters, ByProfile, BySource

LEMMA NamedTyped ==
    ASSUME NEW pass \in NamedPass, IsAP(pass)
    PROVE  pass.profile \in ProfileNames /\ pass.source \in SourceNames
<1>1. /\ pass.profile \in ProfileNames \cup {""} /\ pass.source \in SourceNames
      /\ pass.profile # ""
  BY Zenon DEF NamedPass, Pass, IsAP
<1> QED BY <1>1, Zenon

\* No two kinds share a tally, so the other totals are told as before.
LEMMA KindTold ==
    ASSUME NEW d, Counted(d), Told(d), NEW kind \in APKinds,
           NEW pass \in NamedPass, IsAP(pass)
    PROVE  Told(OneOfKind(d, kind, pass))
<1> DEFINE a == OneOfKind(d, kind, pass)
<1>1. Advances(a, d, kind, pass)
  BY KindRaised
<1> HIDE DEF a
<1>2. pass.profile \in ProfileNames /\ pass.source \in SourceNames
  BY NamedTyped
<1>3. d[kind[2]] \in [ProfileNames -> Nat] /\ d[kind[3]] \in [SourceNames -> Nat]
  BY KindTables DEF Counted
<1>4. /\ SumFunction(Raised(d[kind[2]], pass.profile)) = SumFunction(d[kind[2]]) + 1
      /\ SumFunction(Raised(d[kind[3]], pass.source)) = SumFunction(d[kind[3]]) + 1
  <2>1. ASSUME NEW S, IsFiniteSet(S), NEW f \in [S -> Nat], NEW x \in S
        PROVE  SumFunction(Raised(f, x)) = SumFunction(f) + 1
    BY <2>1, SumRaised DEF Raised
  <2> QED BY <1>2, <1>3, <2>1, NamesFinite
<1>5. ASSUME NEW other \in APKinds
      PROVE  a[other[1]] = SumFunction(a[other[2]]) /\ a[other[1]] = SumFunction(a[other[3]])
  <2>1. CASE other = kind
    BY <1>1, <1>4, <2>1 DEF Told, Advances
  <2>2. CASE other # kind
    <3>1. {other[1], other[2], other[3]} \subseteq APFields \ {kind[1], kind[2], kind[3]}
      BY <2>2, KindsApart
    <3> QED BY <1>1, <3>1 DEF Told, Advances
  <2> QED BY <2>1, <2>2
<1> QED BY <1>5 DEF Told, a

LEMMA SameTold ==
    ASSUME NEW d, NEW a, \A e \in APFields : a[e] = d[e]
    PROVE  (Told(d) => Told(a)) /\ (Ended(d) => Ended(a))
<1>1. \A kind \in APKinds : {kind[1], kind[2], kind[3]} \subseteq APFields
  BY KindFields DEF APKinds, APFields, APCounters, ByProfile, BySource
<1>2. {"APSuccessesByProfile", "APRejectedAfterLDPCByProfile", "APAttemptsByProfile"}
        \subseteq APFields
  BY DEF APFields, ByProfile
<1> QED BY <1>1, <1>2 DEF Told, Ended, Spare

\* What decodeLLRPass records of a pass is one of its kind when it is an AP pass.
LEMMA RecordsKinds ==
    ASSUME NEW d, NEW pass
    PROVE  /\ RecordLDPCAttempt(d, pass)
                = IF IsAP(pass) THEN OneOfKind(Count(d, "LDPCAttempts"), AttemptKind, pass)
                  ELSE Count(Count(d, "LDPCAttempts"), "MetricLDPCAttempts")
           /\ RecordAPSuccess(d, pass)
                = IF IsAP(pass) THEN OneOfKind(d, SuccessKind, pass) ELSE d
           /\ RecordAPRejectedAfterLDPC(d, pass)
                = IF IsAP(pass) THEN OneOfKind(d, RejectionKind, pass) ELSE d
  BY KindFields, Zenon DEF RecordLDPCAttempt, RecordAPSuccess, RecordAPRejectedAfterLDPC,
                           OneOfKind, IsAP

LEMMA OthersCounted ==
    ASSUME NEW d, Counted(d), NEW c \in Counters \ APCounters, NEW n \in Nat
    PROVE  \A e \in APFields : Add(d, c, n)[e] = d[e]
<1>1. APCounters \subseteq Counters
  BY DEF APCounters, Counters
<1> QED BY <1>1, AddCounted, AddTallies DEF APFields

\* The attempt of an AP pass is one its profile has to spare until it ends.
LEMMA AttemptTold ==
    ASSUME NEW d, Counted(d), Told(d), Ended(d), NEW pass \in NamedPass
    PROVE  LET a == RecordLDPCAttempt(d, pass)
           IN  /\ Counted(a) /\ Told(a) /\ Ended(a)
               /\ IsAP(pass) => Spare(a, pass.profile, 1)
<1> DEFINE once == Count(d, "LDPCAttempts")
           metric == Count(once, "MetricLDPCAttempts")
           ap == OneOfKind(once, AttemptKind, pass)
<1>1. {"LDPCAttempts", "MetricLDPCAttempts"} \subseteq Counters \ APCounters
  BY DEF Counters, APCounters
<1>2. Counted(once) /\ \A e \in APFields : once[e] = d[e]
  BY <1>1, AddCounted, OthersCounted DEF Count
<1> HIDE DEF once
<1>3. Counted(metric) /\ \A e \in APFields : metric[e] = once[e]
  BY <1>1, <1>2, AddCounted, OthersCounted DEF Count
<1> HIDE DEF metric
<1>4. Told(once) /\ Ended(once)
  BY <1>2, SameTold
<1>5. Told(metric) /\ Ended(metric)
  BY <1>3, <1>4, SameTold
<1>6. ASSUME IsAP(pass)
      PROVE  Counted(ap) /\ Told(ap) /\ Ended(ap) /\ Spare(ap, pass.profile, 1)
  <2>1. AttemptKind \in APKinds
    BY DEF APKinds
  <2>2. Counted(ap) /\ Told(ap) /\ Advances(ap, once, AttemptKind, pass)
    BY <1>2, <1>4, <1>6, <2>1, KindRaised, KindTold
  <2> HIDE DEF ap
  <2>3. /\ ap.APAttemptsByProfile = Raised(once.APAttemptsByProfile, pass.profile)
        /\ ap.APSuccessesByProfile = once.APSuccessesByProfile
        /\ ap.APRejectedAfterLDPCByProfile = once.APRejectedAfterLDPCByProfile
    BY <2>2, KindFields DEF Advances, APFields, ByProfile
  <2>4. /\ once.APAttemptsByProfile \in [ProfileNames -> Nat]
        /\ once.APSuccessesByProfile \in [ProfileNames -> Nat]
        /\ once.APRejectedAfterLDPCByProfile \in [ProfileNames -> Nat]
    BY <1>2 DEF Counted, ByProfile
  <2>5. \A n \in ProfileNames : ap.APAttemptsByProfile[n] = once.APAttemptsByProfile[n]
                                  + (IF n = pass.profile THEN 1 ELSE 0)
    BY <2>3, <2>4 DEF Raised
  <2>6. ASSUME NEW n \in ProfileNames
        PROVE  Spare(ap, n, 0) /\ (n = pass.profile => Spare(ap, n, 1))
    BY <1>4, <2>3, <2>4, <2>5 DEF Ended, Spare
  <2> QED BY <1>6, <2>2, <2>6, NamedTyped DEF Ended
<1>7. RecordLDPCAttempt(d, pass) = IF IsAP(pass) THEN ap ELSE metric
  BY RecordsKinds DEF ap, metric, once
<1> HIDE DEF ap
<1> QED BY <1>3, <1>5, <1>6, <1>7

\* An AP pass that succeeded, or whose codeword was thrown away, ends the attempt
\* its profile had to spare.
LEMMA OutcomeTold ==
    ASSUME NEW d, Counted(d), Told(d), Ended(d), NEW pass \in NamedPass,
           IsAP(pass) => Spare(d, pass.profile, 1),
           NEW r \in {RecordAPRejectedAfterLDPC(d, pass), RecordAPSuccess(d, pass)}
    PROVE  Counted(r) /\ Told(r) /\ Ended(r)
<1>1. CASE ~IsAP(pass)
  <2>1. r = d
    BY <1>1, RecordsKinds
  <2> QED BY <2>1
<1>2. CASE IsAP(pass)
  <2>1. PICK kind \in {SuccessKind, RejectionKind} : r = OneOfKind(d, kind, pass)
    BY <1>2, RecordsKinds
  <2>2. kind \in APKinds
    BY DEF APKinds
  <2>3. Counted(r) /\ Told(r) /\ Advances(r, d, kind, pass)
    BY <1>2, <2>1, <2>2, KindRaised, KindTold
  <2>4. /\ d.APAttemptsByProfile \in [ProfileNames -> Nat]
        /\ d.APSuccessesByProfile \in [ProfileNames -> Nat]
        /\ d.APRejectedAfterLDPCByProfile \in [ProfileNames -> Nat]
    BY DEF Counted, ByProfile
  <2>5. CASE kind = SuccessKind
    <3>1. /\ r.APAttemptsByProfile = d.APAttemptsByProfile
          /\ r.APSuccessesByProfile = Raised(d.APSuccessesByProfile, pass.profile)
          /\ r.APRejectedAfterLDPCByProfile = d.APRejectedAfterLDPCByProfile
      BY <2>3, <2>5, KindFields DEF Advances, APFields, ByProfile
    <3>2. \A n \in ProfileNames : r.APSuccessesByProfile[n] = d.APSuccessesByProfile[n]
                                    + (IF n = pass.profile THEN 1 ELSE 0)
      BY <2>4, <3>1 DEF Raised
    <3>3. ASSUME NEW n \in ProfileNames PROVE Spare(r, n, 0)
      BY <1>2, <2>4, <3>1, <3>2 DEF Ended, Spare
    <3> QED BY <2>3, <3>3 DEF Ended
  <2>6. CASE kind = RejectionKind
    <3>1. /\ r.APAttemptsByProfile = d.APAttemptsByProfile
          /\ r.APSuccessesByProfile = d.APSuccessesByProfile
          /\ r.APRejectedAfterLDPCByProfile
               = Raised(d.APRejectedAfterLDPCByProfile, pass.profile)
      BY <2>3, <2>6, KindFields DEF Advances, APFields, ByProfile
    <3>2. \A n \in ProfileNames :
            r.APRejectedAfterLDPCByProfile[n] = d.APRejectedAfterLDPCByProfile[n]
                                                  + (IF n = pass.profile THEN 1 ELSE 0)
      BY <2>4, <3>1 DEF Raised
    <3>3. ASSUME NEW n \in ProfileNames PROVE Spare(r, n, 0)
      BY <1>2, <2>4, <3>1, <3>2 DEF Ended, Spare
    <3> QED BY <2>3, <3>3 DEF Ended
  <2> QED BY <2>5, <2>6
<1> QED BY <1>1, <1>2

\* The plans are of passes whose source has a tally.
LEMMA ProfilePlanNamed ==
    ASSUME NEW names \in Seq(STRING), Range(names) \subseteq ProfileNames,
           Range(names) \subseteq SourceNames
    PROVE  ProfilePlan(names) \in Seq(NamedPass)
<1>1. Len(names) \in Nat /\ DOMAIN names = 1..Len(names)
  BY LenProperties
<1>2. \A i \in 1..(2 * Len(names)) : (i + 1) \div 2 \in 1..Len(names)
  BY <1>1
<1>3. \A i \in 1..Len(names) : names[i] \in Range(names)
  BY <1>1 DEF Range
<1>4. ProfilePlan(names) \in [1..(2 * Len(names)) -> NamedPass]
  BY <1>2, <1>3 DEF ProfilePlan, NamedPass, Pass
<1> QED BY <1>1, <1>4, FunctionIsSequence

LEMMA PlansNamed ==
    /\ BuiltinPlan \in Seq(NamedPass)
    /\ \A passing \in SUBSET Hypotheses : \A selection \in Selections(passing) :
         HintPlan(selection) \in Seq(NamedPass)
<1>1. /\ ProfilePlan(DefaultProfiles) \in Seq(NamedPass)
      /\ ProfilePlan(BroadProfiles) \in Seq(NamedPass)
  BY CandidateAssumption, ProfilePlanNamed DEF CandidateAssumption, ProfileNames, SourceNames
<1>2. MetricPlan \in Seq(NamedPass)
  BY CandidateAssumption, FunctionIsSequence
     DEF CandidateAssumption, MetricPlan, NamedPass, IsAP, Pass
<1>3. ASSUME NEW passing \in SUBSET Hypotheses, NEW selection \in Selections(passing)
      PROVE  HintPlan(selection) \in Seq(NamedPass)
  <2>1. HintPlan(selection) \in Seq(Pass)
    BY HintPlanTyped
  <2>2. \A i \in DOMAIN HintPlan(selection) : HintPlan(selection)[i].source \in SourceNames
    <3>1. Len(HintSources) \in Nat /\ DOMAIN HintSources = 1..Len(HintSources)
      BY CandidateAssumption, LenProperties DEF CandidateAssumption
    <3>2. \A i \in DOMAIN selection : selection[i] \in Hypotheses
      BY DEF Selections, Injection
    <3>3. \A i \in DOMAIN selection : HintSources[selection[i][1]] \in SourceNames
      BY <3>1, <3>2 DEF Hypotheses, SourceNames, Range
    <3> QED BY <3>3 DEF HintPlan
  <2> DEFINE plans == HintPlan(selection)
  <2> HIDE DEF plans
  <2>3. \A i \in 1..Len(plans) : plans[i] \in NamedPass
    BY <2>1, <2>2 DEF plans, NamedPass
  <2>4. plans \in [1..Len(plans) -> NamedPass] /\ Len(plans) \in Nat
    BY <2>1, <2>3 DEF plans
  <2> QED BY <2>4, FunctionIsSequence DEF plans
<1> QED BY <1>1, <1>2, <1>3, ConcatProperties DEF BuiltinPlan

LEMMA InitTold == Init => APTold
<1> SUFFICES ASSUME Init PROVE APTold
  OBVIOUS
<1>1. diag = ZeroDiag /\ plan = <<>>
  BY DEF Init
<1>2. /\ SumFunction([n \in ProfileNames |-> 0]) = 0
      /\ SumFunction([n \in SourceNames |-> 0]) = 0
  BY NamesFinite, SumOfZeros
<1>3. Told(diag)
  BY <1>1, <1>2, KindFields DEF ZeroDiag, Told, APKinds
<1>4. Ended(diag)
  BY <1>1 DEF ZeroDiag, Ended, Spare
<1> QED BY <1>1, <1>3, <1>4 DEF APTold

\* However an attempt ends its tallies tell it.
LEMMA PassTold ==
    ASSUME IInv, APTold, Passing, NEW end \in EndCounters,
           NEW a \in {Attempted, AttemptRejected, RecordAPSuccess(Attempted, Head(plan))}
    PROVE  Told(Count(a, end)) /\ Ended(Count(a, end)) /\ Tail(plan) \in Seq(NamedPass)
<1>1. Counted(diag) /\ Told(diag) /\ Ended(diag) /\ plan \in Seq(NamedPass) /\ plan # <<>>
  BY DEF IInv, TypeOK, APTold, Passing
<1>2. Head(plan) \in NamedPass /\ Tail(plan) \in Seq(NamedPass)
  BY <1>1
<1>3. /\ Counted(Attempted) /\ Told(Attempted) /\ Ended(Attempted)
      /\ IsAP(Head(plan)) => Spare(Attempted, Head(plan).profile, 1)
  BY <1>1, <1>2, AttemptTold DEF Attempted
<1>4. Counted(a) /\ Told(a) /\ Ended(a)
  BY <1>2, <1>3, OutcomeTold DEF AttemptRejected
<1>5. end \in Counters \ APCounters
  BY DEF EndCounters, Counters, APCounters
<1>6. \A e \in APFields : Count(a, end)[e] = a[e]
  BY <1>4, <1>5, OthersCounted DEF Count
<1> QED BY <1>2, <1>4, <1>6, SameTold

LEMMA ScoredTold ==
    ASSUME NEW d, Counted(d), NEW hints \in Nat, NEW selected \in Nat, NEW below \in Nat
    PROVE  \A e \in APFields : RecordAPHintScored(d, hints, selected, below)[e] = d[e]
<1> DEFINE one == Add(d, "APHintProfilesScored", 2 * hints)
           two == Add(one, "APHintHypothesesSelected", selected)
           scored == Add(two, "APHintHypothesesBelowThreshold", below)
           a == [scored EXCEPT !["APCallHints"] = hints]
<1>1. {"APHintProfilesScored", "APHintHypothesesSelected",
       "APHintHypothesesBelowThreshold", "APCallHints"} \subseteq Counters \ APCounters
  BY DEF Counters, APCounters
<1>2. 2 * hints \in Nat
  OBVIOUS
<1>3. Counted(one) /\ \A e \in APFields : one[e] = d[e]
  BY <1>1, <1>2, AddCounted, OthersCounted
<1> HIDE DEF one
<1>4. Counted(two) /\ \A e \in APFields : two[e] = one[e]
  BY <1>1, <1>3, AddCounted, OthersCounted
<1> HIDE DEF two
<1>5. Counted(scored) /\ \A e \in APFields : scored[e] = two[e]
  BY <1>1, <1>4, AddCounted, OthersCounted
<1> HIDE DEF scored
<1>6. \A e \in APFields : a[e] = scored[e]
  <2>1. APCounters \subseteq Counters
    BY DEF APCounters, Counters
  <2>2. "APCallHints" \in Counters /\ "APCallHints" \notin APCounters
    BY <1>1
  <2>3. \A e \in Counters : e # "APCallHints" => a[e] = scored[e]
    BY <1>5, <2>2, SetCounted
  <2>4. \A e \in ByProfile \cup BySource : a[e] = scored[e]
    BY <1>5, <2>2, AddTallies
  <2> HIDE DEF a
  <2> QED BY <2>1, <2>2, <2>3, <2>4 DEF APFields
<1> HIDE DEF a
<1> QED BY <1>3, <1>4, <1>5, <1>6 DEF RecordAPHintScored, a, scored, two, one

LEMMA APToldKept == IInv /\ APTold /\ [Next]_vars => APTold'
<1> SUFFICES ASSUME IInv, APTold, [Next]_vars PROVE APTold'
  OBVIOUS
<1>1. Counted(diag) /\ Told(diag) /\ Ended(diag) /\ plan \in Seq(NamedPass)
  BY DEF IInv, TypeOK, APTold
<1>2. ASSUME \A e \in APFields : diag'[e] = diag[e], plan' \in Seq(NamedPass)
      PROVE  APTold'
  BY <1>1, <1>2, SameTold DEF APTold
<1>3. ASSUME NEW c \in {"CandidatesAnalyzed", "RejectedHardSync", "RejectedCostas"}
      PROVE  \A e \in APFields : Count(diag, c)[e] = diag[e]
  <2>1. c \in Counters \ APCounters
    BY DEF Counters, APCounters
  <2> QED BY <1>1, <2>1, OthersCounted DEF Count
<1>4. ASSUME Passing, NEW end \in EndCounters, plan' \in {<<>>, Tail(plan)},
             NEW a \in {Attempted, AttemptRejected, RecordAPSuccess(Attempted, Head(plan))},
             diag' = Count(a, end)
      PROVE  APTold'
  <2>1. Told(diag') /\ Ended(diag') /\ Tail(plan) \in Seq(NamedPass)
    BY <1>4, PassTold
  <2>2. plan' \in Seq(NamedPass)
    <3>1. <<>> \in Seq(NamedPass)
      OBVIOUS
    <3> QED BY <1>4, <2>1, <3>1
  <2> QED BY <2>1, <2>2 DEF APTold
<1>5. CASE StartCandidate
  <2>1. diag' = Count(diag, "CandidatesAnalyzed") /\ plan' = plan
    BY <1>5 DEF StartCandidate
  <2>2. \A e \in APFields : diag'[e] = diag[e]
    BY <1>3, <2>1
  <2> QED BY <1>1, <1>2, <2>1, <2>2
<1>6. CASE RejectHardSync \/ RejectCostas
  <2>1. PICK c \in {"RejectedHardSync", "RejectedCostas"} :
          diag' = Count(diag, c) /\ plan' = <<>>
    BY <1>6 DEF RejectHardSync, RejectCostas, EndWithout
  <2>2. \A e \in APFields : diag'[e] = diag[e]
    BY <1>3, <2>1
  <2> QED BY <1>2, <2>1, <2>2
<1>7. CASE PassGates
  BY <1>2, <1>7, PlansNamed DEF PassGates
<1>8. CASE LDPCFails
  BY <1>4, <1>8 DEF LDPCFails, EndCounters
<1>9. CASE RejectHardErrors \/ RejectAllZero
  BY <1>4, <1>9 DEF RejectHardErrors, RejectAllZero, ThrowAway, EndCounters
<1>10. ASSUME NEW payload \in Payloads,
              FailUnpack(payload) \/ RejectMessage(payload) \/ Accept(payload)
       PROVE  APTold'
  BY <1>4, <1>10 DEF FailUnpack, RejectMessage, Accept, ThrowAway, EndCounters
<1>11. CASE SelectHints
  <2>1. PICK passing \in SUBSET Hypotheses : \E selection \in Selections(passing) :
          /\ plan' = HintPlan(selection)
          /\ diag' = RecordAPHintScored(diag, Len(HintSources), Len(selection),
                                        Cardinality(Hypotheses \ passing))
    BY <1>11 DEF SelectHints
  <2>2. PICK selection \in Selections(passing) :
          /\ plan' = HintPlan(selection)
          /\ diag' = RecordAPHintScored(diag, Len(HintSources), Len(selection),
                                        Cardinality(Hypotheses \ passing))
    BY <2>1
  <2>3. Len(HintSources) \in Nat
    BY CandidateAssumption, LenProperties DEF CandidateAssumption
  <2>4. Len(selection) \in Nat /\ Cardinality(Hypotheses \ passing) \in Nat
    BY HintPlanTyped
  <2>5. \A h, n, b \in Nat : \A e \in APFields : RecordAPHintScored(diag, h, n, b)[e] = diag[e]
    BY <1>1, ScoredTold
  <2>6. \A e \in APFields : diag'[e] = diag[e]
    BY <2>2, <2>3, <2>4, <2>5, Zenon
  <2> QED BY <1>2, <2>2, <2>6, PlansNamed
<1>12. CASE GiveUp
  BY <1>2, <1>12 DEF GiveUp, EndWithout
<1>13. CASE UNCHANGED vars
  BY <1>1, <1>2, <1>13 DEF vars
<1> QED BY <1>5, <1>6, <1>7, <1>8, <1>9, <1>10, <1>11, <1>12, <1>13 DEF Next, Step

\* Whatever profiles, sources and hints there are, the AP tallies by profile and
\* by source add up to the totals, and no profile has ended more passes than it
\* attempted (recordLDPCAttempt, recordAPSuccess and recordAPRejectedAfterLDPC,
\* diagnostics.go).
THEOREM APAlwaysAccounted == Spec => []APAccounted
<1>1. IInv /\ APTold => APAccounted
  <2> SUFFICES ASSUME IInv, APTold PROVE APAccounted
    OBVIOUS
  <2>1. Told(diag)
    BY DEF APTold
  <2>2. \A n \in ProfileNames : diag.APSuccessesByProfile[n] + diag.APRejectedAfterLDPCByProfile[n]
                                  <= diag.APAttemptsByProfile[n]
    <3>1. /\ diag.APAttemptsByProfile \in [ProfileNames -> Nat]
          /\ diag.APSuccessesByProfile \in [ProfileNames -> Nat]
          /\ diag.APRejectedAfterLDPCByProfile \in [ProfileNames -> Nat]
      BY DEF IInv, TypeOK, Counted, ByProfile
    <3> QED BY <3>1 DEF APTold, Ended, Spare
  <2> QED BY <2>1, <2>2, KindFields DEF Told, APKinds, APAccounted
<1> QED BY <1>1, InitOK, StepOK, InitTold, APToldKept, PTL DEF Spec
==============================================================================
