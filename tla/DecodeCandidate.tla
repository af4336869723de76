--------------------------- MODULE DecodeCandidate ---------------------------
(***************************************************************************)
(* One candidate after another through the gates and decoding passes of     *)
(* src/ft8/decode.go (decodeCandidateVariantsForMetricSet down to           *)
(* decodeLLRPass), with the callsign table the passes unpack through and    *)
(* the diagnostics they count (src/ft8/diagnostics.go).  What the signal    *)
(* holds is not modelled: a gate may pass or reject, and a pass may find    *)
(* any codeword or none.  The order of the passes, what each failure        *)
(* leaves behind and where the cascade stops are the code's.                *)
(***************************************************************************)
EXTENDS Unpack, Functions, FiniteSets

CONSTANTS
    Payloads,           \* the payloads of the codewords the LDPC decoder may find
    MetricPasses,       \* metric passes per candidate (5: Single to Best)
    DefaultProfiles,    \* names of ft8DefaultAPProfiles, in order
    BroadProfiles,      \* names of ft8BroadAPProfiles, in order
    HintSources,        \* the source label of each normalized AP call hint
    MaxHypotheses,      \* options.maxAPCallHypotheses
    EnableBroadAP,      \* options.enableBroadAP
    MaxCandidates,      \* the bound on the candidates a behaviour decodes
    MaxRejected         \* the bound on rejected codewords per candidate

HintProfiles == {"hint-call1", "hint-call2"}
ProfileNames == Range(DefaultProfiles) \cup Range(BroadProfiles) \cup HintProfiles
SourceNames == Range(DefaultProfiles) \cup Range(BroadProfiles) \cup Range(HintSources)

ASSUME CandidateAssumption ==
    /\ Payloads \subseteq Payload
    /\ {MetricPasses, MaxHypotheses, MaxCandidates, MaxRejected} \subseteq Nat
    /\ EnableBroadAP \in BOOLEAN
    /\ DefaultProfiles \in Seq(STRING) /\ BroadProfiles \in Seq(STRING)
    /\ HintSources \in Seq(STRING)

VARIABLES
    stage,      \* "idle", "gates", "builtin" passes or "hints" passes
    plan,       \* the passes the stage has left, in order
    diag,       \* the DecodeDiagnostics counters these functions advance
    calls22,    \* the callsign table (hashes)
    calls0,     \* the callsign table when the candidate was begun
    rejected,   \* codewords of this candidate found and thrown away
    result      \* what the last candidate yielded

vars == <<stage, plan, diag, calls22, calls0, rejected, result>>
------------------------------------------------------------------------------
NoResult == [ok |-> FALSE, text |-> NoText]
Result(payload, text) == [ok |-> TRUE, payload |-> payload, text |-> text]

\* A pass is named by its AP profile and source; a metric pass has neither.
Pass == [profile : ProfileNames \cup {""}, source : SourceNames \cup {""}]

MetricPlan == [i \in 1..MetricPasses |-> [profile |-> "", source |-> ""]]

\* Each profile is tried on the Single and then on the Triple metric.
ProfilePlan(names) ==
    [i \in 1..(2 * Len(names)) |->
        [profile |-> names[(i + 1) \div 2], source |-> names[(i + 1) \div 2]]]

\* decodeCandidateMetrics, up to the call hints.
BuiltinPlan ==
    MetricPlan \o ProfilePlan(DefaultProfiles)
      \o (IF EnableBroadAP THEN ProfilePlan(BroadProfiles) ELSE <<>>)

\* Each hint is scored as either call; the best are tried, best first.
Hypotheses == (1..Len(HintSources)) \X HintProfiles

HintPlan(selection) ==
    [i \in DOMAIN selection |-> [profile |-> selection[i][2],
                                 source  |-> HintSources[selection[i][1]]]]

MinOf(a, b) == IF a < b THEN a ELSE b

\* The selections possible when the hypotheses of passing clear the score
\* gate: the scores decide which of them, and in which order.
Selections(passing) ==
    Injection(1..MinOf(Cardinality(passing), MaxHypotheses), passing)
------------------------------------------------------------------------------
ZeroDiag ==
    [CandidatesAnalyzed |-> 0, DecodedCandidates |-> 0,
     RejectedHardSync |-> 0, RejectedCostas |-> 0,
     LDPCAttempts |-> 0, MetricLDPCAttempts |-> 0, LDPCFailures |-> 0,
     RejectedHardErrors |-> 0, RejectedAllZero |-> 0, UnpackFailures |-> 0,
     RejectedMessageFilter |-> 0,
     APAttempts |-> 0, APSuccesses |-> 0, APRejectedAfterLDPC |-> 0,
     APAttemptsByProfile |-> [n \in ProfileNames |-> 0],
     APAttemptsBySource |-> [n \in SourceNames |-> 0],
     APSuccessesByProfile |-> [n \in ProfileNames |-> 0],
     APSuccessesBySource |-> [n \in SourceNames |-> 0],
     APRejectedAfterLDPCByProfile |-> [n \in ProfileNames |-> 0],
     APRejectedAfterLDPCBySource |-> [n \in SourceNames |-> 0],
     APCallHints |-> 0, APHintProfilesScored |-> 0,
     APHintHypothesesSelected |-> 0, APHintHypothesesBelowThreshold |-> 0]

Add(d, counter, n) == [d EXCEPT ![counter] = @ + n]
Count(d, counter) == Add(d, counter, 1)

Tally(d, tally, name) == [d EXCEPT ![tally][name] = @ + 1]

\* One more under the profile and the source of an AP pass.
TallyPass(d, byProfile, bySource, pass) ==
    Tally(Tally(d, byProfile, pass.profile), bySource, pass.source)

\* The source tally forgotten.
RecordLDPCAttemptNoSource(d, pass) ==
    IF pass.profile = ""
    THEN Count(Count(d, "LDPCAttempts"), "MetricLDPCAttempts")
    ELSE Tally(Count(Count(d, "LDPCAttempts"), "APAttempts"),
               "APAttemptsByProfile", pass.profile)

RecordLDPCAttempt(d, pass) ==
    IF pass.profile = ""
    THEN Count(Count(d, "LDPCAttempts"), "MetricLDPCAttempts")
    ELSE TallyPass(Count(Count(d, "LDPCAttempts"), "APAttempts"),
                   "APAttemptsByProfile", "APAttemptsBySource", pass)

RecordAPSuccess(d, pass) ==
    IF pass.profile = "" THEN d
    ELSE TallyPass(Count(d, "APSuccesses"), "APSuccessesByProfile",
                   "APSuccessesBySource", pass)

RecordAPRejectedAfterLDPC(d, pass) ==
    IF pass.profile = "" THEN d
    ELSE TallyPass(Count(d, "APRejectedAfterLDPC"), "APRejectedAfterLDPCByProfile",
                   "APRejectedAfterLDPCBySource", pass)

\* Called once per candidate: the hint count is set, the others add up.
RecordAPHintScored(d, hints, selected, below) ==
    LET scored == Add(Add(Add(d, "APHintProfilesScored", 2 * hints),
                          "APHintHypothesesSelected", selected),
                      "APHintHypothesesBelowThreshold", below)
    IN  [scored EXCEPT !.APCallHints = hints]
------------------------------------------------------------------------------
Init == /\ stage = "idle"
        /\ plan = <<>>
        /\ diag = ZeroDiag
        /\ calls22 = <<>> /\ calls0 = <<>>
        /\ rejected = 0
        /\ result = NoResult

StartCandidate ==
    /\ stage = "idle"
    /\ diag.CandidatesAnalyzed < MaxCandidates
    /\ stage' = "gates"
    /\ diag' = Count(diag, "CandidatesAnalyzed")
    /\ calls0' = calls22
    /\ rejected' = 0
    /\ UNCHANGED <<plan, calls22, result>>

\* The candidate ends with nothing to show.
EndWithout ==
    /\ stage' = "idle"
    /\ plan' = <<>>
    /\ result' = NoResult
    /\ UNCHANGED <<calls22, calls0, rejected>>

RejectHardSync ==
    /\ stage = "gates"
    /\ diag' = Count(diag, "RejectedHardSync")
    /\ EndWithout

RejectCostas ==
    /\ stage = "gates"
    /\ diag' = Count(diag, "RejectedCostas")
    /\ EndWithout

PassGates ==
    /\ stage = "gates"
    /\ stage' = "builtin"
    /\ plan' = BuiltinPlan
    /\ UNCHANGED <<diag, calls22, calls0, rejected, result>>

\* decodeAPCallHints scores the hints once every built-in pass has failed.
SelectHints ==
    /\ stage = "builtin" /\ plan = <<>>
    /\ HintSources # <<>> /\ MaxHypotheses > 0
    /\ stage' = "hints"
    /\ \E passing \in SUBSET Hypotheses : \E selection \in Selections(passing) :
         /\ plan' = HintPlan(selection)
         /\ diag' = RecordAPHintScored(diag, Len(HintSources), Len(selection),
                                       Cardinality(Hypotheses \ passing))
    /\ UNCHANGED <<calls22, calls0, rejected, result>>

\* Nothing left to try, noticed only when no hint hypothesis was tried.
GiveUpUnlessHinted ==
    /\ plan = <<>>
    /\ \/ stage = "builtin" /\ (HintSources = <<>> \/ MaxHypotheses = 0)
       \/ stage = "hints" /\ diag.APHintHypothesesSelected = 0
    /\ EndWithout
    /\ UNCHANGED diag

GiveUp ==
    /\ plan = <<>>
    /\ \/ stage = "builtin" /\ (HintSources = <<>> \/ MaxHypotheses = 0)
       \/ stage = "hints"
    /\ EndWithout
    /\ UNCHANGED diag
------------------------------------------------------------------------------
\* One call of decodeLLRPass on the next pass of the plan, by how it ends.
Passing == stage \in {"builtin", "hints"} /\ plan # <<>>

Attempted == RecordLDPCAttempt(diag, Head(plan))
AttemptRejected == RecordAPRejectedAfterLDPC(Attempted, Head(plan))

LDPCFails ==
    /\ Passing
    /\ diag' = Count(Attempted, "LDPCFailures")
    /\ plan' = Tail(plan)
    /\ UNCHANGED <<stage, calls22, calls0, rejected, result>>

\* A codeword was found and is thrown away; the cascade goes on.
ThrowAway ==
    /\ Passing
    /\ rejected < MaxRejected
    /\ rejected' = rejected + 1
    /\ plan' = Tail(plan)
    /\ UNCHANGED <<stage, calls0, result>>

RejectHardErrors ==
    /\ ThrowAway
    /\ diag' = Count(AttemptRejected, "RejectedHardErrors")
    /\ UNCHANGED calls22

\* An early return that counts nothing of its own.
RejectAllZeroUncounted ==
    /\ ThrowAway
    /\ diag' = AttemptRejected
    /\ UNCHANGED calls22

RejectAllZero ==
    /\ ThrowAway
    /\ diag' = Count(AttemptRejected, "RejectedAllZero")
    /\ UNCHANGED calls22

FailUnpack(payload) ==
    LET got == Unpack77(payload, calls22)
    IN  /\ ~got.ok
        /\ ThrowAway
        /\ diag' = Count(AttemptRejected, "UnpackFailures")
        /\ calls22' = got.table

RejectMessage(payload) ==
    LET got == Unpack77(payload, calls22)
    IN  /\ got.ok /\ Filtered(got.text)
        /\ ThrowAway
        /\ diag' = Count(AttemptRejected, "RejectedMessageFilter")
        /\ calls22' = got.table

\* A pass that goes on trying after a message was accepted.
AcceptAndGoOn(payload) ==
    LET got == Unpack77(payload, calls22)
    IN  /\ Passing
        /\ got.ok /\ ~Filtered(got.text)
        /\ diag' = Count(RecordAPSuccess(Attempted, Head(plan)), "DecodedCandidates")
        /\ calls22' = got.table
        /\ result' = Result(payload, got.text)
        /\ plan' = Tail(plan)
        /\ UNCHANGED <<stage, calls0, rejected>>

\* The message filter forgotten.
AcceptUnfiltered(payload) ==
    LET got == Unpack77(payload, calls22)
    IN  /\ Passing
        /\ got.ok
        /\ diag' = Count(RecordAPSuccess(Attempted, Head(plan)), "DecodedCandidates")
        /\ calls22' = got.table
        /\ result' = Result(payload, got.text)
        /\ stage' = "idle"
        /\ plan' = <<>>
        /\ UNCHANGED <<calls0, rejected>>

\* The first accepted message ends the candidate (the caller counts it).
Accept(payload) ==
    LET got == Unpack77(payload, calls22)
    IN  /\ Passing
        /\ got.ok /\ ~Filtered(got.text)
        /\ diag' = Count(RecordAPSuccess(Attempted, Head(plan)), "DecodedCandidates")
        /\ calls22' = got.table
        /\ result' = Result(payload, got.text)
        /\ stage' = "idle"
        /\ plan' = <<>>
        /\ UNCHANGED <<calls0, rejected>>
------------------------------------------------------------------------------
Step ==
    \/ RejectHardSync \/ RejectCostas \/ PassGates
    \/ LDPCFails \/ RejectHardErrors \/ RejectAllZero
    \/ \E payload \in Payloads :
         FailUnpack(payload) \/ RejectMessage(payload) \/ Accept(payload)
    \/ SelectHints \/ GiveUp

Next == StartCandidate \/ Step

\* The functions are sequential code that always goes on to its next statement.
Spec == Init /\ [][Next]_vars /\ WF_vars(Step)
------------------------------------------------------------------------------
Counters == {"CandidatesAnalyzed", "DecodedCandidates", "RejectedHardSync",
             "RejectedCostas", "LDPCAttempts", "MetricLDPCAttempts", "LDPCFailures",
             "RejectedHardErrors", "RejectedAllZero", "UnpackFailures",
             "RejectedMessageFilter", "APAttempts", "APSuccesses",
             "APRejectedAfterLDPC", "APCallHints", "APHintProfilesScored",
             "APHintHypothesesSelected", "APHintHypothesesBelowThreshold"}
ByProfile == {"APAttemptsByProfile", "APSuccessesByProfile", "APRejectedAfterLDPCByProfile"}
BySource == {"APAttemptsBySource", "APSuccessesBySource", "APRejectedAfterLDPCBySource"}

Counted(d) ==
    /\ d = [c \in Counters \cup ByProfile \cup BySource |-> d[c]]
    /\ \A c \in Counters : d[c] \in Nat
    /\ \A c \in ByProfile : d[c] \in [ProfileNames -> Nat]
    /\ \A c \in BySource : d[c] \in [SourceNames -> Nat]

\* The variables hold what the code's do; the table is a well-formed one.
TypeOK ==
    /\ stage \in {"idle", "gates", "builtin", "hints"}
    /\ plan \in Seq(Pass)
    /\ Counted(diag)
    /\ calls22 \in Seq(Entry) /\ WellFormed(calls22)
    /\ rejected \in 0..MaxRejected

\* Every pass handed to the LDPC decoder is counted once as a metric or an AP
\* pass, and once by how it ended: each early return of decodeLLRPass counts.
AttemptsAccounted ==
    /\ diag.LDPCAttempts = diag.MetricLDPCAttempts + diag.APAttempts
    /\ diag.LDPCAttempts = diag.LDPCFailures + diag.RejectedHardErrors
                             + diag.RejectedAllZero + diag.UnpackFailures
                             + diag.RejectedMessageFilter + diag.DecodedCandidates

\* The tallies by profile and by source tell the same story as the totals, and
\* an AP pass that succeeded or was thrown away is one that was attempted.
APAccounted ==
    /\ diag.APAttempts = SumFunction(diag.APAttemptsByProfile)
    /\ diag.APAttempts = SumFunction(diag.APAttemptsBySource)
    /\ diag.APSuccesses = SumFunction(diag.APSuccessesByProfile)
    /\ diag.APSuccesses = SumFunction(diag.APSuccessesBySource)
    /\ diag.APRejectedAfterLDPC = SumFunction(diag.APRejectedAfterLDPCByProfile)
    /\ diag.APRejectedAfterLDPC = SumFunction(diag.APRejectedAfterLDPCBySource)
    /\ \A n \in ProfileNames :
         diag.APSuccessesByProfile[n] + diag.APRejectedAfterLDPCByProfile[n]
           <= diag.APAttemptsByProfile[n]

\* Between candidates, each one analysed was rejected at a gate, decoded once,
\* or went through every built-in pass in vain.
CandidatesAccounted ==
    LET gated  == diag.RejectedHardSync + diag.RejectedCostas
        vainly == diag.CandidatesAnalyzed - gated - diag.DecodedCandidates
    IN  stage = "idle" =>
          /\ vainly >= 0
          /\ diag.LDPCAttempts >= Len(BuiltinPlan) * vainly + diag.DecodedCandidates

\* A call between brackets was heard in an earlier message, under the very hash
\* the message carries: no message resolves a reference by its own content.
HashMatches(payload, call) ==
    IF payload.kind = "type4" THEN Hash12(call) = payload.n12
    ELSE \E field \in {payload.call1, payload.call2} :
           field.kind = "hash" /\ field.hash = Hash22[call]

ResolvesEarlierCalls ==
    [][result'.ok /\ result' # result =>
         \A i \in DOMAIN result'.text.calls :
           LET shown == result'.text.calls[i]
           IN  shown.hashed /\ shown.call # NoCall =>
                 /\ \E e \in Range(calls22) : e.call = shown.call
                 /\ HashMatches(result'.payload, shown.call)]_vars

\* For its caller a candidate is one step: a result, and a table that has gone
\* through the codewords found on the way.
Outcome == INSTANCE CandidateOutcome
             WITH table   <- IF stage = "idle" THEN calls22 ELSE calls0,
                  decided <- diag.CandidatesAnalyzed - (IF stage = "idle" THEN 0 ELSE 1)

RefinesCandidateOutcome == Outcome!Spec

\* Every candidate is decided: the cascade always ends.
CandidatesEnd == [](stage # "idle" => <>(stage = "idle"))
==============================================================================
