CONSTANTS
    K1 = K1
    PJ4 = PJ4
    W9 = W9
    W9R = W9R
    CQ = CQ
    CQDX = CQDX
    NoCall = NoCall
    CQText = CQ
    MaxHash = 2
    Texts <- MCTexts
    Unsavable = {CQ}
    Short = {CQ}
    DirectedCQ = {CQDX}
    Rover = {W9R}
    Hash22 <- MCHash22
    Suffixed <- MCSuffixed
    Payloads <- MCPayloads
    MetricPasses = 1
    DefaultProfiles <- MCDefault
    BroadProfiles <- MCBroad
    HintSources <- MCHints
    MaxHypotheses = 1
    EnableBroadAP = TRUE
    MaxCandidates = 2
    MaxRejected = 1
SPECIFICATION Spec
INVARIANTS
    AttemptsAccounted
    APAccounted
    CandidatesAccounted
PROPERTIES
    ResolvesEarlierCalls
    RefinesCandidateOutcome
    CandidatesEnd
CHECK_DEADLOCK FALSE
