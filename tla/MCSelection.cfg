CONSTANTS
    Bins = {2, 3, 4, 5}
    Strengths = {0, 1, 2, 3}
    SyncMin = 1
    NarrowLags <- MCNarrowLags
    WideLags <- MCWideLags
    MaxPreCand = 6
    MaxCandidates = 2
    Hints = 2
    Scores = {0, 1, 2}
    MatchCounts = {23, 24, 25}
    MinScore = 1
    MinMatches = 24
    HypothesisLimits = {0, 1, 2, 3, 9}
    N = 8
    K = 4
    Generator <- MCGenerator
    GoodChecksums <- MCGoodChecksums
    PivotWindow = 1
    NT = 2
    NTheta = 2
    MaxIterations = 7
    MinIterations = 4
    StaleLimit = 3
    Hopeful = 15
    Checks = {15, 16, 17}
    Received <- MCReceived
    Known <- MCKnown
SPECIFICATION SelectionSpec
INVARIANTS
    Spaced
    StrongestDecoded
    BestHypotheses
    NearestOfSearch
    FailsOnlyWhenExhausted
CHECK_DEADLOCK FALSE
