CONSTANTS
    K1 = K1
    W9 = W9
    W9R = W9R
    CQ = CQ
    b1 = b1
    b2 = b2
    NoCall = NoCall
    CQText = CQ
    MaxHash = 2
    Texts <- MCTexts
    Unsavable = {CQ}
    Short = {CQ}
    DirectedCQ = {}
    Rover = {W9R}
    Hash22 <- MCHash22
    Suffixed <- MCSuffixed
    Payloads <- MCPayloads
    MaxRejected = 1
    MaxUnpacked = 16
    BlockLists <- MCBlockLists
    MaxFound = 2
    Hints <- MCHints
    Buffers = {b1, b2}
SPECIFICATION Spec
INVARIANTS
    BuffersOwned
    SpectrumFresh
    NoisePreSubtraction
    A7OnResidual
    TextsUnique
    CountersAgree
PROPERTIES
    RefinesSlotOutcome
CHECK_DEADLOCK FALSE
