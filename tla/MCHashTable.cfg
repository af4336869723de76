CONSTANTS
    K1 = K1
    PJ4 = PJ4
    W9 = W9
    G4 = G4
    VE3 = VE3
    JA1 = JA1
    CQ = CQ
    NoCall = NoCall
    MaxHash = 3
    Texts <- MCTexts
    Unsavable <- MCUnsavable
    Hash22 <- MCHash22
SPECIFICATION Spec
INVARIANTS
    TableOK
    LookupsAnswerNewest
PROPERTIES
    RefinesRecentCalls
