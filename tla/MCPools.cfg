CONSTANTS
    d1 = d1
    d2 = d2
    Decodes = {d1, d2}
    Copies = 4
    BufferSamples = 5
    SignalSamples = 4
    FFTSamples = 5
    Onsets <- MCOnsets
    NBins = 4
    ToneSpan = 1
    Ranges <- MCRanges
    MaxBlocks <- MCBlocks
    MaxCandidates = 2
SPECIFICATION FairSpec
INVARIANTS
    OneUser
    OwnDataRead
PROPERTIES
    EveryDecodeReturns
