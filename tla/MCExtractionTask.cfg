CONSTANT NLayers = 3
SPECIFICATION FairSpec
INVARIANTS
    IInv
    EveryLayerReported
    LogMatchesReport
PROPERTIES
    SettledOnce
    RunEnds
