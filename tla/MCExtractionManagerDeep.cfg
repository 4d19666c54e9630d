CONSTANTS
    Jobs = {j1}
    MaxClones = 4
    MinThreads = 2
SPECIFICATION FairSpec
PROPERTIES
    TicketsSpec
    EveryTaskLeaves
    WaitingEnds
CHECK_DEADLOCK FALSE
