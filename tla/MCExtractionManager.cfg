CONSTANTS
    Jobs = {j1, j2}
    MaxClones = 2
    MinThreads = 1
SYMMETRY Symmetry
SPECIFICATION Spec
INVARIANTS
    IInv
    OneRegistryEntry
    OneStartable
    WithdrawnCannotBegin
    WaitingIsQueued
CHECK_DEADLOCK FALSE
