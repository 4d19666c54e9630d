CONSTANTS
    Jobs = {j1}
    MaxClones = 3
    MinThreads = 1
SPECIFICATION Spec
PROPERTY CancelledIsNotDelivered
CHECK_DEADLOCK FALSE
