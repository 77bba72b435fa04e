\* An adopted Harness ends: the slot keeps naming it.
SPECIFICATION Spec
CONSTANTS
    MaxRestarts = 1
    MaxStart = 2
    MaxProc = 2
    MaxOutside = 1
    MaxLaunch = 1
INVARIANT
    FailedCanBeRetried
CHECK_DEADLOCK FALSE
