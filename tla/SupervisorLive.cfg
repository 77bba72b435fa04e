\* Two launches of the desktop and a restart limit of two, under fairness.
SPECIFICATION FairSpec
CONSTANTS
    MaxRestarts = 2
    MaxStart = 2
    MaxProc = 2
    MaxOutside = 1
    MaxLaunch = 2
PROPERTY
    CrashIsNoticed
CHECK_DEADLOCK FALSE
