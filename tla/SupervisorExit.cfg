\* A monitor respawns a crashed Harness while the user quits.
SPECIFICATION Spec
CONSTANTS
    MaxRestarts = 1
    MaxStart = 1
    MaxProc = 2
    MaxOutside = 0
    MaxLaunch = 1
PROPERTY
    ExitStopsHarness
CHECK_DEADLOCK FALSE
