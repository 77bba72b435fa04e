\* One launch of the desktop, two successful starts, three processes: enough
\* for a restart or a second start to overlap with a monitor's respawn, and
\* for a monitor to launch once more than the limit of one would allow.
SPECIFICATION Spec
CONSTANTS
    MaxRestarts = 1
    MaxStart = 2
    MaxProc = 3
    MaxOutside = 1
    MaxLaunch = 1
INVARIANTS
    TrackedIsWatched
    RestartBudget
    SoleMonitorOwnsAll
PROPERTY
    ExternalIsNeverKilled
CHECK_DEADLOCK FALSE
