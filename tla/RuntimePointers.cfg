\* Two tools, three Runtimes, two failures and a crash: enough to fail while
\* a failed transaction is being put back, and to take a rollback back.
SPECIFICATION Spec
CONSTANTS
    Tools = {t1, t2}
    Versions = {seed, v1, v2}
    Seed = seed
    None = None
    MaxFaults = 2
    MaxCrashes = 1
INVARIANTS
    PointersAreInstalled
    KnownGoodIsNamed
    SuccessIsActive
PROPERTY
    PointersAreAtomic
CHECK_DEADLOCK FALSE
