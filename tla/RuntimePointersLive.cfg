\* A tool dies in a transaction, nothing fails otherwise.
SPECIFICATION FairSpec
CONSTANTS
    Tools = {t1}
    Versions = {seed, v1}
    Seed = seed
    None = None
    MaxFaults = 0
    MaxCrashes = 1
PROPERTY
    InterruptedIsRecovered
CHECK_DEADLOCK FALSE
