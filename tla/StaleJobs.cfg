SPECIFICATION StoreSpec
CONSTANTS
    Jobs = {j1}
    MaxEvents = 3
    MaxLog = 3
    PageLimit = 2
    MaxSequence = 5
    MaxProcesses = 2
    MaxFaults = 0
INVARIANT NoJobStaysRunning
CHECK_DEADLOCK FALSE
