CONSTANTS
    MaxRuns = 2
    MaxTier = 1
    AttemptsPerTier = 2
    MaxLate = 1
    MaxFaults = 1
    HasFiles = TRUE
SPECIFICATION Spec
CHECK_DEADLOCK FALSE
INVARIANTS TypeOK LeaseGuardsCourier OneLiveWorker
PROPERTIES NoStartBehindSuccessor
