CONSTANTS
    AttemptsPerTier = 2
SPECIFICATION FairRecordSpec
CHECK_DEADLOCK FALSE
INVARIANTS DispatchesDoubledAtMost
PROPERTIES EveryRunSettles
