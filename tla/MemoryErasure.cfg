CONSTANTS
    i1 = i1
    i2 = i2
    Instance = {i1, i2}
    None = None
    Body = {"a"}
    MaxLine = 2
    MaxPurge = 2
    MaxExpire = 2
    MaxCrash = 1
    MaxRead = 1
SPECIFICATION FairErasureSpec
CHECK_DEADLOCK FALSE
INVARIANTS LinesOnce ForgottenStays CopiesBacked PendingCoversResidue
PROPERTIES Erased
