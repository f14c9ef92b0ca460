CONSTANTS
    t1 = t1
    t2 = t2
    r1 = r1
    r2 = r2
    Planner = Planner
    Reviewer = Reviewer
    Report = Report
    Task = {t1, t2}
    RepairOf <- MCRepairOf
    TaskSeq <- MCTaskSeq
    Order <- MCOrder
    Assignee <- MCAssignee
    Code = {t1}
    Outside = {t1}
    Native = {"claude", "codex"}
    MaxCrash = 1
    MaxOwner = 1
    Mixed = FALSE
CHECK_DEADLOCK FALSE
SPECIFICATION FairSpec
INVARIANTS TypeOK NeverSentTwice OrderKept StopReaches
PROPERTIES DoneStays Rests
