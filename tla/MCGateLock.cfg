CONSTANTS
    p1 = p1  p2 = p2  p3 = p3
    w1 = w1
    None = None
    Proc <- ThreeProcs
    Waiter <- OneWaiter
    WaitKind <- WaitsOnGpu
    Area <- OneArea
    Rank <- Ranks
SPECIFICATION FairGateSpec
CHECK_DEADLOCK FALSE
INVARIANTS SameKindExclusive
PROPERTIES ChildOutlivesWrapper WaitEnds
