CONSTANTS
    Areas <- AreasInOrder
    Sha <- ThreeShas
    Candidates <- AllCandidates
    Files = {"f", "g", "h"}
    Masters = {"old", "new"}
    Time = {0, 1, 2, 3}
    FeatureLists <- FeatureQueues
    MaxRows = 4
SPECIFICATION MCSpec
CHECK_DEADLOCK FALSE
INVARIANTS
    ReportedStays
    PlanIsLayered
PROPERTY QueueSpec
