CONSTANTS
 a = a
 b = b
 c = c
 Train = {a, b, c}
 Area = {"docs", "loop", "web"}
 Areas <- MCAreas
 Web = "web"
 AreaRank <- MCAreaRank
 Rank <- MCRank
 After <- MCAfter
 Nobody = Nobody
 Fails <- MCFails
 MaxLaunch = 4
SPECIFICATION FairSpec
CHECK_DEADLOCK FALSE
INVARIANTS ChainKept
PROPERTIES LandedAsTested EveryTrainEnds
