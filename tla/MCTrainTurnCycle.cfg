CONSTANTS
 a = a
 b = b
 c = c
 Train = {a, b, c}
 Area = {"docs", "loop", "web"}
 Areas <- MCAreas
 Web = "web"
 AreaRank <- MCAreaRank
 Rank <- MCRank
 After <- MCAfter
 Nobody = Nobody
 Fails <- MCFails
 MaxLaunch = 3
SPECIFICATION Spec
CHECK_DEADLOCK FALSE
INVARIANTS NoWaitCycle
