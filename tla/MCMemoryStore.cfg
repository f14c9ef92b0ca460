CONSTANTS
    Key = {"k"}
    NoKey = "nokey"
    Ttl = 1
    Last <- Small
    MaxNow = 3
SPECIFICATION Spec
CONSTRAINT Room
CHECK_DEADLOCK FALSE
INVARIANTS ChainsWhole PurgedIdsStayGone ForgetFindsRow
PROPERTIES OneActivePerKey AsOfStable
