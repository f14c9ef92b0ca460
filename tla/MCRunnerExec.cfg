CONSTANTS
    mac = mac
    pc1 = pc1
    m1 = m1
    private = private
    long = long
    short = short
    Runner = {mac, pc1, m1}
    File = {private, long, short}
    MayRun <- Capable
    Private = {private}
SPECIFICATION OneBrokenSpec
CHECK_DEADLOCK FALSE
INVARIANTS
    EachFileOnce
    BrokenNeverPasses
PROPERTY PhaseEnds
