CONSTANTS
    r1 = r1  r2 = r2  r3 = r3  w1 = w1  w2 = w2  f1 = f1  f2 = f2
    Run <- ThreeRuns
    Owner <- TwoWorkers
    File <- TwoFiles
    MaxWait = 1
    MaxNow = 2
SPECIFICATION FairSpec
CHECK_DEADLOCK FALSE
VIEW Leases
PROPERTIES LeaseSpec EveryLeaseEnds
