---------------------------- MODULE MCDelegation ----------------------------
EXTENDS Delegation, TLC
CONSTANTS t1, t2, r1, r2
MCTaskSeq == <<t1, t2>>
MCRepairOf == t1 :> r1 @@ t2 :> r2
MCOrder == t1 :> 1 @@ t2 :> 2
MCAssignee == t1 :> "cursor" @@ t2 :> "claude"
=============================================================================
