----------------------------- MODULE MCFileLocks -----------------------------
(***************************************************************************)
(* FileLocks with three runs.  No guard reads the audit events, and what is *)
(* checked of them is about the rows a step adds: the state is viewed       *)
(* without the log.                                                         *)
(***************************************************************************)
EXTENDS FileLocks

CONSTANTS r1, r2, r3, w1, w2, f1, f2

ThreeRuns == {r1, r2, r3}
TwoWorkers == {w1, w2}
TwoFiles == {f1, f2}

Leases == <<now, claims, waits>>

=============================================================================
