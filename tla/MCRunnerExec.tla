----------------------------- MODULE MCRunnerExec -----------------------------
(***************************************************************************)
(* RunnerExec with this Mac, which may run every file, and two others that *)
(* may not see private data; one of them is told to skip a file.           *)
(***************************************************************************)
EXTENDS RunnerExec

CONSTANTS mac, pc1, m1, private, long, short

Capable ==
    ({mac} \X {private, long, short}) \cup ({pc1} \X {long, short}) \cup ({m1} \X {short})

\* At most one file is broken.
OneBrokenInit == Init /\ Cardinality(broken) <= 1

OneBrokenSpec == OneBrokenInit /\ [][Next]_vars /\ Fairness

=============================================================================
