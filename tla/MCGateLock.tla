----------------------------- MODULE MCGateLock -----------------------------
(***************************************************************************)
(* Instances of GateLock for TLC: one area stands for the five of the code *)
(* where one is enough to meet every row of the table of conflicts.        *)
(***************************************************************************)
EXTENDS GateLock

CONSTANTS p1, p2, p3, w1

ThreeProcs == {p1, p2, p3}

OneWaiter == {w1}

\* Before a local model job: the wait is for the single lock and its own.
WaitsOnGpu == [r \in OneWaiter |-> "gpu"]

OneArea == {"landing-loop"}

RankOf(k) ==
    CASE k = "single" -> 1 [] k = "landing" -> 2 [] k = "gpu" -> 3
      [] k = "landing-loop" -> 4 [] OTHER -> 5

Ranks == [k \in Kind |-> RankOf(k)]

=============================================================================
