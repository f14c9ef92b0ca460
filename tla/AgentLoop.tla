------------------------------ MODULE AgentLoop ------------------------------
(***************************************************************************)
(* The agent loop on one node of a feature's DAG:                          *)
(*                                                                         *)
(*   the dispatcher's loop tick   src/companion/feature_team/dispatch.py   *)
(*   the inspector                src/companion/feature_team/inspector.py  *)
(*   the watchdog's stale check   src/companion/feature_team/watchdog.py   *)
(*   one node worker per launch   src/companion/feature_team/node_worker.py*)
(*                                                                         *)
(* A node is worked on by a chain of runs.  The tick claims the node's     *)
(* files for the newest run, dispatches it and launches a node worker; the *)
(* worker starts a courier (an agent program in a session of its own) that *)
(* edits the files and writes a result.  A run that is closed without a    *)
(* result is followed by a successor that inherits its attempt counts.     *)
(*                                                                         *)
(* The tick and the inspector hold dispatcher.lock, so there is one visit  *)
(* at a time; it works on the record it loaded when it began, can be       *)
(* killed between any two writes, and everything else runs beside it.      *)
(* Here a transition of a record is one step (RunRecord has the steps in   *)
(* it) and a lease is what FileLocks proves it to be: taken once, whole,   *)
(* and never reopened.  Age limits (silent, stale, no life seen) are left  *)
(* to chance; deadlines are not.  A heartbeat leaves a run "started".      *)
(* Holds, hand builds and the Board's own requeue are left out.            *)
(***************************************************************************)
EXTENDS Naturals, FiniteSets, FiniteSetsExt

CONSTANTS
    MaxRuns,            \* bound: the runs one chain may have
    MaxTier,            \* number of TIERS
    AttemptsPerTier,    \* ATTEMPTS_PER_TIER
    MaxLate,            \* bound: the deadlines that pass in one behaviour
    MaxFaults,          \* bound: kills and stale closes in one behaviour
    HasFiles            \* the node's brief names files to own

Run == 1 .. MaxRuns
Tier == 1 .. MaxTier

ASSUME BoundsAssumption ==
    /\ MaxRuns \in Nat \ {0} /\ MaxTier \in Nat \ {0}
    /\ AttemptsPerTier \in Nat \ {0} /\ MaxFaults \in Nat /\ MaxLate \in Nat
    /\ HasFiles \in BOOLEAN

VARIABLES
    late,       \* the deadlines of runs 1 .. late have passed
    run,        \* the run records, NoRun before a run is minted
    lease,      \* each run's row in the claims table
    proc,       \* where each run's node worker is
    draft,      \* the record a node worker loaded when it booted
    sent,       \* what the worker's send of the courier came to
    courier,    \* each run's courier process
    output,     \* each run's result file
    visit,      \* the tick or inspector visit in progress
    faults      \* bound: the kills and stale closes so far

vars == <<late, run, lease, proc, draft, sent, courier, output, visit, faults>>

Working == {"dispatched", "started"}

CanMove(from, to) ==
    to \in CASE from = "queued" -> {"dispatched", "timeout", "escalated"}
             [] from = "dispatched" -> {"started", "result", "timeout", "escalated"}
             [] from = "started" -> {"result", "timeout", "escalated"}
             [] from = "result" -> {"verify_pass", "verify_fail", "timeout"}
             [] from = "verify_fail" -> {"fixback", "escalated"}
             [] from \in {"fixback", "timeout"} -> {"dispatched", "escalated"}
             [] OTHER -> {}

\* why: what the last history line says.  ledger: the current attempt has a
\* ledger id.  closed: inspector_closed, with or without proof of death.
NoRun == [state |-> "none", tier |-> 1, attempts |-> [t \in Tier |-> 0],
          why |-> "other",
          ledger |-> FALSE, closed |-> "no", fixback |-> FALSE]

Minted == {r \in Run : run[r].state # "none"}
Latest == Max(Minted)
Fresh == Cardinality(Minted) + 1

Held(r) == lease[r] = "held"
Expired(r) == r <= late

\* The first tier from the record's own that has an attempt left, 0 for none.
NextTier(rec) ==
    LET open == {t \in Tier : t >= rec.tier /\ rec.attempts[t] < AttemptsPerTier}
    IN  IF open = {} THEN 0 ELSE Min(open)

\* rec and older: the newest and the older records as the visit loaded them.
\* expired: the clock of an inspector's visit stands still.
NoVisit == [at |-> "idle", of |-> 1, rec |-> NoRun, older |-> [r \in Run |-> NoRun],
            proof |-> FALSE, expired |-> FALSE]

Init ==
    /\ late = 0
    /\ run = [r \in Run |-> IF r = 1 THEN [NoRun EXCEPT !.state = "queued"] ELSE NoRun]
    /\ lease = [r \in Run |-> "none"]
    /\ proc = [r \in Run |-> "none"]
    /\ draft = [r \in Run |-> NoRun]
    /\ sent = [r \in Run |-> "none"]
    /\ courier = [r \in Run |-> "none"]
    /\ output = [r \in Run |-> "none"]
    /\ visit = NoVisit
    /\ faults = 0

\* release() of a held row.
Close(R) == lease' = [r \in Run |-> IF r \in R /\ Held(r) THEN "closed" ELSE lease[r]]

\* The record a transition leaves.
Moved(rec, s, why) ==
    [rec EXCEPT !.state = s, !.why = why]

Dispatched(rec, t) ==
    [rec EXCEPT !.state = "dispatched", !.why = "other", !.tier = t,
                !.attempts[t] = @ + 1, !.ledger = FALSE]

\* Mutant of Successor: every retry moves up a tier.
SuccessorHigher(rec) ==
    [rec EXCEPT !.state = "queued", !.why = "other", !.tier = rec.tier + 1,
                !.ledger = FALSE, !.closed = "no",
                !.fixback = @ \/ rec.state = "fixback"]

\* What a minted successor takes over from the record it follows.
Successor(rec) ==
    [rec EXCEPT !.state = "queued", !.why = "other", !.tier = NextTier(rec),
                !.ledger = FALSE, !.closed = "no",
                !.fixback = @ \/ rec.state = "fixback"]

-----------------------------------------------------------------------------
(* Evidence.                                                               *)

\* The courier's pid as the inspector knows it: from the ledger row the
\* record's start receipt names.
PidKnown(r, rec) == rec.ledger
SeenAlive(r, rec) == PidKnown(r, rec) /\ courier[r] = "running"

\* Mutant of SilentLaunch: a node worker that may still run is no objection.
SilentLaunchAnyway(r, rec) ==
    rec.state = "dispatched" /\ ~rec.ledger /\ sent[r] = "none"

\* Dispatched, no start receipt, the node worker gone and its log empty: it
\* writes a line before it sends.
SilentLaunch(r, rec) ==
    rec.state = "dispatched" /\ ~rec.ledger /\ proc[r] = "gone" /\ sent[r] = "none"

ProofDead(r, rec) ==
    \/ PidKnown(r, rec) /\ courier[r] = "gone"
    \/ rec.why = "launch" /\ ~SeenAlive(r, rec)
    \/ SilentLaunch(r, rec)

\* Mutant of ProvenDead: a closed run is a dead run.
ProvenDeadWhenClosed(r, rec) == rec.state \in {"timeout", "escalated"}

\* The dispatcher's own standard for a closed run.
ProvenDead(r, rec) ==
    \/ rec.state = "timeout" /\ (rec.why = "launch" \/ rec.closed = "proof")
    \/ /\ \/ rec.state = "escalated"
          \/ rec.state = "timeout" /\ rec.why = "invalid"
       /\ ProofDead(r, rec)
       /\ proc[r] \in {"none", "gone"}
       /\ rec.ledger => courier[r] # "running"

\* Mutant of WorkerGone: a send that named no pid left no worker.
WorkerGoneUnlessAlive(r) == ~(sent[r] = "pid" /\ courier[r] = "running")

\* The node worker's: every send was refused or names a pid that is gone.
WorkerGone(r) ==
    \/ sent[r] \in {"none", "logged"}
    \/ sent[r] = "pid" /\ courier[r] = "gone"

-----------------------------------------------------------------------------
(* The dispatcher's visit of the node's newest run.                        *)

Ends == visit' = NoVisit
Goes(at) == visit' = [visit EXCEPT !.at = at]

\* Past the mint nobody but the visit writes the queued run: its record is
\* the one on disk, and the loaded copy has served.
Starts(at, r) == visit' = [NoVisit EXCEPT !.at = at, !.of = r]

\* The tick loads the records and expires the leases.
TickBegins ==
    /\ visit.at = "idle"
    /\ visit' = [NoVisit EXCEPT !.at = "tick", !.of = Latest, !.rec = run[Latest],
                                !.older = [run EXCEPT ![Latest] = NoRun]]
    /\ Close({r \in Run : Expired(r)})
    /\ UNCHANGED <<late, run, proc, draft, sent, courier, output, faults>>

\* Nothing to start: a result, verified or escalated run gives up its files,
\* the latter only at its deadline; a close of the inspector's is left to it;
\* and any other launch may be refused (channel, inputs, budget, capacity).
TickPasses ==
    /\ visit.at = "tick"
    /\ Close(IF \/ visit.rec.state \in {"verify_pass", "result", "fixback"}
                \/ visit.rec.state = "escalated" /\ Expired(visit.of)
             THEN {visit.of} ELSE {})
    /\ visit.rec.state # "verify_fail"
    /\ visit.rec.state \in Working \cup {"queued"} => ~Expired(visit.of)
    /\ Ends
    /\ UNCHANGED <<late, run, proc, draft, sent, courier, output, faults>>

\* A silent worker is marked by writing the loaded record back.
TickMarksSilent ==
    /\ visit.at = "tick"
    /\ visit.rec.state \in Working
    /\ run' = [run EXCEPT ![visit.of] = visit.rec]
    /\ UNCHANGED <<late, lease, proc, draft, sent, courier, output, visit, faults>>

\* Past its deadline a run is closed, its lease with it.  transition() loads
\* the record again: a run that can no longer time out stops the tick.
TickTimesOut ==
    /\ visit.at = "tick"
    /\ visit.rec.state \in Working \cup {"queued"}
    /\ Expired(visit.of)
    /\ LET r == visit.of
           rec == Moved(run[r], "timeout", "other")
       IN  IF CanMove(run[r].state, "timeout")
           THEN /\ run' = [run EXCEPT ![r] = rec]
                /\ visit' = [visit EXCEPT !.rec = rec]
                /\ Close({r})
           ELSE Ends /\ UNCHANGED <<run, lease>>
    /\ UNCHANGED <<late, proc, draft, sent, courier, output, faults>>

\* One fix-back, and escalation when that cannot help or was tried before.
TickFollowsUp ==
    /\ visit.at = "tick"
    /\ visit.rec.state = "verify_fail"
    /\ \E s \in {"fixback", "escalated"} :
          /\ visit.rec.fixback => s = "escalated"
          /\ LET rec == Moved(run[visit.of], s, "other")
             IN  /\ run' = [run EXCEPT ![visit.of] = rec]
                 /\ IF s = "fixback" THEN visit' = [visit EXCEPT !.rec = rec] ELSE Ends
    /\ Close({visit.of})
    /\ UNCHANGED <<late, proc, draft, sent, courier, output, faults>>

\* The runs the tick itself starts or follows up.
Startable(rec) ==
    \/ rec.state \in {"queued", "fixback"}
    \/ rec.state = "timeout" /\ rec.closed = "no" /\ rec.why # "launch"

TickExhausted ==
    /\ visit.at = "tick"
    /\ Startable(visit.rec)
    /\ NextTier(visit.rec) = 0
    /\ IF CanMove(run[visit.of].state, "escalated")
       THEN run' = [run EXCEPT ![visit.of] = Moved(@, "escalated", "other")]
       ELSE UNCHANGED run
    /\ Ends
    /\ UNCHANGED <<late, lease, proc, draft, sent, courier, output, faults>>

\* The leases the node's own runs still hold: those of proven dead workers are
\* freed, and with any other one left the launch waits.
TickFreesLeases ==
    /\ visit.at = "tick"
    /\ Startable(visit.rec)
    /\ visit.rec.state = "queued" => ~Expired(visit.of)
    /\ NextTier(visit.rec) # 0
    /\ LET record(r) == IF r = visit.of THEN visit.rec ELSE visit.older[r]
           dead == {r \in Minted : Held(r) /\ ProvenDead(r, record(r))}
                       \cup (IF visit.rec.state = "fixback" THEN {visit.of} ELSE {})
       IN  /\ Close(dead)
           /\ IF \E r \in Minted \ dead : Held(r)
              THEN Ends
              ELSE IF visit.rec.state = "queued" THEN Starts("claim", visit.of) ELSE Goes("mint")
    /\ UNCHANGED <<late, run, proc, draft, sent, courier, output, faults>>

TickMints ==
    /\ visit.at = "mint"
    /\ Fresh \in Run
    /\ run' = [run EXCEPT ![Fresh] = Successor(visit.rec)]
    /\ Starts("claim", Fresh)
    /\ UNCHANGED <<late, lease, proc, draft, sent, courier, output, faults>>

\* start_run(): another node's lease may make the run wait, or have made it
\* wait too long.
TickClaims ==
    /\ visit.at = "claim"
    /\ \/ /\ ~Expired(visit.of)
          /\ lease[visit.of] = "none"
          /\ lease' = IF HasFiles THEN [lease EXCEPT ![visit.of] = "held"] ELSE lease
          /\ Goes("dispatch")
          /\ UNCHANGED run
       \/ HasFiles /\ Ends /\ UNCHANGED <<run, lease>>
       \/ /\ HasFiles
          /\ run' = [run EXCEPT ![visit.of] = Moved(@, "escalated", "other")]
          /\ Ends
          /\ UNCHANGED lease
    /\ UNCHANGED <<late, proc, draft, sent, courier, output, faults>>

TickDispatches ==
    /\ visit.at = "dispatch"
    /\ LET r == visit.of
           t == NextTier(run[r])
       IN  IF CanMove(run[r].state, "dispatched") /\ run[r].attempts[t] < AttemptsPerTier
           THEN /\ run' = [run EXCEPT ![r] = Dispatched(@, t)]
                /\ Goes("launch")
           ELSE Ends /\ UNCHANGED run
    /\ UNCHANGED <<late, lease, proc, draft, sent, courier, output, faults>>

\* launch_node(): the node worker starts, or the run is closed as a launch
\* failure.
TickLaunches ==
    /\ visit.at = "launch"
    /\ \/ proc' = [proc EXCEPT ![visit.of] = "boot"] /\ UNCHANGED run
       \/ /\ CanMove(run[visit.of].state, "timeout")
          /\ run' = [run EXCEPT ![visit.of] = Moved(@, "timeout", "launch")]
          /\ UNCHANGED proc
    /\ Ends
    /\ UNCHANGED <<late, lease, draft, sent, courier, output, faults>>

-----------------------------------------------------------------------------
(* The inspector's visit, and the watchdog's stale check.                  *)

InspectBegins ==
    /\ visit.at = "idle"
    /\ visit' = [NoVisit EXCEPT !.at = "inspect", !.of = Latest, !.rec = run[Latest],
                                !.expired = Expired(Latest)]
    /\ UNCHANGED <<late, run, lease, proc, draft, sent, courier, output, faults>>

\* No life seen is a verdict but no proof.
Dead(r, rec) ==
    \/ SilentLaunch(r, rec)
    \/ /\ output[r] = "none"
       /\ ~SeenAlive(r, rec)
       /\ rec.ledger \/ rec.state = "dispatched"

InspectCloses ==
    /\ visit.at = "inspect"
    /\ visit.rec.state \in Working
    /\ Dead(visit.of, visit.rec)
    /\ LET r == visit.of
           rec == Moved(run[r], "timeout", "dead")
       IN  IF CanMove(run[r].state, "timeout")
           THEN /\ run' = [run EXCEPT ![r] = rec]
                /\ visit' = [visit EXCEPT !.at = "mark", !.rec = rec,
                                          !.proof = ProofDead(r, visit.rec)]
           ELSE Ends /\ UNCHANGED run
    /\ UNCHANGED <<late, lease, proc, draft, sent, courier, output, faults>>

\* A closed run the inspector takes up: a launch failure, one it closed
\* before, an old timeout, or an escalation by a crashed node worker whose
\* courier is known and gone.
InspectTakesUp ==
    /\ visit.at = "inspect"
    /\ LET r == visit.of
           rec == visit.rec
       IN  /\ \/ rec.state = "timeout"
              \/ /\ rec.state = "escalated" /\ rec.why = "crash"
                 /\ output[r] = "none" /\ ~SeenAlive(r, rec)
                 /\ rec.closed # "no" \/ PidKnown(r, rec)
           /\ visit' = [visit EXCEPT
                  !.at = IF rec.state = "timeout" /\ rec.closed = "no" /\ rec.why = "launch"
                         THEN "mark" ELSE "requeue",
                  !.proof = ProofDead(r, rec) \/ rec.closed = "proof"]
    /\ UNCHANGED <<late, run, lease, proc, draft, sent, courier, output, faults>>

\* The second write of a close: the record as the first one returned it.
InspectMarks ==
    /\ visit.at = "mark"
    /\ LET rec == [visit.rec EXCEPT !.closed = IF visit.proof THEN "proof" ELSE "noproof"]
       IN  /\ run' = [run EXCEPT ![visit.of] = rec]
           /\ visit' = [visit EXCEPT !.at = "requeue", !.rec = rec]
    /\ UNCHANGED <<late, lease, proc, draft, sent, courier, output, faults>>

\* A chain grows at its end only: a run has a successor when a later one is
\* minted.
Followed(r) == \E s \in Minted : s > r

\* An expired lease is freed, an unexpired one only on proof.
MayFree(r) == ~Held(r) \/ visit.expired \/ visit.proof

InspectMints ==
    /\ visit.at = "requeue"
    /\ ~Followed(visit.of)
    /\ NextTier(visit.rec) # 0
    /\ MayFree(visit.of)
    /\ Fresh \in Run
    /\ Close({visit.of})
    /\ run' = [run EXCEPT ![Fresh] = Successor(visit.rec)]
    /\ Ends
    /\ UNCHANGED <<late, proc, draft, sent, courier, output, faults>>

\* Requeues or tiers spent, or no other channel: a run the inspector closed is
\* escalated once its lease may be freed.
InspectGivesUp ==
    /\ visit.at = "requeue"
    /\ ~Followed(visit.of)
    /\ visit.rec.closed # "no"
    /\ visit.rec.state = "timeout"
    /\ MayFree(visit.of)
    /\ Close({visit.of})
    /\ run' = IF CanMove(run[visit.of].state, "escalated")
              THEN [run EXCEPT ![visit.of] = Moved(@, "escalated", "other")]
              ELSE run
    /\ Ends
    /\ UNCHANGED <<late, proc, draft, sent, courier, output, faults>>

\* On time, behind, waiting for a channel, an input or a lease: no change.
InspectPasses ==
    /\ visit.at \in {"inspect", "requeue"}
    /\ Ends
    /\ UNCHANGED <<late, run, lease, proc, draft, sent, courier, output, faults>>

Fault == faults < MaxFaults /\ faults' = faults + 1

\* The dispatcher or the watchdog is killed; the lock goes with the process.
\* Where the inspector may still decide to do nothing that is what a kill does.
VisitKilled ==
    /\ visit.at \notin {"idle", "inspect", "requeue"}
    /\ Fault
    /\ Ends
    /\ UNCHANGED <<late, run, lease, proc, draft, sent, courier, output>>

\* check_workers() holds no lock: no start receipt, or no heartbeat for long,
\* and no other run of the node that is waiting or finished.  The process runs
\* the inspector before it.
WatchdogCloses(r) ==
    /\ Fault
    /\ visit.at \notin {"inspect", "mark", "requeue"}
    /\ run[r].state \in Working
    /\ \A s \in Minted \ {r} :
          run[s].state \notin {"queued", "result", "verify_pass", "verify_fail"}
    /\ run' = [run EXCEPT ![r] = Moved(@, "timeout", "other")]
    /\ UNCHANGED <<late, lease, proc, draft, sent, courier, output, visit>>

-----------------------------------------------------------------------------
(* The node worker of run r.                                               *)

\* transition() to the state of rec.  Its refusal is handled by escalating the
\* run; a refusal of that ends the process.
WorkerMoves(r, rec, next) ==
    LET from == run[r].state
        possible == IF CanMove(from, rec.state) THEN rec
                    ELSE Moved(run[r], "escalated", "crash")
    IN  IF CanMove(from, possible.state)
        THEN /\ run' = [run EXCEPT ![r] = possible]
             /\ proc' = [proc EXCEPT ![r] = IF possible = rec THEN next ELSE "end"]
        ELSE proc' = [proc EXCEPT ![r] = "gone"] /\ UNCHANGED run

WorkerBoots(r) ==
    /\ proc[r] = "boot"
    /\ LET startable == run[r].state \in {"queued", "dispatched", "fixback", "timeout"}
           renders == startable /\ ~Expired(r)
       IN  /\ proc' = [proc EXCEPT ![r] = CASE renders -> "render"
                                             [] startable /\ ~renders -> "prep"
                                             [] OTHER -> "gone"]
           /\ draft' = IF renders THEN [draft EXCEPT ![r] = run[r]] ELSE draft
    /\ UNCHANGED <<late, run, lease, sent, courier, output, visit, faults>>

\* The rendered brief is committed on the record as it was loaded.
WorkerRenders(r) ==
    /\ proc[r] = "render"
    /\ run' = [run EXCEPT ![r] = draft[r]]
    /\ draft' = [draft EXCEPT ![r] = NoRun]
    /\ proc' = [proc EXCEPT ![r] = "prep"]
    /\ UNCHANGED <<late, lease, sent, courier, output, visit, faults>>

\* A run that was timed out before its worker got here is dispatched again,
\* on the same record and deadline, while its tier has an attempt left.
WorkerDispatches(r) ==
    /\ proc[r] = "prep"
    /\ LET rec == run[r]
           again == rec.state # "dispatched"
       IN  CASE Expired(r) ->
                  WorkerMoves(r, Moved(rec, IF rec.state = "timeout" THEN "escalated"
                                            ELSE "timeout", "other"), "end")
             [] ~Expired(r) /\ ~again ->
                  proc' = [proc EXCEPT ![r] = "send"] /\ UNCHANGED run
             [] ~Expired(r) /\ again /\ rec.attempts[rec.tier] >= AttemptsPerTier ->
                  WorkerMoves(r, Moved(rec, "escalated", "other"), "end")
             [] OTHER ->
                  WorkerMoves(r, Dispatched(rec, rec.tier), "send")
    /\ UNCHANGED <<late, lease, draft, sent, courier, output, visit, faults>>

\* The log line that is written before every send.
WorkerLogs(r) ==
    /\ proc[r] = "send"
    /\ sent' = [sent EXCEPT ![r] = "logged"]
    /\ proc' = [proc EXCEPT ![r] = "sending"]
    /\ UNCHANGED <<late, run, lease, draft, courier, output, visit, faults>>

\* Refused before anything is launched: for good, or for now when the run has
\* not been closed meanwhile.
WorkerRefused(r) ==
    /\ proc[r] \in {"prep", "sending"}
    /\ \/ \E why \in {"other", "crash"} :
             WorkerMoves(r, Moved(run[r], "escalated", why), "end")
       \/ /\ run[r].state \in {"queued", "dispatched"}
          /\ WorkerMoves(r, Moved(run[r], "timeout", "other"), "end")
    /\ UNCHANGED <<late, lease, draft, sent, courier, output, visit, faults>>

\* The courier starts.  The receipt names its pid, or only its ledger row
\* does, or there is no confirmed receipt.
WorkerSends(r) ==
    /\ proc[r] = "sending"
    /\ \E kind \in {"pid", "nopid"} :
          /\ sent' = [sent EXCEPT ![r] = kind]
          /\ \E next \in {"receipt"} \cup (IF kind = "pid" THEN {} ELSE {"unsure"}) :
                proc' = [proc EXCEPT ![r] = next]
    /\ courier' = [courier EXCEPT ![r] = "running"]
    /\ UNCHANGED <<late, run, lease, draft, output, visit, faults>>

WorkerUnsure(r) ==
    /\ proc[r] = "unsure"
    /\ \/ WorkerMoves(r, Moved(run[r], "timeout", "other"), "end")
       \/ WorkerMoves(r, Moved(run[r], "escalated", "crash"), "end")
    /\ UNCHANGED <<late, lease, draft, sent, courier, output, visit, faults>>

WorkerStarted(r) ==
    /\ proc[r] = "receipt"
    /\ WorkerMoves(r, [Moved(run[r], "started", "other") EXCEPT !.ledger = TRUE], "watch")
    /\ UNCHANGED <<late, lease, draft, sent, courier, output, visit, faults>>

WorkerTakesResult(r) ==
    /\ proc[r] = "watch"
    /\ ~Expired(r)
    /\ output[r] \in {"written", "failed"}
    /\ WorkerMoves(r, Moved(run[r], "result", "other"), "gone")
    /\ UNCHANGED <<late, lease, draft, sent, courier, output, visit, faults>>

\* The result of a courier known to be gone may be judged a launch failure.
WorkerRejectsResult(r) ==
    /\ proc[r] = "watch"
    /\ ~Expired(r)
    /\ output[r] = "written"
    /\ output' = [output EXCEPT ![r] = "none"]
    /\ \E why \in {"invalid"} \cup
            (IF sent[r] = "pid" /\ courier[r] = "gone" THEN {"launch"} ELSE {}) :
          WorkerMoves(r, Moved(run[r], "timeout", why), "end")
    /\ UNCHANGED <<late, lease, draft, sent, courier, visit, faults>>

\* The courier exited with no result: a launch failure, or a failed result is
\* written for it.
WorkerSeesExit(r) ==
    /\ proc[r] = "watch"
    /\ ~Expired(r)
    /\ sent[r] = "pid" /\ courier[r] = "gone" /\ output[r] = "none"
    /\ \/ WorkerMoves(r, Moved(run[r], "timeout", "launch"), "end") /\ UNCHANGED output
       \/ output' = [output EXCEPT ![r] = "failed"] /\ UNCHANGED <<run, proc>>
    /\ UNCHANGED <<late, lease, draft, sent, courier, visit, faults>>

WorkerDeadline(r) ==
    /\ proc[r] = "watch"
    /\ Expired(r)
    /\ WorkerMoves(r, Moved(run[r], "timeout", "other"), "end")
    /\ UNCHANGED <<late, lease, draft, sent, courier, output, visit, faults>>

\* end_attempt(): the files of a closed attempt are freed when no worker of it
\* can still run.
WorkerEnds(r) ==
    /\ proc[r] = "end"
    /\ proc' = [proc EXCEPT ![r] = "gone"]
    /\ Close(IF WorkerGone(r) THEN {r} ELSE {})
    /\ UNCHANGED <<late, run, draft, sent, courier, output, visit, faults>>

WorkerKilled(r) ==
    /\ Fault
    /\ proc[r] \notin {"none", "gone"}
    /\ proc' = [proc EXCEPT ![r] = "gone"]
    /\ draft' = [draft EXCEPT ![r] = NoRun]
    /\ UNCHANGED <<late, run, lease, sent, courier, output, visit>>

-----------------------------------------------------------------------------
(* The courier, the verifier and the clock.                                *)

\* Its result file is the last thing an agent writes.
CourierWrites(r) ==
    /\ courier[r] = "running"
    /\ output[r] = "none"
    /\ output' = [output EXCEPT ![r] = "written"]
    /\ UNCHANGED <<late, run, lease, proc, draft, sent, courier, visit, faults>>

CourierExits(r) ==
    /\ courier[r] = "running"
    /\ courier' = [courier EXCEPT ![r] = "gone"]
    /\ UNCHANGED <<late, run, lease, proc, draft, sent, output, visit, faults>>

Verifies(r) ==
    /\ run[r].state = "result"
    /\ \E s \in {"verify_pass", "verify_fail"} :
          run' = [run EXCEPT ![r] = Moved(@, s, "other")]
    /\ UNCHANGED <<late, lease, proc, draft, sent, courier, output, visit, faults>>

\* A deadline passes, that of a run before that of its successor.
DeadlinePasses ==
    /\ late < MaxLate
    /\ late + 1 \in Minted
    /\ late' = late + 1
    /\ UNCHANGED <<run, lease, proc, draft, sent, courier, output, visit, faults>>

-----------------------------------------------------------------------------

LoopTick ==
    \/ TickBegins \/ TickPasses \/ TickMarksSilent \/ TickTimesOut
    \/ TickFollowsUp \/ TickExhausted \/ TickFreesLeases \/ TickMints
    \/ TickClaims \/ TickDispatches \/ TickLaunches

Inspect ==
    \/ InspectBegins \/ InspectCloses \/ InspectTakesUp \/ InspectMarks
    \/ InspectMints \/ InspectGivesUp \/ InspectPasses

Worker(r) ==
    \/ WorkerBoots(r) \/ WorkerRenders(r) \/ WorkerDispatches(r) \/ WorkerLogs(r)
    \/ WorkerRefused(r)
    \/ WorkerSends(r) \/ WorkerUnsure(r) \/ WorkerStarted(r)
    \/ WorkerTakesResult(r) \/ WorkerRejectsResult(r) \/ WorkerSeesExit(r)
    \/ WorkerDeadline(r) \/ WorkerEnds(r) \/ WorkerKilled(r)

Next ==
    \/ LoopTick
    \/ Inspect
    \/ VisitKilled
    \/ \E r \in Run :
          \/ WatchdogCloses(r) \/ Worker(r)
          \/ CourierWrites(r) \/ CourierExits(r) \/ Verifies(r)
    \/ DeadlinePasses

Spec == Init /\ [][Next]_vars

-----------------------------------------------------------------------------
(* Properties.                                                             *)

Records ==
    [state: {"none", "queued", "dispatched", "started", "result", "verify_pass",
             "verify_fail", "fixback", "escalated", "timeout"},
     tier: Tier, attempts: [Tier -> Nat],
     why: {"other", "launch", "invalid", "crash", "dead"}, ledger: BOOLEAN,
     closed: {"no", "proof", "noproof"}, fixback: BOOLEAN]

TypeOK ==
    /\ late \in 0 .. MaxRuns
    /\ run \in [Run -> Records]
    /\ lease \in [Run -> {"none", "held", "closed"}]
    /\ proc \in [Run -> {"none", "boot", "render", "prep", "send", "sending", "unsure",
                         "receipt", "watch", "end", "gone"}]
    /\ draft \in [Run -> Records]
    /\ sent \in [Run -> {"none", "logged", "pid", "nopid"}]
    /\ courier \in [Run -> {"none", "running", "gone"}]
    /\ output \in [Run -> {"none", "written", "failed"}]
    /\ visit \in [at: {"idle", "tick", "mint", "claim", "dispatch", "launch",
                       "inspect", "mark", "requeue"},
                  of: Run, rec: Records, older: [Run -> Records],
                  proof: BOOLEAN, expired: BOOLEAN]
    /\ faults \in 0 .. MaxFaults

\* A courier that may still edit the node's files, inside its run's deadline.
Busy(r) == courier[r] = "running" /\ output[r] = "none" /\ ~Expired(r)

\* While a courier may edit the files, its run holds their lease: no close, no
\* proof of death and no end of an attempt frees the files of a worker that
\* is still there.
LeaseGuardsCourier == HasFiles => \A r \in Run : Busy(r) => Held(r)

\* dispatch.py:665: "That also keeps one live worker per node."
OneLiveWorker == \A r, s \in Run : Busy(r) /\ Busy(s) => r = s

\* A courier is never started for a run that has a successor, unless its worker
\* passed the deadline between its last look at the clock and the send.
NoStartBehindSuccessor ==
    [][\A r \in Run : courier[r] = "none" /\ courier'[r] # "none"
                        => Expired(r) \/ ~Followed(r)]_vars

=============================================================================
