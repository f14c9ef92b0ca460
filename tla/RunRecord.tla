------------------------------ MODULE RunRecord ------------------------------
(***************************************************************************)
(* One node's run record, src/companion/feature_team/runs.py, the successor *)
(* that takes its place on a retry, and the processes that write the file. *)
(*                                                                         *)
(* A file is always replaced whole, so a reader sees some committed record.*)
(* But transition() loads the file, checks its table of moves against what *)
(* it loaded and writes the result back with no lock held in between, and  *)
(* several callers write back a record they loaded earlier with no check   *)
(* at all.  The load and the write are separate steps here.                *)
(*                                                                         *)
(* The dispatcher tick and the inspector exclude each other by holding     *)
(* dispatcher.lock; the node worker, the watchdog's stale check and the    *)
(* verifier take no lock that the others take.                             *)
(*                                                                         *)
(* The data of a record is reduced to its state, the attempts counted on   *)
(* its tier, the loop's mark that it reported the run as silent and the    *)
(* inspector's mark that it closed the run.  A successor is minted here    *)
(* only when the node worker of its predecessor has ended: what two workers *)
(* do to each other is AgentLoop's subject.                                *)
(***************************************************************************)
EXTENDS Naturals

CONSTANTS
    AttemptsPerTier     \* ATTEMPTS_PER_TIER

ASSUME AttemptsAssumption == AttemptsPerTier \in Nat \ {0}

VARIABLES
    file,       \* the record on disk
    copy,       \* what a call in progress loaded, NoCopy when there is none
    goal,       \* the state that call asks for, "same" for a plain rewrite
    snap,       \* the tick's records snapshot, NoCopy between two ticks
    stage,      \* where the node worker process is
    checking,   \* a verify run has read the record and runs its commands
    late,       \* the run's deadline has passed
    spent       \* history: the dispatches committed for the node on its tier

recordVars == <<file, copy, goal, snap, stage, checking, late, spent>>

State == {"queued", "dispatched", "started", "heartbeat", "result", "verify_pass",
          "verify_fail", "fixback", "escalated", "timeout", "landed"}

Transitions ==
    [queued      |-> {"dispatched", "timeout", "escalated"},
     dispatched  |-> {"started", "heartbeat", "result", "timeout", "escalated"},
     started     |-> {"heartbeat", "result", "timeout", "escalated"},
     heartbeat   |-> {"heartbeat", "result", "timeout", "escalated"},
     result      |-> {"verify_pass", "verify_fail", "timeout"},
     verify_fail |-> {"fixback", "escalated", "result"},
     fixback     |-> {"dispatched", "escalated"},
     timeout     |-> {"dispatched", "escalated"},
     verify_pass |-> {"landed"},
     landed      |-> {},
     escalated   |-> {}]

Final == {"landed", "escalated"}
Verified == {"verify_pass", "landed"}
LateHeartbeatStates ==
    {"result", "verify_pass", "verify_fail", "fixback", "timeout"} \cup Final

\* The states in which a worker is meant to be running.
Working == {"dispatched", "started", "heartbeat"}

Record == [state: State, attempts: Nat, silent: BOOLEAN, closed: BOOLEAN]
NoCopy == [state |-> "none", attempts |-> 0, silent |-> FALSE, closed |-> FALSE]

Writer == {"tick", "inspector", "watchdog", "worker", "verify"}

Idle(w) == copy[w] = NoCopy

\* No node worker runs for the record: it ended its attempt, or died of a kill
\* or an error and left its file claims behind.
Over == {"gone", "dead"}

RecordInit ==
    /\ file = [NoCopy EXCEPT !.state = "queued"]
    /\ copy = [w \in Writer |-> NoCopy]
    /\ goal = [w \in Writer |-> "same"]
    /\ snap = NoCopy
    /\ stage = "none"
    /\ checking = FALSE
    /\ late = FALSE
    /\ spent = 0

-----------------------------------------------------------------------------
(* transition(): load, then check and commit.                              *)

Load(w, s) ==
    /\ Idle(w)
    /\ copy' = [copy EXCEPT ![w] = file]
    /\ goal' = [goal EXCEPT ![w] = s]

\* The move the table allows from the loaded copy; a dispatch also needs an
\* attempt left on the tier.
Allowed(w) ==
    /\ goal[w] \in Transitions[copy[w].state]
    /\ goal[w] = "dispatched" => copy[w].attempts < AttemptsPerTier

\* A heartbeat after the run's close is written as an ignored late event: the
\* record keeps its state, and it is the loaded copy that is written back.
LateHeartbeat(w) ==
    goal[w] = "heartbeat" /\ copy[w].state \in LateHeartbeatStates

Moved(w) ==
    [state |-> goal[w],
     attempts |-> IF goal[w] = "dispatched" THEN copy[w].attempts + 1
                                            ELSE copy[w].attempts,
     silent |-> FALSE,
     closed |-> copy[w].closed]

Commit(w) ==
    /\ ~Idle(w)
    /\ copy' = [copy EXCEPT ![w] = NoCopy]
    /\ goal' = [goal EXCEPT ![w] = "same"]
    /\ \/ goal[w] # "same" /\ Allowed(w) /\ file' = Moved(w)
       \/ (goal[w] = "same" \/ LateHeartbeat(w)) /\ file' = copy[w]

\* The move is written, and the record it made is kept to be written once
\* more with a note on it: the second write looks at nothing.
CommitsTwice(w, noted) ==
    /\ Allowed(w)
    /\ file' = Moved(w)
    /\ copy' = [copy EXCEPT ![w] = noted]
    /\ goal' = [goal EXCEPT ![w] = "same"]

Spends(w) == spent' = IF goal[w] = "dispatched" THEN spent + 1 ELSE spent

\* Mutant of Inherited: the fresh record starts with a fresh budget.
InheritedNone(old) == 0

Inherited(old) == old.attempts

\* A fresh record with the attempts of the one it follows, as that one was
\* loaded.  Whoever is in a call on the old record goes on with that one.
Succeeds(old) ==
    /\ file' = [NoCopy EXCEPT !.state = "queued", !.attempts = Inherited(old)]
    /\ copy' = [w \in Writer |-> NoCopy]
    /\ goal' = [w \in Writer |-> "same"]
    /\ snap' = NoCopy
    /\ stage' = "none"
    /\ checking' = FALSE
    /\ late' = FALSE
    /\ UNCHANGED spent

\* transition() raised ValueError: nothing is written.
Refused(w) ==
    /\ ~Idle(w)
    /\ goal[w] # "same"
    /\ ~Allowed(w)
    /\ ~LateHeartbeat(w)
    /\ copy' = [copy EXCEPT ![w] = NoCopy]
    /\ goal' = [goal EXCEPT ![w] = "same"]
    /\ UNCHANGED file

-----------------------------------------------------------------------------
(* The dispatcher's loop tick.                                             *)

\* dispatcher.lock: no inspector visit is in progress.
TickReads ==
    /\ snap = NoCopy
    /\ Idle("inspector")
    /\ snap' = file
    /\ UNCHANGED <<file, copy, goal, stage, checking, late, spent>>

\* A worker without activity for SILENT_SECONDS is reported once, and the
\* mark is stored by writing the snapshot back as it is.
TickMarksSilent ==
    /\ snap.state \in Working
    /\ ~snap.silent
    /\ Idle("tick")
    /\ snap' = [snap EXCEPT !.silent = TRUE]
    /\ file' = [snap EXCEPT !.silent = TRUE]
    /\ UNCHANGED <<copy, goal, stage, checking, late, spent>>

\* Mutant of TickGoals: the deadline closes queued runs only.
TickGoalsQueuedDeadline ==
    CASE snap.state = "queued" -> IF late THEN {"timeout"} ELSE {"dispatched", "escalated"}
      [] snap.state = "verify_fail" -> {"fixback", "escalated"}
      [] /\ snap.state \in {"fixback", "timeout"}
         /\ ~snap.closed
         /\ snap.attempts >= AttemptsPerTier -> {"escalated"}
      [] OTHER -> {}

\* What the visit of the snapshot asks for.
TickGoals ==
    CASE snap.state \in Working \cup {"queued"} /\ late -> {"timeout"}
      [] snap.state = "queued" /\ ~late -> {"dispatched", "escalated"}
      [] snap.state = "verify_fail" -> {"fixback", "escalated"}
      [] /\ snap.state \in {"fixback", "timeout"}
         /\ ~snap.closed
         /\ snap.attempts >= AttemptsPerTier -> {"escalated"}
      [] OTHER -> {}

TickLoads ==
    /\ snap # NoCopy
    /\ \E s \in TickGoals : Load("tick", s)
    /\ UNCHANGED <<file, snap, stage, checking, late, spent>>

\* After a committed dispatch the tick launches the node worker; a fix-back is
\* written again with the note that goes to its channel.
TickCommits ==
    /\ IF goal["tick"] = "fixback" /\ Allowed("tick")
       THEN CommitsTwice("tick", Moved("tick")) /\ UNCHANGED <<snap, stage>>
       ELSE /\ Commit("tick")
            /\ stage' = IF goal["tick"] = "dispatched" THEN "boot" ELSE stage
            /\ snap' = NoCopy
    /\ Spends("tick")
    /\ UNCHANGED <<checking, late>>

\* A timed-out or sent-back run with an attempt left is followed once its
\* files are free: no worker was launched, its worker ended and freed them,
\* or their claim expired.
TickRetries ==
    /\ snap.state \in {"timeout", "fixback"}
    /\ ~snap.closed
    /\ snap.attempts < AttemptsPerTier
    /\ Idle("tick")
    /\ stage \in {"none", "gone"} \/ (stage = "dead" /\ late)
    /\ Succeeds(snap)

TickEnds ==
    /\ snap # NoCopy
    /\ \/ Idle("tick") /\ TickGoals = {} /\ UNCHANGED <<file, copy, goal>>
       \/ Refused("tick")
    /\ snap' = NoCopy
    /\ UNCHANGED <<stage, checking, late, spent>>

-----------------------------------------------------------------------------
(* The watchdog: its stale check, and the inspector it runs.               *)

\* One watchdog process: it runs the inspector first, then its own check.
\* A run with no start receipt, or silent, in the record as just re-read.
WatchdogLoads ==
    /\ Idle("inspector")
    /\ file.state \in Working
    /\ Load("watchdog", "timeout")
    /\ UNCHANGED <<file, snap, stage, checking, late, spent>>

WatchdogFinishes ==
    /\ Commit("watchdog") \/ Refused("watchdog")
    /\ UNCHANGED <<snap, stage, checking, late, spent>>

\* It closes a run it finds dead, and escalates one it closed and cannot
\* requeue once the worker is proven gone or the file claim has expired.
InspectorLoads ==
    /\ snap = NoCopy
    /\ Idle("watchdog")
    /\ \/ file.state \in Working /\ Load("inspector", "timeout")
       \/ /\ file.state = "timeout" /\ file.closed
          /\ late \/ stage \in Over
          /\ Load("inspector", "escalated")
    /\ UNCHANGED <<file, snap, stage, checking, late, spent>>

\* Closing a dead run is two writes: the timeout, then the record transition()
\* returned, with the inspector's mark on it.
InspectorCommits ==
    /\ IF goal["inspector"] = "timeout" /\ Allowed("inspector")
       THEN CommitsTwice("inspector", [Moved("inspector") EXCEPT !.closed = TRUE])
       ELSE Commit("inspector") \/ Refused("inspector")
    /\ UNCHANGED <<snap, stage, checking, late, spent>>

\* A run it closed is requeued on another channel when its worker is gone.
InspectorRequeues ==
    /\ snap = NoCopy
    /\ Idle("inspector") /\ Idle("watchdog")
    /\ file.state = "timeout" /\ file.closed
    /\ file.attempts < AttemptsPerTier
    /\ stage \in Over
    /\ Succeeds(file)

-----------------------------------------------------------------------------
(* The node worker of the latest launch.                                   *)

\* run_node() refuses a record that cannot start a worker; else the rendered
\* brief is committed on the record loaded here.
WorkerBoots ==
    /\ stage = "boot"
    /\ IF file.state \in {"queued", "dispatched", "fixback", "timeout"}
       THEN Load("worker", "same") /\ stage' = "render"
       ELSE stage' = "dead" /\ UNCHANGED <<copy, goal>>
    /\ UNCHANGED <<file, snap, checking, late, spent>>

WorkerRenders ==
    /\ stage = "render"
    /\ Commit("worker")
    /\ stage' = "attempt"
    /\ UNCHANGED <<snap, checking, late, spent>>

\* The head of the attempt: a record past its deadline is closed, one that is
\* no longer dispatched is dispatched again if its tier has an attempt left.
WorkerAttempts ==
    /\ stage = "attempt"
    /\ CASE late -> /\ Load("worker", IF file.state = "timeout" THEN "escalated" ELSE "timeout")
                    /\ stage' = "ending"
         [] ~late /\ file.state = "dispatched" ->
                    stage' = "send" /\ UNCHANGED <<copy, goal>>
         [] ~late /\ file.state # "dispatched" /\ file.attempts >= AttemptsPerTier ->
                    Load("worker", "escalated") /\ stage' = "ending"
         [] OTHER -> Load("worker", "dispatched") /\ stage' = "redispatch"
    /\ UNCHANGED <<file, snap, checking, late, spent>>

\* The send wrapper stores the brief's acceptance list on the record, then
\* starts the courier.
WorkerSends ==
    /\ stage = "send"
    /\ Load("worker", "same")
    /\ stage' = "sending"
    /\ UNCHANGED <<file, snap, checking, late, spent>>

\* What the worker asks for next while it waits for the receipt, then for the
\* result; it stops beating when the deadline has passed.
WorkerGoals ==
    CASE stage = "receipt" -> {"started", "timeout", "escalated"}
                              \cup (IF late THEN {} ELSE {"heartbeat"})
      [] stage = "watch" -> {"timeout"}
                            \cup (IF late THEN {} ELSE {"heartbeat", "result", "escalated"})
      [] OTHER -> {}

\* Where the worker goes when the move it asked for is committed: the loop's
\* adapter ends the attempt at any timeout, so nothing is sent twice here.
After(s) ==
    CASE s = "started" -> "watch"
      [] s \in {"result", "timeout", "escalated"} -> "gone"
      [] OTHER -> stage

WorkerAsks ==
    /\ \E s \in WorkerGoals : Load("worker", s)
    /\ UNCHANGED <<file, snap, stage, checking, late, spent>>

WorkerCommits ==
    /\ stage \notin {"boot", "render"}
    /\ Commit("worker")
    /\ stage' = CASE stage \in {"redispatch"} -> "send"
                  [] stage = "sending" -> "receipt"
                  [] stage \in {"ending", "failing"} -> "gone"
                  [] OTHER -> After(goal["worker"])
    /\ Spends("worker")
    /\ UNCHANGED <<snap, checking, late>>

\* The handler of a refused move escalates the run; a second refusal ends the
\* process.
WorkerRefused ==
    /\ Refused("worker")
    /\ stage' = IF stage = "failing" THEN "dead" ELSE "broken"
    /\ UNCHANGED <<snap, checking, late, spent>>

WorkerGivesUp ==
    /\ stage = "broken"
    /\ Load("worker", "escalated")
    /\ stage' = "failing"
    /\ UNCHANGED <<file, snap, checking, late, spent>>

\* A kill between any two steps, a call of transition() included.
WorkerKilled ==
    /\ stage \notin {"none"} \cup Over
    /\ stage' = "dead"
    /\ copy' = [copy EXCEPT !["worker"] = NoCopy]
    /\ goal' = [goal EXCEPT !["worker"] = "same"]
    /\ UNCHANGED <<file, snap, checking, late, spent>>

-----------------------------------------------------------------------------
(* verify_run(): the record is read, the commands run, then it is moved.   *)

VerifyReads ==
    /\ file.state = "result"
    /\ ~checking
    /\ checking' = TRUE
    /\ UNCHANGED <<file, copy, goal, snap, stage, late, spent>>

VerifyLoads ==
    /\ checking
    /\ \E s \in {"verify_pass", "verify_fail"} : Load("verify", s)
    /\ UNCHANGED <<file, snap, stage, checking, late, spent>>

VerifyFinishes ==
    /\ Commit("verify") \/ Refused("verify")
    /\ checking' = FALSE
    /\ UNCHANGED <<snap, stage, late, spent>>

DeadlinePasses ==
    /\ ~late
    /\ late' = TRUE
    /\ UNCHANGED <<file, copy, goal, snap, stage, checking, spent>>

-----------------------------------------------------------------------------

Tick == TickReads \/ TickLoads \/ TickCommits \/ TickRetries \/ TickEnds

Worker ==
    \/ WorkerBoots \/ WorkerRenders \/ WorkerAttempts \/ WorkerSends
    \/ WorkerAsks \/ WorkerCommits \/ WorkerRefused \/ WorkerGivesUp

RecordNext ==
    \/ Tick
    \/ TickMarksSilent
    \/ WatchdogLoads \/ WatchdogFinishes
    \/ InspectorLoads \/ InspectorCommits \/ InspectorRequeues
    \/ Worker
    \/ WorkerKilled
    \/ VerifyReads \/ VerifyLoads \/ VerifyFinishes
    \/ DeadlinePasses

RecordSpec == RecordInit /\ [][RecordNext]_recordVars

\* The dispatcher ticks for ever and harvests the results it finds, a process
\* runs on until it ends or is killed, and the deadline comes.
FairRecordSpec ==
    /\ RecordSpec
    /\ WF_recordVars(Tick) /\ WF_recordVars(DeadlinePasses) /\ WF_recordVars(Worker)
    /\ WF_recordVars(WatchdogFinishes) /\ WF_recordVars(InspectorCommits)
    /\ WF_recordVars(VerifyReads) /\ WF_recordVars(VerifyLoads) /\ WF_recordVars(VerifyFinishes)

-----------------------------------------------------------------------------
(* Properties.                                                             *)

Stage == {"none", "boot", "render", "attempt", "redispatch", "send", "sending",
          "receipt", "watch", "ending", "broken", "failing", "gone", "dead"}

RecordTypeOK ==
    /\ file \in Record
    /\ copy \in [Writer -> Record \cup {NoCopy}]
    /\ goal \in [Writer -> State \cup {"same"}]
    /\ snap \in Record \cup {NoCopy}
    /\ stage \in Stage
    /\ checking \in BOOLEAN
    /\ late \in BOOLEAN
    /\ spent \in Nat
    /\ \A w \in Writer : Idle(w) => goal[w] = "same"

\* The count kept in the records stays within ATTEMPTS_PER_TIER, but not the
\* dispatches that were committed: a stale write or a stale predecessor takes a
\* count back.  It may do so only once for each record, whatever is written over
\* whatever, so less than twice the budget of a tier is ever spent.
DispatchesDoubledAtMost == spent < 2 * AttemptsPerTier

\* Every live run is settled: whatever is written back over whatever, the
\* tick's deadline rule and the verifier bring each run to a state in which
\* nothing is running for it and the next owner can decide.
LiveStates == Working \cup {"queued", "result"}
EveryRunSettles == (file.state \in LiveStates) ~> (file.state \notin LiveStates)

=============================================================================
