------------------------------ MODULE Landing ------------------------------
(***************************************************************************)
(* The landing queue of scripts/landing_runner.py under the health checks  *)
(* of scripts/master_keeper.py.  The runner trains queue lines, alone or in*)
(* batches it splits when they are red; the keeper runs the full suite on  *)
(* new master commits, tells branch failures from a red master, holds the  *)
(* queue while master is red, and races a fix against a revert.  They share*)
(* the files of data/team/landing and a few short locks.                   *)
(*                                                                         *)
(* A line is its name; kind says how its change behaves.  A line that fails*)
(* a test of its own fails always; on a red base the others may fail too.  *)
(* Red stands for one failing test, which a log from a red base shows.     *)
(* Queue order is Rank: priorities and file order never change while a line*)
(* waits.  Left out: forge lines, the QC requeue, and lines no free machine*)
(* can take, which keep their place and their budget.                      *)
(***************************************************************************)
EXTENDS Integers, FiniteSets, Sequences, FiniteSetsExt

CONSTANTS
    Line,
    Work,           \* how the lines' changes may behave, a set of functions to Kinds
    Rank,           \* run order; repairs have PRIORITY=0
    RetryCap,       \* busy-Mac refusals before a line is dropped
    MaxCommit,      \* bounds, for each of Work: commits of master,
    MaxPush,        \* and pushes of the owner, outside the queue
    Calm            \* bound: the Work in which no Mac is busy and the owner never holds

Kinds == {"good",       \* passes, and leaves master green
          "poison",     \* passes its own train, breaks a test it did not select
          "bad",        \* fails a test that passes on master
          "branchonly", \* fails a test that exists on its branch only
          "refused"}    \* moved after review, or breaks a check that is no test

Repair == {"fix", "revert"}
Name == Line \cup Repair

\* The queue is a directory of finitely many entries.  "none" and "master" stand for
\* no evidence and for the master's own test.
ASSUME LineAssumption ==
    /\ IsFiniteSet(Line) /\ Line \cap (Repair \cup {"none", "master"}) = {}
    /\ Work \subseteq [Line -> Kinds]
ASSUME RankAssumption ==
    /\ Rank \in [Name -> Nat]
    /\ \A l, k \in Name : Rank[l] = Rank[k] => l = k
ASSUME BoundAssumption ==
    /\ RetryCap \in Nat
    /\ MaxCommit \in [Work -> Nat \ {0}] /\ MaxPush \in [Work -> Nat]

VARIABLES
    kind,       \* how each line's change behaves
    commits,    \* origin/master: whether each commit is red, and who made it
    landed,     \* the names whose pinned commits are on master
    fate,       \* in the queue, or where the line went
    retry,      \* refusals for a busy Mac, in queue-retry.json
    pending,    \* the lines with a <name>-master-pending.json marker
    log,        \* the base of the line's last train that failed tests, until the keeper
                \* has classified its log; 0 for none
    hold,       \* who wrote the queue-hold marker
    health,     \* master-health.json, the incident
    keeper,     \* master-keeper.json
    runner,     \* the cycle of the runner process
    train       \* the train.py process

vars == <<kind, commits, landed, fate, retry, pending, log,
          hold, health, keeper, runner, train>>

files == <<fate, retry, pending>>
keeping == <<hold, health, keeper>>

master == Len(commits)
Red(c) == commits[c].red
Queued == {l \in Name : fate[l] = "queued"}
FailsTests(l) == l \in Line /\ kind[l] \in {"bad", "branchonly"}
BranchOnly(l) == l \in Line /\ kind[l] = "branchonly"
Refuses(l) == l \in Line /\ kind[l] = "refused"
Poisons(l) == l \in Line => kind[l] = "poison"

NoTrain == [lines |-> {}, base |-> 0, moved |-> FALSE]
Idle == [todo |-> <<>>, results |-> {}, waits |-> FALSE]
NoIncident == [at |-> 0, tested |-> 0, fix |-> "none", revert |-> "none", winner |-> "none"]
NoConfirm == [of |-> "none", at |-> 0]

Init ==
    /\ kind \in Work
    /\ commits = <<[red |-> FALSE, by |-> "train"]>>
    /\ landed = {}
    /\ fate = [l \in Name |-> IF l \in Line THEN "queued" ELSE "absent"]
    /\ retry = [l \in Name |-> 0]
    /\ pending = {}
    /\ log = [l \in Name |-> 0]
    /\ hold = "none"
    /\ health = NoIncident
    /\ keeper = [checked |-> 0, green |-> 0, confirm |-> NoConfirm]
    /\ runner = Idle
    /\ train = NoTrain

-----------------------------------------------------------------------------
(* The runner: one cycle selects lines, runs their trains, and applies what*)
(* came out of them.                                                       *)

\* master_repair_allowed(): a repair runs on the commit the keeper tested.
RepairAllowed == health = NoIncident \/ health.tested = master

\* The lines a cycle may take: repairs only, while master is red.
Admitted ==
    IF hold = "none" /\ health = NoIncident THEN Queued
    ELSE IF RepairAllowed THEN Queued \cap Repair
    ELSE {}

Ready == Admitted \ pending

First(S) == CHOOSE l \in S : \A k \in S : Rank[l] <= Rank[k]

\* reconcile_pending(): a marker whose line left the queue is removed.
Reconciled == pending \cap Queued

\* cycle(): never while another train runs; the batch is any set of lines with
\* the first one, since what makes lines alike is left open.
RunnerSelects ==
    /\ runner.todo = <<>> /\ runner.results = {}
    /\ train = NoTrain
    /\ hold # "owner"
    /\ \E R \in SUBSET Ready : \E S \in SUBSET R :
          /\ \A l \in Ready \ R : retry[l] > 0
          /\ R # {} /\ First(R) \in S
          /\ runner' = [Idle EXCEPT !.todo = <<S>>]
    /\ pending' = Reconciled
    /\ UNCHANGED <<kind, commits, landed, fate, retry, log, train, keeping>>

Batch == Head(runner.todo)
Single == Cardinality(Batch) = 1
Halves(S) ==
    LET low == {l \in S : Cardinality({k \in S : Rank[k] < Rank[l]}) < Cardinality(S) \div 2}
    IN  <<low, S \ low>>

Starting == runner.todo # <<>> /\ ~runner.waits

\* The runner after the batch came to one result for all its lines.
Came(result) == [runner EXCEPT !.todo = Tail(@), !.waits = FALSE,
                               !.results = @ \cup (Batch \X {result})]

\* The runner after a red batch: its halves come next.
Split == [runner EXCEPT !.todo = Halves(Batch) \o Tail(@), !.waits = FALSE]

\* The answers process_batch() and process_entry() have without a train.
WithoutTrain ==
    IF Single /\ Batch \subseteq pending                    THEN "master-pending"
    ELSE IF ~Single /\ hold # "none"                        THEN "retry"
    ELSE IF Batch \subseteq landed                          THEN "landed"
    ELSE IF Single /\ Batch \subseteq Repair /\ ~RepairAllowed THEN "master-pending"
    ELSE IF Single /\ \E l \in Batch : Refuses(l)           THEN "failed"
    ELSE "none"

RunnerAnswers ==
    /\ Starting
    /\ WithoutTrain # "none"
    /\ runner' = Came(WithoutTrain)
    /\ UNCHANGED <<kind, commits, landed, log, train, files, keeping>>

\* Nothing of the batch boards, or an exception ends a single one: its lines leave the
\* queue as if they were done (process_entry answers None).
RunnerSkips ==
    /\ Starting
    /\ WithoutTrain = "none"
    /\ ~\E l \in Batch : Refuses(l)
    /\ runner' = Came("skipped")
    /\ UNCHANGED <<kind, commits, landed, log, train, files, keeping>>

\* A batch that holds a line that is refused is split without a train.
RunnerSplits ==
    /\ Starting
    /\ ~Single
    /\ WithoutTrain = "none"
    /\ \E l \in Batch : Refuses(l)
    /\ runner' = Split
    /\ UNCHANGED <<kind, commits, landed, log, train, files, keeping>>

RunnerTrains ==
    /\ Starting
    /\ WithoutTrain = "none"
    /\ ~\E l \in Batch : Refuses(l)
    /\ train = NoTrain
    /\ train' = [lines |-> Batch, base |-> master, moved |-> FALSE]
    /\ runner' = [runner EXCEPT !.waits = TRUE]
    /\ UNCHANGED <<kind, commits, landed, log, files, keeping>>

\* A test of their own fails these lines on every base.
FailsOn(S) == \E l \in S : FailsTests(l)

\* On a red base any train may fail, or pass: its lines may repair the red test, or the
\* landing selects other tests for them.  A repair may fail on its own.
MayFail(S, base) == FailsOn(S) \/ Red(base) \/ S \subseteq Repair

\* cancel_race(): both tracks leave the queue.
Cancelled == [l \in Name |-> IF l \in Repair /\ fate[l] = "queued" THEN "cancelled" ELSE fate[l]]

\* The train lands, and may make or leave master red: it ran the tests it selected,
\* and a repair may not repair.  It pushes on the base it tested.  A runner that waits for
\* it tells the keeper of a repair (track_landed) before it goes on.
TrainLands(red) ==
    LET S == train.lines
        tells == runner.waits /\ health # NoIncident
                 /\ Cardinality(S) = 1 /\ S \subseteq Repair
    IN  /\ train # NoTrain
        /\ ~FailsOn(S)
        /\ train.base = master
        /\ master < MaxCommit[kind]
        /\ red => Red(master) \/ \E l \in S : Poisons(l)
        /\ commits' = Append(commits, [red |-> red,
                                       by |-> IF S \cap Repair = {} THEN "train" ELSE "repair"])
        /\ landed' = landed \cup S
        /\ train' = NoTrain
        /\ runner' = IF runner.waits THEN Came("landed") ELSE runner
        /\ fate' = IF tells THEN Cancelled ELSE fate
        /\ health' = IF tells THEN [health EXCEPT !.winner = CHOOSE l \in S : TRUE] ELSE health
        /\ UNCHANGED <<kind, retry, pending, log, hold, keeper>>

\* A red batch is split.  A line that fails alone keeps its place behind a
\* marker until the keeper has looked at its log (retain_for_master).
TrainFails ==
    LET S == train.lines
    IN  /\ train # NoTrain
        /\ MayFail(S, train.base)
        /\ train' = NoTrain
        /\ IF Cardinality(S) > 1
           THEN UNCHANGED <<log>>
           ELSE /\ log' = [l \in Name |-> IF l \in S THEN train.base ELSE log[l]]
        /\ IF ~runner.waits
           THEN UNCHANGED <<runner, pending>>
           ELSE IF Cardinality(S) > 1
           THEN runner' = Split /\ UNCHANGED pending
           ELSE pending' = pending \cup S /\ runner' = Came("master-pending")
        /\ UNCHANGED <<kind, commits, landed, fate, retry, keeping>>

\* _land_after_move(): when master moved while the suite passed, the train merges
\* it and lands once more.
TrainMoves ==
    /\ train # NoTrain
    /\ ~train.moved
    /\ train.base # master
    /\ ~FailsOn(train.lines)
    /\ train' = [train EXCEPT !.base = master, !.moved = TRUE]
    /\ UNCHANGED <<kind, commits, landed, log, runner, files, keeping>>

\* A busy Mac, a held runner, or a master that moved once more.
TrainRetries ==
    /\ kind \notin Calm
    /\ train # NoTrain
    /\ train' = NoTrain
    /\ runner' = IF runner.waits THEN Came("retry") ELSE runner
    /\ UNCHANGED <<kind, commits, landed, log, files, keeping>>

\* The lines that came out with one of these results.
With(results) == {l \in Name : \E r \in results : <<l, r>> \in runner.results}

\* Mutant of Spent: one refusal over the cap.
SpentLate == {l \in With({"retry"}) : retry[l] > RetryCap}

\* note_retry(): lines over the cap are dropped instead of delayed.
Spent == {l \in With({"retry"}) : retry[l] >= RetryCap}

\* Every outcome of a cycle is applied: parked, delayed, dropped or kept.
RunnerEnds ==
    LET parked == With({"failed"})
        again  == With({"retry"}) \ Spent
        gone   == With({"landed", "skipped"}) \cup Spent
    IN  /\ runner.todo = <<>>
        /\ runner.results # {}
        /\ fate' = [l \in Name |-> IF l \in parked THEN "parked"
                                   ELSE IF l \in gone /\ fate[l] = "queued" THEN "done"
                                   ELSE fate[l]]
        /\ retry' = [l \in Name |-> IF l \in again THEN retry[l] + 1
                                    ELSE IF l \in parked \cup gone THEN 0
                                    ELSE retry[l]]
        /\ runner' = Idle
        /\ UNCHANGED <<kind, commits, landed, pending, log, train, keeping>>

\* The runner dies and is started again; its train goes on without it.
RunnerDies ==
    /\ runner.todo # <<>> \/ runner.results # {}
    /\ runner' = Idle
    /\ UNCHANGED <<kind, commits, landed, log, train, files, keeping>>

-----------------------------------------------------------------------------
(* The owner works outside the queue.                                      *)

Pushes == Cardinality({c \in 1..master : commits[c].by = "owner"})

OwnerPushes(red) ==
    /\ Pushes < MaxPush[kind]
    /\ master < MaxCommit[kind]
    /\ commits' = Append(commits, [red |-> red, by |-> "owner"])
    /\ hold' = IF hold = "owner" THEN "none" ELSE hold
    /\ UNCHANGED <<kind, landed, log, health, keeper, runner, train, files>>

OwnerHolds ==
    /\ kind \notin Calm
    /\ Pushes < MaxPush[kind]
    /\ hold = "none"
    /\ hold' = "owner"
    /\ UNCHANGED <<kind, commits, landed, log, health, keeper, runner, train, files>>

\* hold(): the owner's marker lapses.
HoldLapses ==
    /\ hold = "owner"
    /\ runner.todo = <<>> /\ runner.results = {}
    /\ hold' = "none"
    /\ UNCHANGED <<kind, commits, landed, log, health, keeper, runner, train, files>>

-----------------------------------------------------------------------------
(* The keeper: a tick under its lock sees at most one suite result.        *)

\* The evidence a tick may look into: the one it was confirming on this very
\* commit, else any log it has not classified.
Unconfirmed == {l \in Name : log[l] # 0}
Evidence ==
    IF keeper.confirm.at = master THEN {keeper.confirm.of}
    ELSE IF Unconfirmed # {} THEN Unconfirmed
    ELSE {"none"}

\* Mutant of ShowsMasterTest: a train's log tells nothing about master.
ShowsAnyLog(e) == e = "master"

\* The failing test that is red on master is among those of the evidence.
ShowsMasterTest(e) == e = "master" \/ (e \in Name /\ Red(log[e]))

ShowsOwnTest(e) == e \in Name /\ FailsTests(e)

\* Mutant of Quarantines: not for a log of the newest master.
QuarantinesStale(l) == l \in Queued \cap pending /\ log[l] # master

\* quarantine_entry() of a line that waits behind its marker.
Quarantines(l) == l \in Queued \cap pending

ClassifiedBranch(e) ==
    /\ log' = [l \in Name |-> IF l = e THEN 0 ELSE log[l]]
    /\ IF e \in Name /\ Quarantines(e)
       THEN /\ fate' = [fate EXCEPT ![e] = "quarantined"]
            /\ pending' = Reconciled \ {e}
            /\ retry' = [retry EXCEPT ![e] = 0]
       ELSE /\ pending' = Reconciled
            /\ UNCHANGED <<fate, retry>>

\* cancel_race() ends a track's own train, when the keeper knows its worker.  The
\* landing is a process of its own that may go on; the next train waits for it
\* here, which the code does not see to.
KillsTrain == health.fix \in {"working", "queued"} /\ \E l \in Repair : train.lines = {l}

\* Mutant of Cleared: the marker stays.
ClearedNever == hold

\* clear_hold(): only the keeper's own marker goes.
Cleared == IF hold = "keeper" THEN "none" ELSE hold

\* The full suite of the newest commit is green.  It ends an incident: both
\* tracks are cancelled, every marker goes, and so does the hold.
SuiteGreen(e) ==
    /\ keeper.checked # master
    /\ ~Red(master)
    /\ e \in Evidence
    /\ keeper' = [checked |-> master, green |-> master, confirm |-> NoConfirm]
    /\ IF health = NoIncident
       THEN /\ ClassifiedBranch(e)
            /\ UNCHANGED <<hold, health, train>>
       ELSE /\ fate' = Cancelled
            /\ pending' = {}
            /\ hold' = Cleared
            /\ health' = NoIncident
            /\ train' \in IF KillsTrain THEN {NoTrain, train} ELSE {train}
            /\ log' = [l \in Name |-> IF l = e THEN 0 ELSE log[l]]
            /\ UNCHANGED retry
    /\ runner' = IF KillsTrain /\ runner.waits THEN Came("failed") ELSE runner
    /\ UNCHANGED <<kind, commits, landed>>

\* The full suite of the newest commit is red: its test is confirmed next,
\* unless the evidence shows the very same test.
SuiteRed(e) ==
    /\ keeper.checked # master
    /\ Red(master)
    /\ e \in Evidence
    /\ keeper' = [keeper EXCEPT !.checked = master, !.confirm =
                     [of |-> IF ShowsMasterTest(e) /\ ~ShowsOwnTest(e) THEN e ELSE "master",
                      at |-> master]]
    /\ pending' = Reconciled
    /\ UNCHANGED <<kind, commits, landed, fate, retry, log, hold, health, runner, train>>

\* An incident begins, with names for its repairs that were never used.
Begins == [NoIncident EXCEPT !.at = master, !.tested = master]
Renewed(f, new) == [l \in Name |-> IF l \in Repair THEN new ELSE f[l]]

\* The tests of the evidence are run on master once more.
ConfirmsRed(e) ==
    /\ keeper.checked = master
    /\ e \in Evidence \ {"none"}
    /\ ~BranchOnly(e)
    /\ Red(master) /\ ShowsMasterTest(e)
    /\ keeper' = [keeper EXCEPT !.confirm = NoConfirm]
    /\ IF health = NoIncident
       THEN /\ health' = Begins
            /\ hold' = IF hold = "none" THEN "keeper" ELSE hold
            /\ fate' = Renewed(fate, "absent")
            /\ pending' = Reconciled \ Repair
            /\ log' = Renewed([l \in Name |-> IF l = e THEN 0 ELSE log[l]], 0)
            /\ retry' = Renewed(retry, 0)
            /\ landed' = landed \ Repair
       ELSE /\ health' = [health EXCEPT !.tested = master]
            /\ log' = [l \in Name |-> IF l = e THEN 0 ELSE log[l]]
            /\ pending' = Reconciled
            /\ UNCHANGED <<hold, fate, retry, landed>>
    /\ UNCHANGED <<kind, commits, runner, train>>

ConfirmsGreen(e) ==
    /\ keeper.checked = master
    /\ e \in Evidence \ {"none"}
    /\ ~BranchOnly(e)
    /\ ~(Red(master) /\ ShowsMasterTest(e))
    /\ keeper' = [keeper EXCEPT !.confirm = NoConfirm]
    /\ ClassifiedBranch(e)
    /\ UNCHANGED <<kind, commits, landed, hold, health, runner, train>>

\* Tests that master does not have cannot run there: the check is blocked, and
\* tried again at every tick until master moves.
ConfirmBlocked(e) ==
    /\ keeper.checked = master
    /\ e \in Evidence \ {"none"}
    /\ BranchOnly(e)
    /\ keeper' = [keeper EXCEPT !.confirm = [of |-> e, at |-> master]]
    /\ pending' = Reconciled
    /\ UNCHANGED <<kind, commits, landed, fate, retry, log, hold, health, runner, train>>

\* While the incident lasts, the marker is put back when it is gone.
KeeperHolds ==
    /\ health # NoIncident
    /\ hold = "none"
    /\ hold' = "keeper"
    /\ UNCHANGED <<kind, commits, landed, log, health, keeper, runner, train, files>>

\* One worker is sent to fix the incident, and never a second one, also when
\* the keeper dies after it noted its intent.
KeeperDispatches ==
    /\ health # NoIncident
    /\ health.fix = "none"
    /\ \E fix \in {"working", "lost"} : health' = [health EXCEPT !.fix = fix]
    /\ UNCHANGED <<kind, commits, landed, log, hold, keeper, runner, train, files>>

\* advance_tracks(): the worker's commit is queued.
KeeperQueuesFix ==
    /\ health.fix = "working"
    /\ health.winner = "none"
    /\ health' = [health EXCEPT !.fix = "queued"]
    /\ fate' = [fate EXCEPT !["fix"] = "queued"]
    /\ UNCHANGED <<kind, commits, landed, retry, pending, log, hold, keeper, runner, train>>

\* advance_tracks(): the revert of the one commit since the last green one.
KeeperQueuesRevert ==
    /\ health # NoIncident
    /\ health.revert = "none"
    /\ health.winner = "none"
    /\ \E small \in BOOLEAN :
       IF small /\ keeper.green \in {0, health.at - 1} /\ ~Red(health.at - 1)
       THEN /\ health' = [health EXCEPT !.revert = "queued"]
            /\ fate' = [fate EXCEPT !["revert"] = "queued"]
       ELSE /\ health' = [health EXCEPT !.revert = "refused"]
            /\ UNCHANGED fate
    /\ UNCHANGED <<kind, commits, landed, retry, pending, log, hold, keeper, runner, train>>

KeeperTick ==
    \/ \E e \in Name \cup {"none", "master"} :
          \/ SuiteGreen(e) \/ SuiteRed(e)
          \/ ConfirmsRed(e) \/ ConfirmsGreen(e) \/ ConfirmBlocked(e)
    \/ KeeperHolds \/ KeeperDispatches \/ KeeperQueuesFix \/ KeeperQueuesRevert

TrainEnds == (\E red \in BOOLEAN : TrainLands(red)) \/ TrainFails \/ TrainMoves \/ TrainRetries

Runner == RunnerSelects \/ RunnerAnswers \/ RunnerSkips \/ RunnerSplits \/ RunnerTrains \/ RunnerEnds

Owner ==
    \/ \E red \in BOOLEAN : OwnerPushes(red)
    \/ OwnerHolds \/ HoldLapses

Next ==
    \/ Runner \/ RunnerDies
    \/ TrainEnds
    \/ KeeperTick
    \/ Owner

Spec == Init /\ [][Next]_vars

-----------------------------------------------------------------------------

TypeOK ==
    /\ commits \in Seq([red : BOOLEAN, by : {"train", "repair", "owner"}])
    /\ landed \subseteq Name
    /\ fate \in [Name -> {"absent", "queued", "parked", "quarantined", "cancelled", "done"}]
    /\ retry \in [Name -> 0..RetryCap]
    /\ pending \subseteq Name /\ log \in [Name -> 0..master]
    /\ hold \in {"none", "owner", "keeper"}
    /\ health.at <= master /\ health.tested <= master

\* A red master turned green after commit b, and no repair of the keeper did it.
OthersTurned(b) ==
    \E c \in (b + 1)..master : commits[c].by # "repair" /\ ~Red(c) /\ Red(c - 1)

\* A line whose change is good is never blamed.  It is not parked, and it is
\* quarantined only when its train failed on a red master that turned green since
\* through a push of the owner or another line: a repair the keeper ran costs no line.
InnocentKept ==
    [][\A l \in Line : kind[l] \in {"good", "poison"} /\ fate'[l] # fate[l] =>
          /\ fate'[l] # "parked"
          /\ fate'[l] = "quarantined" => OthersTurned(log[l])]_vars

\* A line that waits behind its marker is never forgotten: the keeper has its
\* log still to classify, or an incident is open whose end takes all markers.
PendingIsWatched ==
    \A l \in pending \cap Queued : log[l] # 0 \/ health # NoIncident

\* Only the owner can help: no repair is on its way, or the keeper keeps trying
\* tests that master does not have.
NeedsOwner ==
    \/ health # NoIncident /\ (health.winner # "none" \/ Repair \cap Queued \subseteq pending)
    \/ keeper.confirm.at = master /\ BranchOnly(keeper.confirm.of)
    \/ master = MaxCommit[kind]

\* Every queued line is settled in the end, unless only the owner can help, when
\* the runner stops dying.
EveryLineSettles ==
    <>[][~RunnerDies]_vars => \A l \in Line : []<>(l \notin Queued \/ NeedsOwner)

FairSpec ==
    /\ Spec
    /\ WF_vars(Runner) /\ WF_vars(TrainEnds) /\ WF_vars(KeeperTick) /\ WF_vars(HoldLapses)
    /\ SF_vars(RunnerSelects)
    /\ SF_vars(TrainLands(FALSE)) /\ SF_vars(TrainFails)

=============================================================================
