# A TLA+ model of Kyra's agent loop, landing pipeline, delegation and memory

This directory models the parts of Kyra in which several processes change the
same durable state: the loop that dispatches AI coding agents, the records and
file leases it keeps, the lock files of the landing gate, the merge queue, the
landing runner with its trains and the keeper of master, the executor that spreads
tests over machines, the delegation of a request to several teammates, and the rows,
inboxes and erasures of the memory store. The modules are checked with TLC on small
instances, and every safety property the runs check is proved with TLAPS for every
value of the constants.

Contents: [the system](#the-system) · [modules](#modules) ·
[runs](#runs) · [disagreements found](#disagreements-found) ·
[proofs](#proofs) · [limits](#what-is-only-checked-and-what-is-not-modelled) · [plan](#plan)

## The system

The repository is a set of Python components taken from a larger private
application. Everything durable is a file (JSON, JSON lines or SQLite) under one
data directory, and the processes below meet only in those files.

| Component | Source | State it keeps | Operations |
|---|---|---|---|
| File leases | `feature_team/locks.py` | SQLite tables: claims, waits, audit events | claim, release, expire |
| Run records | `feature_team/runs.py` | one JSON file per run, a derived index | create, transition |
| Dispatcher loop tick | `feature_team/dispatch.py` | none of its own; runs under dispatcher.lock | per node: time out, follow up, free leases, mint, claim, dispatch, launch |
| Inspector | `feature_team/inspector.py` | inspector-state.json | close a dead run, mark it, requeue or escalate |
| Watchdog | `feature_team/watchdog.py` | reports | runs the inspector, closes stale runs |
| Node worker | `feature_team/node_worker.py` and the wrapper in `dispatch.py` | its process; the rendered brief on the record | boot, render, dispatch again, send, wait, close |
| Courier | external agent CLI | its process, the worktree, a result file | edit, write the result, exit |
| Verifier, completion map | `feature_team/verify.py`, `completion.py` | completion.json | check out, run the commands, pass or fail, mark done |
| Gate lock | `companion/gate_lock.py` | one lock file per kind, a guard file each | acquire, record_child, release, wait, status |
| Merge queue | `landing/queue.py` | an append-only log of joins and leaves | join, leave, replay, plan |
| Landing runner, master keeper | `scripts/landing_runner.py`, `master_keeper.py` | queue lines, markers, retry counts, holds, the incident | select, batch, split, park, quarantine; confirm, hold, fix, revert |
| Trains, merge gate | `scripts/train.py`, `workflow_land.py`, `companion/train_land.py` | a state file per train, area locks, receipts, origin/master | wait, merge, lock, test, push, resume |
| Test phase | `runner_exec.py`, `runner_pool.py`, `train_pool.py`, `train_phase.py` | in memory: the plan, a queue per machine, the attempts that are out | place, start, judge, fail over, account |
| Team delegation | `companion/team_delegation.py` | one row per request in SQLite, a flight lock each | advance, send, poll, review, repair, report, stop, resume |
| Claims | `companion/claims.py` | append-only ledger | open, close |
| Memory store | `kyra_memory/store.py`, `sqlite_backend.py`, `review.py` | SQLite or PostgreSQL rows, proposals | add, propose, accept, prune, downgrade, forget, expire |
| Memory inbox, purge, hot files | `kyra_memory/inbox.py`, `purge.py` and others | inbox files, offsets, hot files | append, merge, retier, purge |
| Models and routing | `router.py`, `provider.py`, `usage.py`, `approvals.py` | usage ledger, approvals in memory | route, check the cap, record, approve, consume |
| Team chat, delivery ledger, Board inbox, QC desk, agent audit | `team_*.py`, `delivery_ledger.py`, `board_inbox.py`, `feature_team/qc_*.py`, `agent_control/` | JSON and JSON-line stores under file locks | append, migrate, observe, suggest |
| Voice, 3D, CAD | `voice.py`, `model3d_*.py`, `cad/` | audio, geometry | no shared state |

How the modelled parts meet. The tick loads all run records, expires the
leases, and visits the newest run of each node; it claims files, dispatches the
record and starts a node worker, a detached process. The node worker starts a
courier, a detached process again, and watches for its result file. The
inspector and the tick exclude each other by dispatcher.lock; the node worker,
the watchdog's own stale check, the verifier and the couriers take no lock that
the others take. All of them write run records, by `transition()` (load, check,
write) or by writing back a record loaded earlier. Leases are changed inside
SQLite transactions. The gate lock is independent of the loop: landing trains
and gate runs of several kinds use it. The merge queue is one log that every
caller replays under a file lock before it appends; `plan()` is a pure function
of what was replayed. The queue file of the landing runner is another
one: the runner takes lines from it, alone or in batches, and starts a train for
them; the keeper runs the suite on what landed, and while master is red it holds
that queue with a marker file that the runner reads. A train waits for other
trains by reading their state files, and lands through the merge gate, which
pushes. The tests of a train may run on several machines at once; that phase is a
loop in the train's process, with a thread per attempt, and gives it one verdict. A delegated request is a row that the service's worker advances under a
flight lock, while polls and the owner's stop edit it without that lock. The
memory store is one SQLite file that the assistant,
the merger of the inboxes and the purge commands open from processes of their
own, one exclusive transaction per write.

What makes it hard:

- *interleaving*: five writers of one record without a common lock; a reader of
  a lock file that clears what it takes for stale;
- *stale state*: the tick and the inspector judge records they loaded when they
  began, and write some of them back;
- *crashes*: every process can be killed between two writes, and the detached
  node worker, courier and gate command live on;
- *time*: deadlines, waits, late heartbeats, results after the close;
- *evidence*: whether a worker is dead is inferred from pids, receipts and logs;
- *torn writes*: an append to a log may stop in the middle of a line;
- *waiting*: trains wait by chain, by rank and by lock; a queue waits for repairs
  that go through the queue itself;
- *sends*: a call to a teammate may be cut off between the act and its record;
- *erasure*: ids, links and the past as it was told must survive hard deletes,
  and the text that was deleted must leave every file, in the end the log of the
  database too.

What makes each modelled part correct:

- *file leases*: no file leased twice; no lease lost before its deadline but by
  its result or a proof of death; closed run ids stay closed; the audit log says
  what the table says; every lease ends;
- *run records*: what a lost update can cost the attempt budget is bounded; every
  live run is settled;
- *agent loop*: a courier that may still edit files holds their lease; one such
  courier per node; nothing is started behind a successor's back;
- *gate lock*: one run of a kind in the gate; the holder keeps its file, and so
  does a recorded command that outlives its wrapper; files of dead processes hold
  nobody back;
- *merge plan*: trains whose candidates share no file, nothing lands ahead of
  higher-ranked work it overlaps, a later join disturbs nobody ranked before it;
- *merge queue*: what a call reported is what every later replay reads, one owner
  per commit, a refreshed candidate keeps its place;
- *landing queue*: no good line is blamed for a red master, no line is forgotten
  behind a marker, and each is settled;
- *trains*: master moves only by a change whose own tests passed on the very merge
  it becomes, a chain is kept, trains of one area land one after the other (but for
  web trains), nothing landed is lost, every train ends;
- *test phase*: each file counted once and only where it may run, whatever fails; no
  broken file passes; every phase ends;
- *delegation*: no request is sent twice, steps keep their order, a stop reaches
  every run, a finished step is redone only for the findings of the final review,
  and a request comes to rest;
- *inbox and erasure*: a line becomes a row once, forgotten text does not come
  back, no copy outlives its row, text on disk is marked and in the end erased;
- *memory store*: supersession chains without loose ends, one active row per key,
  purged ids never reused, a past belief never told differently later.

## Modules

| Module | Models | State and actions |
|---|---|---|
| `FileLocks` | `locks.py` | `claims`, `waits`, `events` are the three tables, `now` the clock. One action per transaction: `ClaimTakes`, `ClaimWaits`, `ClaimTimesOut` are the outcomes of `claim()`; `Release`, `Expire`. Refused calls change nothing and are stuttering steps. |
| `FileLease` | what a lease promises | the holder of each file and the ids already spent: a whole set is granted once, and given up whole. |
| `GateLock` | `gate_lock.py` | `lock[k]` is the file of kind k, `pc` and `child` the wrapper and its gate command. One action is what happens under one guard, or one system call between two guards. `Kill` is possible at every step. `waiting` and `left[r]` are a waiter of `gate_lock.py wait` and what its poll has still to inspect: `WaitBegins`, `WaitInspects`, `WaitGivesUp`. |
| `RunRecord` | `runs.py` and its callers, one node | `file` is the record, `copy[w]` and `goal[w]` the call of `transition()` writer w is in, `snap` the record the tick loaded, `spent` (history) the dispatches that were committed. A load and a commit are separate steps; the inspector's close and the fix-back write twice (`CommitsTwice`). `TickRetries` and `InspectorRequeues` put a successor in the record's place (`Succeeds`). |
| `AgentLoop` | dispatch, inspector, watchdog, node worker, one node | `run` the chain of records, `lease` their claims rows, `proc` the node workers, `courier` and `output` the agents and their result files, `visit` the tick or inspector in progress with the records it loaded. |
| `MergePlan` | `queue.py`, the pure half | `Order` sorts the queue by boarding key, `Plan` takes it through `Consider`, one candidate after the other: each boards a train or is held and blocks its files. `IsLayered` says what a plan must be without the pass, by two recursions along the order: `Stuck` and `Wave`. |
| `MergeQueue` | `queue.py`, the log | `log` is the file line by line, `torn` says its last line has no newline. `Join` and `Leave` each replay and append under the file lock; the append completes, or is cut off and then fails. |
| `OwnedQueue` | what the queue promises | a map from commits to the entries that are in: enter, refresh in place, leave. |
| `MemoryStore` | `store.py`, `sqlite_backend.py`, `review.py` | `rows` and `proposals` are the tables, `hwm` the purge marks in meta, `forgetting` a forget() with the row `history()` reads next and the ids it has read, `pruning` the time a prune() under way has read. `AddIn` is shared by `Add` and `Accept`; `ApplyDowngrade`, `PruneBegins` (reads the clock), `PruneCommits`, `ForgetBegins`, `ForgetReads` (one row each), `ForgetDeletes`, `Expire`. |
| `Landing` | `landing_runner.py`, `master_keeper.py` | `commits` is origin/master, `fate`, `pending`, `retry` the queue file, the markers and the retry counts, `log` what a line's last train left to classify; `hold`, `health` and `keeper` the keeper's files; `runner` the cycle and `train` its train.py. `RunnerSelects` to `RunnerEnds` are one cycle (`RunnerSkips`: nothing of the batch boards), `RunnerDies` cuts it; the keeper's tick is one action per outcome of its suite and per repair step. |
| `TrainTurn` | `train.py`, `workflow_land.py`, `train_land.py` | `file`, `proc`, `tree`, `locks` of each train, `orphans` the landings that go on without theirs, `receipts` the verdicts on their heads; `Fails` says for which change onto which master a selected test fails. `AsksAfter` and `AsksRank` are a turn; `Builds`, `TakesLock`, `LandBegins`, `Suite`, `LastLook`, `Pushes`, `MergesMoved`, `Landed` its work; `Stopped` is SIGTERM, `Killed` a kill, `Launch` a start or a resume. |
| `RunnerExec` | `runner_exec.py` with the placement of `runner_pool.py` and the phase of `train_pool.py` | `plan`, `queue`, `dead`, `done` are the books of the loop, `live` the attempt of each machine and what its thread came back with, `batch` what wait() returned. `Plans`, `Starts`, `Waits`, `Loops`, `Ends` are the loop; `Discards`, `Loses`, `Refuses`, `Accepts` judge one attempt; `TimesOut` is the deadline; `Finishes` a thread. `FailRunner` is the failover that `Loses` and `TimesOut` share. |
| `Delegation` | `team_delegation.py` | `row` is what the database keeps of a request, `flight` the process in `advance()`, `stopper` the one in `stop()`, `runs` and `sends` what the teammates have. Every `_edit` of the row is a step of its own, every call to a teammate another. `PollsFindings` is the poll of a review with findings, `ReopensLast` what `_open_work()` makes of them. |
| `MemoryErasure` | `inbox.py`, `purge.py`, `sqlite_backend.py` | `inbox`, `offset`, `stored` the rows, `copies` (vectors and hot files), `residue` the deleted text still on disk, `pending` the purges saved in meta; `at[i]` is where each instance of the backend is. |
| `FileLocksProofs`, `SharedFileProofs` (on `GateLock`, `MergeQueue` and `RunRecord`), `AgentLoopProofs`, `LandingProofs`, `TrainTurnProofs`, `MemoryProofs` (on `MemoryStore` and `MemoryErasure`), `RunnerExecProofs`, `DelegationProofs` | theorems | see [proofs](#proofs) |
| `MCFileLocks`, `MCGateLock`, `MCRunRecord`, `MCAgentLoop`, `MCMergeQueue`, `MCMemoryStore`, `MCLanding`, `MCTrainTurn`, `MCRunnerExec`, `MCDelegation` | instances for TLC; `MemoryErasure` needs none | |

`AgentLoop` composes the parts at a coarser grain: a transition of a record is
one step there (its loads and writes are apart in `RunRecord`), and a lease is
what `FileLocks` is proved to implement: taken once, whole, never reopened.
Beside the actions, some modules hold operators marked *mutant of X*: X with a
plausible programming error in it. They are not part of the specification; each
property is violated when X is replaced by one of them.

Abstractions, by module:

- `FileLocks`: times are ticks; file names are values; roles (`_dispatcher()`)
  are left out because only the dispatcher's processes call the handlers.
- `GateLock`: a lock always holds complete metadata, because it is linked or
  replaced whole, so the grace for unreadable files is not used; a pid with its
  start time identifies a process. Signals to a wrapper are forwarded and end
  the command: `ChildExits`.
- `RunRecord`: a record is its state, the attempts of the tier it is on, the
  silent mark and the inspector's mark. A successor takes its predecessor's place
  once that one's worker has ended or its file claim expired; two workers at a time
  are `AgentLoop`'s. The requeue of a run that crashed after its escalation
  (`inspector.py:427`) is left out, as is a change of tier.
- `AgentLoop`: a heartbeat leaves a run `started`. Age limits (silent, stale, no
  life seen) are left to chance, deadlines are not. Holds, hand builds, the
  Board's requeue, channel pauses and the cap on requeues are left out or to
  chance. The worker's second, correcting send does not occur, because the
  wrapper in `dispatch.py` ends the attempt at its timeout transition. A send is one
  step (its load of the record before the courier starts, `dispatch.py:193-198`, is
  left out), and so are Popen and the write of the pid file at a launch; a ledger
  row without a pid (`dispatch.py:330-332`) does not occur.
- `MergePlan`: commits and ranks are numbers, so that they compare as the code
  compares strings; a review is its commit, head and verdict.
- `MergeQueue`: a call holds the file lock from its replay to its append, so it
  is one action. A torn append leaves a line that replay skips.
- `MemoryStore`: two tables (`pinned`, `facts`) stand for the five. A write is one
  exclusive transaction and one action. Two calls read before theirs: `forget()` its
  chain, a row at a time, and `prune()` the clock; one of each at a time is followed.
  (`expire()` too reads its rows first, `sqlite_backend.py:433-434`; here it reads
  them in its transaction: a row that is already expired stays so.) What rows say, labels,
  quotas, the text index and the repeat count of faults are left out. The clock
  does not run backwards.
- `Landing`: a line is its name, and `kind` says how its change behaves: one that
  fails a test of its own fails always. On a red base every other train may fail, or
  pass and land, and a line that lands on a red master may turn it green: it may
  repair the red test, or select others. Red stands for one failing test, which the
  log of a train from a red base shows; log and marker are written in one step. `TrainTurn`
  shows what a train itself does; here it lands, fails, moves or is refused. The
  fix a worker writes and the revert are two names, `Repair`, that enter the
  queue. `TrainRetries` stands for a busy Mac. Forge lines, the QC requeue and
  the choice of a machine are left out.
- `TrainTurn`: a commit is the set of trains merged into it, which is enough
  because a merge only adds and git refuses what is not a fast-forward. A rank
  stands for area and priority. `Fails` is a set of pairs: a landing runs the tests
  that its change from master selects (`impact_runner()`), and nothing says that they
  see every fault; "impact receipts must never be mistaken for full-suite recheck
  proof" (`workflow_land.py:385`), and `LandedAsTested` does not. A train with the web
  area holds no other lock (`lock_areas()`). The browser phase and its lock are left out.
- `RunnerExec`: which of the machines that are online and capable takes a file is
  chance (the code weighs durations), so every placement, those of
  `train_phase.py` included, is one of the model's; a phase nobody can take ends
  `unplaced`, which `run_pool()` leaves to the landing's suite and
  `train_phase.py` refuses. A shard with no report is an error for every file; what a
  lost host reported before (`keep_failures`, `runner_exec.py:349`) is dropped. A
  kill is left out: it changes nothing the loop reads but when a thread returns.
- `Delegation`: one request whose plan has ordered tasks. What a teammate answers
  is chance: accepted, unknown, busy or blocked at the send; running, completed,
  blocked, waiting for a decision, stopped, uncertain or, for a review, with
  findings at a poll. A finished task whose acceptance or follow-ups are unmet
  (`_open_work`, lines 376-392) is one that came back blocked; the room answers a
  request it has had with the run it has (`team_chat.py:966-985`). The local lead,
  interviews, handoffs, waits on work outside the request (`_external_work`,
  preconditions, the recomputed conditions), the list of open items and the step log
  of the room are left out.
- `MemoryErasure`: a row is the inbox line it came from; what rows say beyond their
  text is `MemoryStore`'s. SQLite is external: `BEGIN EXCLUSIVE` is one lock, a
  commit leaves the deleted text in the write-ahead log and old pages until a
  clean truncate, and a reader makes a truncate busy. The copies are refreshed
  only while no erasure runs, as `purge.py` asks of its callers.

## Runs

| Run | Configuration | Shows |
|---|---|---|
| `file_locks` | `MCFileLocks.cfg` | the tables implement `FileLease`; every lease ends |
| `gate_lock` | `MCGateLock.cfg` | exclusion within a kind, a recorded command guards its file, a waiter gets through (1.9 million states) |
| `run_record` | `MCRunRecord.cfg` | less than twice the budget of a tier is ever dispatched; every live run is settled (78 thousand) |
| `agent_loop` | `MCAgentLoop.cfg` | leases guard couriers, one live worker, no start behind a successor |
| `merge_queue` | `MCMergeQueue.cfg` | reported joins and leaves stay; the log implements `OwnedQueue`; `plan()` of what is queued against a declarative definition: nothing boards ahead of higher-ranked work it overlaps or together with it, and where it boards depends on that work alone |
| `memory_store` | `MCMemoryStore.cfg` | chains, keys, ids, what forget() reads, and the past as it was told, over adds, proposals, late prunes, downgrades and deletes (1.7 million) |
| `landing` | `MCLanding.cfg` | no good line blamed for a red master, none forgotten behind its marker, every line settled (650 thousand) |
| `train_turn` | `MCTrainTurn.cfg` | each move of master tested as the move it is, chains kept, every train ends (286 thousand) |
| `train_turn_cycle` | `MCTrainTurnCycle.cfg` | a disagreement, below |
| `runner_exec` | `MCRunnerExec.cfg` | each file counted once, no broken file passes, every phase ends |
| `delegation` | `MCDelegation.cfg` | one send per request, order, stop, finished steps, rest (1.1 million) |
| `memory_erasure` | `MemoryErasure.cfg` | lines merged once, nothing forgotten comes back, copies and text on disk |

Safety properties that are proved for every value of the constants and that TLC
would only repeat are not in these runs: most type invariants of the modules
with proofs, `HeldDisjoint`, `Fenced`, `NeverLostEarly`, `TimeoutIsFinal`,
`AuditMatchesClaims` and `NoWaitOnceGranted` of `FileLocks`,
`HolderKeepsLock` of `GateLock`, `OneTrainPerArea` and `NothingLost` of
`TrainTurn`.

Bounds, and why they are enough:

- `file_locks`: three runs over two files with two owners, `MaxWait = 1`, the
  clock up to 2. Three runs are needed for a steal from two victims at once; two
  files for partial overlaps; two owners for a release by the wrong one. The view
  leaves out the audit log, which no guard reads.
- `gate_lock`: three wrappers (a holder, a killed one, a newcomer) and one area
  beside the three base kinds; one waiter, whose kind conflicts with two files, so
  that a stale one may stand behind a live one.
- `merge_queue`: two parts, so that neither multiplies the other. Where appends
  are cut off: two commits, two owners, a log of at most four rows, which holds a
  join, a torn append, its repair by the next one, and a leave. Where plans are
  looked at: a whole join of each of up to three commits, over three ranks, three
  kinds of readiness (ready, to rebase, to review again) and four sets of files,
  among which three candidates overlap in every way they can, at both heads, with a
  queue of features and without one. Three is the least number with two trains and
  a candidate that could jump between them.
- `memory_store`: one key and rows without a key. Either one pinned row, two facts and
  a proposal, which is the least for a downgrade of a pinned row beside another fact,
  with the clock up to 3, so that a prune that read it before a row was learned
  commits after that and a later time looks back; or three facts and a proposal with
  the clock up to 2: three facts give a chain with a middle row, which deletes can take
  out. `Room`, a state constraint of the instance, keeps the two from multiplying. The
  retention is 1. Two ids of a table compete for the one key; rows of different keys
  do not meet.
- `run_record`: `AttemptsPerTier = 2` as in the code; the state space is finite
  because a successor needs an attempt that is left, and each loses at most one.
- `agent_loop`: a chain of two runs, one tier of two attempts, one deadline and
  one fault (a kill, or a close by the watchdog). Every action of the module
  fires within these bounds. A second fault or deadline multiplies the four
  million states beyond a run of minutes.
- `landing`: two lines and the two repairs, one retry. Where the owner leaves the
  queue alone, a line that breaks master unseen or fails a test of its own
  branch stands beside a good one, and one that fails beside one refused; master
  grows to four commits, a poisoned landing and both repairs. Where the owner
  pushes or holds once, the lines are poisoned and refused, or refused and good,
  and master grows to two. A batch of two is the least that can be split.
  Two good lines, one push and three commits are the least in which a good line is
  refused on a master that the owner turned red and the other line turns green; no
  Mac is busy there and the owner does not hold (`Calm`).
- `train_turn`: three trains that share an area, one of them a web train, which
  therefore lands beside the others, and one of lower rank that the first is chained
  behind. Two fail together whichever comes second; two fail together only for the
  change of one, whose selection sees it. Four launches, so that one train is
  resumed. `train_turn_cycle` needs no resume.
- `runner_exec`: three machines and three files: one file for one machine only, one
  for two, one for all, so that a failover may go on twice, nowhere, or to a
  machine that already works; at most one file is broken.
- `delegation`: two tasks, the first in code mode by an outside member whose build
  is reviewed, so that review, order and repair all occur; one crash and one stop
  or resume. `Mixed = FALSE` leaves out behaviours with both a crash and a resume,
  which would take liveness beyond minutes; the safety theorems hold for both
  values.
- `memory_erasure`: two instances, one text, two lines, two purges, one crash and
  one reader. Two purges are the least with which a saved entry can look like
  another; one text suffices because a purge takes all lines that match it.

`CHECK_DEADLOCK FALSE` everywhere: a chain that ended, a spent clock, wrappers that
are all done, trains that ended and a request at rest really stop.

Fairness. `FileLocks!FairSpec`: the clock advances, and the dispatcher, which
runs at a fixed interval for ever, calls `expire()` in each tick.
`GateLock!FairGateSpec`: a waiter that has not given up goes on with its polls
(`WaitInspects`), each of which stops at the first holder as `blocking()` does; no
other reader has to come, and no wrapper has to start, to go on or to be killed. `RunRecord!FairRecordSpec`:
the tick recurs, the deadline comes, a process that is not killed runs on, and a
result is harvested by the tick, which verifies it. The watchdog's loads and
the kill of the worker have no fairness: the loop must settle a run without
them. `Landing!FairSpec`: runner and keeper run at intervals for ever, trains end
(they have a timeout), the owner's hold lapses, and a Mac is not busy every time a
train asks, nor the queue held every time the runner looks (the strong fairness);
`EveryLineSettles` asks in addition that the runner stops dying, and excepts what
only the owner can settle (`NeedsOwner`). `TrainTurn!FairSpec`: a live train goes
on, and its turn times out; nobody has to launch or stop one.
`RunnerExec!FairSpec`: the loop goes on, and an attempt it finds again and again is
at some time past its deadline (the strong fairness); no thread has to return.
`Delegation!FairSpec`: the service's worker advances what is pending, a stop goes
on, runs end and their end is polled. `MemoryErasure!FairErasureSpec`: readers close, an
instance goes on and writes again, and a closed tenant is opened again; the
retry of an erasure hangs on the next write or opening.

## Disagreements found

`train_turn_cycle` is expected to be violated. `higher_trains()` leaves out a train
that waits for the one that asks, "since it cannot start before this train ends"
(`scripts/train.py:578-579`). It follows the *after* links only (lines 584-589).
Let A be chained after C, with A ranked above B and B above C. C waits by rank for
B; B counts A, whose *after* link leads to C and not to B, and waits for it; A
waits for C. All three wait (`NoWaitCycle`) until the turn timeout of six hours
ends one of them, which is why `EveryTrainEnds` holds.

Observations that came up on the way and that no run of this project refutes; the
properties make room for them.

Gate and leases:

- `acquire()` inspects the conflicting files one by one (`gate_lock.py:212`) and
  then publishes its own: two wrappers of *conflicting* kinds that start together
  both get in, against the docstring of `conflicting()` (lines 88-90). Two of one
  kind do not (`SameKindExclusive`, proved);
- a wrapper killed between starting the gate command and recording its pid leaves
  a lock that reads stale while the command runs. From the moment the pid is
  recorded the lock lives as long as the command (`ChildOutlivesWrapper`);
- the one-worker rule rests on the file lease, and a brief may name no file
  (`dispatch.py:123`): with `HasFiles = FALSE` the model reaches two live workers.

Run records:

- the tick stores its silent mark by writing back the record it loaded at its
  start (`dispatch.py:574`), so a result recorded since is overwritten, which
  `runs.py:9` and `:14` rule out;
- `runs.py:20-21` promises "at most ATTEMPTS_PER_TIER per tier" of the dispatches,
  which holds of the count on the record and not of the dispatches themselves. The
  inspector closes a run with two writes: the transition (`inspector.py:474`) and,
  without a look at the file, the same record with its mark (line 479). Between the
  two the late node worker may dispatch the timed-out run again
  (`node_worker.py:1004`), its second attempt; the second write puts the count back
  to one. When that worker dies, the inspector mints a successor with one attempt
  spent, and the tick dispatches it: the third time on a tier of two. So does a tick
  that retries a timeout it loaded before that dispatch. How far it can go is
  bounded: a count is taken back at most once for each record, so fewer than twice
  ATTEMPTS_PER_TIER dispatches happen (`DispatchesDoubledAtMost`, checked and proved);
- a watchdog killed between the two writes of a close leaves a timeout
  that the tick retries behind the inspector's back (`inspector.py:476-478`). The requeue count
  is saved later still (`:732`), so a crash loses it.

Landing:

- a fix and a revert selected as one batch under the keeper's own hold are
  answered "retry" (`landing_runner.py:824-826`) and spend their retry budget,
  against the comment at lines 812-813; so does every held or interrupted batch;
- a test that exists on a branch only stays blocked as a confirmation for as long
  as master does not change, and keeps other evidence waiting;
- a repair dropped by the retry cap, a dispatch whose intent was saved and whose
  worker is lost, a batch of both repairs, or a runner that dies while a repair
  trains, leave the incident to the owner;
- `note_retry()` and `clear_retry()` write `queue-retry.json` without the queue
  lock that the QC requeue takes;
- a good line may be quarantined when another line's landing, or the owner's push,
  turned a red master green between its refusal and the keeper's diagnosis
  (`master_keeper.py:519-560`); `tests/test_master_keeper.py:563` means it so for
  what is green by then, and `InnocentKept` excepts it;
- a web train lands beside a loop train that changes the same files: it holds only
  landing-web, and "an overlap is caught at landing" (`train.py:222-223`) by the
  recheck of the second one, as far as the tests its change selects see it;
- a train that is stopped, or whose push succeeded but was reported as failed, is
  recorded as refused though it is on master; `prev_outcome()` believes the record
  (its docstring, `train.py:545`), and a train chained behind it refuses to start;
- a landing goes on when its train was interrupted and the area locks are free.
  The last look and git's fast-forward rule keep each move of master tested as the
  move it is (`LandedAsTested`).

Test phase:

- the executor's docstring promises that with a pass "no discarded result held a
  fail or error" (`runner_exec.py:259`). A late attempt is looked at only while
  the loop still waits for others: one that returns after that is neither
  counted nor seen. Its files were run again, so no broken file passes
  (`BrokenNeverPasses`), but a flaky one may;
- an attempt killed at its deadline returns without a report, and so with an error
  for every file. If the loop is still there to see it, the failover it started
  cannot make the phase pass any more (`keep_failures`, line 338).

Delegation:

- "An abandoned dispatch is uncertain, never replayed" (`team_delegation.py:4`)
  holds (`NeverSentTwice`), with one exception: when the final review of a mixed plan
  has findings, `_open_work()` gives them to the last task and takes the review off
  the plan ("Return its findings through an existing task owner and the planner repair
  gate", lines 367-368). When the review is due again (line 1036) no retry was
  counted, so it is asked for under the name it had (lines 1089-1093). The room then
  returns the old run with the old findings, or refuses a changed prompt for that
  name (`team_chat.py:973-985`), which ends as uncertain: a review with findings is
  never made again. The findings also reopen a task that was finished
  (`DoneStays` names exactly this case);
- a stop that takes back a busy send and is cut off by a
  crash leaves the row stopping with no child to settle it (`CutOff`); a stop call
  that was claimed and cut off is never made again.

Memory:

- `add()` with an explicit `supersedes` does not look for the active row of its
  key (`store.py:424`), so it may leave two; `OneActivePerKey` excepts these calls;
- a downgrade adds a fact with the knowledge time of the pinned row
  (`review.py:152`), a belief the past did not have in that table; it says then what the pinned row said, and
  `AsOfStable` allows no more;
- `prune()` reads its clock before the transaction that it stamps rows with
  (`store.py:585`), and may wait for it: between the two an as-of answer for the time
  in between may change, and a row may end before it was learned. `AsOfStable` speaks
  of times before the clock any call under way has read (`Horizon`);
- `forget()` reads the chain before the transaction that deletes it
  (`sqlite_backend.py:408`); a row another process adds to the chain in between
  stays, though the docstring (line 399) promises the chain, and a row deleted
  before `history()` comes to it makes the call raise (`store.py:681`, `684`);
- two expires of equal size save the same pending entry. The instance that read
  the first and truncated the log deletes the entry of the second, which was saved
  since and whose text no truncate has seen (`sqlite_backend.py:238-263`, against
  line 230). `mistaken` marks exactly this case in `PendingCoversResidue`, and no
  other: that is proved. A later purge or opening erases the text all the same.

## Proofs

All theorems hold for every value of the constants that satisfies the named
assumptions of the module; TLC evaluates these assumptions on its instances.
No proof trusts a fact TLC found.

| Theorem | States | Argument |
|---|---|---|
| `FileLocksProofs!TypeCorrect` | `[]TypeOK` | inductive as it stands, one step per handler |
| `LeasesDisjoint` | `[]HeldDisjoint` | with `TypeOK`: only `ClaimTakes` adds a held row, and every held row it overlaps is stolen in the same step |
| `GrantedNotWaiting` | `[]NoWaitOnceGranted` | with `TypeOK`: a grant clears the wait row and a granted id never waits again |
| `RunIdsFenced`, `DeadlineRespected`, `TimedOutStaysOut` | `Fenced`, `NeverLostEarly`, `TimeoutIsFinal` | action properties, one step per action, from `TypeOK` |
| `AuditTold` | `AuditMatchesClaims` | action property; the rows of a steal or an expiry are an enumeration of the victims without repeats (`SetToSeqOnce`), so each closed lease has one row |
| `ImplementsLease` | `LeaseSpec` | refinement: the holder of a file is the run with a held row naming it, unique by `HeldDisjoint`; each handler maps to a grant, a loss or a stutter |
| `SharedFileProofs!LockTypeCorrect` | `[]GateTypeOK` | one step per action |
| `HolderKeeps` | `[]HolderKeepsLock` | with `TypeOK`: a file whose owner is in the gate is live, so no inspection clears it, and a publication needs the file free |
| `SameKindExcluded` | `[]SameKindExclusive` | from `HolderKeeps`: a file has one owner |
| `CommandGuarded` | `ChildOutlivesWrapper` | a recorded running command makes the file live; the owner's release follows the command's end |
| `RecordTypeCorrect` | `[]RecordTypeOK` | one step per action, over lemmas about load and commit |
| `BudgetDoubledAtMost` | `[]DispatchesDoubledAtMost` | the file alone is not inductive: every copy in a writer's memory and the tick's snapshot may be written back. `Counted`: each of them counts at least half of what was spent, and leaves one count unused while a worker may still dispatch again, because the worker's own check of the count stops a second loss; `Unsent` and `Sent` say that nobody launches a record twice |
| `QueueTypeCorrect` | `[]TypeOK` | one step per action, over lemmas about appended lines |
| `Durable` | `[]ReportedStays` | an append adds to the lines replay reads and takes none away, and replay is the last row of each commit |
| `ImplementsQueue` | `QueueSpec` | refinement: the queue is what replay reads; a completed call is an entry, a refresh or a leave, a failed one a stutter |
| `PlanLayers` | `IsLayered(Plan(C, head, features), C, head, features)` for any finite set of candidates of different shas | below |
| `PlanCorrect` | `[]PlanIsLayered` | from `PlanLayers`: a row names the sha of its entry (`RowsNameTheirSha`, inductive), so what replay reads is finite and has one entry per sha |
| `NeverAhead` | the docstring of `plan()`: nothing boards over stuck work it overlaps, of two that overlap the higher-ranked one is on an earlier train | from `IsLayered` alone: waves grow along overlapping work |

`PlanLayers` is about what recursive functions compute. The induction theorems of
the library take an operator and cannot be used; `CountUp` states induction as a fact
about a set of numbers (from `LeastNumber`, the well-foundedness of `<`), and each
proof gives it the set of rounds up to which its claim holds. `OrderSorts`: the
boarding order holds each candidate once, after those that precede it, because the
number of candidates before another grows along a strict total order
(`PrecedesIsOrder`, `RankGrows`). `RecursionAlongOrder`, `AgreeAlongOrder`: a rule
that looks only at candidates ahead is met by one function, so `Stuck` and `Wave` are
what they say. `LayeredSoFar` is the loop invariant: after a round the plan is layered
as far as the candidates seen, and the blocked files are those of the stuck ones among
them. It needs that what is seen is all that precedes the next candidate, whose wave
is then the first train after the last one that touches its files (`BoardPlaces`).

`LandingProofs` is about any finite set of lines and any number of trains, repairs,
refused merges and pushes. What the keeper reads in a log was written when a train
failed, maybe several commits of master ago, so `IInv` follows a log from there:

- `OnItsBase`: no repair lands while a train runs. What turns master green between
  the base of a train and its failure is the owner's, or another line's.
- `WaitsForRed`: a good line that waits for the keeper failed on a red commit; if
  master turned green since, no repair turned it, or the incident is still open.
- `OneSort`, `RepairsInIncident`: a repair lands inside its incident, or after it,
  when no line waits any more, so it cannot turn a log's master green unseen.
- `GreenIsOver`: a green suite on this very master has closed the incident, and the
  close took every marker.
- `Waiting`, `Failed`, `ConfirmIsLogged`: the runner waits for the train of its own
  batch, only a line that is refused comes out as failed, a confirmation is of a
  line with a log.

None of them is inductive alone: `WaitsForRed` needs `OneSort` when a repair lands,
`OneSort` needs `GreenIsOver` when an incident ends, and `PendingIsWatched` itself is
what leaves no marker behind that end.

| Theorem | States | Argument |
|---|---|---|
| `LandingProofs!Invariant`, `TypeCorrect` | `[]IInv`, `[]TypeOK` | the parts together, step by step |
| `NoneForgotten` | `[]PendingIsWatched` | a marker is set with the log in hand, and only the end of an incident or the line's own fate takes it |
| `GoodLinesKept` | `InnocentKept` | action property: a good line is quarantined only on a classified log, at a green master with no incident open; `WaitsForRed` says that the owner or another line turned it green |

For `TrainTurnProofs` the invariant `Safe` has six parts beside the types, each
preserved by a lemma with one step per action. `HasOwn`: the head of a train that
has built contains the train. `Passed`: what trains and orphans are about to push
passed the tests of its change from its base. `OneAhead`: a head in the landing is
its base and one train, and bases are of master's past, so that a push git accepts
is made of this very master. `InMaster`: a train that says it landed is on
master. `LocksApart`: no area is locked by two live trains, and a train in the
landing has all the locks it is to hold. The sixth is `ChainKept` itself.

| Theorem | States | Argument |
|---|---|---|
| `TrainTurnProofs!TypeCorrect` | `[]TypeOK` | one step per action |
| `LandsAsTested` | `LandedAsTested` | action property, from `Passed` and `OneAhead`: a push that moves master has the base it was tested from for master, by trains and by orphans of any age |
| `GoodStaysGood` | master is never in `Bad`, for any set of bad commits of which the selected tests see each step from a good one | from `LandsTested`; the hypothesis is what impacted selection would have to guarantee |
| `ChainIsKept` | `[]ChainKept` | a train past its first question was told that its predecessor landed, which `InMaster` makes true; no push takes it off master |
| `OneAtATime` | `[]OneTrainPerArea` | from `LocksApart`: a train in the landing holds all its areas, a web train the web area alone |
| `NothingIsLost` | `NothingLost` | a push needs master in the head |

`MemoryProofs` has an inductive invariant for each of its two modules. For
`MemoryStore`, with any ids, keys and retention, `IInv` adds to the properties
themselves: `LinksGoBack` (a row supersedes one of smaller id, learned no later),
`StatusKnown`, `MarkedPurged` (purged ids lie at or below their mark) and
`WholeChain`. The last is what keeps chains whole across the read of `forget()`: what
it read consists of rows that are still there or gone for ever, and holds with each
row the one it superseded, so a delete takes a chain from its oldest row on whatever
was added, expired or forgotten meanwhile. Expiry does so too, because of
`LinksGoBack`. `WholeChain` says this of every moment of the walk (`WellRead`), and
that the row forget() was asked for is among the rows read or still to come: it is in
every set of rows that has the next one and is closed under the links forward. Said
so, it needs no induction over the walk: a read, an add, a prune and a delete each
keep it (`ReadOn`, `LinkedBefore`, `ReadStays`). A step is classified first by
what it does to a table: it keeps it, adds a row (`Grows`), ends rows (`Marks`) or deletes
rows (`Cuts`); each property is then shown for these four.

| Theorem | States | Argument |
|---|---|---|
| `MemoryProofs!StoreSound`, `StoreTypeCorrect` | `[]IInv`, `[]TypeOK` | the parts together, over the four kinds of steps |
| `NoLooseEnds` | `[]ChainsWhole` | `WholeChain`: the predecessor of a deleted row is deleted with it, and its successor loses the link to it |
| `NeverNamedAgain` | `[]PurgedIdsStayGone` | `MarkedPurged`: a fresh id is above the mark |
| `ForgetErasesItsRow` | `[]ForgetFindsRow` | `WellRead`: no row is left to read, and the empty set is closed under the links |
| `KeysStayUnique` | `OneActivePerKey` | action property: an add that names no row takes the place of the active one with its key |
| `PastStays` | `AsOfStable` | action property: ends and beginnings carry a clock no earlier than `Horizon` (`EndTimes`), a downgrade's fact but the time of its pinned row (`DowngradesBelieved`), and a deleted row is in `purged` |

For `MemoryErasure` the invariant `ErasureIInv` has: the types; `LinesInv` (lines above
the offset are blank exactly when they were forgotten, the others became rows once);
`CopiesInv` (the copies of what an instance is about to delete
are gone); `Numbered` and `NumbersFresh` (a purge between its call and its commit has a
number that no saved or read list has); `Covered` (what an instance is about to
drop is covered by its last truncate, unless the saved purges changed since).

| Theorem | States | Argument |
|---|---|---|
| `MemoryProofs!ErasureTypeCorrect` | `[]ErasureTypeOK` | with the types of the calls |
| `MergedOnce`, `NeverComesBack` | `[]LinesOnce`, `[]ForgottenStays` | `LinesInv`: offset and rows move in one transaction, and a blank line makes no row |
| `NoCopyOutlives` | `[]CopiesBacked` | `CopiesInv`: copies go before their rows, under one exclusive transaction |
| `ResidueIsPending` | `[]PendingCoversResidue` | `NumbersFresh` tells a purge saved later from one that was read, so a drop of something unseen is `mistaken` |

`RunnerExecProofs` proves that the executor's books are sound (`Sound`) until it
ends. `Whole`: the plan of a machine that lives is what it was accepted for, is
running and has queued, each file in one of these places. `Buried`: a failed one
has no plan and no queue. `Apart`: no file is with two machines, be it planned or
accepted. `Kept`: every file is with some machine that may run it. `Whole` and
`Apart` need each other: a shard that moves meets only queues it shares no file
with, and an accepted one was counted nowhere. A second invariant, `Honest`, says what keeps a
broken file from being lost: a report that came back names every broken file of its
shard (`Reported`), and what was accepted took its failures along (`FailuresKept`).

| Theorem | States | Argument |
|---|---|---|
| `RunnerExecProofs!TypeCorrect` | `[]TypeOK` | one step per action, over lemmas about placements and queues |
| `FilesCountedOnce` | `[]EachFileOnce` | `Sound` is kept by every step that does not end the run (`SoundPlans` to `SoundAccepts`), and when nothing is left to run it makes the account whole (`EndsCounted`) |
| `BrokenNoticed` | `[]BrokenNeverPasses` | `Honest`, with `Sound`: a file that is counted was accepted from some machine, and its report with it |

`AgentLoopProofs` is about chains of any length. `LeaseGuardsCourier` does not hold
of the leases alone: whether a close may give a lease back depends on what a visit,
or a worker, read long before. `IInv` has seven parts. `Chain`: no gaps in the
chain, and no copy would queue a dispatched run again. `Sends`: what a worker has
done when it is where it is. `Visits`: what the tick or inspector in progress knows
of the node besides the records it loaded. `Copies`: every record, on disk or in
memory however old, that says a launch failed, a run was closed with proof, or a
result came, says so of a run that can have no courier any more (`Over`) or whose
output is written and its worker past it (`Served`). `OneHeld`: one run holds the
files. `Leases`: a run that has a courier inside its deadline, or a worker that may
still start one (`Dangerous`), holds them. The argument: every step only takes runs
forward (`Forward`), so `Over` and `Served` are stable; a lease is given back only
by runs that are past their deadline, over or served, which `Copies` reads off the
record; and only `TickClaims` takes one, when nobody holds it.

| Theorem | States | Argument |
|---|---|---|
| `AgentLoopProofs!TypeCorrect` | `[]TypeOK` | one step per action |
| `CourierGuarded` | `[]LeaseGuardsCourier` | from `Leases`; the property itself asks for files |
| `OneWorker` | `HasFiles => []OneLiveWorker` | two live workers would both hold the files, against `OneHeld` |
| `NothingBehind` | `HasFiles => NoStartBehindSuccessor` | the last conjunct of `Leases`: a successor is minted only when nobody holds the files, and an unsent worker inside its deadline does |

`OneWorker` and `NothingBehind` have the hypothesis `HasFiles` because the claims
are false without it: a node whose brief names no file takes no lease, and TLC
reaches two live workers (see the observations above). `HasFiles` is a constant of
the node, and the run has it `TRUE`.

`DelegationProofs` is about any plan of ordered tasks and any number of crashes,
stops and resumes in any mixture. What has to hold of a request is spread over its
row, the two processes that work on it and the runs they started, and `IInv` has a
part for each link. `PlanShape`: what is planned in each phase. `ReviewApart`: the
final review is planned when the other targets are finished and sent last, so its
findings meet no step at work. `Sender`, `Owner`:
what the sender and the owner's stop rely on between two of their sections under
the row's lock. `Fresh`: a target that is yet to be sent has a name nothing was
sent under, because a retry, a review and a resume each change the name and a
repair that was taken off the plan is not asked for again; or it is a review with
findings (`Sendable`). `Ordered`: `OrderKept`,
and that a child a stop may still take back has nothing after it at work.
`StopsTell`: under a stop, a running run is being told, or someone still comes to
it. `RowSettled`: the state of the row says what its children are. `ReportOnce`:
once the report is due nothing is left that a resume could take up, so the report
is never reset, and its one name is used once. A step is first classified by what
it may do to one child (`Moves`), to the flight, to the stopper, to the plan, to the
runs and to the report; each part is then shown from those classes.

| Theorem | States | Argument |
|---|---|---|
| `DelegationProofs!Invariant`, `TypeCorrect` | `[]IInv`, `[]TypeOK` | the parts together, step by step |
| `SentOnce` | `[]NeverSentTwice` | `Fresh` and `ReportOnce` at the two calls that send |
| `InOrder` | `[]OrderKept` | `Ordered`; a finished task is reopened only by its review or its repair, when what waits for it is not at work |
| `StopTold` | `[]StopReaches` | `StopsTell`, with sender and stopper at rest; the property is about behaviours without a crash |
| `FinishedStays` | `DoneStays` | action property: of `Moves`, only the findings of a review (`TaskReopened`) take a finished task elsewhere |

Assumptions: the runs are a finite set and `Nobody` is neither a run nor an
owner (`FileLocks`); areas and base kinds differ and `None` is not a process or
a kind (`GateLock`); `AttemptsPerTier` is a positive number (`RunRecord`); see
`MergeQueue` for those on its sets; nobody is a train, ranks of areas differ and
the web area is one (`TrainTurn`); `None` is not an instance
(`MemoryErasure`); the numbers of runs, tiers and attempts of a chain are positive
(`AgentLoop`); planner, reviewer, tasks, repairs and report have names of their own,
each task a repair of its own, and the plan lists each task once (`Delegation`); the
lines are finitely many, and none is called like a repair, "none" or "master"
(`Landing`); `NoKey` is no key, and the clock's bound and the retention are positive
(`MemoryStore`).

## What is only checked and what is not modelled

Liveness under fairness (`EveryLeaseEnds`, `WaitEnds`, `EveryRunSettles`,
`EveryLineSettles`, `EveryTrainEnds`, `PhaseEnds`, `Rests`, `Erased`) and anything about ENABLED
is out of the proof system's reach and stays with TLC. Every invariant and every
action property of the runs has a theorem.

Not modelled: the components listed as such in `PROJECT.json`, each with its
reason. The largest are the team chat, the sender of lanes and the QC desk.
Voice, 3D and CAD share no state between processes. The completion map is left
out because the script that calls `verify_run` when a result is harvested is not
in the repository: what a crash between the verdict (`verify.py:495`) and the mark
leads to cannot be read from it. Known gaps inside the modelled parts:

- agent loop: the legacy channel tick of `dispatch.py`, the inspector's channel
  pauses and requeue count, two nodes competing for files or channels;
- memory store: its other tables, labels and quotas; a clock that goes back; two
  calls of `forget()`, or of `prune()`, that read at the same time;
- landing: which files changed, which tests a change selects and whether they see
  every fault (a landing is not a full-suite proof; `GoodStaysGood` says what it would
  take), how reviews read a change, forge lines, snapshots before a landing and the
  deploy after it; several tests red at a time;
- test phase: the lock a remote run takes on its machine (`scripts/remote_test.py`),
  the durations that choose a placement, the test that a path or a variable may
  leave this Mac;
- delegation: requests that compete for one room, the list of open items, handoffs,
  preconditions, quotas; findings of any review but the final one;
- erasure: half-written tails of an inbox, VACUUM, tombstones of a deleted tenant,
  the report of completed purges.

## Plan

In order of what matters most to the system:

1. `AgentLoop`: a liveness run (every node is verified, escalated or handed to the
   Board) under the fairness of tick and watchdog; the inspector's state file and
   the requeue cap. `Delegation`: two requests that compete for the native room.
2. `Landing` over `TrainTurn`: a refinement that shows the train of the first as
   what the second promises, in place of the chance it is now.
3. The lock of `scripts/remote_test.py`: a directory made over ssh, taken over when
   it is stale, and released by whoever finds its name in it; calls that time out
   after they had their effect.
4. `MemoryStore` and `MemoryErasure` composed, so that forget() of a chain and the
   erasure of its text are one history.
5. The workflow service: remote writes reserved before the call and reconciled when
   their outcome is unknown.
6. Small stores with a lock each (claims, the delivery ledger and its migration,
   approvals, the spend cap): their calls are whole under a lock, so they come
   last.
