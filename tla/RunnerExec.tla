------------------------------ MODULE RunnerExec ------------------------------
(***************************************************************************)
(* src/companion/runner_exec.py: the test files of a train, run on several *)
(* machines at once, with the placement of runner_pool.py and the phase of *)
(* train_pool.py around it.                                                *)
(*                                                                         *)
(* One loop starts an attempt per runner, waits, judges what came back and *)
(* looks at the deadlines; threads run the attempts beside it.  A runner   *)
(* that fails is dead for the rest of the run and its files go to others;  *)
(* the thread of its attempt may still come back late.                     *)
(***************************************************************************)
EXTENDS Integers, FiniteSets, Sequences

CONSTANTS
    Runner,         \* the machines of the registry
    File,           \* the test files of the phase
    MayRun,         \* pairs of a runner and a file it is capable of: can_run()
    Private         \* files that read private data, and may skip themselves

ASSUME MayRunAssumption == MayRun \subseteq Runner \X File
ASSUME FileAssumption == File # {} /\ IsFiniteSet(File)

VARIABLES
    pc,         \* where the loop is
    online,     \* the runners that had free cores when the phase was planned
    plan,       \* the files each runner is to run
    queue,      \* the shards of each runner that were not started
    live,       \* the attempt of each runner, until the loop has judged it
    batch,      \* the attempts wait() returned
    dead,       \* runners that failed
    done,       \* the files of the accepted attempts of each runner
    twice,      \* files that two accepted attempts hold
    failed,     \* files that an accepted attempt, or a discarded one, did not pass
    badExit,    \* an accepted attempt exited nonzero
    verdict,    \* how the phase ended
    broken      \* the files whose tests fail wherever they run

places == <<plan, queue, done, twice>>
marks == <<failed, badExit>>
fixed == <<online, broken>>
vars == <<pc, places, live, batch, dead, marks, verdict, fixed>>

\* What a thread comes back with.
Back == {"zero", "nonzero", "skipped", "lost"}

Idle == [state |-> "idle", paths |-> {}, bad |-> {}]
Started(F) == [state |-> "running", paths |-> F, bad |-> {}]
Attempt == [state : {"idle", "running"} \cup Back,
            paths : SUBSET File, bad : SUBSET File]

\* One attempt per runner at a time; those of dead runners do not count.
Active == {r \in Runner \ dead : live[r].state # "idle"}
Ready == {r \in Runner \ dead : live[r].state = "idle" /\ queue[r] # <<>>}

-----------------------------------------------------------------------------
(* shard() and reassign() of runner_pool.py, for some figures of cost.     *)

\* The ways to give every file of F to one capable runner of R that is online.
Placements(F, R) ==
    {p \in [F -> R \cap online] : \A f \in F : <<p[f], f>> \in MayRun}

Shard(p, r) == {f \in DOMAIN p : p[f] = r}

\* A shard is queued, unless it is empty.
Queued(q, shard) == IF shard = {} THEN q ELSE Append(q, shard)

\* Mutant of Unfinished: the files that were accepted run again elsewhere.
UnfinishedAll(r) == plan[r]

\* Accepted files stay counted where they ran.
Unfinished(r) == plan[r] \ done[r]

Survivors(r) == Runner \ (dead \cup {r})

\* Mutant of FailRunner: the runner stays in and is tried again.
FailRunnerRetried(r) ==
    /\ queue' = [queue EXCEPT ![r] = Queued(@, Unfinished(r))]
    /\ pc' = pc
    /\ UNCHANGED <<plan, done, twice, dead, verdict>>

\* The runner is out, and its whole shard moves to the others, or nowhere: then
\* NoRunner ends the run.
FailRunner(r) ==
    /\ dead' = dead \cup {r}
    /\ UNCHANGED <<done, twice>>
    /\ LET moves == Placements(Unfinished(r), Survivors(r))
       IN  \/ /\ moves = {}
              /\ pc' = "ended" /\ verdict' = "no runner"
              /\ UNCHANGED <<plan, queue>>
           \/ \E p \in moves :
              /\ plan' = [s \in Runner |-> IF s = r THEN {} ELSE plan[s] \cup Shard(p, s)]
              /\ queue' = [s \in Runner |->
                              IF s = r THEN <<>> ELSE Queued(queue[s], Shard(p, s))]
              /\ UNCHANGED <<pc, verdict>>

-----------------------------------------------------------------------------

\* run_pool(): the phase is planned, or no runner can take it and the train
\* goes on to the whole suite of the landing.
Plans ==
    /\ pc = "plans"
    /\ \/ \E p \in Placements(File, Runner) :
            /\ plan' = [r \in Runner |-> Shard(p, r)]
            /\ queue' = [r \in Runner |-> Queued(<<>>, Shard(p, r))]
            /\ pc' = "loop" /\ UNCHANGED verdict
       \/ /\ Placements(File, Runner) = {}
          /\ pc' = "ended" /\ verdict' = "unplaced"
          /\ UNCHANGED <<plan, queue>>
    /\ UNCHANGED <<live, batch, dead, done, twice, marks, fixed>>

\* The top of the loop: every runner without an attempt starts its next shard,
\* which check_dispatch() looks at once more.
Starts ==
    /\ pc = "loop"
    /\ Ready \cup Active # {}
    /\ IF \A r \in Ready : \A f \in Head(queue[r]) : <<r, f>> \in MayRun
       THEN /\ live' = [r \in Runner |->
                   IF r \in Ready THEN Started(Head(queue[r])) ELSE live[r]]
            /\ queue' = [r \in Runner |-> IF r \in Ready THEN Tail(queue[r]) ELSE queue[r]]
            /\ pc' = "waits" /\ UNCHANGED verdict
       ELSE /\ pc' = "ended" /\ verdict' = "forbidden"
            /\ UNCHANGED <<live, queue>>
    /\ UNCHANGED <<plan, done, twice, batch, dead, marks, fixed>>

ComesBack(r, state, bad) ==
    live' = [live EXCEPT ![r] = [state |-> state, paths |-> live[r].paths, bad |-> bad]]

\* The thread of an attempt comes back: with nothing, because the runner was
\* busy, out of reach or killed, or with a result for each file.  A file of
\* private data may say it was skipped.  Where there is no report to read, every
\* file is an error, whatever the exit code.
Finishes(r) ==
    /\ pc # "ended"
    /\ live[r].state = "running"
    /\ LET fails == broken \cap live[r].paths
       IN  \/ ComesBack(r, "lost", {})
           \/ live[r].paths \cap Private # {} /\ ComesBack(r, "skipped", fails)
           \/ \E exit \in {"zero", "nonzero"}, bad \in {fails, live[r].paths} :
                ComesBack(r, exit, bad)
    /\ UNCHANGED <<pc, places, batch, dead, marks, verdict, fixed>>

\* wait() returns what has finished, which may be nothing yet.
Waits ==
    /\ pc = "waits"
    /\ batch' = {r \in Runner : live[r].state \in Back}
    /\ pc' = "judges"
    /\ UNCHANGED <<places, live, dead, marks, verdict, fixed>>

\* The next of the attempts wait() returned.
Judged(r) ==
    /\ pc = "judges" /\ r \in batch
    /\ batch' = batch \ {r}
    /\ live' = [live EXCEPT ![r] = Idle]
    /\ UNCHANGED fixed

\* A late result is never counted, but its failures are kept.
Discards(r) ==
    /\ Judged(r) /\ r \in dead
    /\ failed' = failed \cup live[r].bad
    /\ UNCHANGED <<pc, places, dead, badExit, verdict>>

Loses(r) ==
    /\ Judged(r) /\ r \notin dead
    /\ live[r].state = "lost"
    /\ FailRunner(r)
    /\ UNCHANGED marks

\* _check_shard(): "skip" is no outcome, and ends the run.
Refuses(r) ==
    /\ Judged(r) /\ r \notin dead
    /\ live[r].state = "skipped"
    /\ pc' = "ended" /\ verdict' = "refused"
    /\ UNCHANGED <<places, dead, marks>>

\* Mutant of Accepts: the exit code alone says how the attempt went.
AcceptsByExit(r) ==
    /\ Judged(r) /\ r \notin dead
    /\ live[r].state \in {"zero", "nonzero"}
    /\ done' = [done EXCEPT ![r] = @ \cup live[r].paths]
    /\ twice' = twice \cup (live[r].paths \cap UNION {done[s] : s \in Runner})
    /\ badExit' = (badExit \/ live[r].state = "nonzero")
    /\ UNCHANGED <<pc, plan, queue, dead, failed, verdict>>

Accepts(r) ==
    /\ Judged(r) /\ r \notin dead
    /\ live[r].state \in {"zero", "nonzero"}
    /\ done' = [done EXCEPT ![r] = @ \cup live[r].paths]
    /\ twice' = twice \cup (live[r].paths \cap UNION {done[s] : s \in Runner})
    /\ failed' = failed \cup live[r].bad
    /\ badExit' = (badExit \/ live[r].state = "nonzero")
    /\ UNCHANGED <<pc, plan, queue, dead, verdict>>

\* All are judged, and an attempt is past its deadline, whether its thread has
\* just come back or not.  It is killed, and its result will be late.
TimesOut(r) ==
    /\ pc = "judges" /\ batch = {} /\ r \in Active
    /\ FailRunner(r)
    /\ UNCHANGED <<live, batch, marks, fixed>>

Loops ==
    /\ pc = "judges" /\ batch = {}
    /\ pc' = "loop"
    /\ UNCHANGED <<places, live, batch, dead, marks, verdict, fixed>>

\* account(), and the verdict of the report.
Account ==
    IF twice # {} \/ UNION {done[r] : r \in Runner} # File THEN "miscounted"
    ELSE IF failed = {} /\ ~badExit THEN "pass" ELSE "fail"

\* Nothing is left to start, and no attempt of a runner that lives is out.
Ends ==
    /\ pc = "loop"
    /\ Ready \cup Active = {}
    /\ pc' = "ended" /\ verdict' = Account
    /\ UNCHANGED <<places, live, batch, dead, marks, fixed>>

Init ==
    /\ pc = "plans" /\ verdict = "none"
    /\ online \in SUBSET Runner
    /\ broken \in SUBSET File
    /\ plan = [r \in Runner |-> {}] /\ queue = [r \in Runner |-> <<>>]
    /\ live = [r \in Runner |-> Idle] /\ batch = {} /\ dead = {}
    /\ done = [r \in Runner |-> {}] /\ twice = {}
    /\ failed = {} /\ badExit = FALSE

Judges(r) == Discards(r) \/ Loses(r) \/ Refuses(r) \/ Accepts(r)

Loop == Plans \/ Starts \/ Waits \/ (\E r \in Runner : Judges(r)) \/ Loops \/ Ends

Next == Loop \/ \E r \in Runner : Finishes(r) \/ TimesOut(r)

Spec == Init /\ [][Next]_vars

\* The loop goes on, and time passes: an attempt that does not come back is at
\* some time found past its deadline.
Fairness == WF_vars(Loop) /\ \A r \in Runner : SF_vars(TimesOut(r))

FairSpec == Spec /\ Fairness

-----------------------------------------------------------------------------

TypeOK ==
    /\ pc \in {"plans", "loop", "waits", "judges", "ended"}
    /\ online \subseteq Runner /\ broken \subseteq File
    /\ plan \in [Runner -> SUBSET File] /\ queue \in [Runner -> Seq(SUBSET File)]
    /\ live \in [Runner -> Attempt]
    /\ batch \subseteq Runner /\ dead \subseteq Runner
    /\ done \in [Runner -> SUBSET File]
    /\ twice \subseteq File /\ failed \subseteq File
    /\ badExit \in BOOLEAN
    /\ verdict \in {"none", "unplaced", "no runner", "forbidden", "refused", "miscounted",
                    "pass", "fail"}

\* However runners fail and come back late, the executor never refuses a run
\* for its own placement: no file is counted twice or lost on its way from a
\* failed runner to another, and none goes to a runner it may not run on.
EachFileOnce == verdict \notin {"miscounted", "forbidden"}

\* No failover turns a broken file into a pass.
BrokenNeverPasses == verdict = "pass" => broken = {}

\* Every phase ends, though an attempt may hang for ever.
PhaseEnds == <>(pc = "ended")

=============================================================================
