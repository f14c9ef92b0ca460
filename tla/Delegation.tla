----------------------------- MODULE Delegation -----------------------------
(***************************************************************************)
(* One delegated request of companion/team_delegation.py: a planner answers*)
(* or plans ordered tasks, each task is sent to a teammate once, code built*)
(* by an outside member is reviewed before it counts, a failed step is     *)
(* repaired once, and a last report is posted.  advance() works under the  *)
(* request's flight lock, which a crash frees; status() and stop() edit the*)
(* same row without it.  Every edit of the row is one transaction.         *)
(*                                                                         *)
(* A finished task whose acceptance or follow-ups are unmet is a blocked   *)
(* one; what a review has still to ask reopens the last task of the plan.  *)
(*                                                                         *)
(* Left out: the local lead, the interview, the older plans without orders,*)
(* unavailable members, handoffs and preconditions (waits on something     *)
(* outside the request), and the room's step log.                          *)
(***************************************************************************)
EXTENDS Integers, FiniteSets, Sequences, SequencesExt

CONSTANTS
    Planner, Reviewer, Report,  \* the other targets, and the last report
    Task,
    RepairOf,   \* the target that repairs a task
    TaskSeq,    \* the tasks in the order of the plan
    Order,      \* the step a task belongs to
    Assignee,   \* who does it
    Code,       \* tasks in code mode
    Outside,    \* code tasks of a builder whose build is reviewed (cursor, antigravity)
    Native,     \* the assignees that share the native room
    MaxCrash,   \* bound: crashes of the service
    MaxOwner,   \* bound: the owner's stops and resumes
    Mixed       \* bound: whether a crash and a resume may be of one behaviour

Repair == {RepairOf[t] : t \in Task}
Key == {Planner, Reviewer} \cup Task \cup Repair

ASSUME TaskAssumption ==
    /\ Planner # Reviewer /\ Report \notin Key
    /\ {Planner, Reviewer} \cap (Task \cup Repair) = {} /\ Task \cap Repair = {}
    /\ \A t, u \in Task : RepairOf[t] = RepairOf[u] => t = u
    /\ TaskSeq \in Seq(Task) /\ Range(TaskSeq) = Task /\ IsInjective(TaskSeq)
    /\ Order \in [Task -> Nat] /\ DOMAIN Assignee = Task
    /\ Outside \subseteq Code /\ Code \subseteq Task

ASSUME BoundAssumption == MaxCrash \in Nat /\ MaxOwner \in Nat /\ Mixed \in BOOLEAN

VARIABLES
    state, flow,    \* the row's state and workflow
    targets,        \* what to send, in order
    children,       \* what is known of the sent ones
    stage,          \* whether a task is worked on or its build is reviewed
    retries,        \* how often a target was reset
    repairs, applied,   \* the tasks whose one repair was asked for, and was used
    stopping,       \* stop_requested
    claimed,        \* stop_claimed
    report,         \* the last report
    flight,         \* the process in advance(), under the flight lock
    stopper,        \* the process in stop()
    runs,           \* the runs the teammates really have, by request
    sends,          \* how often each request was sent
    crashes, asked  \* crashes, and stops and resumes, so far

vars == <<state, flow, targets, children, stage, retries, repairs, applied, stopping,
          claimed, report, flight, stopper, runs, sends, crashes, asked>>

row == <<state, flow, targets, children, stage, retries, repairs, applied, stopping,
         claimed, report>>

Absent == [state |-> "none", known |-> FALSE]
Unsent == [at |-> "idle", left |-> <<>>, got |-> "none"]

NoReport == [state |-> "none", known |-> FALSE, stop |-> FALSE, posted |-> 0]
NoStopper == [at |-> "idle", left |-> {}, now |-> Planner]

\* A child is ACTIVE in the code's sense.
Running(c) == c.state \in {"dispatching", "running"}
Failed(c) == c.state \in {"blocked", "decision"}

Init ==
    /\ state = "ready" /\ flow = "planning"
    /\ targets = <<Planner>>
    /\ children = [k \in Key |-> Absent]
    /\ stage = [t \in Task |-> "work"]
    /\ retries = [k \in Key |-> 0]
    /\ repairs = {} /\ applied = {}
    /\ stopping = FALSE /\ claimed = {}
    /\ report = NoReport
    /\ flight = Unsent
    /\ stopper = NoStopper
    /\ runs = << >> /\ sends = << >>
    /\ crashes = 0 /\ asked = 0

\* The identity of what is sent for a target now.
Request(k) == <<k, retries[k], IF k \in Task THEN stage[k] ELSE "work">>
ReportRequest == <<Report, 0, "work">>
LastTask == Last(TaskSeq)

-----------------------------------------------------------------------------
(* What follows from the children: _settle().                              *)

Planned == flow # "planning" /\ flow # "incomplete"

Awaiting(t, ch) == t \in Outside /\ stage[t] = "work" /\ ch[t].state = "completed"

\* Mutant of Done: a finished build counts before its review.
DoneUnreviewed(t, ch) == ch[t].state = "completed"

Done(t, ch) == ch[t].state = "completed" /\ ~Awaiting(t, ch)

FailedTasks(ch) == IF Planned THEN {t \in Task : Failed(ch[t])} ELSE {}
FirstOf(S) == TaskSeq[CHOOSE i \in 1..Len(TaskSeq) :
                          TaskSeq[i] \in S /\ \A j \in 1..(i - 1) : TaskSeq[j] \notin S]

Shows(ch, states) == \E k \in Key : ch[k].state \in states
Active(ch) == Shows(ch, {"dispatching", "running"})

\* The planner failed twice, and its retry is spent.
Skipped(ch) == ~Planned /\ Failed(ch[Planner]) /\ retries[Planner] > 0

\* A failed step of a plan: the repair is on its way, or somebody must act.
FailedState(ch) ==
    LET t == FirstOf(FailedTasks(ch))
        r == ch[RepairOf[t]]
    IN  IF ch[t].state = "decision" THEN "needs_input"
        ELSE IF \/ t \notin repairs \/ Running(r)
                \/ r.state = "completed" /\ t \notin applied THEN "running"
        ELSE "blocked"

Plain(ch, stop) ==
    IF Code # {} /\ Planned /\ Shows(ch, {"uncertain"}) THEN "uncertain"
    ELSE IF Active(ch) THEN (IF stop THEN "stopping" ELSE "running")
    ELSE IF Shows(ch, {"uncertain"}) THEN "uncertain"
    ELSE IF stop THEN "stopped"
    ELSE IF \E k \in Range(targets) : ch[k] = Absent THEN "running"
    ELSE IF Shows(ch, {"blocked", "decision"}) /\ ~Skipped(ch) THEN "blocked"
    ELSE IF Shows(ch, {"stopped"}) THEN "stopped"
    ELSE "completed"

\* A task was stopped, and no known child is left to wait for.
Interrupts(ch) ==
    /\ Planned /\ \E t \in Task : ch[t].state = "stopped"
    /\ ~\E k \in Key : ch[k].known /\ ch[k].state \in {"running", "uncertain"}

Settled(st, ch, stop) ==
    IF st = "dispatching" THEN st
    ELSE IF stop THEN Plain(ch, stop)
    ELSE IF Interrupts(ch) THEN "needs_input"
    ELSE IF Shows(ch, {"uncertain"}) THEN "uncertain"
    ELSE IF FailedTasks(ch) # {} THEN FailedState(ch)
    ELSE IF Planned /\ (\E t \in Task : Awaiting(t, ch)) THEN "running"
    ELSE IF ~Planned /\ ch[Planner].state = "decision" THEN "needs_input"
    ELSE IF ~Planned /\ ch[Planner].state = "blocked"
         THEN (IF Skipped(ch) THEN "blocked" ELSE "running")
    ELSE Plain(ch, stop)

\* The planner's failure after its retry ends the request as incomplete.
SettledFlow(st, ch, stop) ==
    IF st # "dispatching" /\ ~stop /\ flow = "planning" /\ Skipped(ch)
          /\ ch[Planner].state # "decision" THEN "incomplete" ELSE flow

Settles(st, ch) ==
    /\ children' = ch
    /\ state' = Settled(st, ch, stopping)
    /\ flow' = SettledFlow(st, ch, stopping)

\* The targets without those in S (a function, where SelectSeq has no proofs).
Without(S) ==
    LET kept[n \in 0..Len(targets)] ==
            IF n = 0 THEN <<>>
            ELSE IF targets[n] \in S THEN kept[n - 1] ELSE Append(kept[n - 1], targets[n])
    IN  kept[Len(targets)]

Child(k, st, known) == [children EXCEPT ![k] = [state |-> st, known |-> known]]

\* _open_work(): what a review has found is given back to the last task, which
\* fails; the review is taken off the plan, to be asked for again afterwards.
Opened == [children EXCEPT ![Reviewer] = Absent,
                           ![LastTask].state = IF @ = "completed" THEN "blocked" ELSE @]

ReopensLast ==
    /\ children' = Opened
    /\ targets' = Without({Reviewer})
    /\ flow' = "workers"
    /\ state' = Settled(state, Opened, FALSE)

\* The native room: planner, reviewer, repairs, code tasks and the native members.
InRoom(k) == k \in Task \ Code => Assignee[k] \in Native
RoomOf(ch) == {k \in Key : InRoom(k) /\ ch[k].state \in {"dispatching", "running", "uncertain"}}
IndexOf(t) == CHOOSE i \in 1..Len(TaskSeq) : TaskSeq[i] = t

-----------------------------------------------------------------------------
(* advance(), under the flight lock.                                       *)

At(place) == flight.at = place
Goes(place) == flight' = [flight EXCEPT !.at = place]
Frees == flight' = [Unsent EXCEPT !.at = "between"]
Ended == flight' = Unsent

Continuing == state = "completed" /\ flow \in {"planning", "workers", "reviewing"}

ReportDue ==
    /\ FailedTasks(children) = {}
    /\ ~stopping /\ ~report.stop
    /\ ~Shows(children, {"dispatching", "running", "uncertain"})
    /\ \/ state \in {"needs_input", "blocked"}
       \/ state = "completed" /\ flow \in {"reviewed", "incomplete"}

ReportPending ==
    \/ report.state = "none" /\ ReportDue
    \/ report.state \in {"ready", "dispatching", "running"}
    \/ report.state \in {"completed", "blocked", "decision"} /\ report.posted = 0 /\ ~report.stop

\* pending(): the rows the service's worker advances.
Pending ==
    \/ state \in {"ready", "dispatching", "running", "stopping"}
    \/ state \in {"blocked", "needs_input", "uncertain"} /\ Active(children)
    \/ Continuing \/ ReportPending

Begins ==
    /\ At("idle")
    /\ Pending
    /\ Goes(IF state = "dispatching" \/ Shows(children, {"dispatching"}) THEN "interrupted"
            ELSE IF state = "ready" THEN "mark"
            ELSE IF Planned THEN "reviews" ELSE "retries")
    /\ UNCHANGED <<row, stopper, runs, sends, crashes, asked>>

\* Mutant of Interrupted: what was on its way is taken for never sent.
InterruptedReplays ==
    /\ At("interrupted")
    /\ state' = "ready"
    /\ children' = [k \in Key |-> IF children[k].state = "dispatching" THEN Absent ELSE children[k]]
    /\ Frees
    /\ UNCHANGED <<flow, targets, stage, retries, repairs, applied, stopping, claimed, report,
                   stopper, runs, sends, crashes, asked>>

\* Nobody else sends under this lock: what was on its way is uncertain for good.
Interrupted ==
    /\ At("interrupted")
    /\ state' = "uncertain"
    /\ children' = [k \in Key |-> IF Running(children[k])
                                  THEN [children[k] EXCEPT !.state = "uncertain"] ELSE children[k]]
    /\ Frees
    /\ UNCHANGED <<flow, targets, stage, retries, repairs, applied, stopping, claimed, report,
                   stopper, runs, sends, crashes, asked>>

\* _prepare_reviews(): finished builds leave the children, their reviews come next.
PreparesReviews ==
    LET built == {t \in Task : Awaiting(t, children)}
        goes  == Planned /\ ~stopping /\ state # "uncertain" /\ built # {}
    IN  /\ At("reviews")
        /\ Goes("repairs")
        /\ IF goes
           THEN /\ children' = [k \in Key |-> IF k \in built THEN Absent ELSE children[k]]
                /\ stage' = [t \in Task |-> IF t \in built THEN "review" ELSE stage[t]]
                /\ state' = "ready"
           ELSE UNCHANGED <<children, stage, state>>
        /\ UNCHANGED <<flow, targets, retries, repairs, applied, stopping, claimed, report,
                       stopper, runs, sends, crashes, asked>>

\* _reset_task()
Reset(T, gone) ==
    /\ children' = [k \in Key |-> IF k \in T \cup gone THEN Absent ELSE children[k]]
    /\ retries' = [k \in Key |-> IF k \in T THEN retries[k] + 1 ELSE retries[k]]
    /\ stage' = [t \in Task |-> IF t \in T THEN "work" ELSE stage[t]]

\* Mutant of Repairable: nothing remembers that the planner was asked.
RepairableAgain(t) == children[t].state # "decision"

Repairable(t) == children[t].state # "decision" /\ t \notin repairs

\* _repair_tasks(): the planner is asked once for a failed step, and what it
\* answers, when it is of use, is tried once.
RepairsTasks ==
    LET failed == FailedTasks(children)
        t      == FirstOf(failed)
        r      == RepairOf[t]
    IN  /\ At("repairs")
        /\ Goes("continue")
        /\ \/ /\ stopping \/ state = "uncertain" \/ failed = {}
              /\ UNCHANGED row
           \/ /\ ~stopping /\ state # "uncertain" /\ failed # {}
              /\ \/ /\ \/ children[t].state = "decision"
                       \/ t \in repairs /\ (children[r].state # "completed" \/ t \in applied)
                    /\ UNCHANGED row
                 \/ /\ Repairable(t)
                    /\ repairs' = repairs \cup {t}
                    /\ targets' = Append(targets, r)
                    /\ state' = "ready"
                    /\ UNCHANGED <<flow, children, stage, retries, applied, stopping, claimed, report>>
                 \/ /\ children[t].state # "decision" /\ t \in repairs \ applied
                    /\ children[r].state = "completed"
                    /\ applied' = applied \cup {t}
                    /\ \E useful \in BOOLEAN :
                       IF useful THEN Reset({t}, {}) /\ state' = "ready"
                       ELSE /\ state' = "blocked"
                            /\ UNCHANGED <<children, retries, stage>>
                    /\ UNCHANGED <<flow, targets, repairs, stopping, claimed, report>>
        /\ UNCHANGED <<stopper, runs, sends, crashes, asked>>

\* _retry_children(): the planner itself is retried once.
RetriesChildren ==
    LET goes == /\ ~Planned /\ ~stopping /\ state \notin {"uncertain", "needs_input"}
                /\ children[Planner].state = "blocked" /\ retries[Planner] = 0
    IN  /\ At("retries")
        /\ Goes("continue")
        /\ IF goes THEN Reset({Planner}, {}) /\ state' = "ready"
           ELSE UNCHANGED <<children, retries, stage, state>>
        /\ UNCHANGED <<flow, targets, repairs, applied, stopping, claimed, report,
                       stopper, runs, sends, crashes, asked>>

\* _continue(): the next phase of the request.
Sending == IF state' = "ready" THEN [flight EXCEPT !.at = "mark"]
           ELSE [Unsent EXCEPT !.at = "between"]

Phase(nextState, nextFlow, added) ==
    /\ state' = nextState /\ flow' = nextFlow
    /\ targets' = targets \o added

Continues ==
    LET more  == /\ state = "running" /\ \E k \in Range(targets) : children[k] = Absent
                 /\ (Planned /\ Code # {}) \/ RoomOf(children) = {}
        still == stopping \/ state \notin {"running", "completed"}
    IN  /\ At("continue")
        /\ \/ (still \/ (state = "running" /\ ~more) \/ (state = "completed" /\ ~Continuing))
              /\ UNCHANGED <<state, flow, targets>>
           \/ ~still /\ more /\ Phase("ready", flow, <<>>)
           \/ /\ ~still /\ Continuing
              /\ \/ flow = "planning" /\ (\/ Phase("completed", "answered", <<>>)
                                          \/ Phase("ready", "workers", TaskSeq)
                                          \/ Phase("blocked", flow, <<>>))
                 \/ /\ flow = "workers"
                    /\ IF Code = {} THEN Phase("completed", "answered", <<>>)
                       ELSE IF Code = Task THEN Phase("completed", "reviewed", <<>>)
                       ELSE \/ Phase("ready", "reviewing", <<Reviewer>>)
                            \/ Phase("blocked", flow, <<>>)
                 \/ flow = "reviewing" /\ (\/ Phase("completed", "reviewed", <<>>)
                                           \/ Phase("blocked", flow, <<>>))
        /\ flight' = Sending
        /\ UNCHANGED <<children, stage, retries, repairs, applied, stopping, claimed, report,
                       stopper, runs, sends, crashes, asked>>

Marks ==
    /\ At("mark")
    /\ IF stopping \/ state # "ready"
       THEN Frees /\ UNCHANGED state
       ELSE /\ state' = "dispatching"
            /\ flight' = [Unsent EXCEPT !.at = "loop", !.left = targets]
    /\ UNCHANGED <<flow, targets, children, stage, retries, repairs, applied, stopping, claimed,
                   report, stopper, runs, sends, crashes, asked>>

\* The next target waits: for earlier steps, or for the native room.
Before(u, t) ==
    \/ Order[u] < Order[t]
    \/ Order[u] = Order[t] /\ Assignee[u] = Assignee[t] /\ IndexOf(u) < IndexOf(t)
TooEarly(k) == k \in Task /\ \E u \in Task \ {k} : Before(u, k) /\ ~Done(u, children)
RoomTaken(k) ==
    /\ InRoom(k)
    /\ \E j \in RoomOf(children) : ~(k \in Code /\ j \in Code /\ children[j].state # "uncertain")

Waits(k) ==
    \/ children[k] # Absent
    \/ FailedTasks(children) # {} /\ k \notin Repair
    \/ TooEarly(k)
    \/ RoomTaken(k)

Next1 == Head(flight.left)
Passed == [flight EXCEPT !.at = "loop", !.left = Tail(@), !.got = "none"]
Broken == [Unsent EXCEPT !.at = "loop"]

Picks ==
    /\ At("loop")
    /\ flight.left # <<>>
    /\ \/ stopping /\ flight' = Broken /\ UNCHANGED children
       \/ ~stopping /\ Waits(Next1) /\ flight' = Passed /\ UNCHANGED children
       \/ /\ ~stopping /\ ~Waits(Next1)
          /\ children' = Child(Next1, "dispatching", FALSE)
          /\ flight' = [flight EXCEPT !.at = "send"]
    /\ UNCHANGED <<state, flow, targets, stage, retries, repairs, applied, stopping, claimed,
                   report, stopper, runs, sends, crashes, asked>>

\* submit(): the teammate has the request, or certainly not, or nobody knows.
Put(f, r, v) == [x \in DOMAIN f \cup {r} |-> IF x = r THEN v ELSE f[x]]
Sent(r) == IF r \in DOMAIN sends THEN sends[r] ELSE 0

\* The room answers a request it has had with the run it has for it.
Delivers(r) == /\ sends' = Put(sends, r, Sent(r) + 1)
               /\ runs' = IF r \in DOMAIN runs THEN runs ELSE Put(runs, r, "running")

Submits(got) ==
    /\ At("send")
    /\ \/ got \in {"accepted", "unknown"} /\ Delivers(Request(Next1))
       \/ got \in {"unknown", "busy", "blocked"} /\ UNCHANGED <<sends, runs>>
    /\ flight' = [flight EXCEPT !.at = "write", !.got = got]
    /\ UNCHANGED <<row, stopper, crashes, asked>>

\* Mutant of Accepted: the sender does not look for a stop.
AcceptedGoesOn == Passed

\* The stop came while this target was being sent: its sender stops it.
Accepted == IF stopping THEN [flight EXCEPT !.at = "stops"] ELSE Passed

Writes ==
    LET k == Next1
    IN  /\ At("write")
        /\ CASE flight.got = "accepted" ->
                   /\ children' = Child(k, "running", TRUE)
                   /\ flight' = Accepted
                   /\ UNCHANGED state
             [] flight.got = "busy" ->
                   /\ children' = [children EXCEPT ![k] = Absent]
                   /\ flight' = [Broken EXCEPT !.got = "busy"]
                   /\ UNCHANGED state
             [] flight.got = "blocked" ->
                   /\ children' = Child(k, "blocked", FALSE)
                   /\ flight' = IF k \in Code THEN Broken ELSE Passed
                   /\ UNCHANGED state
             [] OTHER ->
                   /\ children' = Child(k, "uncertain", FALSE)
                   /\ state' = "uncertain"
                   /\ flight' = Broken
        /\ UNCHANGED <<flow, targets, stage, retries, repairs, applied, stopping, claimed, report,
                       stopper, runs, sends, crashes, asked>>

SenderStops ==
    /\ At("stops")
    /\ claimed' = claimed \cup {Next1}
    /\ flight' = IF Next1 \in claimed THEN Broken ELSE [flight EXCEPT !.at = "calls"]
    /\ UNCHANGED <<state, flow, targets, children, stage, retries, repairs, applied, stopping,
                   report, stopper, runs, sends, crashes, asked>>

\* child_stop(): the run is told to stop, or nobody knows.
Told(r) == runs' = [runs EXCEPT ![r] = IF @ = "running" THEN "stopping" ELSE @]
Unconfirmed(k) == Settles(state, Child(k, "uncertain", children[k].known))

SenderCalls ==
    /\ At("calls")
    /\ flight' = Broken
    /\ \/ Told(Request(Next1)) /\ UNCHANGED <<state, flow, children>>
       \/ Unconfirmed(Next1) /\ UNCHANGED runs
    /\ UNCHANGED <<targets, stage, retries, repairs, applied, stopping, claimed, report,
                   stopper, sends, crashes, asked>>

Ends ==
    /\ At("loop")
    /\ flight.left = <<>>
    /\ Settles(IF state = "dispatching" THEN "running" ELSE state, children)
    /\ Frees
    /\ UNCHANGED <<targets, stage, retries, repairs, applied, stopping, claimed, report,
                   stopper, runs, sends, crashes, asked>>

-----------------------------------------------------------------------------
(* _advance_report(), under the lock once more.                            *)

Reported(st) == report' = [report EXCEPT !.state = st]
StopsAll == stopping \/ report.stop

\* A mixed plan's review is the report: it is not asked for twice.
NewReport == IF children[Reviewer] = Absent THEN [report EXCEPT !.state = "ready"]
             ELSE [report EXCEPT !.state = children[Reviewer].state, !.known = TRUE]

\* Mutant of Abandoned: the report is left as it is.
AbandonedNever(now) == FALSE

\* A report that was being sent when its sender died.
Abandoned(now) == now.state = "dispatching"

ReportBegins ==
    LET now == IF report.state = "none" THEN NewReport ELSE report
    IN  /\ At("between")
        /\ IF ~ReportPending THEN Ended /\ UNCHANGED report
           ELSE CASE Abandoned(now) ->
                       report' = [now EXCEPT !.state = "uncertain"] /\ Ended
                  [] now.state = "ready" /\ StopsAll ->
                       report' = [now EXCEPT !.state = "stopped"] /\ Ended
                  [] now.state = "ready" /\ ~StopsAll ->
                       report' = [now EXCEPT !.state = "dispatching"] /\ Goes("reportsend")
                  [] now.state = "running" -> report' = now /\ Goes("reportpoll")
                  [] OTHER -> report' = now /\ (IF StopsAll THEN Ended ELSE Goes("publish"))
        /\ UNCHANGED <<state, flow, targets, children, stage, retries, repairs, applied, stopping,
                       claimed, stopper, runs, sends, crashes, asked>>

ReportSends(got) ==
    /\ At("reportsend")
    /\ \/ got \in {"accepted", "unknown"} /\ Delivers(ReportRequest)
       \/ got \in {"unknown", "busy"} /\ UNCHANGED <<sends, runs>>
    /\ flight' = [flight EXCEPT !.at = "reportwrite", !.got = got]
    /\ UNCHANGED <<row, stopper, crashes, asked>>

ReportWrites ==
    /\ At("reportwrite")
    /\ report' = [report EXCEPT !.state = CASE flight.got = "accepted" -> "running"
                                            [] flight.got = "busy" -> "ready"
                                            [] OTHER -> "uncertain",
                                !.known = flight.got = "accepted"]
    /\ IF StopsAll THEN Goes("reportstops") ELSE Ended
    /\ UNCHANGED <<state, flow, targets, children, stage, retries, repairs, applied, stopping,
                   claimed, stopper, runs, sends, crashes, asked>>

\* _stop_report(): the report is not posted, and its run is told to stop once.
StopsReport(ok) ==
    LET tells == /\ report.known /\ report.posted = 0 /\ Report \notin claimed
                 /\ report.state \in {"running", "uncertain"}
    IN  /\ claimed' = IF tells THEN claimed \cup {Report} ELSE claimed
        /\ report' = [report EXCEPT !.stop = TRUE,
                                    !.state = IF tells /\ ~ok THEN "uncertain" ELSE @]
        /\ IF tells /\ ok THEN Told(ReportRequest) ELSE UNCHANGED runs

SenderStopsReport(ok) ==
    /\ At("reportstops")
    /\ StopsReport(ok)
    /\ Ended
    /\ UNCHANGED <<state, flow, targets, children, stage, retries, repairs, applied, stopping,
                   stopper, sends, crashes, asked>>

Result(r) == IF runs[r] \in {"running", "stopping"} THEN "running" ELSE runs[r]

ReportPolls(seen) ==
    /\ At("reportpoll")
    /\ seen \in {Result(ReportRequest), "uncertain"}
    /\ IF report.state = "running" THEN Reported(seen) ELSE UNCHANGED report
    /\ Goes("publish")
    /\ UNCHANGED <<state, flow, targets, children, stage, retries, repairs, applied, stopping,
                   claimed, stopper, runs, sends, crashes, asked>>

Publishable == report.state \in {"completed", "blocked", "decision"}
Publishes ==
    /\ At("publish")
    /\ report' = IF StopsAll \/ report.posted > 0 \/ ~Publishable THEN report
                 ELSE [report EXCEPT !.posted = @ + 1]
    /\ Ended
    /\ UNCHANGED <<state, flow, targets, children, stage, retries, repairs, applied, stopping,
                   claimed, stopper, runs, sends, crashes, asked>>

-----------------------------------------------------------------------------
(* The teammates, status(), stop() and resume().                           *)

RunEnds(r, result) ==
    /\ r = ReportRequest => result \in {"completed", "stopped"}     \* any other is posted too
    /\ result = "findings" => r[1] = Reviewer      \* whatever its verdict, with follow-ups
    /\ \/ runs[r] = "running" /\ result # "stopped"
       \/ runs[r] = "stopping" /\ result \in {"stopped", "completed", "findings"}
    /\ runs' = [runs EXCEPT ![r] = result]
    /\ UNCHANGED <<row, flight, stopper, sends, crashes, asked>>

\* One child's status, by whoever asks; the edit takes it only for the same run.
Polls(k, seen) ==
    /\ children[k].known /\ children[k].state = "running"
    /\ seen \in {Result(Request(k)), "uncertain"}
    /\ Settles(state, Child(k, seen, TRUE))
    /\ UNCHANGED <<targets, stage, retries, repairs, applied, stopping, claimed, report,
                   flight, stopper, runs, sends, crashes, asked>>

\* The status of a review with findings: after the owner's stop they go nowhere.
PollsFindings ==
    /\ children[Reviewer].known /\ children[Reviewer].state = "running"
    /\ Request(Reviewer) \in DOMAIN runs /\ runs[Request(Reviewer)] = "findings"
    /\ \/ /\ stopping /\ UNCHANGED targets
          /\ \E seen \in {"completed", "blocked"} : Settles(state, Child(Reviewer, seen, TRUE))
       \/ ~stopping /\ Task # {} /\ ReopensLast
    /\ UNCHANGED <<stage, retries, repairs, applied, stopping, claimed, report,
                   flight, stopper, runs, sends, crashes, asked>>

Stoppable == ~(/\ state \in {"completed", "stopped", "blocked"}
               /\ ~Continuing /\ ~Active(children) /\ FailedTasks(children) = {})

\* stop(): the report first, then the row, then every child that runs.
Stop(ok) ==
    /\ asked < MaxOwner
    /\ stopper.at = "idle"
    /\ asked' = asked + 1
    /\ StopsReport(ok)
    /\ stopper' = [stopper EXCEPT !.at = "marks"]
    /\ UNCHANGED <<state, flow, targets, children, stage, retries, repairs, applied, stopping,
                   flight, sends, crashes>>

StopperMarks ==
    /\ stopper.at = "marks"
    /\ IF Stoppable
       THEN /\ stopping' = TRUE
            /\ state' = Settled("stopping", children, TRUE)
            /\ stopper' = [stopper EXCEPT !.at = "reads"]
       ELSE stopper' = NoStopper /\ UNCHANGED <<stopping, state>>
    /\ UNCHANGED <<flow, targets, children, stage, retries, repairs, applied, claimed, report,
                   flight, runs, sends, crashes, asked>>

StopperReads ==
    /\ stopper.at = "reads"
    /\ stopper' = [stopper EXCEPT !.at = "claims",
                                  !.left = {k \in Key : /\ children[k].known
                                                        /\ children[k].state \in {"running", "uncertain"}}]
    /\ UNCHANGED <<row, flight, runs, sends, crashes, asked>>

StopperClaims(k) ==
    /\ stopper.at = "claims"
    /\ k \in stopper.left
    /\ claimed' = claimed \cup {k}
    /\ stopper' = [stopper EXCEPT !.left = @ \ {k},
                                  !.at = IF k \in claimed THEN @ ELSE "calls",
                                  !.now = IF k \in claimed THEN @ ELSE k]
    /\ UNCHANGED <<state, flow, targets, children, stage, retries, repairs, applied, stopping,
                   report, flight, runs, sends, crashes, asked>>

StopperCalls(ok) ==
    /\ stopper.at = "calls"
    /\ stopper' = [stopper EXCEPT !.at = "claims", !.now = Planner]
    /\ IF ok THEN Told(Request(stopper.now)) /\ UNCHANGED <<state, flow, children>>
       ELSE Unconfirmed(stopper.now) /\ UNCHANGED runs
    /\ UNCHANGED <<targets, stage, retries, repairs, applied, stopping, claimed, report,
                   flight, sends, crashes, asked>>

StopperEnds ==
    /\ stopper.at = "claims"
    /\ stopper.left = {}
    /\ stopper' = NoStopper
    /\ UNCHANGED <<row, flight, runs, sends, crashes, asked>>

\* Mutant of ToResume: the whole plan is.
ToResumeAll == Task

ToResume == FailedTasks(children)

\* resume(): the failed steps are tried again, without a new repair.
Resume ==
    LET failed == ToResume
        gone   == {RepairOf[t] : t \in failed}
    IN  /\ asked < MaxOwner /\ (Mixed \/ crashes = 0)      \* bound
        /\ At("idle") \/ At("between")
        /\ Planned
        /\ state \in {"blocked", "needs_input", "completed"} /\ ~Continuing
        /\ ~stopping
        /\ ~Shows(children, {"dispatching", "running", "uncertain"})
        /\ report.state \notin {"dispatching", "running"}
        /\ failed # {}
        /\ asked' = asked + 1
        /\ Reset(failed, gone)
        /\ targets' = Without({k \in gone : children[k] # Absent})
        /\ repairs' = repairs \cup failed /\ applied' = applied \cup failed
        /\ report' = [report EXCEPT !.state = "none", !.known = FALSE]
        /\ state' = "ready" /\ flow' = "workers"
        /\ UNCHANGED <<stopping, claimed, flight, stopper, runs, sends, crashes>>

\* The service dies, and its worker begins again.
Crash ==
    /\ crashes < MaxCrash
    /\ Mixed \/ asked = 0 \/ stopping \/ stopper.at # "idle"     \* bound: not of a resumed request
    /\ flight # Unsent \/ stopper.at # "idle"
    /\ crashes' = crashes + 1
    /\ flight' = Unsent
    /\ stopper' = NoStopper
    /\ UNCHANGED <<row, runs, sends, asked>>

Sends == \E got \in {"accepted", "unknown", "busy", "blocked"} : Submits(got)
SendsReport == \E got \in {"accepted", "unknown", "busy"} : ReportSends(got)

Flight ==
    \/ Begins \/ Interrupted \/ PreparesReviews \/ RepairsTasks \/ RetriesChildren \/ Continues
    \/ Marks \/ Picks \/ Sends \/ Writes \/ SenderStops \/ SenderCalls \/ Ends
    \/ ReportBegins \/ SendsReport \/ ReportWrites \/ Publishes
    \/ (\E seen \in {"running", "completed", "blocked", "decision", "stopped", "uncertain"} :
           ReportPolls(seen))
    \/ \E ok \in BOOLEAN : SenderStopsReport(ok)

Poll == \E k \in Key,
           seen \in {"running", "completed", "blocked", "decision", "stopped", "uncertain"} :
            Polls(k, seen)

Stopper ==
    \/ StopperMarks \/ StopperReads \/ StopperEnds
    \/ (\E k \in Key : StopperClaims(k)) \/ (\E ok \in BOOLEAN : StopperCalls(ok))

RunsEnd ==
    \E r \in DOMAIN runs :
        \E result \in {"completed", "findings", "blocked", "decision", "stopped"} : RunEnds(r, result)

Next == Flight \/ Poll \/ PollsFindings \/ RunsEnd \/ (\E ok \in BOOLEAN : Stop(ok)) \/ Stopper \/ Resume \/ Crash

Spec == Init /\ [][Next]_vars

\* Home's worker goes on advancing what is pending, runs end (the teammates time
\* out), and a status answer comes.
Answers ==
    \/ PollsFindings
    \/ \E k \in Key : /\ Request(k) \in DOMAIN runs
                      /\ Result(Request(k)) \notin {"running", "findings"}
                      /\ Polls(k, Result(Request(k)))

Fairness == WF_vars(Flight) /\ WF_vars(Stopper) /\ WF_vars(RunsEnd) /\ WF_vars(Answers)

FairSpec == Spec /\ Fairness

-----------------------------------------------------------------------------
(* Properties.                                                             *)

States == {"ready", "running", "dispatching", "stopping", "uncertain", "needs_input",
           "blocked", "completed", "stopped"}
ChildStates == {"none", "dispatching", "running", "completed", "blocked", "decision",
                "stopped", "uncertain"}

Places == {"idle", "interrupted", "reviews", "repairs", "retries", "continue", "mark", "loop",
           "send", "write", "stops", "calls", "between", "reportsend", "reportwrite",
           "reportstops", "reportpoll", "publish"}
Got == {"none", "accepted", "unknown", "busy", "blocked"}
RunStates == {"running", "stopping", "completed", "findings", "blocked", "decision", "stopped"}
Requests == (Key \cup {Report}) \X Nat \X {"work", "review"}

\* A child that was accepted has an identity, and what is known is known of a target.
ChildrenType(ch, sent) ==
    /\ ch \in [Key -> [state: ChildStates, known: BOOLEAN]]
    /\ \A k \in Key : /\ ch[k].state \in {"running", "completed"} => ch[k].known
                      /\ ch[k].state = "none" => ch[k] = Absent
                      /\ ch[k] # Absent => k \in Range(sent)

RowType ==
    /\ state \in States
    /\ flow \in {"planning", "workers", "reviewing", "reviewed", "answered", "incomplete"}
    /\ targets \in Seq(Key) /\ IsInjective(targets)
    /\ ChildrenType(children, targets)
    /\ stage \in [Task -> {"work", "review"}] /\ retries \in [Key -> Nat]
    /\ applied \subseteq repairs /\ repairs \subseteq Task
    /\ stopping \in BOOLEAN /\ claimed \subseteq Key \cup {Report}
    /\ report \in [state: ChildStates \cup {"ready"}, known: BOOLEAN, stop: BOOLEAN, posted: 0..1]

\* Only a sender in its loop has targets left.
ProcessType ==
    /\ flight \in [at: Places, left: Seq(Key), got: Got]
    /\ Range(flight.left) \subseteq Range(targets)
    /\ flight.at \notin {"loop", "send", "write", "stops", "calls"} => flight.left = <<>>
    /\ flight.at \in {"send", "write", "stops", "calls"} => flight.left # <<>>
    /\ stopper \in [at: {"idle", "marks", "reads", "claims", "calls"}, left: SUBSET Key, now: Key]

RunsType ==
    /\ DOMAIN runs = DOMAIN sends /\ DOMAIN runs \subseteq Requests
    /\ \A r \in DOMAIN runs : runs[r] \in RunStates /\ sends[r] \in Nat
    /\ crashes \in Nat /\ asked \in Nat

\* Types, and what every reader of the row relies on.
TypeOK == RowType /\ ProcessType /\ RunsType

\* Nothing is asked for twice under one name, whatever was cut off, repaired or
\* resumed, but a review that had findings ("an abandoned dispatch is uncertain,
\* never replayed").
NeverSentTwice ==
    \A r \in DOMAIN sends : sends[r] <= 1 \/ (r[1] = Reviewer /\ runs[r] = "findings")

\* A step is with a teammate only when the steps before it are finished, an
\* outside member's build by its review, however polls fall between the sends,
\* and though a review reopens a step that others came after.
OrderKept ==
    \A t \in Task, u \in Task :
        Before(u, t) /\ children[t].state \in {"dispatching", "running"} =>
            children[u].state = "completed" /\ (u \in Outside => stage[u] = "review")

\* When the owner's stop and the sender are through, no run of a child that is
\* shown as running is left untold, one sent while the stop came included.
StopReaches ==
    stopping /\ crashes = 0 /\ stopper.at = "idle" =>
        \A k \in Key : children[k].state = "running" =>
            \/ runs[Request(k)] # "running"
            \/ flight.at \in {"stops", "calls"} /\ Next1 = k

\* Only the findings of a review undo a finished step, and only the last of the
\* plan: no repair, retry or resume of others does it again.
Reopened(t) == /\ t = LastTask /\ children'[t].state = "blocked"
               /\ children[Reviewer].state = "running" /\ runs[Request(Reviewer)] = "findings"
DoneStays ==
    [][\A t \in Task : Done(t, children) =>
           children'[t].state \in {"completed", "uncertain"} \/ Reopened(t)]_vars

\* Every request comes to rest again, after a crash or a stop too, or finds the
\* room busy: nothing advances for ever, and nothing waits for a sender that is
\* gone.  Except one: a stop that takes back a busy send and is cut off by a crash
\* leaves the row stopping, with no child to settle it (the owner must stop again).
CutOff == crashes > 0 /\ state = "stopping"
Rests == []<>(~Pending \/ flight.got = "busy" \/ CutOff)
=============================================================================
