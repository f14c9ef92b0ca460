--------------------------- MODULE DelegationProofs ---------------------------
(***************************************************************************)
(* Theorems about Delegation, for any plan of tasks, any number of crashes *)
(* and of stops and resumes of the owner, in any mixture.                  *)
(*                                                                         *)
(* What has to hold of a request is spread over the row, the processes that*)
(* work on it (the sender of the flight, the owner's stop) and the runs    *)
(* they started.  The invariant has one part for each link between them:   *)
(*                                                                         *)
(*   PlanShape    what is planned in each phase of the workflow            *)
(*   Sender,      what the two processes rely on between two of their      *)
(*   Owner        sections under the row's lock                            *)
(*   ReviewApart  the review comes when all else is finished, and is sent  *)
(*                last                                                     *)
(*   Fresh        what is yet to be sent has a name nothing was sent under *)
(*   Ordered      the order of the steps, and that a child a stop may take *)
(*                back has nothing after it at work                        *)
(*   StopsTell    under a stop a running run is told, or someone comes     *)
(*   RowSettled   the state of the row says what its children are          *)
(*   ReportOnce   the report comes last and is sent under one name         *)
(*                                                                         *)
(* A step is first classified by what it may do to one child (Moves), to   *)
(* the flight, the stopper, the plan, the runs and the report; each part   *)
(* is then shown from the classes, not from the forty actions.             *)
(***************************************************************************)
EXTENDS Delegation, TLAPS, NaturalsInduction, WellFoundedInduction, SequenceTheorems

\* The plan: what is planned at each phase, and which repairs were asked for.
PlanShape ==
    /\ flow \in {"planning", "incomplete"} => targets = <<Planner>>
    /\ flow \in {"workers", "reviewing", "reviewed"} => Task \subseteq Range(targets)
    /\ Reviewer \in Range(targets) => flow \in {"reviewing", "reviewed"}
    /\ \A t \in Task : RepairOf[t] \in Range(targets) => t \in repairs
    /\ ~stopping /\ flow \in {"reviewing", "reviewed", "answered"} =>
          \A t \in Task : t \in Range(targets) => Done(t, children)

\* A sender calls for what the row shows as dispatching, and stops what it knows.
Sender ==
    /\ flight.at \in {"send", "write"} => children[Next1].state = "dispatching"
    /\ \A k \in Key : children[k].state = "dispatching" => ~children[k].known
    /\ flight.at \in {"stops", "calls"} => stopping /\ children[Next1].known

\* The review is asked for when all other targets are finished, and is sent last.
ReviewApart ==
    /\ IsInjective(flight.left)
    /\ ~stopping /\ Reviewer \in Range(targets) =>
          /\ \A k \in Range(targets) \ {Reviewer} : children[k].state = "completed"
          /\ state = "ready" => children[Reviewer] = Absent
    /\ ~stopping /\ Reviewer \in Range(flight.left) =>
          \/ children[Reviewer] = Absent
          \/ /\ flight.at \in {"send", "write"} /\ Next1 = Reviewer
             /\ children[Reviewer].state = "dispatching"

\* The children the owner's stop has read and is still to tell.
Reached == IF stopper.at = "calls" THEN stopper.left \cup {stopper.now}
           ELSE IF stopper.at = "claims" THEN stopper.left ELSE {}

\* The stop calls only what it knows, after the row was marked as stopping.
Owner ==
    /\ stopper.at \in {"reads", "claims", "calls"} => stopping
    /\ \A k \in Reached : children[k].known
    /\ \A k \in claimed \cap Key : stopping /\ children[k].known

\* A name that is past: of an earlier try, or of the work before the review; and a
\* repair that a resume took off the plan.
Old(r) ==
    \E k \in Key : /\ r[1] = k /\ r[2] <= retries[k]
                   /\ r[2] = retries[k] /\ r[3] = "review" => k \in Task /\ stage[k] = "review"
Retired(k) == k \notin Range(targets) /\ \E t \in repairs : k = RepairOf[t]
NotSent(r) == r \notin DOMAIN sends

\* A review that had findings is asked for again under the name it had.
Found(r) == r[1] = Reviewer /\ r \in DOMAIN runs /\ runs[r] = "findings"
Sendable(r) == NotSent(r) \/ Found(r)

\* No other call that is yet to be made has a name that was used.
Fresh ==
    /\ \A r \in DOMAIN sends : r = ReportRequest \/ Old(r)
    /\ \A k \in Key : children[k] = Absent /\ ~Retired(k) => Sendable(Request(k))
    /\ flight.at = "send" \/ (flight.at = "write" /\ flight.got = "busy") =>
          Sendable(Request(Next1))

\* No step that waits for k is with a teammate.
Quiet(k) == \A t \in Task : k \in Task /\ Before(k, t) =>
                children[t].state \notin {"dispatching", "running"}
Ordered ==
    /\ OrderKept
    /\ \A k \in Reached : Quiet(k)
    /\ flight.at \in {"stops", "calls"} => Quiet(Next1)

\* The sender or the stopper is telling k's run, or has still to come to it.
Calling(k) == \/ At("calls") /\ Next1 = k
              \/ stopper.at = "calls" /\ stopper.now = k
ToCome(k) == \/ At("stops") /\ Next1 = k
             \/ stopper.at = "reads"
             \/ k \in Reached
\* Nothing is stopped before the owner's stop.
NoneStopped ==
    /\ \A k \in Key : children[k].state # "stopped"
    /\ \A r \in DOMAIN runs : r # ReportRequest => runs[r] \notin {"stopping", "stopped"}

StopsTell ==
    /\ \A k \in Key : children[k].state = "running" => Request(k) \in DOMAIN runs
    /\ At("write") /\ flight.got = "accepted" => Request(Next1) \in DOMAIN runs
    /\ stopping /\ crashes = 0 =>
          \A k \in Key : children[k].state = "running" /\ runs[Request(k)] = "running" =>
              Calling(k) \/ (k \notin claimed /\ ToCome(k))
    /\ ~stopping => NoneStopped

\* All that was asked is over, and nothing is left that a resume could take up.
Closed ==
    /\ ~Shows(children, {"dispatching", "running", "uncertain"})
    /\ state \in {"blocked", "needs_input", "completed"}
    /\ state = "completed" => flow \in {"reviewed", "incomplete"}
    /\ FailedTasks(children) = {}

AllDone == state = "completed" => \A k \in Range(targets) : children[k].state = "completed"
NothingLeft ==
    state \in {"completed", "blocked", "needs_input"} /\ FailedTasks(children) = {} =>
        /\ Planned => \A t \in Task : ~Awaiting(t, children)
        /\ ~Planned /\ children[Planner].state = "blocked" /\ state # "needs_input" =>
              retries[Planner] > 0
RowSettled ==
    /\ ~stopping /\ At("interrupted") => state = "dispatching" \/ Shows(children, {"dispatching"})
    /\ ~stopping /\ flight.at \in {"loop", "send", "write"} =>
          \/ state = "dispatching"
          \/ state = "uncertain" /\ flight.left = <<>> /\ Shows(children, {"uncertain"})
    /\ ~stopping => AllDone /\ NothingLeft

ReportOnce ==
    /\ report.state \in {"none", "ready"} => NotSent(ReportRequest)
    /\ At("reportsend") => report.state = "dispatching" /\ NotSent(ReportRequest)
    /\ At("reportwrite") => report.state = "dispatching"
    /\ At("reportwrite") /\ flight.got = "busy" => NotSent(ReportRequest)
    /\ At("reportwrite") /\ flight.got = "accepted" => ReportRequest \in DOMAIN runs
    /\ report.state \in {"none", "ready", "dispatching"} => ~report.known
    /\ report.state = "running" \/ At("reportpoll") => ReportRequest \in DOMAIN runs
    /\ report.state # "none" /\ ~stopping => Closed

-----------------------------------------------------------------------------

\* A nonempty set of numbers has a least member.
LEMMA LeastOf ==
  ASSUME NEW S \in SUBSET Nat, S # {}
  PROVE  \E n \in S : \A m \in S : n <= m
<1> DEFINE R == OpToRel(<, Nat)
<1>1. IsWellFoundedOn(R, Nat)
  BY NatLessThanWellFounded
<1> HIDE DEF R
<1>2. PICK n \in S : \A m \in S : ~(<<m, n>> \in R)
  BY <1>1, WFMin
<1>3. ASSUME NEW m \in S PROVE n <= m
  <2>1. n \in Nat /\ m \in Nat /\ ~(<<m, n>> \in R)
    BY <1>2
  <2>2. ~(m < n)
    BY <2>1 DEF R, OpToRel
  <2> QED BY <2>1, <2>2
<1> QED BY <1>3

\* The first task of a set of tasks is one of them.
LEMMA FirstIsOne ==
  ASSUME NEW S \in SUBSET Task, S # {}
  PROVE  FirstOf(S) \in S
<1> DEFINE places == {i \in 1..Len(TaskSeq) : TaskSeq[i] \in S}
<1>1. Len(TaskSeq) \in Nat /\ DOMAIN TaskSeq = 1..Len(TaskSeq)
  BY TaskAssumption
<1>2. places # {} /\ places \in SUBSET Nat
  BY <1>1, TaskAssumption DEF Range
<1> HIDE DEF places
<1>3. PICK n \in places : \A m \in places : n <= m
  BY <1>2, LeastOf
<1> USE DEF places
<1>4. \A j \in 1..(n - 1) : TaskSeq[j] \notin S
  BY <1>1, <1>3
<1> QED BY <1>1, <1>3, <1>4 DEF FirstOf

-----------------------------------------------------------------------------
(* Removing targets.                                                       *)

\* The recursive function of Without is one.
LEMMA WithoutUnfolds ==
  ASSUME NEW s \in Seq(Key), NEW S
  PROVE  \E f : /\ DOMAIN f = 0..Len(s)
                /\ \A n \in 0..Len(s) :
                      f[n] = IF n = 0 THEN <<>>
                   ELSE IF s[n] \in S THEN f[n - 1] ELSE Append(f[n - 1], s[n])
<1> DEFINE Body(f, n) == IF n = 0 THEN <<>>
                   ELSE IF s[n] \in S THEN f[n - 1] ELSE Append(f[n - 1], s[n])
           Upto(m) == \E f : DOMAIN f = 0..m /\ \A n \in 0..m : f[n] = Body(f, n)
           bad == {m \in 0..Len(s) : ~Upto(m)}
<1>1. Upto(0)
  <2> DEFINE f == [n \in 0..0 |-> <<>>]
  <2>1. DOMAIN f = 0..0 /\ \A n \in 0..0 : f[n] = Body(f, n)
    OBVIOUS
  <2> QED BY <2>1
<1>2. ASSUME NEW m \in Nat, m > 0, Upto(m - 1)
      PROVE  Upto(m)
  <2>1. PICK g : DOMAIN g = 0..(m - 1) /\ \A n \in 0..(m - 1) : g[n] = Body(g, n)
    BY <1>2
  <2> DEFINE f == [n \in 0..m |-> IF n < m THEN g[n] ELSE Body(g, m)]
  <2>2. DOMAIN f = 0..m
    OBVIOUS
  <2>3. ASSUME NEW n \in 0..m
        PROVE  f[n] = Body(f, n)
    <3>1. n > 0 => f[n - 1] = g[n - 1]
      BY <1>2, <2>3
    <3>2. Body(f, n) = Body(g, n)
      BY <3>1
    <3>3. CASE n < m
      <4>1. f[n] = g[n] /\ n \in 0..(m - 1)
        BY <1>2, <2>3, <3>3
      <4> HIDE DEF f, Body
      <4> QED BY <2>1, <3>2, <4>1
    <3>4. CASE n = m
      <4>1. f[n] = Body(g, n)
        BY <1>2, <3>4
      <4> HIDE DEF f, Body
      <4> QED BY <3>2, <4>1
    <3> QED BY <1>2, <2>3, <3>3, <3>4
  <2> HIDE DEF f, Body
  <2> QED BY <2>2, <2>3
<1> HIDE DEF Upto
<1>3. bad = {}
  <2> SUFFICES ASSUME bad # {} PROVE FALSE
    OBVIOUS
  <2>1. PICK n \in bad : \A m \in bad : n <= m
    <3>1. bad \in SUBSET Nat
      OBVIOUS
    <3> HIDE DEF bad
    <3> QED BY <3>1, LeastOf
  <2>2. n > 0 /\ n - 1 \in 0..Len(s) /\ n \in Nat
    BY <1>1, <2>1
  <2>3. Upto(n - 1)
    BY <2>1, <2>2
  <2> QED BY <1>2, <2>1, <2>2, <2>3
<1>4. Upto(Len(s))
  BY <1>3
<1> QED BY <1>4 DEF Upto

\* What is left are the other targets, once each.
LEMMA WithoutOnes ==
  ASSUME targets \in Seq(Key), IsInjective(targets), NEW S
  PROVE  /\ Without(S) \in Seq(Key) /\ IsInjective(Without(S))
         /\ Range(Without(S)) = Range(targets) \ S
<1> DEFINE Body(f, n) == IF n = 0 THEN <<>>
                   ELSE IF targets[n] \in S THEN f[n - 1] ELSE Append(f[n - 1], targets[n])
           kept[n \in 0..Len(targets)] ==
             IF n = 0 THEN <<>>
                   ELSE IF targets[n] \in S THEN kept[n - 1] ELSE Append(kept[n - 1], targets[n])
           Seen(m) == {targets[i] : i \in 1..m} \ S
           Fits(m) == kept[m] \in Seq(Key) /\ IsInjective(kept[m]) /\ Range(kept[m]) = Seen(m)
           bad == {m \in 0..Len(targets) : ~Fits(m)}
<1>1. PICK f : DOMAIN f = 0..Len(targets) /\ \A n \in 0..Len(targets) : f[n] = Body(f, n)
  BY WithoutUnfolds
<1>2. \E g : g = [n \in 0..Len(targets) |-> Body(g, n)]
  <2> DEFINE g == [n \in 0..Len(targets) |-> f[n]]
  <2>1. \A n \in 0..Len(targets) : Body(g, n) = f[n]
    BY <1>1
  <2>2. g = [n \in 0..Len(targets) |-> Body(g, n)]
    BY <2>1
  <2> QED BY <2>2
<1>3. kept = [n \in 0..Len(targets) |-> Body(kept, n)]
  BY <1>2
<1>4. Without(S) = kept[Len(targets)]
  BY DEF Without
<1>5. \A n \in 0..Len(targets) : kept[n] = Body(kept, n)
  BY <1>3
<1> HIDE DEF kept
<1>6. Fits(0)
  <2>1. kept[0] = <<>>
    BY <1>5
  <2>2. Range(<<>>) = {} /\ IsInjective(<<>>) /\ Seen(0) = {}
    BY DEF Range, IsInjective
  <2> QED BY <2>1, <2>2
<1>7. ASSUME NEW m \in 1..Len(targets), Fits(m - 1)
      PROVE  Fits(m)
  <2>1. targets[m] \in Key /\ m \in Nat /\ m > 0
    OBVIOUS
  <2>2. Seen(m) = Seen(m - 1) \cup ({targets[m]} \ S)
    BY <2>1
  <2>3. targets[m] \notin Seen(m - 1)
    BY <2>1 DEF IsInjective
  <2>4. CASE targets[m] \in S
    BY <1>5, <1>7, <2>1, <2>2, <2>4
  <2>5. CASE targets[m] \notin S
    <3>1. kept[m] = Append(kept[m - 1], targets[m])
      <4>1. m \in 0..Len(targets) /\ m # 0
        BY <2>1
      <4>2. kept[m] = Body(kept, m)
        BY <1>5, <4>1
      <4> QED BY <2>5, <4>1, <4>2
    <3> DEFINE k == kept[m - 1]
               x == targets[m]
    <3>2. k \in Seq(Key) /\ x \in Key /\ IsInjective(k) /\ x \notin Range(k) /\ kept[m] = Append(k, x)
      BY <1>7, <2>1, <2>3, <3>1
    <3> HIDE DEF k, x
    <3>3. Append(k, x) \in Seq(Key) /\ Range(Append(k, x)) = Range(k) \cup {x}
      BY <3>2 DEF Range
    <3>4. IsInjective(Append(k, x))
      BY <3>2 DEF IsInjective, Range
    <3> QED BY <1>7, <2>2, <2>5, <3>2, <3>3, <3>4 DEF k, x
  <2> QED BY <2>4, <2>5
<1> HIDE DEF Fits
<1>8. bad = {}
  <2> SUFFICES ASSUME bad # {} PROVE FALSE
    OBVIOUS
  <2>1. PICK n \in bad : \A m \in bad : n <= m
    <3>1. bad \in SUBSET Nat
      OBVIOUS
    <3> HIDE DEF bad
    <3> QED BY <3>1, LeastOf
  <2>2. n \in 1..Len(targets) /\ n - 1 \in 0..Len(targets)
    BY <1>6, <2>1
  <2>3. Fits(n - 1)
    BY <2>1, <2>2
  <2> QED BY <1>7, <2>1, <2>2, <2>3
<1>9. Fits(Len(targets))
  BY <1>8
<1>10. Seen(Len(targets)) = Range(targets) \ S
  BY DEF Range
<1> QED BY <1>4, <1>9, <1>10 DEF Fits

-----------------------------------------------------------------------------
(* Types.                                                                  *)

\* The targets are distinct, and a repair belongs to one task.
LEMMA KeyFacts ==
  /\ Planner \in Key /\ Reviewer \in Key /\ Task \subseteq Key /\ Report \notin Key
  /\ Planner # Reviewer /\ Planner \notin Task /\ Reviewer \notin Task
  /\ \A t \in Task : /\ RepairOf[t] \in Key /\ RepairOf[t] \notin Task
                     /\ RepairOf[t] # Planner /\ RepairOf[t] # Reviewer
  /\ \A t, u \in Task : RepairOf[t] = RepairOf[u] => t = u
  /\ TaskSeq \in Seq(Task) /\ Range(TaskSeq) = Task /\ IsInjective(TaskSeq)
BY TaskAssumption DEF Key, Repair

Flows == {"planning", "workers", "reviewing", "reviewed", "answered", "incomplete"}
ChildRecord == [state: ChildStates, known: BOOLEAN]

\* What _settle() leaves is a state of the row.
LEMMA SettledType ==
  ASSUME NEW st \in States, NEW ch, NEW stop
  PROVE  Settled(st, ch, stop) \in States
BY DEF Settled, FailedState, Plain, States

\* What an edit that settles the row leaves of the types.
LEMMA SettlesType ==
  ASSUME RowType, NEW st \in States, NEW ch, ChildrenType(ch, targets), Settles(st, ch),
         UNCHANGED <<targets, stage, retries, repairs, applied, stopping, report>>,
         claimed' \subseteq Key \cup {Report}
  PROVE  RowType'
<1>1. state' \in States
  BY SettledType DEF Settles
<1>2. flow' \in Flows
  BY DEF Settles, SettledFlow, RowType, Flows
<1>3. ChildrenType(children, targets)'
  BY DEF Settles, ChildrenType
<1> QED BY <1>1, <1>2, <1>3 DEF RowType, Flows

\* A target that was sent may take any state a child may have.
LEMMA ChildKept ==
  ASSUME RowType, NEW k \in Key, k \in Range(targets), NEW st \in ChildStates \ {"none"},
         NEW known \in BOOLEAN, st \in {"running", "completed"} => known
  PROVE  ChildrenType(Child(k, st, known), targets)
<1>1. Child(k, st, known) \in [Key -> ChildRecord]
  BY DEF Child, RowType, ChildrenType, ChildRecord
<1>2. /\ Child(k, st, known)[k] = [state |-> st, known |-> known]
      /\ \A j \in Key \ {k} : Child(k, st, known)[j] = children[j]
  BY DEF Child, RowType, ChildrenType
<1>3. ASSUME NEW j \in Key
      PROVE  LET c == Child(k, st, known)[j]
             IN  /\ c.state \in {"running", "completed"} => c.known
                 /\ c.state = "none" => c = Absent
                 /\ c # Absent => j \in Range(targets)
  <2>1. CASE j = k
    BY <1>2, <2>1
  <2>2. CASE j # k
    BY <1>2, <2>2 DEF RowType, ChildrenType
  <2> QED BY <2>1, <2>2
<1> QED BY <1>1, <1>3 DEF ChildrenType, ChildRecord

\* Forgetting children.
LEMMA ChildrenGone ==
  ASSUME RowType, NEW G, NEW ch, ch = [k \in Key |-> IF k \in G THEN Absent ELSE children[k]],
         NEW sent, \A k \in Key \ G : k \in Range(targets) => k \in Range(sent)
  PROVE  ChildrenType(ch, sent)
<1>1. Absent \in ChildRecord
  BY DEF Absent, ChildRecord, ChildStates
<1>2. ch \in [Key -> ChildRecord]
  BY <1>1 DEF RowType, ChildrenType, ChildRecord
<1> QED BY <1>2 DEF RowType, ChildrenType, ChildRecord, Absent

\* A reset (_reset_task) leaves the types.
LEMMA ResetType ==
  ASSUME RowType, NEW T \in SUBSET Key, NEW gone, Reset(T, gone), NEW sent, targets' = sent,
         \A k \in Key \ gone : k \in Range(targets) => k \in Range(sent)
  PROVE  /\ ChildrenType(children, targets)'
         /\ stage' \in [Task -> {"work", "review"}] /\ retries' \in [Key -> Nat]
<1>1. ChildrenType(children', targets')
  BY ChildrenGone DEF Reset
<1>2. stage' \in [Task -> {"work", "review"}] /\ retries' \in [Key -> Nat]
  BY DEF Reset, RowType
<1> QED BY <1>1, <1>2 DEF ChildrenType

\* What is sent next is a target.
LEMMA NextIsTarget ==
  ASSUME ProcessType, RowType, flight.left # <<>>
  PROVE  /\ Next1 \in Key /\ Next1 \in Range(targets) /\ Tail(flight.left) \in Seq(Key)
         /\ Range(Tail(flight.left)) \subseteq Range(targets)
<1>1. flight.left \in Seq(Key) /\ Len(flight.left) > 0
  BY DEF ProcessType
<1>2. Next1 = flight.left[1] /\ 1 \in DOMAIN flight.left
  BY <1>1 DEF Next1
<1>3. Range(Tail(flight.left)) \subseteq Range(flight.left)
  <2> SUFFICES ASSUME NEW i \in DOMAIN Tail(flight.left)
               PROVE  Tail(flight.left)[i] \in Range(flight.left)
    BY DEF Range
  <2>1. Tail(flight.left)[i] = flight.left[i + 1] /\ i + 1 \in DOMAIN flight.left
    BY <1>1
  <2> QED BY <2>1 DEF Range
<1>4. Next1 \in Range(flight.left) /\ Next1 \in Key /\ Tail(flight.left) \in Seq(Key)
  BY <1>1, <1>2 DEF Range
<1> QED BY <1>3, <1>4 DEF ProcessType

\* A child that is known is one of the targets'.
LEMMA KnownIsTarget ==
  ASSUME RowType, NEW k \in Key, children[k].known
  PROVE  k \in Range(targets)
BY DEF RowType, ChildrenType, Absent

\* The identity of a request.
LEMMA RequestType ==
  ASSUME RowType, NEW k \in Key
  PROVE  Request(k) \in Requests
BY DEF RowType, Request, Requests

\* What a teammate got is one of the requests.
LEMMA DeliversType ==
  ASSUME RunsType, NEW r \in Requests, Delivers(r), UNCHANGED <<crashes, asked>>
  PROVE  RunsType'
<1>1. DOMAIN runs' = DOMAIN runs \cup {r} /\ DOMAIN sends' = DOMAIN sends \cup {r}
  BY DEF Delivers, Put
<1>2. Sent(r) \in Nat
  BY DEF Sent, RunsType
<1>3. \A x \in DOMAIN runs' : runs'[x] \in RunStates /\ sends'[x] \in Nat
  <2>1. ASSUME NEW x \in DOMAIN runs' PROVE sends'[x] \in Nat
    BY <1>1, <1>2, <2>1 DEF Delivers, Put, RunsType
  <2>2. CASE r \in DOMAIN runs
    BY <1>1, <2>1, <2>2 DEF Delivers, RunsType
  <2>3. CASE r \notin DOMAIN runs
    <3>1. ASSUME NEW x \in DOMAIN runs' PROVE runs'[x] \in RunStates
      BY <1>1, <2>3, <3>1 DEF Delivers, Put, RunsType, RunStates
    <3> QED BY <2>1, <3>1
  <2> QED BY <2>2, <2>3
<1> QED BY <1>1, <1>3 DEF RunsType

\* A run that was told to stop.
LEMMA ToldType ==
  ASSUME RunsType, NEW r, Told(r), UNCHANGED <<sends, crashes>>, asked' \in Nat
  PROVE  RunsType'
BY DEF RunsType, Told, RunStates

\* What _stop_report() leaves of the types.
LEMMA StopsReportType ==
  ASSUME RowType, RunsType, NEW ok \in BOOLEAN, StopsReport(ok),
         UNCHANGED <<state, flow, targets, children, stage, retries, repairs, applied, stopping,
                     sends, crashes>>,
         asked' \in Nat
  PROVE  RowType' /\ RunsType'
<1>1. claimed' \subseteq Key \cup {Report}
  BY DEF StopsReport, RowType
<1>2. report' \in [state: ChildStates \cup {"ready"}, known: BOOLEAN, stop: BOOLEAN, posted: 0..1]
  BY DEF StopsReport, RowType, ChildStates
<1>3. RunsType'
  BY ToldType DEF StopsReport, RunsType
<1> QED BY <1>1, <1>2, <1>3 DEF RowType, ChildrenType

\* Two sequences without a common member, one after the other.
LEMMA Joined ==
  ASSUME NEW s \in Seq(Key), NEW u \in Seq(Key), IsInjective(s), IsInjective(u),
         Range(s) \cap Range(u) = {}
  PROVE  /\ s \o u \in Seq(Key) /\ IsInjective(s \o u)
         /\ Range(s \o u) = Range(s) \cup Range(u)
<1> DEFINE w == s \o u
<1>1. /\ w \in Seq(Key) /\ Len(w) = Len(s) + Len(u)
      /\ Len(s) \in Nat /\ Len(u) \in Nat
      /\ \A i \in 1..Len(w) : w[i] = IF i <= Len(s) THEN s[i] ELSE u[i - Len(s)]
  OBVIOUS
<1> HIDE DEF w
<1>2. \A i \in 1..Len(w) : \/ i \in 1..Len(s) /\ w[i] = s[i]
                           \/ i - Len(s) \in 1..Len(u) /\ w[i] = u[i - Len(s)] /\ i > Len(s)
  BY <1>1
<1>3. DOMAIN w = 1..Len(w) /\ DOMAIN s = 1..Len(s) /\ DOMAIN u = 1..Len(u)
  BY <1>1
<1>4. Range(w) = Range(s) \cup Range(u)
  <2>1. ASSUME NEW x \in Range(w) PROVE x \in Range(s) \cup Range(u)
    BY <1>2, <1>3, <2>1 DEF Range
  <2>2. ASSUME NEW i \in 1..Len(s) PROVE s[i] \in Range(w)
    <3>1. i \in 1..Len(w) /\ w[i] = s[i]
      BY <1>1
    <3> QED BY <1>3, <3>1 DEF Range
  <2>3. ASSUME NEW i \in 1..Len(u) PROVE u[i] \in Range(w)
    <3>1. i + Len(s) \in 1..Len(w)
      BY <1>1
    <3>2. w[i + Len(s)] = u[(i + Len(s)) - Len(s)] /\ (i + Len(s)) - Len(s) = i
      BY <1>1, <3>1
    <3> QED BY <1>3, <3>1, <3>2 DEF Range
  <2> QED BY <1>3, <2>1, <2>2, <2>3 DEF Range
<1>5. IsInjective(w)
  <2> SUFFICES ASSUME NEW i \in 1..Len(w), NEW j \in 1..Len(w), w[i] = w[j]
               PROVE  i = j
    BY <1>3 DEF IsInjective
  <2>1. CASE i \in 1..Len(s) /\ j \in 1..Len(s) /\ w[i] = s[i] /\ w[j] = s[j]
    BY <1>3, <2>1 DEF IsInjective
  <2>2. CASE /\ i - Len(s) \in 1..Len(u) /\ w[i] = u[i - Len(s)]
             /\ j - Len(s) \in 1..Len(u) /\ w[j] = u[j - Len(s)]
    <3>1. i - Len(s) = j - Len(s)
      BY <1>3, <2>2 DEF IsInjective
    <3> QED BY <1>1, <3>1
  <2>3. \A a \in 1..Len(s), b \in 1..Len(u) : s[a] # u[b]
    BY <1>3 DEF Range
  <2> QED BY <1>2, <2>1, <2>2, <2>3
<1> QED BY <1>1, <1>4, <1>5 DEF w

\* What the next phase adds is new.
LEMMA PhaseAdds ==
  ASSUME RowType, PlanShape, NEW added,
         \/ added = <<>>
         \/ flow = "planning" /\ added = TaskSeq
         \/ flow = "workers" /\ added = <<Reviewer>>
         \/ \E t \in Task \ repairs : added = <<RepairOf[t]>>
  PROVE  /\ targets \o added \in Seq(Key) /\ IsInjective(targets \o added)
         /\ Range(targets \o added) = Range(targets) \cup Range(added)
         /\ added = <<>> => targets \o added = targets
<1>1. targets \in Seq(Key) /\ IsInjective(targets)
  BY DEF RowType
<1>2. Range(<<>>) = {} /\ IsInjective(<<>>) /\ Range(<<Planner>>) = {Planner}
  BY DEF Range, IsInjective
<1>3. \A x : Range(<<x>>) = {x} /\ IsInjective(<<x>>)
  BY DEF Range, IsInjective
<1>4. added \in Seq(Key) /\ IsInjective(added)
  <2>1. TaskSeq \in Seq(Key)
    BY KeyFacts
  <2>2. \A x \in Key : <<x>> \in Seq(Key)
    OBVIOUS
  <2>3. IsInjective(TaskSeq) /\ Reviewer \in Key /\ \A t \in Task : RepairOf[t] \in Key
    BY KeyFacts
  <2>4. <<>> \in Seq(Key)
    OBVIOUS
  <2> QED BY <1>2, <1>3, <2>1, <2>2, <2>3, <2>4
<1>5. Range(targets) \cap Range(added) = {}
  <2>1. CASE added = <<>>
    BY <1>2, <2>1
  <2>2. CASE flow = "planning" /\ added = TaskSeq
    BY <1>2, <2>2, KeyFacts DEF PlanShape
  <2>3. CASE flow = "workers" /\ added = <<Reviewer>>
    BY <1>3, <2>3 DEF PlanShape
  <2>4. CASE \E t \in Task \ repairs : added = <<RepairOf[t]>>
    BY <1>3, <2>4 DEF PlanShape
  <2> QED BY <2>1, <2>2, <2>3, <2>4
<1> QED BY <1>1, <1>4, <1>5, Joined

\* A failed task that is seen to is one of the plan's.
LEMMA FailedOnes ==
  ASSUME NEW ch, FailedTasks(ch) # {}
  PROVE  /\ FirstOf(FailedTasks(ch)) \in Task /\ Failed(ch[FirstOf(FailedTasks(ch))])
         /\ Planned
<1>1. FailedTasks(ch) \in SUBSET Task
  BY DEF FailedTasks
<1>2. FirstOf(FailedTasks(ch)) \in FailedTasks(ch)
  BY <1>1, FirstIsOne
<1> QED BY <1>2 DEF FailedTasks

\* The types are kept by every step of advance().
LEMMA FlightTypes ==
  ASSUME TypeOK, PlanShape, Flight
  PROVE  TypeOK'
<1>1. RowType /\ ProcessType /\ RunsType
  BY DEF TypeOK
<1>2. <<>> \in Seq(Key) /\ Range(<<>>) = {}
  BY DEF Range
<1>3. CASE Begins
  BY <1>1, <1>3 DEF Begins, TypeOK, RowType, row, RunsType, ProcessType, Goes, At, Places
<1>4. CASE Interrupted
  <2>1. ChildrenType(children', targets)
    <3>1. children' \in [Key -> ChildRecord]
      BY <1>1, <1>4 DEF Interrupted, RowType, ChildrenType, ChildRecord, ChildStates
    <3>2. ASSUME NEW k \in Key
          PROVE  \/ children'[k] = children[k]
                 \/ Running(children[k]) /\ children'[k] = [children[k] EXCEPT !.state = "uncertain"]
      BY <1>4, <3>2 DEF Interrupted
    <3>3. ASSUME NEW k \in Key
          PROVE  /\ children'[k].state \in {"running", "completed"} => children'[k].known
                 /\ children'[k].state = "none" => children'[k] = Absent
                 /\ children'[k] # Absent => k \in Range(targets)
      <4>1. CASE children'[k] = children[k]
        BY <1>1, <4>1 DEF RowType, ChildrenType
      <4>2. CASE Running(children[k]) /\ children'[k] = [children[k] EXCEPT !.state = "uncertain"]
        <5>1. children[k] \in ChildRecord /\ children[k] # Absent
          BY <1>1, <4>2 DEF RowType, ChildrenType, ChildRecord, Running, Absent
        <5>2. k \in Range(targets) /\ children'[k].state = "uncertain"
          BY <1>1, <4>2, <5>1 DEF RowType, ChildrenType, ChildRecord
        <5> QED BY <5>2
      <4> QED BY <3>2, <4>1, <4>2
    <3> QED BY <3>1, <3>3 DEF ChildrenType, ChildRecord
  <2>2. RowType'
    BY <1>1, <1>4, <2>1 DEF Interrupted, RowType, ChildrenType, States
  <2> QED BY <1>1, <1>2, <1>4, <2>2 DEF Interrupted, TypeOK, RunsType, ProcessType, Frees,
          Unsent, Places, Got
<1>5. CASE PreparesReviews
  <2> DEFINE built == {t \in Task : Awaiting(t, children)}
             goes == Planned /\ ~stopping /\ state # "uncertain" /\ built # {}
  <2>1. CASE goes
    <3>1. ChildrenType(children', targets)
      BY <1>1, <1>5, <2>1, ChildrenGone DEF PreparesReviews
    <3>2. stage' \in [Task -> {"work", "review"}] /\ state' \in States
      BY <1>1, <1>5, <2>1 DEF PreparesReviews, RowType, States
    <3>3. RowType'
      BY <1>1, <1>5, <3>1, <3>2 DEF PreparesReviews, RowType, ChildrenType
    <3> QED BY <1>1, <1>5, <3>3 DEF PreparesReviews, TypeOK, RunsType, ProcessType, At, Goes, Places
  <2>2. CASE ~goes
    BY <1>1, <1>5, <2>2 DEF PreparesReviews, TypeOK, RowType, RunsType, ProcessType, At, Goes,
         Places
  <2> QED BY <2>1, <2>2
<1>6. CASE RepairsTasks
  <2> DEFINE failed == FailedTasks(children)
             t == FirstOf(failed)
  <2>1. ProcessType' \/ targets' # targets
    BY <1>1, <1>6 DEF RepairsTasks, ProcessType, At, Goes, Places
  <2>2. RunsType'
    BY <1>1, <1>6 DEF RepairsTasks, RunsType
  <2>3. CASE UNCHANGED row
    BY <1>1, <1>6, <2>1, <2>2, <2>3 DEF row, TypeOK, RowType, ChildrenType
  <2>4. CASE failed # {} /\ Repairable(t) /\ repairs' = repairs \cup {t}
             /\ targets' = Append(targets, RepairOf[t]) /\ state' = "ready"
             /\ UNCHANGED <<flow, children, stage, retries, applied, stopping, claimed, report>>
    <3>1. t \in Task \ repairs
      BY <2>4, FailedOnes DEF Repairable
    <3>2. targets' = targets \o <<RepairOf[t]>>
      <4>1. RepairOf[t] \in Key
        BY <3>1, KeyFacts
      <4>2. \A s \in Seq(Key), k \in Key : Append(s, k) = s \o <<k>>
        OBVIOUS
      <4> HIDE DEF t, failed
      <4> QED BY <1>1, <2>4, <4>1, <4>2 DEF RowType
    <3>3. /\ targets' \in Seq(Key) /\ IsInjective(targets')
          /\ Range(targets) \subseteq Range(targets')
      BY <1>1, <3>1, <3>2, PhaseAdds
    <3>4. RowType'
      BY <1>1, <2>4, <3>1, <3>3 DEF RowType, ChildrenType, States
    <3>5. ProcessType'
      BY <1>1, <1>6, <3>3 DEF RepairsTasks, ProcessType, At, Goes, Places
    <3> QED BY <2>2, <3>4, <3>5 DEF TypeOK
  <2>5. CASE failed # {} /\ t \in repairs \ applied /\ applied' = applied \cup {t}
             /\ (\/ Reset({t}, {}) /\ state' = "ready"
                 \/ state' = "blocked" /\ UNCHANGED <<children, retries, stage>>)
             /\ UNCHANGED <<flow, targets, repairs, stopping, claimed, report>>
    <3>1. t \in Key
      BY <2>5, FailedOnes, KeyFacts
    <3>2. /\ ChildrenType(children, targets)'
          /\ stage' \in [Task -> {"work", "review"}] /\ retries' \in [Key -> Nat]
      <4>1. CASE Reset({t}, {})
        BY <1>1, <2>5, <3>1, <4>1, ResetType
      <4>2. CASE UNCHANGED <<children, retries, stage>>
        BY <1>1, <2>5, <4>2 DEF RowType, ChildrenType
      <4> QED BY <2>5, <4>1, <4>2
    <3>3. RowType'
      BY <1>1, <2>5, <3>2 DEF RowType, States
    <3> QED BY <2>1, <2>2, <2>5, <3>3 DEF TypeOK
  <2> HIDE DEF t, failed
  <2> QED BY <1>6, <2>3, <2>4, <2>5 DEF RepairsTasks, t, failed
<1>7. CASE RetriesChildren
  <2>1. /\ ChildrenType(children, targets)' /\ state' \in States
        /\ stage' \in [Task -> {"work", "review"}] /\ retries' \in [Key -> Nat]
    <3>1. CASE Reset({Planner}, {}) /\ state' = "ready"
      BY <1>1, <1>7, <3>1, ResetType, KeyFacts DEF RetriesChildren, States
    <3>2. CASE UNCHANGED <<children, retries, stage, state>>
      BY <1>1, <1>7, <3>2 DEF RetriesChildren, RowType, ChildrenType
    <3> QED BY <1>7, <3>1, <3>2 DEF RetriesChildren
  <2>2. RowType'
    BY <1>1, <1>7, <2>1 DEF RetriesChildren, RowType
  <2> QED BY <1>1, <1>7, <2>2 DEF RetriesChildren, TypeOK, RunsType, ProcessType, At, Goes, Places
<1>8. CASE Continues
  <2>1. \/ UNCHANGED <<state, flow, targets>>
        \/ \E st \in {"ready", "completed", "blocked"}, fl \in Flows : \E added :
              /\ Phase(st, fl, added)
              /\ \/ added = <<>>
                 \/ flow = "planning" /\ added = TaskSeq
                 \/ flow = "workers" /\ added = <<Reviewer>>
    <3>1. flow \in Flows
      BY <1>1 DEF RowType, Flows
    <3> QED BY <1>8, <3>1 DEF Continues, Flows
  <2>2. /\ state' \in States /\ flow' \in Flows /\ targets' \in Seq(Key) /\ IsInjective(targets')
        /\ Range(targets) \subseteq Range(targets')
    <3>1. CASE UNCHANGED <<state, flow, targets>>
      BY <1>1, <3>1 DEF RowType, Flows
    <3>2. ASSUME NEW st \in {"ready", "completed", "blocked"}, NEW fl \in Flows, NEW added,
                 Phase(st, fl, added),
                 \/ added = <<>>
                 \/ flow = "planning" /\ added = TaskSeq
                 \/ flow = "workers" /\ added = <<Reviewer>>
          PROVE  /\ state' \in States /\ flow' \in Flows /\ targets' \in Seq(Key)
                 /\ IsInjective(targets') /\ Range(targets) \subseteq Range(targets')
      BY <1>1, <3>2, PhaseAdds DEF Phase, States
    <3> QED BY <2>1, <3>1, <3>2
  <2>3. RowType'
    BY <1>1, <1>8, <2>2 DEF Continues, RowType, ChildrenType, Flows
  <2>4. ProcessType'
    BY <1>1, <1>2, <1>8, <2>2 DEF Continues, Sending, ProcessType, At, Unsent, Places, Got
  <2> QED BY <1>1, <1>8, <2>3, <2>4 DEF Continues, RunsType, TypeOK
<1>9. CASE Marks
  <2>1. RowType'
    BY <1>1, <1>9 DEF Marks, RowType, ChildrenType, States
  <2>2. ProcessType'
    <3>1. \/ flight' = [Unsent EXCEPT !.at = "between"]
          \/ flight' = [Unsent EXCEPT !.at = "loop", !.left = targets]
      BY <1>9 DEF Marks, Frees
    <3>2. targets' = targets /\ stopper' = stopper /\ targets \in Seq(Key)
      BY <1>1, <1>9 DEF Marks, RowType
    <3> QED BY <1>1, <1>2, <3>1, <3>2 DEF ProcessType, Unsent, Places, Got
  <2> QED BY <1>1, <1>9, <2>1, <2>2 DEF Marks, RunsType, TypeOK
<1>10. CASE Picks
  <2>1. Next1 \in Key /\ Next1 \in Range(targets) /\ Tail(flight.left) \in Seq(Key)
        /\ Range(Tail(flight.left)) \subseteq Range(targets)
    BY <1>1, <1>10, NextIsTarget DEF Picks
  <2>2. ChildrenType(children, targets)'
    <3>1. CASE UNCHANGED children
      BY <1>1, <1>10, <3>1 DEF Picks, RowType, ChildrenType
    <3>2. CASE children' = Child(Next1, "dispatching", FALSE)
      <4>1. ChildrenType(children', targets)
        BY <1>1, <2>1, <3>2, ChildKept DEF ChildStates
      <4> QED BY <1>10, <4>1 DEF Picks, ChildrenType
    <3> QED BY <1>10, <3>1, <3>2 DEF Picks
  <2>3. RowType'
    BY <1>1, <1>10, <2>2 DEF Picks, RowType
  <2>4. ProcessType'
    BY <1>1, <1>2, <1>10, <2>1 DEF Picks, ProcessType, Broken, Passed, Unsent, Places, Got
  <2> QED BY <1>1, <1>10, <2>3, <2>4 DEF Picks, RunsType, TypeOK
<1>11. CASE Sends
  <2>1. PICK got \in {"accepted", "unknown", "busy", "blocked"} : Submits(got)
    BY <1>11 DEF Sends
  <2>2. RunsType'
    <3>1. Next1 \in Key
      BY <1>1, <2>1, NextIsTarget DEF Submits, ProcessType, At
    <3>2. CASE Delivers(Request(Next1))
      BY <1>1, <2>1, <3>1, <3>2, RequestType, DeliversType DEF Submits
    <3>3. CASE UNCHANGED <<sends, runs>>
      BY <1>1, <2>1, <3>3 DEF Submits, RunsType
    <3> QED BY <2>1, <3>2, <3>3 DEF Submits
  <2>3. RowType'
    BY <1>1, <2>1 DEF Submits, row, RowType, ChildrenType
  <2>4. ProcessType'
    BY <1>1, <2>1 DEF Submits, row, ProcessType, At, Places, Got
  <2> QED BY <2>2, <2>3, <2>4 DEF TypeOK
<1>12. CASE Writes
  <2>1. Next1 \in Key /\ Next1 \in Range(targets) /\ Tail(flight.left) \in Seq(Key)
        /\ Range(Tail(flight.left)) \subseteq Range(targets)
    BY <1>1, <1>12, NextIsTarget DEF Writes, ProcessType, At
  <2>2. \/ children' = Child(Next1, "running", TRUE) \/ children' = Child(Next1, "blocked", FALSE)
        \/ children' = Child(Next1, "uncertain", FALSE)
        \/ children' = [children EXCEPT ![Next1] = Absent]
    BY <1>12 DEF Writes
  <2>3. ChildrenType(children', targets)
    <3>1. CASE children' = [children EXCEPT ![Next1] = Absent]
      <4>1. children' = [k \in Key |-> IF k \in {Next1} THEN Absent ELSE children[k]]
        BY <1>1, <2>1, <3>1 DEF RowType, ChildrenType
      <4> QED BY <1>1, <4>1, ChildrenGone
    <3> QED BY <1>1, <2>1, <2>2, <3>1, ChildKept DEF ChildStates
  <2>4. state' \in States
    BY <1>1, <1>12 DEF Writes, RowType, States
  <2>5. RowType'
    BY <1>1, <1>12, <2>3, <2>4 DEF Writes, RowType, ChildrenType
  <2>6. \/ flight' = [flight EXCEPT !.at = "stops"] \/ flight' = Passed \/ flight' = Broken
        \/ flight' = [Broken EXCEPT !.got = "busy"]
    BY <1>12 DEF Writes, Accepted
  <2>7. ProcessType'
    BY <1>1, <1>2, <1>12, <2>1, <2>6 DEF Writes, ProcessType, At, Broken, Passed, Unsent, Places,
         Got
  <2> QED BY <1>1, <1>12, <2>5, <2>7 DEF Writes, RunsType, TypeOK
<1>13. CASE SenderStops
  <2>1. Next1 \in Key
    BY <1>1, <1>13, NextIsTarget DEF SenderStops, ProcessType, At
  <2>2. RowType'
    BY <1>1, <1>13, <2>1 DEF SenderStops, RowType, ChildrenType
  <2>3. ProcessType'
    BY <1>1, <1>2, <1>13 DEF SenderStops, ProcessType, At, Broken, Unsent, Places, Got
  <2> QED BY <1>1, <1>13, <2>2, <2>3 DEF SenderStops, RunsType, TypeOK
<1>14. CASE SenderCalls
  <2>1. Next1 \in Key /\ Next1 \in Range(targets)
    BY <1>1, <1>14, NextIsTarget DEF SenderCalls, ProcessType, At
  <2>2. RowType' /\ RunsType'
    <3>1. CASE Told(Request(Next1)) /\ UNCHANGED <<state, flow, children>>
      BY <1>1, <1>14, <3>1, ToldType DEF SenderCalls, RowType, ChildrenType, RunsType
    <3>2. CASE Unconfirmed(Next1) /\ UNCHANGED runs
      <4>1. ChildrenType(Child(Next1, "uncertain", children[Next1].known), targets)
        <5>1. children[Next1].known \in BOOLEAN
          BY <1>1, <2>1 DEF RowType, ChildrenType
        <5> QED BY <1>1, <2>1, <5>1, ChildKept DEF ChildStates
      <4>2. RowType'
        BY <1>1, <1>14, <3>2, <4>1, SettlesType DEF SenderCalls, Unconfirmed, RowType
      <4> QED BY <1>1, <1>14, <3>2, <4>2 DEF SenderCalls, RunsType
    <3> QED BY <1>14, <3>1, <3>2 DEF SenderCalls
  <2>3. ProcessType'
    BY <1>1, <1>2, <1>14 DEF SenderCalls, ProcessType, Broken, Unsent, Places, Got
  <2> QED BY <2>2, <2>3 DEF TypeOK
<1>15. CASE Ends
  <2>1. RowType'
    BY <1>1, <1>15, SettlesType DEF Ends, RowType, States
  <2> QED BY <1>1, <1>2, <1>15, <2>1 DEF Ends, TypeOK, RunsType, ProcessType, Frees, Unsent,
          Places, Got
<1>16. CASE ReportBegins
  <2> DEFINE now == IF report.state = "none" THEN NewReport ELSE report
  <2>1. now \in [state: ChildStates \cup {"ready"}, known: BOOLEAN, stop: BOOLEAN, posted: 0..1]
    BY <1>1, KeyFacts DEF NewReport, RowType, ChildrenType, ChildStates
  <2> HIDE DEF now
  <2>2. /\ flight' = Unsent \/ flight' = [flight EXCEPT !.at = "reportsend"]
           \/ flight' = [flight EXCEPT !.at = "reportpoll"] \/ flight' = [flight EXCEPT !.at = "publish"]
        /\ \/ report' = report \/ report' = now
           \/ \E st \in ChildStates : report' = [now EXCEPT !.state = st]
    BY <1>16 DEF ReportBegins, Ended, Goes, now, ChildStates
  <2>3. report' \in [state: ChildStates \cup {"ready"}, known: BOOLEAN, stop: BOOLEAN, posted: 0..1]
    BY <1>1, <2>1, <2>2 DEF RowType
  <2>4. RowType'
    BY <1>1, <1>16, <2>3 DEF ReportBegins, RowType, ChildrenType
  <2>5. ProcessType'
    BY <1>1, <1>2, <1>16, <2>2 DEF ReportBegins, ProcessType, At, Unsent, Places, Got
  <2> QED BY <1>1, <1>16, <2>4, <2>5 DEF ReportBegins, RunsType, TypeOK
<1>17. CASE SendsReport
  <2>1. PICK got \in {"accepted", "unknown", "busy"} : ReportSends(got)
    BY <1>17 DEF SendsReport
  <2>2. RunsType'
    <3>1. ReportRequest \in Requests
      BY DEF ReportRequest, Requests
    <3>2. CASE Delivers(ReportRequest)
      BY <1>1, <2>1, <3>1, <3>2, DeliversType DEF ReportSends
    <3>3. CASE UNCHANGED <<sends, runs>>
      BY <1>1, <2>1, <3>3 DEF ReportSends, RunsType
    <3> QED BY <2>1, <3>2, <3>3 DEF ReportSends
  <2>3. RowType'
    BY <1>1, <2>1 DEF ReportSends, row, RowType, ChildrenType
  <2>4. ProcessType'
    BY <1>1, <2>1 DEF ReportSends, row, ProcessType, At, Places, Got
  <2> QED BY <2>2, <2>3, <2>4 DEF TypeOK
<1>18. CASE ReportWrites
  <2>1. RowType'
    BY <1>1, <1>18 DEF ReportWrites, RowType, ChildrenType, ChildStates
  <2>2. ProcessType'
    <3>1. flight' = Unsent \/ (At("reportwrite") /\ flight' = [flight EXCEPT !.at = "reportstops"])
      BY <1>18 DEF ReportWrites, Goes, Ended
    <3>2. targets' = targets /\ stopper' = stopper
      BY <1>18 DEF ReportWrites
    <3>3. CASE flight' = Unsent
      BY <1>1, <1>2, <3>2, <3>3 DEF ProcessType, Unsent, Places, Got
    <3>4. CASE At("reportwrite") /\ flight' = [flight EXCEPT !.at = "reportstops"]
      BY <1>1, <3>2, <3>4 DEF ProcessType, At, Places
    <3> QED BY <3>1, <3>3, <3>4
  <2> QED BY <1>1, <1>18, <2>1, <2>2 DEF ReportWrites, RunsType, TypeOK
<1>19. CASE Publishes
  <2>1. RowType'
    <3>1. report' = report \/ (report.posted = 0 /\ report' = [report EXCEPT !.posted = 1])
      BY <1>1, <1>19 DEF Publishes, RowType
    <3>2. report' \in [state: ChildStates \cup {"ready"}, known: BOOLEAN, stop: BOOLEAN, posted: 0..1]
      <4> DEFINE types == [state: ChildStates \cup {"ready"}, known: BOOLEAN, stop: BOOLEAN, posted: 0..1]
      <4>1. report \in types
        BY <1>1 DEF RowType
      <4>2. [report EXCEPT !.posted = 1] \in types
        BY <4>1
      <4>3. report' \in types
        <5> HIDE DEF types
        <5> QED BY <3>1, <4>1, <4>2
      <4> QED BY <4>3
    <3> QED BY <1>1, <1>19, <3>2 DEF Publishes, RowType, ChildrenType
  <2>2. ProcessType'
    BY <1>1, <1>2, <1>19 DEF Publishes, ProcessType, Ended, Unsent, Places, Got
  <2> QED BY <1>1, <1>19, <2>1, <2>2 DEF Publishes, RunsType, TypeOK
<1>20. ASSUME NEW seen \in {"running", "completed", "blocked", "decision", "stopped", "uncertain"},
              ReportPolls(seen)
       PROVE  TypeOK'
  <2>1. RowType'
    BY <1>1, <1>20 DEF ReportPolls, Reported, RowType, ChildrenType, ChildStates
  <2>2. ProcessType'
    BY <1>1, <1>20 DEF ReportPolls, ProcessType, At, Goes, Places
  <2> QED BY <1>1, <1>20, <2>1, <2>2 DEF ReportPolls, RunsType, TypeOK
<1>21. ASSUME NEW ok \in BOOLEAN, SenderStopsReport(ok)
       PROVE  TypeOK'
  <2>1. RowType' /\ RunsType'
    BY <1>1, <1>21, StopsReportType DEF SenderStopsReport, RunsType
  <2>2. ProcessType'
    BY <1>1, <1>2, <1>21 DEF SenderStopsReport, ProcessType, Ended, Unsent, Places, Got
  <2> QED BY <2>1, <2>2 DEF TypeOK
<1> QED BY <1>3, <1>4, <1>5, <1>6, <1>7, <1>8, <1>9, <1>10, <1>11, <1>12, <1>13, <1>14, <1>15,
           <1>16, <1>17, <1>18, <1>19, <1>20, <1>21 DEF Flight

\* A review's findings: it leaves the plan, and the last task has failed.
Findings ==
    /\ PollsFindings /\ ~stopping
    /\ children[Reviewer].known /\ children[Reviewer].state = "running" /\ Found(Request(Reviewer))
    /\ UNCHANGED <<flight, stopper, runs, retries, stage, repairs, report>>

\* What findings do: everything else was finished, and the last task is undone.
LEMMA FindingsFacts ==
  ASSUME TypeOK, PlanShape, ReviewApart, Findings
  PROVE  /\ LastTask \in Task /\ Planned /\ flow \in {"reviewing", "reviewed"}
         /\ \A t \in Task : t \in Range(targets) /\ Done(t, children)
         /\ children' = Opened /\ flow' = "workers" /\ state' = Settled(state, Opened, FALSE)
         /\ state' \in States
         /\ Reviewer \in Range(targets) /\ Range(targets') = Range(targets) \ {Reviewer}
         /\ targets' \in Seq(Key) /\ IsInjective(targets')
         /\ Range(flight.left) \subseteq Range(targets')
         /\ \A k \in Key : children'[k] = IF k = Reviewer THEN Absent
                                 ELSE IF k = LastTask
                                 THEN [state |-> "blocked", known |-> children[k].known]
                                 ELSE children[k]
         /\ ChildrenType(children', targets')
<1>1. /\ RowType /\ ProcessType /\ children \in [Key -> ChildRecord]
      /\ Reviewer \in Key /\ Reviewer \notin Task /\ Task \subseteq Key
  BY KeyFacts DEF TypeOK, RowType, ChildrenType, ChildRecord
<1>2. /\ ~stopping /\ Task # {} /\ children' = Opened /\ targets' = Without({Reviewer})
      /\ flow' = "workers" /\ state' = Settled(state, Opened, FALSE)
      /\ children[Reviewer].known /\ children[Reviewer].state = "running"
  BY DEF Findings, PollsFindings, ReopensLast
<1>3. LastTask \in Task
  <2>1. TaskSeq \in Seq(Task) /\ Range(TaskSeq) = Task
    BY KeyFacts
  <2>2. Len(TaskSeq) # 0
    BY <1>2, <2>1 DEF Range
  <2> QED BY <2>1, <2>2 DEF LastTask, Last
<1>4. Reviewer \in Range(targets) /\ flow \in {"reviewing", "reviewed"}
  BY <1>1, <1>2, KnownIsTarget DEF PlanShape
<1>5. Planned /\ \A t \in Task : t \in Range(targets) /\ Done(t, children)
  BY <1>2, <1>4 DEF PlanShape, Planned
<1>6. /\ Range(targets') = Range(targets) \ {Reviewer}
      /\ targets' \in Seq(Key) /\ IsInjective(targets')
  BY <1>1, <1>2, WithoutOnes DEF RowType
<1>7. Reviewer \notin Range(flight.left)
  <2>1. Absent.state = "none"
    BY DEF Absent
  <2> QED BY <1>2, <2>1 DEF ReviewApart
<1>8. Range(flight.left) \subseteq Range(targets')
  BY <1>1, <1>6, <1>7 DEF ProcessType
<1>9. state' \in States
  BY <1>1, <1>2, SettledType DEF RowType
<1>10. ASSUME NEW k \in Key
       PROVE  children'[k] = IF k = Reviewer THEN Absent
                             ELSE IF k = LastTask
                             THEN [state |-> "blocked", known |-> children[k].known]
                             ELSE children[k]
  <2>1. children[LastTask] \in ChildRecord /\ children[LastTask].state = "completed"
    BY <1>1, <1>3, <1>5 DEF Done
  <2>2. \A c \in ChildRecord : [c EXCEPT !.state = "blocked"] = [state |-> "blocked", known |-> c.known]
    BY DEF ChildRecord
  <2>3. children' = [children EXCEPT ![Reviewer] = Absent,
                                     ![LastTask] = [state |-> "blocked", known |-> children[LastTask].known]]
    BY <1>1, <1>2, <1>3, <2>1, <2>2 DEF Opened
  <2> QED BY <1>1, <1>3, <2>3
<1>11. ChildrenType(children', targets')
  <2>1. Absent \in ChildRecord /\ Absent.state = "none"
    BY DEF Absent, ChildRecord, ChildStates
  <2>2. \A c \in ChildRecord : [state |-> "blocked", known |-> c.known] \in ChildRecord
    BY DEF ChildRecord, ChildStates
  <2>3. DOMAIN children' = Key
    BY <1>1, <1>2 DEF Opened
  <2>4. children' \in [Key -> ChildRecord]
    <3>1. children' = [k \in Key |-> children'[k]]
      BY <1>1, <1>2 DEF Opened
    <3>2. \A k \in Key : children'[k] \in ChildRecord
      BY <1>1, <1>10, <2>1, <2>2
    <3> QED BY <3>1, <3>2
  <2>5. ASSUME NEW k \in Key
        PROVE  /\ children'[k].state \in {"running", "completed"} => children'[k].known
               /\ children'[k].state = "none" => children'[k] = Absent
               /\ children'[k] # Absent => k \in Range(targets')
    <3>1. CASE k = Reviewer
      BY <1>10, <2>1, <3>1
    <3>2. CASE k = LastTask /\ k # Reviewer
      <4>1. children'[k] = [state |-> "blocked", known |-> children[k].known]
        BY <1>10, <3>2
      <4> QED BY <1>5, <1>6, <1>3, <3>2, <4>1
    <3>3. CASE k # LastTask /\ k # Reviewer
      <4>1. children'[k] = children[k]
        BY <1>10, <3>3
      <4> QED BY <1>1, <1>6, <3>3, <4>1 DEF RowType, ChildrenType
    <3> QED BY <3>1, <3>2, <3>3
  <2> QED BY <2>4, <2>5 DEF ChildrenType, ChildRecord
<1> QED BY <1>2, <1>3, <1>4, <1>5, <1>6, <1>8, <1>9, <1>10, <1>11

\* The types are kept by every step of the others: polls, runs, stop(), resume(), crashes.
LEMMA OtherTypes ==
  ASSUME TypeOK, PlanShape, ReviewApart, Owner, Next, ~Flight
  PROVE  TypeOK'
<1>1. RowType /\ ProcessType /\ RunsType
  BY DEF TypeOK
<1>2. ASSUME NEW k \in Key,
             NEW seen \in {"running", "completed", "blocked", "decision", "stopped", "uncertain"},
             Polls(k, seen)
      PROVE  TypeOK'
  <2>1. k \in Range(targets)
    BY <1>1, <1>2, KnownIsTarget DEF Polls
  <2>2. ChildrenType(Child(k, seen, TRUE), targets)
    BY <1>1, <2>1, ChildKept DEF ChildStates
  <2>3. RowType'
    BY <1>1, <1>2, <2>2, SettlesType DEF Polls, RowType
  <2> QED BY <1>1, <1>2, <2>3 DEF Polls, ProcessType, RunsType, TypeOK
<1>3. CASE RunsEnd
  <2>1. PICK r \in DOMAIN runs, result \in {"completed", "findings", "blocked", "decision", "stopped"} :
           RunEnds(r, result)
    BY <1>3 DEF RunsEnd
  <2>2. RowType' /\ ProcessType'
    BY <1>1, <2>1 DEF RunEnds, row, RowType, ChildrenType, ProcessType
  <2>3. RunsType'
    BY <1>1, <2>1 DEF RunEnds, RunsType, RunStates
  <2> QED BY <2>2, <2>3 DEF TypeOK
<1>4. ASSUME NEW ok \in BOOLEAN, Stop(ok)
      PROVE  TypeOK'
  <2>1. asked' \in Nat
    BY <1>1, <1>4 DEF Stop, RunsType
  <2>2. RowType' /\ RunsType'
    BY <1>1, <1>4, <2>1, StopsReportType DEF Stop
  <2> QED BY <1>1, <1>4, <2>2 DEF Stop, ProcessType, TypeOK
<1>5. CASE StopperMarks
  <2>1. state' \in States
    <3>1. Settled("stopping", children, TRUE) \in States
      BY SettledType DEF States
    <3> QED BY <1>1, <1>5, <3>1 DEF StopperMarks, RowType
  <2>2. RowType'
    BY <1>1, <1>5, <2>1 DEF StopperMarks, RowType, ChildrenType
  <2>3. ProcessType'
    <3>1. stopper' = NoStopper \/ stopper' = [stopper EXCEPT !.at = "reads"]
      BY <1>5 DEF StopperMarks
    <3>2. flight' = flight /\ targets' = targets
      BY <1>5 DEF StopperMarks
    <3> QED BY <1>1, <3>1, <3>2, KeyFacts DEF ProcessType, NoStopper
  <2> QED BY <1>1, <1>5, <2>2, <2>3 DEF StopperMarks, RunsType, TypeOK
<1>6. CASE StopperReads
  BY <1>1, <1>6 DEF StopperReads, row, RowType, ChildrenType, ProcessType, RunsType, TypeOK
<1>7. CASE StopperEnds
  BY <1>1, <1>7, KeyFacts DEF StopperEnds, row, NoStopper, RowType, ChildrenType, ProcessType,
       RunsType, TypeOK
<1>8. ASSUME NEW k \in Key, StopperClaims(k)
      PROVE  TypeOK'
  <2>1. RowType'
    BY <1>1, <1>8 DEF StopperClaims, RowType, ChildrenType
  <2>2. ProcessType'
    BY <1>1, <1>8 DEF StopperClaims, ProcessType
  <2> QED BY <1>1, <1>8, <2>1, <2>2 DEF StopperClaims, RunsType, TypeOK
<1>9. ASSUME NEW ok \in BOOLEAN, StopperCalls(ok)
      PROVE  TypeOK'
  <2> DEFINE k == stopper.now
  <2>1. k \in Key /\ children[k].known
    BY <1>1, <1>9 DEF StopperCalls, ProcessType, Owner, Reached
  <2>2. k \in Range(targets)
    BY <1>1, <2>1, KnownIsTarget
  <2>3. RowType' /\ RunsType'
    <3>1. CASE Told(Request(k)) /\ UNCHANGED <<state, flow, children>>
      BY <1>1, <1>9, <3>1, ToldType DEF StopperCalls, RowType, ChildrenType, RunsType
    <3>2. CASE Unconfirmed(k) /\ UNCHANGED runs
      <4>1. ChildrenType(Child(k, "uncertain", children[k].known), targets)
        BY <1>1, <2>1, <2>2, ChildKept DEF ChildStates
      <4>2. RowType'
        BY <1>1, <1>9, <3>2, <4>1, SettlesType DEF StopperCalls, Unconfirmed, RowType
      <4> QED BY <1>1, <1>9, <3>2, <4>2 DEF StopperCalls, RunsType
    <3> QED BY <1>9, <3>1, <3>2 DEF StopperCalls
  <2>4. ProcessType'
    BY <1>1, <1>9, KeyFacts DEF StopperCalls, ProcessType
  <2> QED BY <2>3, <2>4 DEF TypeOK
<1>10. CASE Resume
  <2> DEFINE failed == FailedTasks(children)
             gone == {RepairOf[t] : t \in failed}
             out == {k \in gone : children[k] # Absent}
  <2>1. failed \subseteq Task /\ failed \subseteq Key /\ gone \subseteq Key
    BY KeyFacts DEF FailedTasks
  <2>2. /\ Reset(failed, gone) /\ targets' = Without(out)
        /\ repairs' = repairs \cup failed /\ applied' = applied \cup failed
        /\ report' = [report EXCEPT !.state = "none", !.known = FALSE]
        /\ state' = "ready" /\ flow' = "workers" /\ asked' = asked + 1
        /\ UNCHANGED <<stopping, claimed, flight, stopper, runs, sends, crashes>>
        /\ flight.at \in {"idle", "between"}
    BY <1>10 DEF Resume, ToResume, At
  <2>3. targets' \in Seq(Key) /\ IsInjective(targets') /\ Range(targets') = Range(targets) \ out
    BY <1>1, <2>2, WithoutOnes DEF RowType
  <2> HIDE DEF failed
  <2>4. /\ ChildrenType(children, targets)'
        /\ stage' \in [Task -> {"work", "review"}] /\ retries' \in [Key -> Nat]
    <3>1. \A k \in Key \ gone : k \in Range(targets) => k \in Range(targets')
      BY <2>3
    <3> HIDE DEF gone, out
    <3> QED BY <1>1, <2>1, <2>2, <3>1, ResetType
  <2>5. report' \in [state: ChildStates \cup {"ready"}, known: BOOLEAN, stop: BOOLEAN, posted: 0..1]
    BY <1>1, <2>2 DEF RowType, ChildStates
  <2>6. RowType'
    BY <1>1, <2>1, <2>2, <2>3, <2>4, <2>5 DEF RowType, States
  <2>7. Range(flight.left) = {} /\ Range(flight'.left) = {}
    BY <1>1, <2>2 DEF ProcessType, Range
  <2>8. ProcessType'
    BY <1>1, <2>2, <2>7 DEF ProcessType
  <2>9. RunsType'
    BY <1>1, <2>2 DEF RunsType
  <2> QED BY <2>6, <2>8, <2>9 DEF TypeOK
<1>11. CASE Crash
  <2>1. Range(<<>>) = {}
    BY DEF Range
  <2> QED BY <1>1, <1>11, <2>1, KeyFacts
      DEF Crash, row, Unsent, NoStopper, RowType, ChildrenType, ProcessType, RunsType, TypeOK,
           Places, Got
<1>12. CASE PollsFindings /\ stopping
  <2>1. PICK seen \in {"completed", "blocked"} : Settles(state, Child(Reviewer, seen, TRUE))
    BY <1>12 DEF PollsFindings
  <2>2. Reviewer \in Key /\ Reviewer \in Range(targets)
    BY <1>1, <1>12, KeyFacts, KnownIsTarget DEF PollsFindings
  <2>3. ChildrenType(Child(Reviewer, seen, TRUE), targets)
    BY <1>1, <2>2, ChildKept DEF ChildStates
  <2>4. RowType'
    BY <1>1, <1>12, <2>1, <2>3, SettlesType DEF PollsFindings, RowType
  <2> QED BY <1>1, <1>12, <2>4 DEF PollsFindings, ProcessType, RunsType, TypeOK
<1>13. CASE PollsFindings /\ ~stopping
  <2>1. Findings
    BY <1>13 DEF PollsFindings, Findings, Found, Request
  <2>2. /\ ChildrenType(children', targets') /\ targets' \in Seq(Key) /\ IsInjective(targets')
        /\ state' \in States /\ flow' = "workers"
        /\ Range(flight.left) \subseteq Range(targets')
    BY <1>1, <2>1, FindingsFacts
  <2>3. RowType'
    BY <1>1, <1>13, <2>2 DEF PollsFindings, RowType, ChildrenType
  <2> QED BY <1>1, <1>13, <2>2, <2>3 DEF PollsFindings, ProcessType, RunsType, TypeOK
<1> QED BY <1>2, <1>3, <1>4, <1>5, <1>6, <1>7, <1>8, <1>9, <1>10, <1>11, <1>12, <1>13
        DEF Next, Poll, Stopper

-----------------------------------------------------------------------------
(* What a step does to a child, to the sender and to what was sent.        *)

SameName(k) == retries'[k] = retries[k] /\ (k \in Task => stage'[k] = stage[k])
To(k, st, known) == children'[k] = [state |-> st, known |-> known]

Kept(k) == children'[k] = children[k]
Picked(k) ==
    /\ Picks /\ k = Next1 /\ ~stopping /\ children[k] = Absent /\ flight'.at = "send"
    /\ ~TooEarly(k) /\ To(k, "dispatching", FALSE)
Written(k) ==
    /\ Writes /\ k = Next1 /\ children[k].state = "dispatching"
    /\ \/ flight.got = "accepted" /\ To(k, "running", TRUE) /\ flight' = Accepted
       \/ flight.got = "busy" /\ children'[k] = Absent
       \/ To(k, "blocked", FALSE)
       \/ To(k, "uncertain", FALSE)
Doubted(k) == children'[k] = [children[k] EXCEPT !.state = "uncertain"]
Lost(k) == Interrupted /\ Running(children[k]) /\ Doubted(k)
Polled(k) == /\ children[k].state = "running" /\ children[k].known
             /\ UNCHANGED <<flight, stopper, runs, stopping>>
             /\ \E seen \in ChildStates \ {"none", "dispatching"} :
                   /\ To(k, seen, TRUE)
                   /\ \/ seen = "uncertain" \/ seen = Result(Request(k))
                      \/ stopping /\ seen \in {"completed", "blocked"}
ReviewTaken(k) == Findings /\ k = Reviewer /\ children'[k] = Absent
TaskReopened(k) == /\ Findings /\ k = LastTask /\ k \in Task
                   /\ To(k, "blocked", children[k].known) /\ children[k].state = "completed"
Unsure(k) ==
    /\ stopping /\ children[k].known /\ Doubted(k)
    /\ \/ At("calls") /\ k = Next1
       \/ stopper.at = "calls" /\ k = stopper.now
Dropped(k) ==
    /\ Resume /\ ~stopping /\ children'[k] = Absent
    /\ children[k].state \notin {"dispatching", "running", "uncertain"}
    /\ \E t \in FailedTasks(children) : k = RepairOf[t]
ToReview(k) ==
    /\ ~stopping /\ k \in Task /\ Awaiting(k, children) /\ At("reviews")
    /\ children'[k] = Absent /\ stage'[k] = "review" /\ retries'[k] = retries[k]
Again(k) ==
    /\ ~stopping /\ Failed(children[k]) /\ flight.at \in {"repairs", "retries", "idle", "between"}
    /\ children'[k] = Absent /\ retries'[k] = retries[k] + 1 /\ (k \in Task => stage'[k] = "work")

Moves(k) ==
    \/ /\ SameName(k)
       /\ \/ Kept(k) \/ Picked(k) \/ Written(k) \/ Lost(k) \/ Polled(k) \/ Unsure(k) \/ Dropped(k)
          \/ ReviewTaken(k) \/ TaskReopened(k)
    \/ ToReview(k)
    \/ Again(k)

\* A child that becomes uncertain.
LEMMA DoubtedRecord ==
  \A c \in ChildRecord : [c EXCEPT !.state = "uncertain"] = [state |-> "uncertain", known |-> c.known]
BY DEF ChildRecord

\* Every step moves each child in one of these ways.
LEMMA ChildMoves ==
  ASSUME TypeOK, Sender, Owner, Next, NEW k \in Key
  PROVE  Moves(k)
<1>1. RowType /\ ProcessType /\ RunsType
  BY DEF TypeOK
<1>2. children \in [Key -> ChildRecord]
  BY <1>1 DEF RowType, ChildrenType, ChildRecord
<1>3. CASE UNCHANGED <<children, retries, stage>>
  BY <1>3 DEF Moves, SameName, Kept
<1>4. CASE Interrupted
  <2>1. SameName(k)
    BY <1>4 DEF Interrupted, SameName
  <2>2. Kept(k) \/ Lost(k)
    BY <1>4 DEF Interrupted, Kept, Lost, Doubted
  <2> QED BY <2>1, <2>2 DEF Moves
<1>5. CASE PreparesReviews
  <2>1. CASE UNCHANGED <<children, stage>>
    BY <1>3, <1>5, <2>1 DEF PreparesReviews
  <2>2. CASE /\ ~stopping
             /\ children' = [j \in Key |-> IF j \in {t \in Task : Awaiting(t, children)} THEN Absent ELSE children[j]]
             /\ stage' = [t \in Task |-> IF t \in {u \in Task : Awaiting(u, children)} THEN "review" ELSE stage[t]]
    <3>1. CASE k \in Task /\ Awaiting(k, children)
      BY <1>5, <2>2, <3>1 DEF PreparesReviews, Moves, ToReview
    <3>2. CASE ~(k \in Task /\ Awaiting(k, children))
      BY <1>5, <2>2, <3>2 DEF PreparesReviews, Moves, SameName, Kept
    <3> QED BY <3>1, <3>2
  <2> QED BY <1>5, <2>1, <2>2 DEF PreparesReviews
<1>6. CASE RepairsTasks
  <2> DEFINE t == FirstOf(FailedTasks(children))
  <2>1. \/ UNCHANGED <<children, retries, stage>>
        \/ ~stopping /\ FailedTasks(children) # {} /\ Reset({t}, {})
    BY <1>6 DEF RepairsTasks, row
  <2>2. CASE ~stopping /\ FailedTasks(children) # {} /\ Reset({t}, {})
    <3>1. t \in Task /\ Failed(children[t])
      BY <2>2, FailedOnes
    <3> HIDE DEF t
    <3>2. CASE k = t
      BY <1>6, <2>2, <3>1, <3>2 DEF Reset, RepairsTasks, At, Moves, Again
    <3>3. CASE k # t
      BY <2>2, <3>1, <3>3 DEF Reset, Moves, SameName, Kept
    <3> QED BY <3>2, <3>3
  <2> QED BY <1>3, <2>1, <2>2
<1>7. CASE RetriesChildren
  <2>1. \/ UNCHANGED <<children, retries, stage>>
        \/ ~stopping /\ Failed(children[Planner]) /\ Reset({Planner}, {})
    BY <1>7 DEF RetriesChildren, Failed
  <2>2. CASE ~stopping /\ Failed(children[Planner]) /\ Reset({Planner}, {})
    <3>1. CASE k = Planner
      BY <1>7, <2>2, <3>1, KeyFacts DEF Reset, RetriesChildren, At, Moves, Again
    <3>2. CASE k # Planner
      BY <2>2, <3>2 DEF Reset, Moves, SameName, Kept
    <3> QED BY <3>1, <3>2
  <2> QED BY <1>3, <2>1, <2>2
<1>8. CASE Picks
  <2>1. SameName(k)
    BY <1>8 DEF Picks, SameName
  <2>2. Next1 \in Key
    BY <1>1, <1>8, NextIsTarget DEF Picks
  <2>3. Kept(k) \/ Picked(k)
    <3>1. flight \in [at: Places, left: Seq(Key), got: Got]
      BY <1>1 DEF ProcessType
    <3> QED BY <1>2, <1>8, <2>2, <3>1 DEF Picks, Kept, Picked, Child, Waits, To, ChildRecord
  <2> QED BY <2>1, <2>3 DEF Moves
<1>9. CASE Writes
  <2>1. SameName(k)
    BY <1>9 DEF Writes, SameName
  <2>2. Next1 \in Key /\ children[Next1].state = "dispatching"
    BY <1>1, <1>9, NextIsTarget DEF Writes, ProcessType, At, Sender
  <2>3. CASE k # Next1
    BY <1>2, <1>9, <2>1, <2>3 DEF Writes, Child, Kept, Moves
  <2>4. CASE k = Next1
    BY <1>2, <1>9, <2>1, <2>2, <2>4 DEF Writes, Child, Written, To, Moves
  <2> QED BY <2>3, <2>4
<1>10. CASE SenderCalls
  <2>1. \/ UNCHANGED children
        \/ children' = Child(Next1, "uncertain", children[Next1].known)
    BY <1>10 DEF SenderCalls, Unconfirmed, Settles
  <2>2. SameName(k)
    BY <1>10 DEF SenderCalls, SameName
  <2>3. Next1 \in Key /\ At("calls") /\ stopping /\ children[Next1].known
    BY <1>1, <1>10, NextIsTarget DEF SenderCalls, ProcessType, At, Sender
  <2>4. Kept(k) \/ Unsure(k)
    BY <1>2, <2>1, <2>3, DoubtedRecord DEF Child, Kept, Unsure, Doubted
  <2> QED BY <2>2, <2>4 DEF Moves
<1>11. CASE Ends
  <2>1. UNCHANGED <<children, retries, stage>>
    BY <1>11 DEF Ends, Settles
  <2> QED BY <1>3, <2>1
<1>12. ASSUME NEW j \in Key,
             NEW seen \in {"running", "completed", "blocked", "decision", "stopped", "uncertain"},
             Polls(j, seen)
       PROVE  Moves(k)
  <2>1. SameName(k)
    BY <1>12 DEF Polls, SameName
  <2>2. children' = Child(j, seen, TRUE)
    BY <1>12 DEF Polls, Settles
  <2>3. seen \in ChildStates \ {"none", "dispatching"} /\ (seen = "uncertain" \/ seen = Result(Request(j)))
    BY <1>12 DEF Polls, ChildStates
  <2>4. CASE k = j
    <3>1. To(k, seen, TRUE)
      BY <1>2, <2>2, <2>4 DEF Child, To
    <3> QED BY <1>12, <2>1, <2>3, <2>4, <3>1 DEF Polls, Polled, Moves
  <2>5. CASE k # j
    BY <1>2, <2>1, <2>2, <2>5 DEF Child, Kept, Moves
  <2> QED BY <2>4, <2>5
<1>13. ASSUME NEW ok \in BOOLEAN, StopperCalls(ok)
       PROVE  Moves(k)
  <2>1. \/ UNCHANGED children
        \/ children' = Child(stopper.now, "uncertain", children[stopper.now].known)
    BY <1>13 DEF StopperCalls, Unconfirmed, Settles
  <2>2. SameName(k)
    BY <1>13 DEF StopperCalls, SameName
  <2>3. stopper.now \in Key /\ stopper.at = "calls" /\ stopping /\ children[stopper.now].known
    BY <1>1, <1>13 DEF StopperCalls, ProcessType, Owner, Reached
  <2>4. Kept(k) \/ Unsure(k)
    BY <1>2, <2>1, <2>3, DoubtedRecord DEF Child, Kept, Unsure, Doubted
  <2> QED BY <2>2, <2>4 DEF Moves
<1>14. CASE PollsFindings
  <2>1. SameName(k)
    BY <1>14 DEF PollsFindings, SameName
  <2>2. CASE stopping
    <3>1. PICK seen \in {"completed", "blocked"} : children' = Child(Reviewer, seen, TRUE)
      BY <1>14, <2>2 DEF PollsFindings, Settles
    <3>2. CASE k = Reviewer
      <4>1. To(k, seen, TRUE) /\ seen \in ChildStates \ {"none", "dispatching"}
        BY <1>2, <3>1, <3>2 DEF Child, To, ChildStates
      <4> QED BY <1>14, <2>1, <2>2, <3>2, <4>1 DEF PollsFindings, Polled, Moves
    <3>3. CASE k # Reviewer
      BY <1>2, <2>1, <3>1, <3>3, KeyFacts DEF Child, Kept, Moves
    <3> QED BY <3>2, <3>3
  <2>3. CASE ~stopping
    <3>1. Findings /\ children' = Opened /\ Task # {}
      BY <1>14, <2>3 DEF PollsFindings, Findings, Found, Request, ReopensLast
    <3>2. LastTask \in Task
      <4>1. TaskSeq \in Seq(Task) /\ Range(TaskSeq) = Task
        BY KeyFacts
      <4>2. Len(TaskSeq) # 0
        BY <3>1, <4>1 DEF Range
      <4> QED BY <4>1, <4>2 DEF LastTask, Last
    <3>3. LastTask \in Key /\ Reviewer \in Key /\ LastTask # Reviewer
      BY <3>2, KeyFacts
    <3>4. CASE k = Reviewer
      <4>1. children'[k] = Absent
        BY <1>2, <3>1, <3>3, <3>4 DEF Opened
      <4> QED BY <2>1, <3>1, <3>4, <4>1 DEF ReviewTaken, Moves
    <3>5. CASE k = LastTask
      <4>1. children'[k] = [children[k] EXCEPT !.state = IF @ = "completed" THEN "blocked" ELSE @]
        BY <1>2, <3>1, <3>3, <3>5 DEF Opened
      <4>2. \A c \in ChildRecord :
               [c EXCEPT !.state = IF @ = "completed" THEN "blocked" ELSE @]
                   = IF c.state = "completed" THEN [state |-> "blocked", known |-> c.known] ELSE c
        BY DEF ChildRecord
      <4>3. CASE children[k].state = "completed"
        BY <1>2, <2>1, <3>1, <3>2, <3>5, <4>1, <4>2, <4>3 DEF To, TaskReopened, Moves
      <4>4. CASE children[k].state # "completed"
        BY <1>2, <2>1, <4>1, <4>2, <4>4 DEF Kept, Moves
      <4> QED BY <4>3, <4>4
    <3>6. CASE k # Reviewer /\ k # LastTask
      BY <1>2, <2>1, <3>1, <3>3, <3>6 DEF Opened, Kept, Moves
    <3> QED BY <3>4, <3>5, <3>6
  <2> QED BY <2>2, <2>3
<1>15. CASE Resume
  <2> DEFINE failed == FailedTasks(children)
             gone == {RepairOf[t] : t \in failed}
  <2>1. Reset(failed, gone) /\ ~stopping /\ flight.at \in {"idle", "between"}
    BY <1>15 DEF Resume, ToResume, At
  <2>2. CASE k \in failed
    BY <2>1, <2>2 DEF Reset, Again, Moves, FailedTasks
  <2>3. CASE k \notin failed /\ k \in gone
    BY <1>15, <2>1, <2>3 DEF Resume, Shows, Reset, SameName, Dropped, Moves
  <2>4. CASE k \notin failed /\ k \notin gone
    BY <2>1, <2>4 DEF Reset, SameName, Kept, Moves
  <2> QED BY <2>2, <2>3, <2>4
<1>16. CASE Begins \/ Continues \/ Marks \/ Sends \/ SenderStops \/ ReportBegins \/ SendsReport
            \/ ReportWrites \/ Publishes
            \/ (\E seen \in {"running", "completed", "blocked", "decision", "stopped", "uncertain"} :
                   ReportPolls(seen))
            \/ (\E ok \in BOOLEAN : SenderStopsReport(ok))
  <2>1. UNCHANGED <<children, retries, stage>>
    BY <1>16 DEF Begins, row, Continues, Marks, Sends, Submits, SenderStops, ReportBegins,
                 SendsReport, ReportSends, ReportWrites, Publishes, ReportPolls, SenderStopsReport
  <2> QED BY <1>3, <2>1
<1>17. CASE RunsEnd \/ (\E ok \in BOOLEAN : Stop(ok)) \/ StopperMarks \/ StopperReads \/ StopperEnds
            \/ (\E j \in Key : StopperClaims(j)) \/ Crash
  <2>1. UNCHANGED <<children, retries, stage>>
    BY <1>17 DEF RunsEnd, RunEnds, row, Stop, StopperMarks, StopperReads, StopperEnds,
                 StopperClaims, Crash
  <2> QED BY <1>3, <2>1
<1> QED BY <1>4, <1>5, <1>6, <1>7, <1>8, <1>9, <1>10, <1>11, <1>12, <1>13, <1>15, <1>16, <1>17, <1>14
        DEF Next, Flight, Poll, Stopper

\* A child that findings move was running, or was finished, and no stop is on.
LEMMA FindingsMove ==
  ASSUME NEW k \in Key
  PROVE  /\ ReviewTaken(k) => ~stopping /\ children[k].state = "running" /\ children'[k] = Absent
         /\ TaskReopened(k) => /\ ~stopping /\ children[k].state = "completed"
                               /\ children'[k] = [state |-> "blocked", known |-> children[k].known]
                               /\ children'[k].state = "blocked"
         /\ ReviewTaken(k) \/ TaskReopened(k) =>
               /\ Findings /\ UNCHANGED <<flight, stopper, runs, stage, repairs, report>>
BY DEF ReviewTaken, TaskReopened, Findings, To

FlightGoes ==
    \/ UNCHANGED flight
    \/ flight'.at \in {"idle", "between", "reviews", "repairs", "retries", "continue", "mark",
                       "reportstops", "publish"}
    \/ Begins /\ flight'.at = "interrupted"
    \/ (Marks \/ Picks \/ Writes \/ SenderStops \/ SenderCalls) /\ flight'.at = "loop"
    \/ Picks /\ flight'.at = "send" /\ flight'.left = flight.left /\ Picked(Next1)
    \/ Sends /\ flight'.at = "write" /\ flight'.left = flight.left
    \/ Writes /\ flight'.at = "stops" /\ flight'.left = flight.left /\ stopping /\ flight.got = "accepted"
    \/ SenderStops /\ flight'.at = "calls" /\ flight'.left = flight.left
    \/ ReportBegins /\ flight'.at \in {"reportsend", "reportpoll"}
    \/ SendsReport /\ flight'.at = "reportwrite"

\* Where a step takes the sender.
LEMMA FlightMoves ==
  ASSUME TypeOK, Sender, Next
  PROVE  FlightGoes
<1>1. RowType /\ ProcessType /\ flight \in [at: Places, left: Seq(Key), got: Got]
  BY DEF TypeOK, ProcessType
<1>2. CASE UNCHANGED flight
  BY <1>2 DEF FlightGoes
<1>3. CASE Begins
  BY <1>1, <1>3 DEF Begins, Goes, FlightGoes
<1>4. CASE Marks
  BY <1>1, <1>4 DEF Marks, Frees, Unsent, FlightGoes
<1>5. CASE Picks
  <2>1. Next1 \in Key
    BY <1>1, <1>5, NextIsTarget DEF Picks
  <2>2. CASE flight' = Broken \/ flight' = Passed
    BY <1>1, <1>5, <2>2 DEF Broken, Passed, Unsent, FlightGoes
  <2>3. CASE /\ ~stopping /\ ~Waits(Next1) /\ children' = Child(Next1, "dispatching", FALSE)
             /\ flight' = [flight EXCEPT !.at = "send"]
    <3>1. Picked(Next1)
      BY <1>1, <1>5, <2>1, <2>3 DEF Picked, Waits, Child, To, RowType, ChildrenType
    <3> QED BY <1>1, <1>5, <2>3, <3>1 DEF FlightGoes
  <2> QED BY <1>5, <2>2, <2>3 DEF Picks
<1>6. CASE Sends
  BY <1>1, <1>6 DEF Sends, Submits, FlightGoes
<1>7. CASE Writes
  <2>1. \/ flight.got = "accepted" /\ flight' = Accepted
        \/ flight' = Passed \/ flight' = Broken \/ flight' = [Broken EXCEPT !.got = "busy"]
    BY <1>7 DEF Writes
  <2> QED BY <1>1, <1>7, <2>1 DEF Accepted, Passed, Broken, Unsent, FlightGoes
<1>8. CASE SenderStops
  BY <1>1, <1>8 DEF SenderStops, Broken, Unsent, FlightGoes
<1>9. CASE SenderCalls
  BY <1>1, <1>9 DEF SenderCalls, Broken, Unsent, FlightGoes
<1>10. CASE ReportBegins
  BY <1>1, <1>10 DEF ReportBegins, Ended, Goes, Unsent, FlightGoes
<1>11. CASE SendsReport
  BY <1>1, <1>11 DEF SendsReport, ReportSends, FlightGoes
<1>12. CASE Interrupted \/ PreparesReviews \/ RepairsTasks \/ RetriesChildren \/ Continues \/ Ends
            \/ ReportWrites \/ Publishes \/ Crash
            \/ (\E ok \in BOOLEAN : SenderStopsReport(ok))
            \/ (\E seen \in {"running", "completed", "blocked", "decision", "stopped", "uncertain"} :
                   ReportPolls(seen))
  <2>1. flight'.at \in {"idle", "between", "repairs", "continue", "mark", "reportstops", "publish"}
    BY <1>1, <1>12 DEF Interrupted, PreparesReviews, RepairsTasks, RetriesChildren, Continues,
         Sending,
         Ends, ReportWrites, Publishes, Crash, SenderStopsReport, ReportPolls, Frees, Goes,
              Ended, Unsent
  <2> QED BY <2>1 DEF FlightGoes
<1>13. CASE Poll \/ PollsFindings \/ RunsEnd \/ (\E ok \in BOOLEAN : Stop(ok)) \/ Stopper \/ Resume
  <2>1. UNCHANGED flight
    BY <1>13 DEF Poll, Polls, PollsFindings, RunsEnd, RunEnds, Stop, Stopper, StopperMarks, StopperReads,
         StopperEnds,
                 StopperClaims, StopperCalls, Resume
  <2> QED BY <2>1 DEF FlightGoes
<1> QED BY <1>3, <1>4, <1>5, <1>6, <1>7, <1>8, <1>9, <1>10, <1>11, <1>12, <1>13 DEF Next, Flight

\* A stop is not taken back.
LEMMA StoppingStays ==
  ASSUME TypeOK, Next
  PROVE  /\ stopping => stopping'
         /\ StopperMarks /\ stopper'.at = "reads" => stopping'
         /\ stopping' => stopping \/ (StopperMarks /\ stopper'.at = "reads")
<1>1. CASE StopperMarks
  <2>1. \/ stopping' = TRUE /\ stopper' = [stopper EXCEPT !.at = "reads"]
        \/ stopping' = stopping /\ stopper' = NoStopper
    BY <1>1 DEF StopperMarks
  <2> QED BY <1>1, <2>1 DEF TypeOK, ProcessType, NoStopper
<1>2. CASE ~StopperMarks
  <2>1. UNCHANGED stopping
    BY <1>2 DEF Next, Flight, Begins, Interrupted, PreparesReviews, RepairsTasks, RetriesChildren,
       Continues, Marks, Picks, Sends, Submits, Writes, SenderStops, SenderCalls, Ends,
            ReportBegins,
       SendsReport, ReportSends, ReportWrites, Publishes, ReportPolls, SenderStopsReport,
       Poll, Polls, PollsFindings, RunsEnd, RunEnds, Stop, Stopper, StopperReads, StopperEnds, StopperClaims,
       StopperCalls, Resume, Crash, row
  <2> QED BY <1>2, <2>1
<1> QED BY <1>1, <1>2

Seen == {k \in Key : children[k].known /\ children[k].state \in {"running", "uncertain"}}
StopperGoes ==
    \/ UNCHANGED stopper
    \/ stopper'.at \in {"idle", "marks"} /\ Reached' = {}
    \/ StopperMarks /\ stopper'.at = "reads" /\ Reached' = {}
    \/ StopperReads /\ Reached' = Seen
    \/ stopper.at \in {"claims", "calls"} /\ Reached' \subseteq Reached

\* Where a step takes the owner who stops.
LEMMA StopperMoves ==
  ASSUME TypeOK, Next
  PROVE  StopperGoes
<1>1. stopper \in [at: {"idle", "marks", "reads", "claims", "calls"}, left: SUBSET Key, now: Key]
  BY DEF TypeOK, ProcessType
<1>2. ASSUME NEW ok \in BOOLEAN, Stop(ok)
      PROVE  StopperGoes
  BY <1>1, <1>2 DEF Stop, StopperGoes, Reached
<1>3. CASE StopperMarks
  <2>1. stopper' = NoStopper \/ stopper' = [stopper EXCEPT !.at = "reads"]
    BY <1>3 DEF StopperMarks
  <2> QED BY <1>1, <1>3, <2>1 DEF NoStopper, StopperGoes, Reached
<1>4. CASE StopperReads
  BY <1>1, <1>4 DEF StopperReads, StopperGoes, Reached, Seen
<1>5. CASE StopperEnds \/ Crash
  BY <1>1, <1>5 DEF StopperEnds, Crash, NoStopper, StopperGoes, Reached
<1>6. ASSUME NEW k \in Key, StopperClaims(k)
      PROVE  StopperGoes
  BY <1>1, <1>6 DEF StopperClaims, StopperGoes, Reached
<1>7. ASSUME NEW ok \in BOOLEAN, StopperCalls(ok)
      PROVE  StopperGoes
  BY <1>1, <1>7 DEF StopperCalls, StopperGoes, Reached
<1>8. CASE Flight \/ Poll \/ PollsFindings \/ RunsEnd \/ Resume
  <2>1. UNCHANGED stopper
    BY <1>8 DEF Flight, Begins, Interrupted, PreparesReviews, RepairsTasks, RetriesChildren,
       Continues, Marks, Picks, Sends, Submits, Writes, SenderStops, SenderCalls, Ends,
            ReportBegins,
       SendsReport, ReportSends, ReportWrites, Publishes, ReportPolls, SenderStopsReport,
       Poll, Polls, PollsFindings, RunsEnd, RunEnds, Resume
  <2> QED BY <2>1 DEF StopperGoes
<1> QED BY <1>2, <1>3, <1>4, <1>5, <1>6, <1>7, <1>8 DEF Next, Stopper

-----------------------------------------------------------------------------
(* What the sender and a stop rely on.                                     *)

\* What the sender relies on: the child it sends is marked, the one it stops is known.
LEMMA SenderStep ==
  ASSUME TypeOK, Sender, Owner, Next, TypeOK'
  PROVE  Sender'
<1>1. RowType /\ ProcessType /\ FlightGoes
  BY FlightMoves DEF TypeOK
<1>2. \A k \in Key : Moves(k)
  BY ChildMoves
<1>3. children \in [Key -> ChildRecord] /\ children' \in [Key -> ChildRecord]
  BY DEF TypeOK, RowType, ChildrenType, ChildRecord
<1>4. ASSUME NEW k \in Key, children'[k].state = "dispatching"
      PROVE  ~children'[k].known
  <2>1. Moves(k)
    BY <1>2
  <2> QED BY <1>3, <1>4, <2>1, FindingsMove
      DEF Moves, Sender, Kept, Picked, Written, Lost, Polled, Unsure, Dropped, ToReview, Again,
          Doubted, To, Absent, ChildRecord
<1>5. ASSUME flight'.at \in {"send", "write"}
      PROVE  children'[Next1'].state = "dispatching"
  <2>1. CASE Picks /\ flight'.left = flight.left /\ Picked(Next1)
    BY <2>1 DEF Picked, To, Next1
  <2>2. CASE /\ flight'.left = flight.left /\ flight.at \in {"send", "write"}
             /\ ~Picks /\ ~Writes /\ ~Interrupted
    <3>1. Next1 \in Key /\ Next1' = Next1 /\ children[Next1].state = "dispatching"
      BY <1>1, <2>2, NextIsTarget DEF Next1, Sender, ProcessType
    <3>2. Moves(Next1)
      BY <1>2, <3>1
    <3>3. /\ ~Picked(Next1) /\ ~Written(Next1) /\ ~Lost(Next1) /\ ~Polled(Next1)
          /\ ~Dropped(Next1) /\ ~ToReview(Next1) /\ ~Again(Next1) /\ ~Unsure(Next1)
      BY <1>1, <2>2, <3>1 DEF Picked, Written, Lost, Polled, Dropped, ToReview, Again, Unsure,
           Awaiting,
         Failed, Sender
    <3> QED BY <3>1, <3>2, <3>3, FindingsMove DEF Moves, Kept
  <2>3. UNCHANGED flight => ~Picks /\ ~Writes /\ ~Interrupted
    <3>1. Writes => flight'.at \in {"loop", "stops"}
      <4>1. Writes => \/ flight' = [flight EXCEPT !.at = "stops"]
                      \/ flight' = Passed \/ flight' = Broken \/ flight' = [Broken EXCEPT !.got = "busy"]
        BY DEF Writes, Accepted
      <4> QED BY <1>1, <4>1 DEF Passed, Broken, Unsent, ProcessType
    <3> QED BY <1>5, <3>1 DEF Picks, Interrupted, At
  <2>4. Sends => ~Picks /\ flight.at = "send" /\ ~Writes /\ ~Interrupted
    BY DEF Sends, Submits, At, Picks, Writes, Interrupted
  <2> QED BY <1>1, <1>5, <2>1, <2>2, <2>3, <2>4 DEF FlightGoes
<1>6. ASSUME flight'.at \in {"stops", "calls"}
      PROVE  stopping' /\ children'[Next1'].known
  <2>1. CASE /\ Writes /\ flight'.at = "stops" /\ flight'.left = flight.left
             /\ stopping /\ flight.got = "accepted"
    <3>1. Next1 \in Key /\ Next1' = Next1
      BY <1>1, <2>1, NextIsTarget DEF Next1, ProcessType, Writes, At
    <3> QED BY <1>3, <2>1, <3>1 DEF Writes, Child
  <2>2. CASE /\ flight'.left = flight.left /\ flight.at \in {"stops", "calls"}
             /\ UNCHANGED flight \/ SenderStops
    <3>1. Next1 \in Key /\ Next1' = Next1 /\ children[Next1].known /\ stopping
      BY <1>1, <2>2, NextIsTarget DEF Next1, Sender, ProcessType
    <3>2. Moves(Next1) /\ stopping'
      BY <1>2, <3>1, StoppingStays
    <3> QED BY <1>3, <2>2, <3>1, <3>2, FindingsMove
        DEF Moves, Kept, Picked, Written, Lost, Polled, Unsure, Dropped, ToReview, Again,
            Doubted, To, Absent, ChildRecord, Sender
  <2>3. SenderStops => flight.at = "stops"
    BY DEF SenderStops, At
  <2> QED BY <1>1, <1>6, <2>1, <2>2, <2>3, StoppingStays DEF FlightGoes
<1> QED BY <1>4, <1>5, <1>6 DEF Sender

\* While a stop is on, what is known of a child stays known.
LEMMA KnownStays ==
  ASSUME TypeOK, Sender, Owner, Next, stopping, NEW k \in Key, children[k].known
  PROVE  children'[k].known
<1>1. Moves(k)
  BY ChildMoves
<1>2. children[k] \in ChildRecord /\ children[k].state # "dispatching"
  BY DEF TypeOK, RowType, ChildrenType, ChildRecord, Sender
<1>3. Kept(k) \/ Doubted(k) \/ Polled(k)
  BY <1>1, <1>2, FindingsMove DEF Moves, Picked, Written, Lost, Unsure, Dropped, ToReview, Again
<1>4. Kept(k) => children'[k].known
  BY DEF Kept
<1>5. Polled(k) => children'[k].known
  BY DEF Polled, To
<1>6. Doubted(k) => children'[k] = [state |-> "uncertain", known |-> children[k].known]
  BY <1>2, DoubtedRecord DEF Doubted
<1>7. Doubted(k) => children'[k].known
  BY <1>6
<1> QED BY <1>3, <1>4, <1>5, <1>7

\* Who claims a child for his stop.
LEMMA ClaimMoves ==
  ASSUME TypeOK, Next, NEW k \in Key, k \in claimed'
  PROVE  k \in claimed \/ (SenderStops /\ k = Next1) \/ StopperClaims(k)
<1> SUFFICES ASSUME k \notin claimed, ~(SenderStops /\ k = Next1), ~StopperClaims(k) PROVE FALSE
  OBVIOUS
<1>1. \/ claimed' = claimed \/ claimed' = claimed \cup {Report}
      \/ SenderStops /\ claimed' = claimed \cup {Next1}
      \/ \E j \in Key : StopperClaims(j)
  <2>1. CASE SenderStops
    BY <2>1 DEF SenderStops
  <2>2. CASE ~SenderStops /\ ~\E j \in Key : StopperClaims(j)
    BY <2>2 DEF Next, Flight, Begins, Interrupted, PreparesReviews, RepairsTasks, RetriesChildren,
       Continues, Marks, Picks, Sends, Submits, Writes, SenderCalls, Ends, ReportBegins,
       SendsReport, ReportSends, ReportWrites, Publishes, ReportPolls, SenderStopsReport,
            StopsReport,
       Poll, Polls, PollsFindings, RunsEnd, RunEnds, Stop, Stopper, StopperMarks, StopperReads, StopperEnds,
       StopperCalls, Resume, Crash, row
  <2> QED BY <2>1, <2>2
<1>2. \A j \in Key : StopperClaims(j) => claimed' = claimed \cup {j}
  BY DEF StopperClaims
<1> QED BY <1>1, <1>2, KeyFacts

\* What the owner relies on: a stop is on, and whom he stops is known.
LEMMA OwnerStep ==
  ASSUME TypeOK, Sender, Owner, Next, TypeOK'
  PROVE  Owner'
<1>1. StopperGoes
  BY StopperMoves
<1>2. \A k \in Key : stopping /\ children[k].known => children'[k].known
  BY KnownStays
<1>3. Reached \subseteq Key
  BY DEF Reached, TypeOK, ProcessType
<1>4. ASSUME stopper'.at \in {"reads", "claims", "calls"}
      PROVE  stopping'
  BY <1>1, <1>4, StoppingStays DEF StopperGoes, Owner, StopperReads
<1>5. ASSUME NEW k \in Reached'
      PROVE  children'[k].known
  <2>1. CASE k \in Reached
    <3>1. stopping /\ children[k].known /\ k \in Key
      BY <1>3, <2>1 DEF Owner, Reached
    <3> QED BY <1>2, <3>1
  <2>2. CASE StopperReads /\ k \in Seen
    BY <2>2 DEF StopperReads, row, Seen
  <2>3. UNCHANGED stopper => Reached' = Reached
    BY DEF Reached
  <2> QED BY <1>1, <1>5, <2>1, <2>2, <2>3 DEF StopperGoes
<1>6. ASSUME NEW k \in claimed' \cap Key
      PROVE  stopping' /\ children'[k].known
  <2>1. CASE k \in claimed
    BY <1>2, <2>1, StoppingStays DEF Owner
  <2>2. CASE SenderStops /\ k = Next1
    BY <2>2 DEF SenderStops, At, Sender
  <2>3. CASE StopperClaims(k)
    <3>1. k \in Reached /\ stopping
      BY <2>3 DEF StopperClaims, Owner, Reached
    <3> QED BY <1>2, <3>1, StoppingStays DEF Owner
  <2> QED BY <1>6, <2>1, <2>2, <2>3, ClaimMoves
<1> QED BY <1>4, <1>5, <1>6 DEF Owner

\* A finished step stays finished, unless a review reopens it; what a stop could not
\* confirm is uncertain.
LEMMA DoneKept ==
  ASSUME TypeOK, Sender, Owner, Next, NEW t \in Task, Done(t, children)
  PROVE  /\ children'[t].state \in {"completed", "uncertain"} \/ TaskReopened(t)
         /\ ~stopping => Done(t, children)' \/ TaskReopened(t)
         /\ stage'[t] = stage[t]
<1>1. t \in Key
  BY KeyFacts
<1>2. Moves(t)
  BY <1>1, ChildMoves
<1>3. children[t] \in ChildRecord /\ children[t].state = "completed"
  BY <1>1 DEF TypeOK, RowType, ChildrenType, ChildRecord, Done
<1>4. ~Dropped(t)
  BY KeyFacts DEF Dropped, FailedTasks
<1>5. /\ ~Picked(t) /\ ~Written(t) /\ ~Lost(t) /\ ~Polled(t) /\ ~ToReview(t) /\ ~Again(t)
  <2>1. ~Picked(t)
    <3>1. Absent.state = "none"
      BY DEF Absent
    <3> QED BY <1>3, <3>1 DEF Picked
  <2>2. ~Written(t) /\ ~Lost(t) /\ ~Polled(t)
    BY <1>3 DEF Written, Lost, Polled, Running
  <2>3. ~ToReview(t) /\ ~Again(t)
    BY <1>3 DEF ToReview, Again, Failed, Done
  <2> QED BY <2>1, <2>2, <2>3
<1>6. SameName(t) /\ (Kept(t) \/ (stopping /\ Doubted(t)) \/ TaskReopened(t))
  <2>1. ~ReviewTaken(t)
    BY <1>1, <1>3, FindingsMove
  <2> QED BY <1>2, <1>4, <1>5, <2>1 DEF Moves, Unsure
<1> QED BY <1>3, <1>6 DEF SameName, Kept, Doubted, Done, Awaiting, ChildRecord

-----------------------------------------------------------------------------
(* Steps keep their order.                                                 *)

\* No task comes before itself.
LEMMA NotBeforeItself ==
  ASSUME NEW t \in Task
  PROVE  ~Before(t, t)
<1>1. Len(TaskSeq) \in Nat /\ DOMAIN TaskSeq = 1..Len(TaskSeq) /\ Range(TaskSeq) = Task
  BY TaskAssumption
<1>2. \E i \in 1..Len(TaskSeq) : TaskSeq[i] = t
  BY <1>1 DEF Range
<1>3. IndexOf(t) \in 1..Len(TaskSeq)
  BY <1>2 DEF IndexOf
<1>4. Order[t] \in Nat /\ IndexOf(t) \in Nat
  BY <1>1, <1>3, TaskAssumption
<1> QED BY <1>4 DEF Before

AtWork(c) == c.state \in {"dispatching", "running"}

\* Only the sender's choice puts a step to work.
LEMMA PutToWork ==
  ASSUME TypeOK, Sender, Owner, Next, NEW k \in Key, ~AtWork(children[k]), AtWork(children'[k])
  PROVE  Picked(k)
<1>1. Moves(k)
  BY ChildMoves
<1>2. children[k] \in ChildRecord /\ Absent.state = "none"
  BY DEF TypeOK, RowType, ChildrenType, ChildRecord, Absent
<1>3. ~Kept(k) /\ ~Written(k) /\ ~Polled(k)
  BY DEF Kept, Written, Polled, AtWork
<1>4. ~Dropped(k) /\ ~ToReview(k) /\ ~Again(k)
  BY <1>2 DEF Dropped, ToReview, Again, AtWork
<1>5. Doubted(k) => children'[k].state = "uncertain"
  BY <1>2, DoubtedRecord DEF Doubted
<1>6. ~Lost(k) /\ ~Unsure(k)
  BY <1>5 DEF Lost, Unsure, AtWork
<1>7. ~ReviewTaken(k) /\ ~TaskReopened(k)
  BY <1>2, FindingsMove DEF AtWork
<1> QED BY <1>1, <1>3, <1>4, <1>6, <1>7 DEF Moves

\* Only an unconfirmed stop and a review take a finished step back.
LEMMA TakenBack ==
  ASSUME TypeOK, Sender, Owner, Next, NEW t \in Task, Done(t, children), children'[t].state # "completed"
  PROVE  Unsure(t) \/ TaskReopened(t)
<1>1. t \in Key
  BY KeyFacts
<1>2. Moves(t)
  BY <1>1, ChildMoves
<1>3. children[t].state = "completed" /\ Absent.state = "none"
  BY DEF Done, Absent
<1>4. ~Dropped(t)
  BY KeyFacts DEF Dropped, FailedTasks
<1>5. ~Picked(t) /\ ~Written(t) /\ ~Lost(t) /\ ~Polled(t) /\ ~Kept(t)
  BY <1>3 DEF Picked, Written, Lost, Polled, Running, Kept
<1>6. ~ToReview(t) /\ ~Again(t)
  BY <1>3 DEF ToReview, Again, Failed, Done
<1>7. ~ReviewTaken(t)
  BY <1>1, <1>3, FindingsMove
<1> QED BY <1>2, <1>4, <1>5, <1>6, <1>7 DEF Moves

\* When a review has findings no step is at work.
LEMMA NothingAtWork ==
  ASSUME TypeOK, PlanShape, ReviewApart, Findings, NEW t \in Task
  PROVE  ~AtWork(children'[t])
<1>1. t \in Key /\ t # Reviewer /\ children[t].state = "completed"
  BY FindingsFacts, KeyFacts DEF Done
<1>2. children'[t] = children[t] \/ children'[t] = [state |-> "blocked", known |-> children[t].known]
  BY <1>1, FindingsFacts
<1>3. children'[t].state \in {"completed", "blocked"}
  BY <1>1, <1>2
<1> QED BY <1>3 DEF AtWork

\* Steps keep their order: a step is put to work when those before it are done, and one
\* that a stop may take back has none after it at work.
LEMMA OrderedStep ==
  ASSUME TypeOK, PlanShape, ReviewApart, Sender, Owner, Ordered, Next, TypeOK'
  PROVE  Ordered'
<1>1. /\ RowType /\ ProcessType /\ Task \subseteq Key /\ stage \in [Task -> {"work", "review"}]
      /\ stage' \in [Task -> {"work", "review"}]
  BY KeyFacts DEF TypeOK, RowType
<1>2. \A t, u \in Task : Before(u, t) /\ AtWork(children[t]) => Done(u, children)
  BY DEF Ordered, OrderKept, AtWork, Done, Awaiting
<1>3. Reached \subseteq Key
  BY DEF Reached, TypeOK, ProcessType
<1>4. \A t \in Task : AtWork(children'[t]) => AtWork(children[t]) \/ Picked(t)
  BY <1>1, PutToWork
<1>5. ASSUME NEW t \in Task, NEW u \in Task, Before(u, t), AtWork(children'[t])
      PROVE  children'[u].state = "completed" /\ (u \in Outside => stage'[u] = "review")
  <2>1. Done(u, children)
    <3>1. CASE AtWork(children[t])
      BY <1>2, <1>5, <3>1
    <3>2. CASE Picked(t)
      <4>1. u # t
        BY <1>5, NotBeforeItself
      <4> QED BY <1>5, <3>2, <4>1 DEF Picked, TooEarly
    <3> QED BY <1>4, <1>5, <3>1, <3>2
  <2>2. u \in Outside => stage[u] = "review"
    BY <1>1, <2>1 DEF Done, Awaiting
  <2>3. stage'[u] = stage[u]
    BY <2>1, DoneKept
  <2>4. CASE children'[u].state # "completed"
    <3>4. ~TaskReopened(u)
      BY <1>1, <1>5, FindingsMove, NothingAtWork
    <3>1. Unsure(u) /\ stopping
      BY <2>1, <2>4, <3>4, TakenBack DEF Unsure
    <3>2. Quiet(u)
      BY <3>1 DEF Unsure, Ordered, At, Reached
    <3>3. AtWork(children[t])
      BY <1>4, <1>5, <3>1 DEF Picked
    <3> QED BY <1>5, <3>2, <3>3 DEF Quiet, AtWork
  <2> QED BY <2>2, <2>3, <2>4
<1>6. ASSUME NEW k \in Key, Quiet(k), ~Picks
      PROVE  Quiet(k)'
  <2>1. \A t \in Task : AtWork(children'[t]) => AtWork(children[t])
    BY <1>4, <1>6 DEF Picked
  <2> QED BY <1>6, <2>1 DEF Quiet, AtWork
<1>7. ASSUME NEW k \in Key, children[k].state # "completed"
      PROVE  Quiet(k)
  BY <1>2, <1>7 DEF Quiet, AtWork, Done
<1>8. stopping /\ Picks => children' = children
  BY DEF Picks
<1>9. ASSUME NEW k \in Reached'
      PROVE  Quiet(k)'
  <2>1. CASE k \in Reached
    <3>1. Quiet(k) /\ k \in Key /\ stopping
      BY <1>3, <2>1 DEF Ordered, Owner, Reached
    <3>2. CASE Picks
      BY <1>8, <3>1, <3>2 DEF Quiet
    <3> QED BY <1>6, <3>1, <3>2
  <2>2. CASE StopperReads /\ k \in Seen
    <3>1. Quiet(k)
      BY <1>7, <2>2 DEF Seen
    <3> QED BY <2>2, <3>1 DEF StopperReads, row, Quiet
  <2>3. UNCHANGED stopper => Reached' = Reached
    BY DEF Reached
  <2>4. StopperGoes
    BY StopperMoves
  <2> QED BY <1>9, <2>1, <2>2, <2>3, <2>4 DEF StopperGoes
<1>10. ASSUME flight'.at \in {"stops", "calls"}
       PROVE  Quiet(Next1)'
  <2>1. FlightGoes
    BY FlightMoves
  <2>2. CASE Writes /\ flight'.left = flight.left
    <3>1. Next1 \in Key /\ Next1' = Next1 /\ children[Next1].state = "dispatching" /\ ~Picks
      BY <1>1, <2>2, NextIsTarget DEF Next1, ProcessType, Writes, At, Sender, Picks
    <3>2. Quiet(Next1)
      BY <1>7, <3>1
    <3> QED BY <1>6, <3>1, <3>2
  <2>3. CASE flight'.left = flight.left /\ flight.at \in {"stops", "calls"}
    <3>1. Next1 \in Key /\ Next1' = Next1 /\ Quiet(Next1) /\ ~Picks
      BY <1>1, <2>3, NextIsTarget DEF Next1, ProcessType, Ordered, Picks, At
    <3> QED BY <1>6, <3>1
  <2>4. SenderStops => flight.at = "stops"
    BY DEF SenderStops, At
  <2> QED BY <1>10, <2>1, <2>2, <2>3, <2>4 DEF FlightGoes
<1>11. OrderKept'
  BY <1>5 DEF OrderKept, AtWork
<1> QED BY <1>9, <1>10, <1>11 DEF Ordered

-----------------------------------------------------------------------------
(* No request is sent twice.                                               *)

RunsGo ==
    \/ UNCHANGED runs
    \/ /\ Sends /\ At("send") /\ Request(Next1) \notin DOMAIN runs
       /\ runs' = Put(runs, Request(Next1), "running")
    \/ /\ SendsReport /\ At("reportsend") /\ ReportRequest \notin DOMAIN runs
       /\ runs' = Put(runs, ReportRequest, "running")
    \/ SenderCalls /\ Told(Request(Next1)) /\ UNCHANGED children
    \/ (\E ok \in BOOLEAN : StopperCalls(ok)) /\ Told(Request(stopper.now)) /\ UNCHANGED children
    \/ Told(ReportRequest) /\ UNCHANGED children
    \/ RunsEnd

\* How a step moves the runs.
LEMMA RunsMove ==
  ASSUME Next
  PROVE  RunsGo
<1>1. CASE Sends
  BY <1>1 DEF Sends, Submits, Delivers, RunsGo
<1>2. CASE SendsReport
  BY <1>2 DEF SendsReport, ReportSends, Delivers, RunsGo
<1>3. CASE SenderCalls
  BY <1>3 DEF SenderCalls, RunsGo
<1>4. CASE \E ok \in BOOLEAN : StopperCalls(ok)
  BY <1>4 DEF StopperCalls, RunsGo
<1>5. CASE (\E ok \in BOOLEAN : SenderStopsReport(ok)) \/ (\E ok \in BOOLEAN : Stop(ok))
  BY <1>5 DEF SenderStopsReport, Stop, StopsReport, RunsGo
<1>6. CASE RunsEnd
  BY <1>6 DEF RunsGo
<1>7. ~(\/ Sends \/ SendsReport \/ SenderCalls \/ (\E ok \in BOOLEAN : StopperCalls(ok))
        \/ (\E ok \in BOOLEAN : SenderStopsReport(ok)) \/ (\E ok \in BOOLEAN : Stop(ok)) \/ RunsEnd)
        => UNCHANGED runs
  BY DEF Next, Flight, Begins, Interrupted, PreparesReviews, RepairsTasks, RetriesChildren,
     Continues, Marks, Picks, Writes, SenderStops, Ends, ReportBegins,
     ReportWrites, Publishes, ReportPolls,
     Poll, Polls, PollsFindings, Stopper, StopperMarks, StopperReads, StopperEnds, StopperClaims, Resume, Crash,
          row
<1> QED BY <1>1, <1>2, <1>3, <1>4, <1>5, <1>6, <1>7 DEF RunsGo

\* Only the two submits send.
LEMMA SendMoves ==
  ASSUME TypeOK, Next
  PROVE  \/ UNCHANGED sends
         \/ /\ Sends /\ At("send") /\ Delivers(Request(Next1))
            /\ flight'.at = "write" /\ flight'.got \in {"accepted", "unknown"}
         \/ /\ SendsReport /\ At("reportsend") /\ Delivers(ReportRequest)
            /\ flight'.at = "reportwrite" /\ flight'.got \in {"accepted", "unknown"}
<1>1. flight \in [at: Places, left: Seq(Key), got: Got]
  BY DEF TypeOK, ProcessType
<1>2. ASSUME NEW got \in {"accepted", "unknown", "busy", "blocked"}, Submits(got)
      PROVE  \/ UNCHANGED sends
             \/ /\ At("send") /\ Delivers(Request(Next1))
                /\ flight'.at = "write" /\ flight'.got \in {"accepted", "unknown"}
  BY <1>1, <1>2 DEF Submits
<1>3. ASSUME NEW got \in {"accepted", "unknown", "busy"}, ReportSends(got)
      PROVE  \/ UNCHANGED sends
             \/ /\ At("reportsend") /\ Delivers(ReportRequest)
                /\ flight'.at = "reportwrite" /\ flight'.got \in {"accepted", "unknown"}
  BY <1>1, <1>3 DEF ReportSends
<1>4. ~Sends /\ ~SendsReport => UNCHANGED sends
  BY DEF Next, Flight, Begins, Interrupted, PreparesReviews, RepairsTasks, RetriesChildren,
     Continues, Marks, Picks, Writes, SenderStops, SenderCalls, Ends, ReportBegins,
     ReportWrites, Publishes, ReportPolls, SenderStopsReport,
     Poll, Polls, PollsFindings, RunsEnd, RunEnds, Stop, Stopper, StopperMarks, StopperReads, StopperEnds,
     StopperClaims, StopperCalls, Resume, Crash, row
<1> QED BY <1>2, <1>3, <1>4 DEF Sends, SendsReport

\* What a delivery counts.
LEMMA Delivered ==
  ASSUME NEW r, Delivers(r)
  PROVE  /\ DOMAIN sends' = DOMAIN sends \cup {r}
         /\ \A x \in DOMAIN sends : x # r => sends'[x] = sends[x]
         /\ r \notin DOMAIN sends => sends'[r] = 1
BY DEF Delivers, Put, Sent

\* The names of two keys differ, and differ from the report's.
LEMMA NamesDiffer ==
  /\ \A j, k \in Key : Request(j) = Request(k) => j = k
  /\ \A k \in Key : Request(k) # ReportRequest
BY KeyFacts DEF Request, ReportRequest

\* A request keeps its identity while its target does.
LEMMA NameKept ==
  ASSUME NEW k \in Key, SameName(k)
  PROVE  Request(k)' = Request(k)
BY DEF SameName, Request

\* A repair that left the targets does not come back.
LEMMA RetiredStays ==
  ASSUME TypeOK, PlanShape, Next, NEW k \in Key, Retired(k)
  PROVE  Retired(k)'
<1>1. PICK t \in repairs : k = RepairOf[t]
  BY DEF Retired
<1>2. t \in Task /\ RowType
  BY DEF TypeOK, RowType
<1>3. CASE UNCHANGED <<targets, repairs>>
  BY <1>3 DEF Retired
<1>4. CASE RepairsTasks
  <2> DEFINE u == FirstOf(FailedTasks(children))
  <2>1. \/ UNCHANGED <<targets, repairs>>
        \/ /\ FailedTasks(children) # {} /\ Repairable(u) /\ repairs' = repairs \cup {u}
           /\ targets' = Append(targets, RepairOf[u])
    BY <1>4 DEF RepairsTasks, row
  <2>2. ASSUME FailedTasks(children) # {}, Repairable(u), repairs' = repairs \cup {u},
               targets' = Append(targets, RepairOf[u])
        PROVE  Retired(k)'
    <3>1. u \in Task \ repairs
      BY <2>2, FailedOnes DEF Repairable
    <3> HIDE DEF u
    <3>2. RepairOf[u] \in Key /\ RepairOf[u] # k
      BY <1>1, <1>2, <3>1, KeyFacts
    <3>3. targets' = targets \o <<RepairOf[u]>>
      <4>1. \A s \in Seq(Key), j \in Key : Append(s, j) = s \o <<j>>
        OBVIOUS
      <4> QED BY <1>2, <2>2, <3>2, <4>1 DEF RowType
    <3>4. Range(targets') = Range(targets) \cup Range(<<RepairOf[u]>>)
      BY <1>2, <3>1, <3>3, PhaseAdds
    <3>5. Range(<<RepairOf[u]>>) = {RepairOf[u]}
      BY DEF Range
    <3> QED BY <1>1, <2>2, <3>2, <3>4, <3>5 DEF Retired
  <2> HIDE DEF u
  <2> QED BY <1>3, <2>1, <2>2
<1>5. CASE Continues
  <2>1. repairs' = repairs
    BY <1>5 DEF Continues
  <2>2. \/ UNCHANGED targets
        \/ \E added :
              /\ targets' = targets \o added
              /\ \/ added = <<>>
                 \/ flow = "planning" /\ added = TaskSeq
                 \/ flow = "workers" /\ added = <<Reviewer>>
    BY <1>5 DEF Continues, Phase
  <2>3. ASSUME NEW added, targets' = targets \o added,
               \/ added = <<>>
               \/ flow = "planning" /\ added = TaskSeq
               \/ flow = "workers" /\ added = <<Reviewer>>
        PROVE  Retired(k)'
    <3>1. Range(targets') = Range(targets) \cup Range(added)
      BY <1>2, <2>3, PhaseAdds
    <3>2. k \notin Task /\ k # Reviewer
      BY <1>1, <1>2, KeyFacts
    <3>3. Range(<<>>) = {} /\ Range(TaskSeq) = Task /\ Range(<<Reviewer>>) = {Reviewer}
      BY KeyFacts DEF Range
    <3> QED BY <1>1, <2>1, <2>3, <3>1, <3>2, <3>3 DEF Retired
  <2> QED BY <1>3, <2>1, <2>2, <2>3
<1>6. CASE Resume
  <2>1. \E S : Range(targets') = Range(targets) \ S
    BY <1>2, <1>6, WithoutOnes DEF Resume, RowType
  <2>2. repairs \subseteq repairs'
    BY <1>6 DEF Resume
  <2> QED BY <1>1, <2>1, <2>2 DEF Retired
<1>7. CASE PollsFindings
  <2>1. repairs' = repairs /\ (targets' = targets \/ targets' = Without({Reviewer}))
    BY <1>7 DEF PollsFindings, ReopensLast
  <2>2. targets' = targets \/ Range(targets') = Range(targets) \ {Reviewer}
    BY <1>2, <2>1, WithoutOnes DEF RowType
  <2> QED BY <1>1, <2>1, <2>2 DEF Retired
<1>8. ~RepairsTasks /\ ~Continues /\ ~Resume /\ ~PollsFindings => UNCHANGED <<targets, repairs>>
  BY DEF Next, Flight, Begins, Interrupted, PreparesReviews, RetriesChildren,
     Marks, Picks, Sends, Submits, Writes, SenderStops, SenderCalls, Ends, ReportBegins,
     SendsReport, ReportSends, ReportWrites, Publishes, ReportPolls, SenderStopsReport,
     Poll, Polls, RunsEnd, RunEnds, Stop, Stopper, StopperMarks, StopperReads, StopperEnds,
     StopperClaims, StopperCalls, Crash, row
<1> QED BY <1>3, <1>4, <1>5, <1>6, <1>8, <1>7

\* What was sent keeps an old name.
LEMMA OldStays ==
  ASSUME TypeOK, Sender, Owner, Next, NEW r, Old(r), r[2] \in Nat
  PROVE  Old(r)'
<1>1. PICK k \in Key : /\ r[1] = k /\ r[2] <= retries[k]
                       /\ r[2] = retries[k] /\ r[3] = "review" => k \in Task /\ stage[k] = "review"
  BY DEF Old
<1>2. Moves(k)
  BY ChildMoves
<1>3. retries[k] \in Nat
  BY DEF TypeOK, RowType
<1>4. CASE SameName(k)
  BY <1>1, <1>4 DEF SameName, Old
<1>5. CASE ToReview(k)
  BY <1>1, <1>5 DEF ToReview, Old
<1>6. CASE Again(k)
  <2>1. retries'[k] = retries[k] + 1
    BY <1>6 DEF Again
  <2>2. r[2] <= retries'[k] /\ r[2] # retries'[k]
    BY <1>1, <1>3, <2>1
  <2> QED BY <1>1, <2>2 DEF Old
<1> QED BY <1>2, <1>4, <1>5, <1>6 DEF Moves

\* The present name of a target is an old one from now on.
LEMMA NamedOld ==
  ASSUME RowType, NEW k \in Key
  PROVE  Old(Request(k))
<1>1. /\ Request(k)[1] = k /\ Request(k)[2] = retries[k]
      /\ Request(k)[3] = "review" => k \in Task /\ stage[k] = "review"
  BY DEF Request
<1>2. retries[k] \in Nat
  BY DEF RowType
<1> QED BY <1>1, <1>2 DEF Old

\* A request whose sending is under way keeps its name.
LEMMA NextNameKept ==
  ASSUME TypeOK, Sender, Owner, Next, flight.at \in {"send", "write"}
  PROVE  /\ Next1 \in Key /\ children[Next1].state = "dispatching"
         /\ flight' = flight => Request(Next1)' = Request(Next1)
         /\ SameName(Next1)
<1>1. Next1 \in Key /\ children[Next1].state = "dispatching"
  BY NextIsTarget DEF TypeOK, ProcessType, Sender
<1>2. Moves(Next1)
  BY <1>1, ChildMoves
<1>3. ~ToReview(Next1) /\ ~Again(Next1)
  BY <1>1 DEF ToReview, Again, Failed, Awaiting
<1>4. SameName(Next1)
  BY <1>2, <1>3 DEF Moves
<1>5. flight' = flight => Next1' = Next1
  BY DEF Next1
<1> QED BY <1>1, <1>4, <1>5 DEF SameName, Request

\* A review that had findings has them for good, and so its name stays free.
LEMMA FoundStays ==
  ASSUME Next, NEW r, Found(r)
  PROVE  Found(r)'
<1>1. r \in DOMAIN runs /\ runs[r] = "findings" /\ r[1] = Reviewer
  BY DEF Found
<1>2. RunsGo
  BY RunsMove
<1>3. \A x : runs' = Put(runs, x, "running") /\ x \notin DOMAIN runs =>
              r \in DOMAIN runs' /\ runs'[r] = runs[r]
  BY <1>1 DEF Put
<1>4. \A x : Told(x) => r \in DOMAIN runs' /\ runs'[r] = runs[r]
  BY <1>1 DEF Told
<1>5. RunsEnd => r \in DOMAIN runs' /\ runs'[r] = runs[r]
  BY <1>1 DEF RunsEnd, RunEnds
<1>6. r \in DOMAIN runs' /\ runs'[r] = "findings"
  BY <1>1, <1>2, <1>3, <1>4, <1>5 DEF RunsGo
<1> QED BY <1>1, <1>6 DEF Found

\* A name stays free while nothing is sent.
LEMMA StaysSendable ==
  ASSUME Next, NEW r, Sendable(r), UNCHANGED sends
  PROVE  Sendable(r)'
<1>1. CASE NotSent(r)
  BY <1>1 DEF NotSent, Sendable
<1>2. CASE Found(r)
  BY <1>2, FoundStays DEF Sendable
<1> QED BY <1>1, <1>2 DEF Sendable

\* What is not sent yet has a name nothing was sent under, or that of a review that
\* had findings.
LEMMA FreshStep ==
  ASSUME TypeOK, PlanShape, Sender, Owner, Fresh, Next, TypeOK'
  PROVE  Fresh'
<1>1. /\ RowType /\ ProcessType /\ RunsType /\ DOMAIN sends \subseteq Requests
      /\ retries \in [Key -> Nat]
  BY DEF TypeOK, RunsType, RowType
<1>2. \A r \in DOMAIN sends : r[2] \in Nat
  BY <1>1 DEF Requests
<1>3. \/ UNCHANGED sends
      \/ Sends /\ At("send") /\ Next1 \in Key /\ DOMAIN sends' = DOMAIN sends \cup {Request(Next1)}
      \/ SendsReport /\ At("reportsend") /\ DOMAIN sends' = DOMAIN sends \cup {ReportRequest}
  BY <1>1, SendMoves, Delivered, NextIsTarget DEF ProcessType, At
<1>4. ASSUME NEW r \in DOMAIN sends'
      PROVE  r = ReportRequest \/ Old(r)'
  <2>1. CASE r \in DOMAIN sends
    BY <1>2, <2>1, OldStays DEF Fresh
  <2>2. CASE Sends /\ Next1 \in Key /\ r = Request(Next1)
    <3>1. Old(r) /\ UNCHANGED <<retries, stage>>
      BY <1>1, <2>2, NamedOld DEF Sends, Submits, row
    <3> QED BY <3>1 DEF Old
  <2> QED BY <1>3, <1>4, <2>1, <2>2
<1>5. ASSUME NEW k \in Key, children'[k] = Absent, ~Retired(k)'
      PROVE  Sendable(Request(k))'
  <2>1. Moves(k) /\ ~Retired(k) /\ Absent.state = "none"
    BY <1>5, ChildMoves, RetiredStays DEF Absent
  <2>2. CASE SameName(k) /\ children[k] = Absent
    <3>1. Sendable(Request(k)) /\ Request(k)' = Request(k)
      BY <2>1, <2>2, NameKept DEF Fresh
    <3>4. CASE Found(Request(k))
      <4>1. Found(Request(k))'
        BY <3>1, <3>4, FoundStays DEF Found
      <4> QED BY <4>1 DEF Sendable
    <3>2. CASE Sends /\ At("send") /\ Next1 \in Key /\ DOMAIN sends' = DOMAIN sends \cup {Request(Next1)}
      <4>1. children[Next1].state = "dispatching"
        BY <3>2 DEF At, Sender
      <4>2. k # Next1
        BY <2>1, <2>2, <4>1
      <4>3. Request(k) # Request(Next1)
        BY <3>2, <4>2, NamesDiffer
      <4> QED BY <3>1, <3>2, <3>4, <4>3 DEF NotSent, Sendable
    <3>3. Request(k) # ReportRequest
      BY NamesDiffer
    <3> QED BY <1>3, <3>1, <3>2, <3>3, <3>4 DEF NotSent, Sendable
  <2>3. CASE SameName(k) /\ Written(k)
    <3>1. flight.got = "busy" /\ k = Next1 /\ Writes /\ At("write")
      <4>1. \A st, known : To(k, st, known) => children'[k].state = st
        BY DEF To
      <4>2. /\ Writes /\ k = Next1
            /\ \/ flight.got = "accepted" /\ To(k, "running", TRUE) /\ flight' = Accepted
               \/ flight.got = "busy" /\ children'[k] = Absent
               \/ To(k, "blocked", FALSE)
               \/ To(k, "uncertain", FALSE)
        BY <2>3 DEF Written
      <4> QED BY <1>5, <2>1, <4>1, <4>2 DEF Writes
    <3>2. Sendable(Request(k))
      BY <3>1 DEF Fresh, At
    <3>3. Request(k)' = Request(k) /\ sends' = sends /\ runs' = runs
      BY <2>3, <3>1, NameKept DEF Writes
    <3> QED BY <3>2, <3>3 DEF NotSent, Found, Sendable
  <2>4. CASE Dropped(k) /\ children[k] # Absent
    <3>1. PICK t \in FailedTasks(children) : k = RepairOf[t]
      BY <2>4 DEF Dropped
    <3> DEFINE out == {j \in {RepairOf[u] : u \in FailedTasks(children)} : children[j] # Absent}
    <3>2. targets' = Without(out) /\ repairs' = repairs \cup FailedTasks(children)
      BY <2>4 DEF Dropped, Resume, ToResume
    <3>3. Range(targets') = Range(targets) \ out
      BY <1>1, <3>2, WithoutOnes DEF RowType
    <3>4. k \in out
      BY <2>4, <3>1
    <3>5. Retired(k)'
      BY <3>1, <3>2, <3>3, <3>4 DEF Retired
    <3> QED BY <1>5, <3>5
  <2>5. CASE ToReview(k)
    <3>1. /\ k \in Task /\ stage[k] = "work" /\ At("reviews")
          /\ retries'[k] = retries[k] /\ stage'[k] = "review"
      BY <2>5 DEF ToReview, Awaiting
    <3>2. Request(k)' = <<k, retries[k], "review">>
      BY <3>1 DEF Request
    <3>3. ~Old(Request(k)')
      BY <3>1, <3>2 DEF Old
    <3>4. sends' = sends
      BY <1>3, <3>1 DEF At
    <3>5. Request(k)' # ReportRequest
      BY <3>2, KeyFacts DEF ReportRequest
    <3> QED BY <3>3, <3>4, <3>5 DEF NotSent, Sendable, Fresh
  <2>6. CASE Again(k)
    <3>1. retries'[k] = retries[k] + 1 /\ flight.at \in {"repairs", "retries", "idle", "between"}
      BY <2>6 DEF Again
    <3>2. Request(k)'[1] = k /\ Request(k)'[2] = retries[k] + 1
      BY <3>1 DEF Request
    <3>3. ~(retries[k] + 1 <= retries[k])
      BY <1>1
    <3>4. ~Old(Request(k)')
      BY <3>2, <3>3 DEF Old
    <3>5. sends' = sends
      BY <1>3, <3>1 DEF At
    <3>6. Request(k)' # ReportRequest
      BY <3>2, KeyFacts DEF ReportRequest
    <3> QED BY <3>4, <3>5, <3>6 DEF NotSent, Sendable, Fresh
  <2>7. Kept(k) => children[k] = Absent
    BY <1>5 DEF Kept
  <2>8. ~Picked(k) /\ ~Polled(k)
    BY <1>5, <2>1 DEF Picked, Polled, To
  <2>9. ~Lost(k) /\ ~Unsure(k)
    <3>1. Doubted(k) => children'[k].state = "uncertain"
      BY DoubtedRecord DEF Doubted, TypeOK, RowType, ChildrenType, ChildRecord
    <3> QED BY <1>5, <2>1, <3>1 DEF Lost, Unsure
  <2>10. CASE ReviewTaken(k) /\ SameName(k)
    <3>1. k = Reviewer /\ Found(Request(Reviewer)) /\ runs' = runs
      BY <2>10 DEF ReviewTaken, Findings
    <3>2. Request(k)' = Request(k)
      BY <2>10, NameKept
    <3> QED BY <3>1, <3>2 DEF Found, Sendable
  <2>11. ~TaskReopened(k)
    BY <1>5, <2>1, FindingsMove
  <2> QED BY <2>1, <2>2, <2>3, <2>4, <2>5, <2>6, <2>7, <2>8, <2>9, <2>10, <2>11 DEF Moves
<1>6. ASSUME \/ flight'.at = "send"
             \/ flight'.at = "write" /\ flight'.got = "busy"
      PROVE  Sendable(Request(Next1))'
  <2>1. CASE UNCHANGED flight
    <3>1. Sendable(Request(Next1)) /\ flight.at \in {"send", "write"}
      BY <1>6, <2>1 DEF Fresh
    <3>2. Request(Next1)' = Request(Next1)
      BY <2>1, <3>1, NextNameKept
    <3>3. sends' = sends
      BY <1>6, <2>1, SendMoves DEF At
    <3> QED BY <3>1, <3>2, <3>3, StaysSendable
  <2>2. CASE Picks /\ flight'.at = "send" /\ flight'.left = flight.left /\ Picked(Next1)
    <3>1. Next1 \in Key /\ Next1 \in Range(targets) /\ children[Next1] = Absent
      BY <1>1, <2>2, NextIsTarget DEF Picks, Picked
    <3>2. Sendable(Request(Next1))
      BY <3>1 DEF Fresh, Retired
    <3>3. Next1' = Next1 /\ UNCHANGED <<retries, stage, sends>>
      BY <2>2 DEF Picks, Next1
    <3>4. Request(Next1)' = Request(Next1)
      BY <3>3 DEF Request
    <3> QED BY <3>2, <3>3, <3>4, StaysSendable
  <2>3. CASE Sends /\ flight'.at = "write" /\ flight'.left = flight.left
    <3>1. Sendable(Request(Next1)) /\ flight'.got = "busy"
      BY <1>6, <2>3 DEF Sends, Submits, At, Fresh
    <3>2. sends' = sends \/ flight'.at = "reportwrite"
      BY <3>1, SendMoves
    <3>3. Next1' = Next1 /\ UNCHANGED <<retries, stage>>
      BY <2>3 DEF Sends, Submits, row, Next1
    <3>4. Request(Next1)' = Request(Next1)
      BY <3>3 DEF Request
    <3> QED BY <2>3, <3>1, <3>2, <3>4, StaysSendable
  <2>4. FlightGoes
    BY FlightMoves
  <2> QED BY <1>6, <2>1, <2>2, <2>3, <2>4 DEF FlightGoes
<1> QED BY <1>4, <1>5, <1>6 DEF Fresh

\* A request is sent once, but a review that had findings.
LEMMA OnceStep ==
  ASSUME TypeOK, Fresh, ReportOnce, NeverSentTwice, Next
  PROVE  NeverSentTwice'
<1>1. DOMAIN runs = DOMAIN sends
  BY DEF TypeOK, RunsType
<1>2. ASSUME NEW x \in DOMAIN sends, sends'[x] = sends[x]
      PROVE  sends'[x] <= 1 \/ (x[1] = Reviewer /\ runs'[x] = "findings")
  <2>1. CASE sends[x] <= 1
    BY <1>2, <2>1
  <2>2. CASE x[1] = Reviewer /\ runs[x] = "findings"
    <3>1. Found(x)
      BY <1>1, <2>2 DEF Found
    <3> QED BY <3>1, FoundStays DEF Found
  <2> QED BY <2>1, <2>2 DEF NeverSentTwice
<1>3. CASE UNCHANGED sends
  BY <1>2, <1>3 DEF NeverSentTwice
<1>4. ASSUME NEW r, Delivers(r), Sendable(r)
      PROVE  NeverSentTwice'
  <2>1. /\ DOMAIN sends' = DOMAIN sends \cup {r}
        /\ \A x \in DOMAIN sends : x # r => sends'[x] = sends[x]
        /\ r \notin DOMAIN sends => sends'[r] = 1
    BY <1>4, Delivered
  <2>2. sends'[r] <= 1 \/ (r[1] = Reviewer /\ runs'[r] = "findings")
    <3>1. CASE NotSent(r)
      BY <2>1, <3>1 DEF NotSent
    <3>2. CASE Found(r)
      BY <3>2, FoundStays DEF Found
    <3> QED BY <1>4, <3>1, <3>2 DEF Sendable
  <2>3. ASSUME NEW x \in DOMAIN sends'
        PROVE  sends'[x] <= 1 \/ (x[1] = Reviewer /\ runs'[x] = "findings")
    <3>1. CASE x = r
      BY <2>2, <3>1
    <3>2. CASE x # r
      BY <1>2, <2>1, <3>2
    <3> QED BY <3>1, <3>2
  <2> QED BY <2>3 DEF NeverSentTwice
<1>5. At("send") => Sendable(Request(Next1))
  BY DEF At, Fresh
<1>6. At("reportsend") => Sendable(ReportRequest)
  BY DEF ReportOnce, Sendable
<1> QED BY <1>3, <1>4, <1>5, <1>6, SendMoves

-----------------------------------------------------------------------------
(* The plan.                                                               *)

PlanKept == /\ UNCHANGED <<targets, repairs>>
            /\ flow' = flow \/ (flow = "planning" /\ flow' = "incomplete")
RepairAsked(u) ==
    /\ RepairsTasks /\ Planned /\ flow' = flow /\ u \notin repairs
    /\ repairs' = repairs \cup {u} /\ Range(targets') = Range(targets) \cup {RepairOf[u]}
NextPhase ==
    /\ Continues /\ ~stopping /\ state = "completed" /\ repairs' = repairs
    /\ \/ flow = "planning" /\ flow' = "answered" /\ targets' = targets
       \/ flow = "planning" /\ flow' = "workers" /\ Range(targets') = Range(targets) \cup Task
       \/ flow = "workers" /\ flow' \in {"answered", "reviewed"} /\ targets' = targets
       \/ flow = "workers" /\ flow' = "reviewing" /\ Range(targets') = Range(targets) \cup {Reviewer}
       \/ flow = "reviewing" /\ flow' = "reviewed" /\ targets' = targets
Replanned ==
    /\ Resume /\ ~stopping /\ Planned /\ flow' = "workers" /\ repairs \subseteq repairs'
    /\ FailedTasks(children) # {}
    /\ Range(targets') \subseteq Range(targets)
    /\ Task \cap Range(targets) \subseteq Range(targets')

ReviewOff == Findings /\ flow' = "workers" /\ Range(targets') = Range(targets) \ {Reviewer}

PlanGoes == PlanKept \/ (\E u \in Task : RepairAsked(u)) \/ NextPhase \/ Replanned \/ ReviewOff

\* How a step moves the plan: a repair is asked for, the next phase, a resume, or what a
\* review has found.
LEMMA PlanMoves ==
  ASSUME TypeOK, PlanShape, Next
  PROVE  PlanGoes
<1>1. RowType
  BY DEF TypeOK
<1>2. CASE RepairsTasks
  <2> DEFINE u == FirstOf(FailedTasks(children))
  <2>1. \/ UNCHANGED <<targets, repairs, flow>>
        \/ /\ FailedTasks(children) # {} /\ Repairable(u) /\ repairs' = repairs \cup {u}
           /\ targets' = Append(targets, RepairOf[u]) /\ flow' = flow
    BY <1>2 DEF RepairsTasks, row
  <2>2. ASSUME FailedTasks(children) # {}, Repairable(u), repairs' = repairs \cup {u},
               targets' = Append(targets, RepairOf[u]), flow' = flow
        PROVE  \E x \in Task : RepairAsked(x)
    <3>1. u \in Task \ repairs /\ Planned
      BY <2>2, FailedOnes DEF Repairable
    <3> HIDE DEF u
    <3>2. RepairOf[u] \in Key
      BY <3>1, KeyFacts
    <3>3. targets' = targets \o <<RepairOf[u]>>
      <4>1. \A s \in Seq(Key), j \in Key : Append(s, j) = s \o <<j>>
        OBVIOUS
      <4> QED BY <1>1, <2>2, <3>2, <4>1 DEF RowType
    <3>4. Range(targets') = Range(targets) \cup Range(<<RepairOf[u]>>)
      BY <1>1, <3>1, <3>3, PhaseAdds
    <3>5. Range(<<RepairOf[u]>>) = {RepairOf[u]}
      BY DEF Range
    <3> QED BY <1>2, <2>2, <3>1, <3>4, <3>5 DEF RepairAsked
  <2> HIDE DEF u
  <2> QED BY <2>1, <2>2 DEF PlanKept, PlanGoes
<1>3. CASE Continues
  <2>1. repairs' = repairs
    BY <1>3 DEF Continues
  <2>2. \/ UNCHANGED <<targets, flow>>
        \/ flow' = flow /\ targets' = targets \o <<>>
        \/ /\ ~stopping /\ state = "completed"
           /\ \E added :
                 /\ targets' = targets \o added
                 /\ \/ flow = "planning" /\ added = <<>> /\ flow' = "answered"
                    \/ flow = "planning" /\ added = TaskSeq /\ flow' = "workers"
                    \/ flow = "workers" /\ added = <<>> /\ flow' \in {"answered", "reviewed"}
                    \/ flow = "workers" /\ added = <<Reviewer>> /\ flow' = "reviewing"
                    \/ flow = "reviewing" /\ added = <<>> /\ flow' = "reviewed"
    BY <1>3 DEF Continues, Phase, Continuing
  <2>3. targets \o <<>> = targets
    BY <1>1, PhaseAdds
  <2>4. ASSUME ~stopping, state = "completed", NEW added, targets' = targets \o added,
               \/ flow = "planning" /\ added = <<>> /\ flow' = "answered"
               \/ flow = "planning" /\ added = TaskSeq /\ flow' = "workers"
               \/ flow = "workers" /\ added = <<>> /\ flow' \in {"answered", "reviewed"}
               \/ flow = "workers" /\ added = <<Reviewer>> /\ flow' = "reviewing"
               \/ flow = "reviewing" /\ added = <<>> /\ flow' = "reviewed"
        PROVE  NextPhase
    <3>1. /\ Range(targets') = Range(targets) \cup Range(added)
          /\ added = <<>> => targets' = targets
      BY <1>1, <2>4, PhaseAdds
    <3>2. Range(TaskSeq) = Task /\ Range(<<Reviewer>>) = {Reviewer}
      BY KeyFacts DEF Range
    <3> QED BY <1>3, <2>1, <2>4, <3>1, <3>2 DEF NextPhase
  <2> QED BY <2>1, <2>2, <2>3, <2>4 DEF PlanKept, PlanGoes
<1>4. CASE Resume
  <2> DEFINE out == {j \in {RepairOf[u] : u \in FailedTasks(children)} : children[j] # Absent}
  <2>1. Range(targets') = Range(targets) \ out
    BY <1>1, <1>4, WithoutOnes DEF Resume, RowType, ToResume
  <2>2. out \cap Task = {}
    BY KeyFacts DEF FailedTasks
  <2>3. /\ ~stopping /\ Planned /\ flow' = "workers" /\ repairs \subseteq repairs'
        /\ FailedTasks(children) # {}
    BY <1>4 DEF Resume, ToResume
  <2> HIDE DEF out
  <2> QED BY <1>4, <2>1, <2>2, <2>3 DEF Replanned, PlanGoes
<1>5. \A st, ch, stop : SettledFlow(st, ch, stop) = flow
                         \/ (flow = "planning" /\ SettledFlow(st, ch, stop) = "incomplete")
  BY DEF SettledFlow
<1>6. CASE PollsFindings
  <2>1. CASE stopping
    <3>1. /\ UNCHANGED <<targets, repairs>>
          /\ \E st, ch, stop : flow' = SettledFlow(st, ch, stop)
      BY <1>6, <2>1 DEF PollsFindings, Settles
    <3> QED BY <1>5, <3>1 DEF PlanKept, PlanGoes
  <2>2. CASE ~stopping
    <3>1. Findings /\ flow' = "workers" /\ targets' = Without({Reviewer})
      BY <1>6, <2>2 DEF PollsFindings, Findings, Found, Request, ReopensLast
    <3>2. Range(targets') = Range(targets) \ {Reviewer}
      BY <1>1, <3>1, WithoutOnes DEF RowType
    <3> QED BY <3>1, <3>2 DEF ReviewOff, PlanGoes
  <2> QED BY <2>1, <2>2
<1>7. ~RepairsTasks /\ ~Continues /\ ~Resume /\ ~PollsFindings =>
        /\ UNCHANGED <<targets, repairs>>
        /\ flow' = flow \/ \E st, ch, stop : flow' = SettledFlow(st, ch, stop)
  BY DEF Next, Flight, Begins, Interrupted, PreparesReviews, RetriesChildren,
     Marks, Picks, Sends, Submits, Writes, SenderStops, SenderCalls, Ends, ReportBegins,
     SendsReport, ReportSends, ReportWrites, Publishes, ReportPolls, SenderStopsReport,
     Poll, Polls, RunsEnd, RunEnds, Stop, Stopper, StopperMarks, StopperReads, StopperEnds,
     StopperClaims, StopperCalls, Crash, row, Settles, Unconfirmed
<1> QED BY <1>2, <1>3, <1>4, <1>7, <1>5, <1>6 DEF PlanKept, PlanGoes

\* When the row is completed, so is every task of the plan.
LEMMA CompletedPlan ==
  ASSUME TypeOK, RowSettled, ~stopping, state = "completed", Planned,
         NEW t \in Task, t \in Range(targets)
  PROVE  Done(t, children)
<1>1. \A u \in Task : u \in Range(targets) => children[u].state = "completed"
  BY DEF RowSettled, AllDone, NothingLeft
<1>2. FailedTasks(children) = {}
  <2> SUFFICES ASSUME NEW u \in Task, Failed(children[u]) PROVE FALSE
    BY DEF FailedTasks
  <2>1. children[u] # Absent /\ u \in Key
    BY KeyFacts DEF Failed, Absent
  <2>2. u \in Range(targets)
    BY <2>1 DEF TypeOK, RowType, ChildrenType
  <2> QED BY <1>1, <2>2 DEF Failed
<1>3. ~Awaiting(t, children)
  BY <1>2 DEF RowSettled, AllDone, NothingLeft
<1> QED BY <1>1, <1>3 DEF Done

\* The plan keeps its shape.
LEMMA PlanShapeStep ==
  ASSUME TypeOK, PlanShape, Sender, Owner, RowSettled, Next
  PROVE  PlanShape'
<1>1. PlanGoes /\ RowType /\ (stopping => stopping')
  BY PlanMoves, StoppingStays DEF TypeOK
<1>2. CASE ReviewOff
  <2>1. /\ Reviewer \in Range(targets) /\ repairs' = repairs
        /\ flow' = "workers" /\ Range(targets') = Range(targets) \ {Reviewer}
    BY <1>1, <1>2, KeyFacts, KnownIsTarget DEF ReviewOff, Findings
  <2>2. flow \in {"reviewing", "reviewed"}
    BY <2>1 DEF PlanShape
  <2> QED BY <1>1, <2>1, <2>2, KeyFacts DEF PlanShape
<1> SUFFICES ASSUME ~ReviewOff PROVE PlanShape'
  BY <1>2
<1>3. \A t \in Task : ~stopping /\ Done(t, children) => Done(t, children)'
  <2>1. Findings => ReviewOff
    BY <1>1, WithoutOnes DEF Findings, PollsFindings, ReopensLast, ReviewOff, RowType
  <2> QED BY <2>1, DoneKept DEF TaskReopened
<1>4. Range(<<Planner>>) = {Planner}
  BY DEF Range
<1>5. \A u \in Task : /\ u \in Key /\ u # Planner /\ u # Reviewer
                      /\ RepairOf[u] \notin Task /\ RepairOf[u] # Planner /\ RepairOf[u] # Reviewer
  BY KeyFacts
<1>6. CASE PlanKept
  BY <1>1, <1>3, <1>4, <1>5, <1>6, KeyFacts DEF PlanKept, PlanShape
<1>7. ASSUME NEW u \in Task, RepairAsked(u)
      PROVE  PlanShape'
  <2>1. \A t \in Task : RepairOf[t] = RepairOf[u] => t = u
    BY KeyFacts
  <2>2. /\ Range(targets') = Range(targets) \cup {RepairOf[u]} /\ repairs' = repairs \cup {u}
        /\ flow' = flow /\ Planned
    BY <1>7 DEF RepairAsked
  <2> QED BY <1>1, <1>3, <1>5, <2>1, <2>2 DEF PlanShape, Planned
<1>8. CASE NextPhase
  <2>1. \A t \in Task : Planned /\ t \in Range(targets) => Done(t, children)'
    BY <1>3, <1>8, CompletedPlan DEF NextPhase
  <2>2. flow = "planning" => Range(targets) = {Planner}
    BY <1>4 DEF PlanShape
  <2> QED BY <1>1, <1>5, <1>8, <2>1, <2>2, KeyFacts DEF NextPhase, PlanShape, Planned
<1>9. CASE Replanned
  <2>1. PICK t \in Task : Failed(children[t])
    BY <1>9 DEF Replanned, FailedTasks
  <2>2. t \in Range(targets) /\ ~Done(t, children)
    <3>1. t \in Key /\ children[t] # Absent
      BY <1>5, <2>1 DEF Failed, Absent
    <3> QED BY <1>1, <2>1, <3>1 DEF RowType, ChildrenType, Failed, Done
  <2>3. flow = "workers"
    BY <1>1, <1>9, <2>2 DEF Replanned, Planned, PlanShape, RowType
  <2> QED BY <1>9, <2>3 DEF Replanned, PlanShape
<1> QED BY <1>1, <1>6, <1>7, <1>8, <1>9 DEF PlanGoes

-----------------------------------------------------------------------------
(* The teammates' runs, and the report.                                    *)

\* What was sent stays sent.
LEMMA RunsGrow ==
  ASSUME Next
  PROVE  DOMAIN runs \subseteq DOMAIN runs'
BY RunsMove DEF RunsGo, Put, Told, RunsEnd, RunEnds

\* A request whose report is under way does not move, unless the owner stops it.
LEMMA ClosedStays ==
  ASSUME TypeOK, Sender, Owner, RowSettled, Closed, ~stopping, Next, ~stopping'
  PROVE  UNCHANGED <<state, flow, children, stage, retries>>
<1>1. /\ RowType
      /\ state \in {"blocked", "needs_input", "completed"}
      /\ FailedTasks(children) = {}
      /\ \A k \in Key : children[k].state \notin {"dispatching", "running", "uncertain"}
      /\ state = "completed" => flow \in {"reviewed", "incomplete"}
  BY DEF Closed, TypeOK, Shows
<1>2. flight.at \notin {"interrupted", "loop", "send", "write", "stops", "calls"}
  BY <1>1 DEF RowSettled, AllDone, NothingLeft, Sender, At, Shows
<1>3. CASE PreparesReviews
  BY <1>1, <1>3 DEF PreparesReviews, RowSettled, AllDone, NothingLeft
<1>4. CASE RepairsTasks
  BY <1>1, <1>4 DEF RepairsTasks, row
<1>5. CASE RetriesChildren
  BY <1>1, <1>5 DEF RetriesChildren, RowSettled, AllDone, NothingLeft
<1>6. CASE Continues
  BY <1>1, <1>6 DEF Continues, Continuing
<1>7. CASE Marks
  BY <1>1, <1>7 DEF Marks
<1>8. CASE Poll
  BY <1>1, <1>8 DEF Poll, Polls
<1>9. CASE Resume
  BY <1>1, <1>9 DEF Resume, ToResume
<1>10. CASE StopperMarks
  BY <1>10 DEF StopperMarks
<1>11. ~\E ok \in BOOLEAN : StopperCalls(ok)
  BY DEF StopperCalls, Owner
<1>12. ~Interrupted /\ ~Picks /\ ~Writes /\ ~SenderStops /\ ~SenderCalls /\ ~Ends
  BY <1>2 DEF Interrupted, Picks, Writes, SenderStops, SenderCalls, Ends, At
<1>13. CASE \/ Begins \/ Sends \/ ReportBegins \/ SendsReport \/ ReportWrites \/ Publishes
            \/ (\E seen \in {"running", "completed", "blocked", "decision", "stopped", "uncertain"} :
                   ReportPolls(seen))
            \/ (\E ok \in BOOLEAN : SenderStopsReport(ok)) \/ RunsEnd \/ (\E ok \in BOOLEAN : Stop(ok))
            \/ StopperReads \/ StopperEnds \/ (\E k \in Key : StopperClaims(k)) \/ Crash
  BY <1>13 DEF Begins, Sends, Submits, ReportBegins, SendsReport, ReportSends, ReportWrites,
       Publishes,
       ReportPolls, SenderStopsReport, RunsEnd, RunEnds, Stop, StopperReads, StopperEnds,
            StopperClaims,
       Crash, row
<1>14. ~PollsFindings
  BY <1>1, KeyFacts DEF PollsFindings
<1> QED BY <1>3, <1>4, <1>5, <1>6, <1>7, <1>8, <1>9, <1>10, <1>11, <1>12, <1>13, <1>14
        DEF Next, Flight, Stopper

ReportGoes ==
    \/ UNCHANGED report
    \/ ReportBegins /\ flight'.at \in {"idle", "reportsend", "reportpoll", "publish"}
    \/ ReportWrites
    \/ (At("reportpoll") /\ report.state = "running"
          /\ \E seen \in {"running", "completed", "blocked", "decision", "stopped", "uncertain"} :
                Reported(seen))
    \/ (/\ report'.state \in {report.state, "uncertain"}
        /\ report'.state # report.state => report.state \in {"running", "uncertain"}
        /\ report'.known = report.known)
    \/ Resume /\ flight.at \in {"idle", "between"} /\ report'.state = "none" /\ ~report'.known

\* How a step moves the report.
LEMMA ReportMoves ==
  ASSUME TypeOK, Next
  PROVE  ReportGoes
<1>1. /\ report \in [state: ChildStates \cup {"ready"}, known: BOOLEAN, stop: BOOLEAN, posted: 0..1]
      /\ flight \in [at: Places, left: Seq(Key), got: Got]
  BY DEF TypeOK, RowType, ProcessType
<1>2. CASE ReportBegins
  BY <1>1, <1>2 DEF ReportBegins, Ended, Unsent, Goes, ReportGoes
<1>3. ASSUME NEW ok \in BOOLEAN, StopsReport(ok)
      PROVE  ReportGoes
  BY <1>1, <1>3 DEF StopsReport, ReportGoes
<1>4. CASE Publishes
  BY <1>1, <1>4 DEF Publishes, ReportGoes
<1>5. ASSUME NEW seen \in {"running", "completed", "blocked", "decision", "stopped", "uncertain"},
             ReportPolls(seen)
      PROVE  ReportGoes
  BY <1>5 DEF ReportPolls, ReportGoes
<1>6. CASE Resume
  BY <1>1, <1>6 DEF Resume, At, ReportGoes
<1>7. CASE ReportWrites
  BY <1>7 DEF ReportGoes
<1>8. \/ UNCHANGED report \/ ReportBegins \/ ReportWrites \/ Publishes \/ Resume
      \/ (\E ok \in BOOLEAN : StopsReport(ok))
      \/ (\E seen \in {"running", "completed", "blocked", "decision", "stopped", "uncertain"} :
             ReportPolls(seen))
  BY DEF Next, Flight, Begins, Interrupted, PreparesReviews, RepairsTasks, RetriesChildren,
     Continues, Marks, Picks, Sends, Submits, Writes, SenderStops, SenderCalls, Ends,
     SendsReport, ReportSends, SenderStopsReport,
     Poll, Polls, PollsFindings, RunsEnd, RunEnds, Stop, Stopper, StopperMarks, StopperReads, StopperEnds,
     StopperClaims, StopperCalls, Crash, row
<1> QED BY <1>2, <1>3, <1>4, <1>5, <1>6, <1>7, <1>8 DEF ReportGoes

\* What _advance_report() begins with.
LEMMA ReportBegun ==
  ASSUME TypeOK, ReportOnce, ReportBegins
  PROVE  /\ report'.state \in {"none", "ready"} => report' = report
         /\ report'.state = "dispatching" => ~report'.known
         /\ flight'.at = "reportsend" => report'.state = "dispatching" /\ report.state \in {"none", "ready"}
         /\ report'.state = "running" \/ flight'.at = "reportpoll" => report.state = "running"
         /\ report.state = "none" /\ report'.state # "none" => ReportDue
<1> DEFINE now == IF report.state = "none" THEN NewReport ELSE report
<1>1. /\ report \in [state: ChildStates \cup {"ready"}, known: BOOLEAN, stop: BOOLEAN, posted: 0..1]
      /\ flight \in [at: Places, left: Seq(Key), got: Got]
      /\ children[Reviewer] \in ChildRecord
      /\ children[Reviewer].state = "none" => children[Reviewer] = Absent
  BY KeyFacts DEF TypeOK, RowType, ProcessType, ChildrenType, ChildRecord
<1>2. CASE ~ReportPending
  <2>1. report' = report /\ flight' = Unsent
    BY <1>2 DEF ReportBegins, Ended
  <2>2. flight'.at = "idle"
    BY <2>1 DEF Unsent
  <2> QED BY <2>1, <2>2 DEF ReportOnce
<1>3. CASE ReportPending
  <2>1. report.state = "none" => ReportDue
    BY <1>3 DEF ReportPending
  <2>2. ReportDue => children[Reviewer].state \notin {"dispatching", "running", "uncertain"}
    BY KeyFacts DEF ReportDue, Shows
  <2>3. /\ now \in [state: ChildStates \cup {"ready"}, known: BOOLEAN, stop: BOOLEAN, posted: 0..1]
        /\ now.state # "none"
        /\ now.state \in {"dispatching", "running"} => report.state = now.state
        /\ now.state = "ready" => ~now.known /\ report.state \in {"none", "ready"}
    <3>1. CASE report.state # "none"
      BY <1>1, <3>1 DEF ReportOnce
    <3>2. CASE report.state = "none" /\ children[Reviewer] = Absent
      BY <1>1, <3>2 DEF ReportOnce, NewReport
    <3>3. CASE report.state = "none" /\ children[Reviewer] # Absent
      BY <1>1, <2>1, <2>2, <3>3 DEF NewReport, ChildRecord, ChildStates
    <3> QED BY <3>1, <3>2, <3>3
  <2>4. \/ /\ report' = [now EXCEPT !.state = "uncertain"] \/ report' = [now EXCEPT !.state = "stopped"]
           /\ flight' = Unsent
        \/ /\ now.state = "ready" /\ report' = [now EXCEPT !.state = "dispatching"]
           /\ flight' = [flight EXCEPT !.at = "reportsend"]
        \/ now.state = "running" /\ report' = now /\ flight' = [flight EXCEPT !.at = "reportpoll"]
        \/ /\ now.state \notin {"dispatching", "ready", "running"} /\ report' = now
           /\ flight' = Unsent \/ flight' = [flight EXCEPT !.at = "publish"]
    BY <1>3 DEF ReportBegins, Ended, Goes, Abandoned
  <2> HIDE DEF now
  <2>5. /\ Unsent.at = "idle"
        /\ \A at \in Places : [flight EXCEPT !.at = at].at = at
        /\ \A st : [now EXCEPT !.state = st].state = st /\ [now EXCEPT !.state = st].known = now.known
    BY <1>1, <2>3 DEF Unsent
  <2> QED BY <2>1, <2>3, <2>4, <2>5 DEF Places
<1> QED BY <1>2, <1>3

\* The report is sent once: when it is due nothing else moves, so no resume resets it.
LEMMA ReportOnceStep ==
  ASSUME TypeOK, Sender, Owner, RowSettled, ReportOnce, Next, TypeOK'
  PROVE  ReportOnce'
<1>1. /\ report \in [state: ChildStates \cup {"ready"}, known: BOOLEAN, stop: BOOLEAN, posted: 0..1]
      /\ flight \in [at: Places, left: Seq(Key), got: Got]
      /\ flight' \in [at: Places, left: Seq(Key), got: Got]
      /\ DOMAIN runs \subseteq DOMAIN runs'
  BY RunsGrow DEF TypeOK, RowType, ProcessType
<1>2. FlightGoes /\ ReportGoes
  BY FlightMoves, ReportMoves
<1>3. \/ UNCHANGED sends
      \/ Sends /\ At("send") /\ Next1 \in Key /\ DOMAIN sends' = DOMAIN sends \cup {Request(Next1)}
      \/ SendsReport /\ At("reportsend") /\ flight'.got # "busy"
  <2>1. At("send") => Next1 \in Key
    BY NextIsTarget DEF TypeOK, ProcessType, At
  <2> QED BY <2>1, SendMoves, Delivered DEF At
<1>4. NotSent(ReportRequest) /\ ~(SendsReport /\ flight'.got # "busy") => NotSent(ReportRequest)'
  BY <1>3, NamesDiffer DEF NotSent
<1>6. SendsReport => At("reportsend") /\ report' = report
  BY DEF SendsReport, ReportSends, row
<1>7. ReportWrites => /\ At("reportwrite")
                      /\ report'.state \in {"running", "ready", "uncertain"}
                      /\ report'.state = "running" => flight.got = "accepted"
                      /\ report'.state = "ready" => flight.got = "busy" /\ ~report'.known
  <2> SUFFICES ASSUME ReportWrites
               PROVE  /\ At("reportwrite")
                      /\ report'.state \in {"running", "ready", "uncertain"}
                      /\ report'.state = "running" => flight.got = "accepted"
                      /\ report'.state = "ready" => flight.got = "busy" /\ ~report'.known
    OBVIOUS
  <2> DEFINE st == CASE flight.got = "accepted" -> "running"
                     [] flight.got = "busy" -> "ready"
                     [] OTHER -> "uncertain"
             known == flight.got = "accepted"
  <2>1. At("reportwrite") /\ report' = [report EXCEPT !.state = st, !.known = known]
    BY DEF ReportWrites
  <2>2. /\ st \in {"running", "ready", "uncertain"}
        /\ st = "running" => flight.got = "accepted"
        /\ st = "ready" => flight.got = "busy" /\ ~known
    OBVIOUS
  <2> HIDE DEF st, known
  <2>3. report'.state = st /\ report'.known = known
    BY <1>1, <2>1
  <2> QED BY <2>1, <2>2, <2>3
<1>8. Resume => FailedTasks(children) # {} /\ ~stopping
  BY DEF Resume, ToResume
<1>9. Resume => report.state = "none"
  BY <1>8 DEF ReportOnce, Closed
<1>10. \A seen : Reported(seen) => report'.state = seen
  BY <1>1 DEF Reported
<1>11. ASSUME report'.state \in {"none", "ready"}
       PROVE  NotSent(ReportRequest)' /\ ~report'.known
  <2>1. NotSent(ReportRequest) /\ ~SendsReport /\ ~report'.known
    <3>1. CASE report.state \in {"none", "ready"} /\ report'.known = report.known
      BY <1>6, <3>1 DEF ReportOnce
    <3>2. CASE ReportBegins
      <4>1. report' = report
        BY <1>11, <3>2, ReportBegun
      <4> QED BY <1>6, <1>11, <4>1 DEF ReportOnce
    <3>3. CASE ReportWrites
      BY <1>6, <1>7, <1>11, <3>3 DEF ReportOnce, At
    <3>4. CASE Resume /\ flight.at \in {"idle", "between"} /\ report'.state = "none" /\ ~report'.known
      BY <1>6, <1>9, <3>4 DEF ReportOnce, At
    <3> QED BY <1>2, <1>10, <1>11, <3>1, <3>2, <3>3, <3>4 DEF ReportGoes
  <2> QED BY <1>4, <2>1
<1>12. ASSUME report'.state = "dispatching"
       PROVE  ~report'.known
  <2>1. CASE ReportBegins
    BY <1>12, <2>1, ReportBegun
  <2>2. CASE report.state = "dispatching" /\ report'.known = report.known
    BY <2>2 DEF ReportOnce
  <2> QED BY <1>2, <1>7, <1>10, <1>12, <2>1, <2>2 DEF ReportGoes
<1>13. ASSUME flight'.at = "reportsend"
       PROVE  report'.state = "dispatching" /\ NotSent(ReportRequest)'
  <2>1. CASE ReportBegins
    <3>1. report'.state = "dispatching" /\ NotSent(ReportRequest)
      BY <1>13, <2>1, ReportBegun DEF ReportOnce
    <3>2. ~SendsReport
      BY <2>1 DEF ReportBegins, SendsReport, ReportSends, At
    <3> QED BY <1>4, <3>1, <3>2
  <2>2. CASE UNCHANGED flight /\ ~ReportBegins
    <3>1. report.state = "dispatching" /\ NotSent(ReportRequest) /\ flight.at = "reportsend"
      BY <1>13, <2>2 DEF ReportOnce, At
    <3>2. ~SendsReport
      BY <1>1, <1>13 DEF SendsReport, ReportSends
    <3>3. report'.state = "dispatching"
      BY <1>2, <1>7, <2>2, <3>1 DEF ReportGoes, At
    <3> QED BY <1>4, <3>1, <3>2, <3>3
  <2> QED BY <1>2, <1>13, <2>1, <2>2 DEF FlightGoes
<1>14. ASSUME flight'.at = "reportwrite"
       PROVE  /\ report'.state = "dispatching"
              /\ flight'.got = "busy" => NotSent(ReportRequest)'
              /\ flight'.got = "accepted" => ReportRequest \in DOMAIN runs'
  <2>1. CASE SendsReport
    <3>1. report'.state = "dispatching" /\ NotSent(ReportRequest)
      BY <1>6, <2>1 DEF ReportOnce
    <3>2. flight'.got = "accepted" => ReportRequest \in DOMAIN runs'
      <4>1. ASSUME NEW got \in {"accepted", "unknown", "busy"}, ReportSends(got), flight'.got = "accepted"
            PROVE  ReportRequest \in DOMAIN runs'
        BY <1>1, <4>1 DEF ReportSends, Delivers, Put
      <4> QED BY <2>1, <4>1 DEF SendsReport
    <3> QED BY <1>4, <3>1, <3>2
  <2>2. CASE UNCHANGED flight /\ ~SendsReport
    <3>1. report.state = "dispatching" /\ flight.at = "reportwrite"
      BY <1>14, <2>2 DEF ReportOnce, At
    <3>2. ~ReportWrites /\ ~ReportBegins
      <4>1. ReportWrites => flight'.at \in {"reportstops", "idle"}
        BY <1>1 DEF ReportWrites, Goes, Ended, Unsent
      <4> QED BY <1>14, <3>1, <4>1 DEF ReportBegins, At
    <3>3. report'.state = "dispatching"
      BY <1>2, <3>1, <3>2 DEF ReportGoes, At
    <3>4. /\ flight'.got = "busy" => NotSent(ReportRequest)
          /\ flight'.got = "accepted" => ReportRequest \in DOMAIN runs
      BY <2>2, <3>1 DEF ReportOnce, At
    <3> QED BY <1>1, <1>4, <2>2, <3>3, <3>4
  <2>3. ReportBegins => flight'.at # "reportwrite"
    BY <1>1 DEF ReportBegins, Ended, Unsent, Goes
  <2> QED BY <1>2, <1>14, <2>1, <2>2, <2>3 DEF FlightGoes
<1>15. ASSUME report'.state = "running" \/ flight'.at = "reportpoll"
       PROVE  ReportRequest \in DOMAIN runs'
  <2>1. CASE ReportBegins
    BY <1>1, <1>15, <2>1, ReportBegun DEF ReportOnce
  <2>2. CASE flight'.at = "reportpoll" /\ ~ReportBegins
    <3>1. flight.at = "reportpoll"
      BY <1>2, <2>2 DEF FlightGoes
    <3> QED BY <1>1, <3>1 DEF ReportOnce, At
  <2>3. CASE report'.state = "running" /\ ~ReportBegins
    BY <1>1, <1>2, <1>7, <2>3 DEF ReportGoes, ReportOnce, At
  <2> QED BY <1>15, <2>1, <2>2, <2>3
<1>16. ASSUME report'.state # "none", ~stopping'
       PROVE  Closed'
  <2>1. ~stopping
    BY <1>16, StoppingStays
  <2>2. CASE report.state # "none"
    <3>1. Closed
      BY <2>1, <2>2 DEF ReportOnce
    <3>2. UNCHANGED <<state, flow, children>>
      BY <1>16, <2>1, <3>1, ClosedStays
    <3> QED BY <3>1, <3>2 DEF Closed, Shows, FailedTasks, Planned
  <2>3. CASE report.state = "none"
    <3>1. ReportBegins
      <4>1. At("reportwrite") => report.state = "dispatching"
        BY DEF ReportOnce
      <4> QED BY <1>2, <1>7, <1>16, <2>3, <4>1 DEF ReportGoes
    <3>2. ReportDue
      BY <1>16, <2>3, <3>1, ReportBegun
    <3>3. UNCHANGED <<state, flow, children>>
      BY <3>1 DEF ReportBegins
    <3> QED BY <3>2, <3>3 DEF ReportDue, Closed, Shows, FailedTasks, Planned
  <2> QED BY <2>2, <2>3
<1> QED BY <1>11, <1>12, <1>13, <1>14, <1>15, <1>16 DEF ReportOnce, At

-----------------------------------------------------------------------------
(* How the row settles.                                                    *)

\* Without a stop of the owner, no run is stopped and no child shown as stopped.
LEMMA NoneStoppedStep ==
  ASSUME TypeOK, Sender, Owner, NoneStopped, Next, ~stopping,
         \A k \in Key : children[k].state = "running" => Request(k) \in DOMAIN runs
  PROVE  NoneStopped'
<1>1. children \in [Key -> ChildRecord] /\ Absent.state = "none" /\ DOMAIN runs \subseteq Requests
  BY DEF TypeOK, RowType, ChildrenType, ChildRecord, Absent, RunsType
<1>2. ASSUME NEW k \in Key
      PROVE  children'[k].state # "stopped"
  <2>1. Moves(k) /\ children[k].state # "stopped"
    BY ChildMoves DEF NoneStopped
  <2>2. \A st, known : To(k, st, known) => children'[k].state = st
    BY DEF To
  <2>3. Kept(k) \/ Picked(k) \/ Written(k) => children'[k].state # "stopped"
    BY <1>1, <2>1, <2>2 DEF Kept, Picked, Written
  <2>4. Doubted(k) => children'[k].state = "uncertain"
    BY <1>1, DoubtedRecord DEF Doubted
  <2>5. Lost(k) \/ Unsure(k) => children'[k].state # "stopped"
    BY <2>4 DEF Lost, Unsure
  <2>6. Dropped(k) \/ ToReview(k) \/ Again(k) => children'[k].state # "stopped"
    BY <1>1 DEF Dropped, ToReview, Again
  <2>7. CASE Polled(k)
    <3>1. Request(k) \in DOMAIN runs /\ Request(k) # ReportRequest
      BY <2>7, NamesDiffer DEF Polled
    <3>2. Result(Request(k)) # "stopped"
      BY <3>1 DEF Result, NoneStopped
    <3> QED BY <2>2, <2>7, <3>2 DEF Polled
  <2>8. ReviewTaken(k) \/ TaskReopened(k) => children'[k].state # "stopped"
    BY <1>1, <2>2, FindingsMove
  <2> QED BY <2>1, <2>3, <2>5, <2>6, <2>7, <2>8 DEF Moves
<1>3. ASSUME NEW r \in DOMAIN runs', r # ReportRequest
      PROVE  runs'[r] \notin {"stopping", "stopped"}
  <2>1. RunsGo
    BY RunsMove
  <2>2. ~SenderCalls /\ ~\E ok \in BOOLEAN : StopperCalls(ok)
    BY DEF SenderCalls, StopperCalls, Sender, Owner, At
  <2>3. CASE UNCHANGED runs
    BY <1>3, <2>3 DEF NoneStopped
  <2>4. CASE \E x : runs' = Put(runs, x, "running")
    BY <1>3, <2>4 DEF Put, NoneStopped
  <2>5. CASE Told(ReportRequest)
    BY <1>3, <2>5 DEF Told, NoneStopped
  <2>6. CASE RunsEnd
    <3>1. PICK x \in DOMAIN runs, result \in {"completed", "findings", "blocked", "decision", "stopped"} :
             RunEnds(x, result)
      BY <2>6 DEF RunsEnd
    <3>2. /\ DOMAIN runs' = DOMAIN runs /\ runs'[r] = (IF r = x THEN result ELSE runs[r])
          /\ result = "stopped" => runs[x] = "stopping"
      BY <1>3, <3>1 DEF RunEnds
    <3> QED BY <1>3, <3>2 DEF NoneStopped
  <2> QED BY <2>1, <2>2, <2>3, <2>4, <2>5, <2>6 DEF RunsGo
<1> QED BY <1>2, <1>3 DEF NoneStopped

\* What the settled row says of the children.
LEMMA SettledFacts ==
  ASSUME TypeOK, NEW st, st # "dispatching", NEW ch, ChildrenType(ch, targets),
         \A k \in Key : ch[k].state # "stopped", NEW s, s = Settled(st, ch, FALSE)
  PROVE  /\ Shows(ch, {"uncertain"}) => s = "uncertain"
         /\ s = "completed" => \A k \in Range(targets) : ch[k].state = "completed"
         /\ s \in {"completed", "blocked", "needs_input"} /\ FailedTasks(ch) = {} =>
               /\ Planned => \A t \in Task : ~Awaiting(t, ch)
               /\ ~Planned /\ ch[Planner].state = "blocked" /\ s # "needs_input" =>
                     retries[Planner] > 0
<1>1. /\ ch \in [Key -> ChildRecord] /\ \A k \in Key : ch[k].state = "none" => ch[k] = Absent
      /\ targets \in Seq(Key) /\ Task \subseteq Key /\ Planner \in Key
  BY KeyFacts DEF ChildrenType, ChildRecord, TypeOK, RowType
<1>2. ~\E t \in Task : ch[t].state = "stopped"
  BY <1>1
<1>3. s = IF Shows(ch, {"uncertain"}) THEN "uncertain"
          ELSE IF FailedTasks(ch) # {} THEN FailedState(ch)
          ELSE IF Planned /\ (\E t \in Task : Awaiting(t, ch)) THEN "running"
          ELSE IF ~Planned /\ ch[Planner].state = "decision" THEN "needs_input"
          ELSE IF ~Planned /\ ch[Planner].state = "blocked"
               THEN (IF Skipped(ch) THEN "blocked" ELSE "running")
          ELSE Plain(ch, FALSE)
  BY <1>2 DEF Settled, Interrupts
<1>4. FailedState(ch) \in {"needs_input", "running", "blocked"}
  BY DEF FailedState
<1>5. Skipped(ch) => ~Planned /\ Failed(ch[Planner]) /\ retries[Planner] > 0
  BY DEF Skipped
<1>6. ASSUME Plain(ch, FALSE) = "completed", ~Skipped(ch), NEW k \in Range(targets)
      PROVE  ch[k].state = "completed"
  <2>1. k \in Key /\ ch[k].state \in ChildStates
    BY <1>1 DEF Range, ChildRecord
  <2>2. /\ ~Active(ch) /\ ~Shows(ch, {"uncertain"}) /\ ch[k] # Absent
        /\ ~Shows(ch, {"blocked", "decision"}) /\ ~Shows(ch, {"stopped"})
    BY <1>6 DEF Plain
  <2> QED BY <1>1, <2>1, <2>2 DEF Active, Shows, ChildStates
<1>7. Skipped(ch) => ch[Planner].state \in {"blocked", "decision"}
  BY <1>5 DEF Failed
<1>8. Shows(ch, {"uncertain"}) => s = "uncertain"
  BY <1>3
<1>9. ASSUME s = "completed"
      PROVE  Plain(ch, FALSE) = "completed" /\ ~Skipped(ch)
  BY <1>3, <1>4, <1>5, <1>7, <1>9
<1>10. ASSUME s \in {"completed", "blocked", "needs_input"}, FailedTasks(ch) = {}
       PROVE  /\ Planned => \A t \in Task : ~Awaiting(t, ch)
              /\ ~Planned /\ ch[Planner].state = "blocked" /\ s # "needs_input" =>
                     retries[Planner] > 0
  BY <1>3, <1>5, <1>10
<1> QED BY <1>6, <1>8, <1>9, <1>10

\* What an edit that settles the row says of it.
LEMMA SettlesFacts ==
  ASSUME TypeOK, NEW st, st # "dispatching", NEW ch, ChildrenType(ch, targets), Settles(st, ch),
         \A k \in Key : ch[k].state # "stopped", ~stopping, ~stopping',
         UNCHANGED <<targets, stage, retries>>
  PROVE  AllDone' /\ NothingLeft' /\ (Shows(children', {"uncertain"}) => state' = "uncertain")
<1>1. children' = ch /\ state' = Settled(st, ch, FALSE) /\ flow' = SettledFlow(st, ch, FALSE)
  BY DEF Settles, TypeOK, RowType
<1>2. flow' = flow \/ (flow = "planning" /\ flow' = "incomplete")
  BY <1>1 DEF SettledFlow
<1>3. Planned' <=> Planned
  BY <1>2 DEF Planned
<1>4. FailedTasks(children)' = FailedTasks(ch) /\ \A t \in Task : Awaiting(t, children)' <=> Awaiting(t, ch)
  BY <1>1, <1>3 DEF FailedTasks, Awaiting
<1> DEFINE s == state'
<1>5. /\ Shows(ch, {"uncertain"}) => s = "uncertain"
      /\ s = "completed" => \A k \in Range(targets) : ch[k].state = "completed"
      /\ s \in {"completed", "blocked", "needs_input"} /\ FailedTasks(ch) = {} =>
            /\ Planned => \A t \in Task : ~Awaiting(t, ch)
            /\ ~Planned /\ ch[Planner].state = "blocked" /\ s # "needs_input" =>
                  retries[Planner] > 0
  <2>1. s = Settled(st, ch, FALSE)
    BY <1>1
  <2> HIDE DEF s
  <2> QED BY <2>1, SettledFacts
<1> QED BY <1>1, <1>3, <1>4, <1>5 DEF AllDone, NothingLeft, Shows

\* Where the sender's loop goes on.
LEMMA FlightLands ==
  ASSUME TypeOK, Flight,
         ~(Marks \/ Picks \/ Sends \/ Writes \/ SenderStops \/ SenderCalls)
  PROVE  /\ flight'.at \notin {"loop", "send", "write", "stops", "calls"}
         /\ flight'.at = "interrupted" => Begins
<1>1. flight \in [at: Places, left: Seq(Key), got: Got]
  BY DEF TypeOK, ProcessType
<1>2. CASE Begins
  BY <1>1, <1>2 DEF Begins, Goes
<1>3. CASE Interrupted \/ PreparesReviews \/ RepairsTasks \/ RetriesChildren \/ Continues \/ Ends
  <2>1. flight'.at \in {"between", "repairs", "continue", "mark"}
    BY <1>1, <1>3 DEF Interrupted, PreparesReviews, RepairsTasks, RetriesChildren, Continues,
         Sending,
       Ends, Frees, Goes, Unsent
  <2> QED BY <2>1
<1>4. CASE ReportBegins \/ SendsReport \/ ReportWrites \/ Publishes
  <2>1. ReportBegins => flight'.at \in {"idle", "reportsend", "reportpoll", "publish"}
    BY <1>1 DEF ReportBegins, Goes, Ended, Unsent
  <2>2. SendsReport => flight'.at = "reportwrite"
    BY <1>1 DEF SendsReport, ReportSends
  <2>3. ReportWrites \/ Publishes => flight'.at \in {"reportstops", "idle"}
    BY <1>1 DEF ReportWrites, Publishes, Goes, Ended, Unsent
  <2> QED BY <1>4, <2>1, <2>2, <2>3
<1>5. CASE \/ (\E seen \in {"running", "completed", "blocked", "decision", "stopped", "uncertain"} :
                  ReportPolls(seen))
           \/ \E ok \in BOOLEAN : SenderStopsReport(ok)
  BY <1>1, <1>5 DEF ReportPolls, SenderStopsReport, Goes, Ended, Unsent
<1> QED BY <1>2, <1>3, <1>4, <1>5 DEF Flight

RowKept == UNCHANGED <<state, flow, targets, children, stage, retries>>

\* A poll's answer, as the row takes it.
LEMMA PollSettles ==
  ASSUME TypeOK, Sender, Owner, StopsTell, Next, Poll, ~stopping, ~stopping'
  PROVE  \E k \in Key, seen \in ChildStates :
            /\ children[k].state = "running" /\ Settles(state, Child(k, seen, TRUE))
            /\ ChildrenType(Child(k, seen, TRUE), targets)
            /\ \A j \in Key : Child(k, seen, TRUE)[j].state # "stopped"
<1>1. PICK k \in Key, seen \in {"running", "completed", "blocked", "decision", "stopped", "uncertain"} :
         Polls(k, seen)
  BY DEF Poll
<1>2. seen \in ChildStates \ {"none"} /\ Settles(state, Child(k, seen, TRUE))
      /\ children[k].state = "running" /\ children[k].known
  BY <1>1 DEF Polls, ChildStates
<1>3. ChildrenType(Child(k, seen, TRUE), targets)
  BY <1>2, ChildKept, KnownIsTarget DEF TypeOK
<1>4. NoneStopped'
  BY NoneStoppedStep DEF StopsTell
<1>5. \A j \in Key : Child(k, seen, TRUE)[j].state # "stopped"
  BY <1>2, <1>4 DEF Settles, NoneStopped
<1> QED BY <1>2, <1>3, <1>5

\* The state of the row says what the children are.
LEMMA RowSettledStep ==
  ASSUME TypeOK, PlanShape, ReviewApart, Sender, Owner, StopsTell, RowSettled, Next, TypeOK'
  PROVE  RowSettled'
<1> SUFFICES ASSUME ~stopping'
             PROVE  /\ flight'.at = "interrupted" =>
                          state' = "dispatching" \/ Shows(children', {"dispatching"})
                    /\ flight'.at \in {"loop", "send", "write"} =>
                          \/ state' = "dispatching"
                          \/ state' = "uncertain" /\ flight'.left = <<>> /\ Shows(children', {"uncertain"})
                    /\ AllDone' /\ NothingLeft'
  BY DEF RowSettled, At, Shows
<1>1. /\ ~stopping /\ RowType /\ ProcessType /\ NoneStopped
      /\ flight \in [at: Places, left: Seq(Key), got: Got]
      /\ children \in [Key -> ChildRecord] /\ Absent.state = "none"
  BY StoppingStays DEF TypeOK, RowType, ProcessType, StopsTell, ChildrenType, ChildRecord, Absent
<1>2. /\ flight.at \notin {"stops", "calls"} /\ stopper.at \notin {"reads", "claims", "calls"}
      /\ AllDone /\ NothingLeft
  BY <1>1 DEF Sender, Owner, RowSettled
<1>3. ~SenderStops /\ ~SenderCalls /\ ~\E ok \in BOOLEAN : StopperCalls(ok)
  BY <1>2 DEF SenderStops, SenderCalls, StopperCalls, At
<1> DEFINE Recovers == flight'.at = "interrupted" =>
                              state' = "dispatching" \/ Shows(children', {"dispatching"})
           Looping == flight'.at \in {"loop", "send", "write"} =>
                         \/ state' = "dispatching"
                         \/ state' = "uncertain" /\ flight'.left = <<>> /\ Shows(children', {"uncertain"})
           Goal == Recovers /\ Looping /\ AllDone' /\ NothingLeft'
<1>4. ASSUME RowKept
      PROVE  AllDone' /\ NothingLeft'
  BY <1>2, <1>4 DEF RowKept, AllDone, NothingLeft, FailedTasks, Planned, Awaiting
<1>5. ASSUME state' \notin {"completed", "blocked", "needs_input"}
      PROVE  AllDone' /\ NothingLeft'
  BY <1>5 DEF AllDone, NothingLeft
<1>6. CASE Begins
  <2>1. RowKept /\ (flight'.at = "interrupted" => state = "dispatching" \/ Shows(children, {"dispatching"}))
    BY <1>1, <1>6 DEF Begins, row, RowKept, Goes
  <2> QED BY <1>1, <1>4, <1>6, <2>1, FlightLands DEF Flight, Begins, RowKept, Shows, Goes
<1>7. CASE Marks
  <2>1. \/ state' = "dispatching"
        \/ state' = state /\ flight'.at = "between"
    BY <1>7 DEF Marks, Frees, Unsent
  <2>2. flight'.at # "interrupted" /\ UNCHANGED <<flow, targets, children, stage, retries>>
    BY <1>7 DEF Marks, Frees, Unsent
  <2> QED BY <1>4, <1>5, <2>1, <2>2 DEF RowKept
<1>8. CASE Picks
  <2>1. state = "dispatching" /\ state' = state
    BY <1>1, <1>8 DEF Picks, RowSettled, At
  <2>2. flight'.at \in {"loop", "send"}
    BY <1>1, <1>8 DEF Picks, Passed, Broken, Unsent
  <2> QED BY <1>5, <2>1, <2>2
<1>9. CASE Sends
  <2>1. state = "dispatching" /\ state' = state
    <3>1. At("send") /\ row' = row
      BY <1>9 DEF Sends, Submits
    <3>2. flight.left # <<>>
      BY <1>1, <3>1 DEF ProcessType, At
    <3> QED BY <1>1, <3>1, <3>2 DEF RowSettled, At, row
  <2>2. flight'.at = "write"
    BY <1>1, <1>9 DEF Sends, Submits
  <2> QED BY <1>5, <2>1, <2>2
<1>10. CASE Writes
  <2>1. Next1 \in Key /\ state = "dispatching" /\ At("write")
    <3>1. At("write")
      BY <1>10 DEF Writes
    <3>2. flight.left # <<>>
      BY <1>1, <3>1 DEF ProcessType, At
    <3> QED BY <1>1, <3>1, <3>2, NextIsTarget DEF RowSettled, At
  <2>2. \/ /\ state' = state
           /\ flight' = Passed \/ flight' = Broken \/ flight' = [Broken EXCEPT !.got = "busy"]
        \/ state' = "uncertain" /\ flight' = Broken /\ children' = Child(Next1, "uncertain", FALSE)
    BY <1>1, <1>10 DEF Writes, Accepted
  <2>3. Broken.left = <<>> /\ Broken.at = "loop" /\ Passed.at = "loop"
        /\ [Broken EXCEPT !.got = "busy"].at = "loop"
    BY <1>1 DEF Broken, Unsent, Passed
  <2>4. children' = Child(Next1, "uncertain", FALSE) => Shows(children', {"uncertain"})
    BY <1>1, <2>1 DEF Child, Shows
  <2> QED BY <1>5, <2>1, <2>2, <2>3, <2>4
<1>11. CASE \/ Sends \/ ReportBegins \/ SendsReport \/ ReportWrites \/ Publishes
            \/ (\E seen \in {"running", "completed", "blocked", "decision", "stopped", "uncertain"} :
                   ReportPolls(seen))
            \/ (\E ok \in BOOLEAN : SenderStopsReport(ok))
  <2>1. RowKept
    BY <1>11 DEF Sends, Submits, ReportBegins, SendsReport, ReportSends, ReportWrites, Publishes,
         ReportPolls,
       SenderStopsReport, row, RowKept
  <2>2. Sends => Goal
    BY <1>9
  <2>3. ~Sends => /\ flight'.at \notin {"loop", "send", "write"}
                  /\ flight'.at # "interrupted"
    <3>1. (~Begins /\ ~Marks /\ ~Picks /\ ~Writes) \/ Sends
      BY <1>11 DEF ReportBegins, SendsReport, ReportSends, ReportWrites, Publishes, ReportPolls,
         SenderStopsReport, Begins, Marks, Picks, Writes, At
    <3> QED BY <1>3, <1>11, <3>1, FlightLands DEF Flight
  <2> QED BY <1>4, <2>1, <2>2, <2>3
<1>12. CASE Interrupted \/ PreparesReviews \/ RepairsTasks \/ RetriesChildren \/ Continues \/ Ends
  <2>1. flight'.at \in {"between", "repairs", "continue", "mark"}
    BY <1>1, <1>12 DEF Interrupted, PreparesReviews, RepairsTasks, RetriesChildren, Continues,
         Sending,
       Ends, Frees, Goes, Unsent
  <2>2. CASE Interrupted
    BY <1>5, <2>1, <2>2 DEF Interrupted
  <2>3. CASE PreparesReviews
    <3>1. RowKept \/ state' = "ready"
      BY <2>3 DEF PreparesReviews, RowKept
    <3> QED BY <1>4, <1>5, <2>1, <3>1
  <2>4. CASE RetriesChildren
    <3>1. RowKept \/ state' = "ready"
      BY <2>4 DEF RetriesChildren, RowKept
    <3> QED BY <1>4, <1>5, <2>1, <3>1
  <2>5. CASE RepairsTasks
    <3>1. \/ RowKept \/ state' = "ready"
          \/ /\ state' = "blocked" /\ FailedTasks(children) # {}
             /\ UNCHANGED <<flow, targets, children, stage, retries>>
      BY <2>5 DEF RepairsTasks, RowKept, row
    <3>2. UNCHANGED <<flow, children>> => FailedTasks(children)' = FailedTasks(children)
      BY DEF FailedTasks, Planned
    <3> QED BY <1>4, <1>5, <2>1, <3>1, <3>2 DEF AllDone, NothingLeft
  <2>6. CASE Ends
    <3>1. Settles(IF state = "dispatching" THEN "running" ELSE state, children)
          /\ UNCHANGED <<targets, stage, retries>>
      BY <2>6 DEF Ends
    <3>2. ChildrenType(children, targets) /\ \A k \in Key : children[k].state # "stopped"
      BY <1>1 DEF RowType, NoneStopped
    <3> QED BY <1>1, <2>1, <3>1, <3>2, SettlesFacts
  <2>7. CASE Continues
    <3>1. UNCHANGED <<children, stage, retries>>
      BY <2>7 DEF Continues
    <3>2. \/ RowKept \/ state' = "ready"
          \/ /\ state = "completed" /\ Continuing /\ targets' = targets \o <<>>
             /\ \/ state' = "blocked" /\ flow' = flow
                \/ state' = "completed" /\ flow = "planning" /\ flow' = "answered"
                \/ /\ state' = "completed" /\ flow \in {"workers", "reviewing"}
                   /\ flow' \in {"answered", "reviewed"}
      <4>1. \/ UNCHANGED <<state, flow, targets>>
            \/ Phase("ready", flow, <<>>)
            \/ /\ Continuing
               /\ \/ flow = "planning" /\ Phase("completed", "answered", <<>>)
                  \/ Phase("ready", "workers", TaskSeq) \/ Phase("blocked", flow, <<>>)
                  \/ /\ flow = "workers"
                     /\ Phase("completed", "answered", <<>>) \/ Phase("completed", "reviewed", <<>>)
                  \/ Phase("ready", "reviewing", <<Reviewer>>)
                  \/ flow = "reviewing" /\ Phase("completed", "reviewed", <<>>)
        BY <2>7 DEF Continues
      <4> QED BY <3>1, <4>1 DEF Phase, RowKept, Continuing
    <3>3. targets \o <<>> = targets
      BY <1>1, PhaseAdds
    <3>4. CASE /\ state = "completed" /\ targets' = targets /\ flow = "planning"
               /\ state' = "completed" /\ flow' = "answered"
      <4>1. Range(targets) = {Planner}
        BY <3>4 DEF PlanShape, Range
      <4>2. \A t \in Task : children[t] = Absent
        BY <1>1, <4>1, KeyFacts DEF RowType, ChildrenType
      <4>3. \A t \in Task : ~Awaiting(t, children)'
        BY <1>1, <3>1, <4>2 DEF Awaiting
      <4> QED BY <1>2, <2>1, <3>1, <3>4, <4>3 DEF AllDone, NothingLeft, Planned
    <3>5. CASE /\ state = "completed" /\ targets' = targets
               /\ \/ state' = "blocked" /\ flow' = flow
                  \/ /\ state' = "completed" /\ flow \in {"workers", "reviewing"}
                     /\ flow' \in {"answered", "reviewed"}
      <4>1. Planned' <=> Planned
        BY <3>5 DEF Planned
      <4>2. /\ FailedTasks(children)' = FailedTasks(children)
            /\ \A t \in Task : Awaiting(t, children)' <=> Awaiting(t, children)
        BY <3>1, <4>1 DEF FailedTasks, Awaiting
      <4> QED BY <1>2, <2>1, <3>1, <3>5, <4>1, <4>2 DEF AllDone, NothingLeft
    <3> QED BY <1>4, <1>5, <2>1, <3>2, <3>3, <3>4, <3>5
  <2> QED BY <1>12, <2>2, <2>3, <2>4, <2>5, <2>6, <2>7
<1>13. CASE Poll
  <2>1. PICK k \in Key, seen \in ChildStates :
            /\ children[k].state = "running" /\ Settles(state, Child(k, seen, TRUE))
            /\ ChildrenType(Child(k, seen, TRUE), targets)
            /\ \A j \in Key : Child(k, seen, TRUE)[j].state # "stopped"
    BY <1>1, <1>13, PollSettles
  <2>2. UNCHANGED <<flight, targets, stage, retries>>
    BY <1>13 DEF Poll, Polls
  <2>3. CASE state = "dispatching"
    <3>1. state' = "dispatching"
      BY <2>1, <2>3 DEF Settles, Settled
    <3> QED BY <1>5, <3>1
  <2>4. CASE state # "dispatching"
    <3>1. AllDone' /\ NothingLeft' /\ (Shows(children', {"uncertain"}) => state' = "uncertain")
      BY <1>1, <2>1, <2>2, <2>4, SettlesFacts
    <3>2. \A j \in Key : j # k => children'[j] = children[j]
      BY <1>1, <2>1 DEF Settles, Child
    <3>3. \A S : "running" \notin S /\ Shows(children, S) => Shows(children', S)
      BY <2>1, <3>2 DEF Shows
    <3> QED BY <1>1, <2>2, <2>4, <3>1, <3>3 DEF RowSettled, At
  <2> QED BY <2>3, <2>4
<1>14. CASE Resume
  <2>1. state' = "ready" /\ flight' = flight /\ flight.at \in {"idle", "between"}
    BY <1>14 DEF Resume, At
  <2> QED BY <1>5, <2>1
<1>15. CASE RunsEnd \/ (\E ok \in BOOLEAN : Stop(ok)) \/ StopperMarks \/ StopperReads \/ StopperEnds
            \/ (\E k \in Key : StopperClaims(k)) \/ Crash
  <2>1. RowKept
    BY <1>15 DEF RunsEnd, RunEnds, Stop, StopperMarks, StopperReads, StopperEnds, StopperClaims,
         Crash,
       row, RowKept
  <2>2. flight' = flight \/ flight' = Unsent
    BY <1>15 DEF RunsEnd, RunEnds, Stop, StopperMarks, StopperReads, StopperEnds, StopperClaims,
         Crash
  <2>3. Shows(children', {"dispatching"}) = Shows(children, {"dispatching"})
        /\ Shows(children', {"uncertain"}) = Shows(children, {"uncertain"})
    BY <2>1 DEF RowKept, Shows
  <2>4. flight' = Unsent => flight'.at = "idle"
    BY DEF Unsent
  <2> QED BY <1>1, <1>4, <2>1, <2>2, <2>3, <2>4 DEF RowSettled, At, RowKept
<1>16. CASE PollsFindings
  <2>1. Findings
    BY <1>1, <1>16 DEF PollsFindings, Findings, Found, Request
  <2>2. /\ children'[Reviewer] = Absent
        /\ children'[LastTask] = [state |-> "blocked", known |-> children[LastTask].known]
        /\ Reviewer \in Key /\ LastTask \in Key /\ LastTask # Reviewer
    BY <1>1, <2>1, FindingsFacts, KeyFacts
  <2>3. /\ LastTask \in Task /\ Planned /\ flow' = "workers" /\ state' = Settled(state, Opened, FALSE)
        /\ children' = Opened /\ children'[LastTask].state = "blocked" /\ flight' = flight
        /\ children[Reviewer].state = "running" /\ Reviewer \in Key /\ Task \subseteq Key
        /\ children[LastTask].state = "completed" /\ LastTask # Reviewer
        /\ \A k \in Key : k # Reviewer /\ k # LastTask => children'[k] = children[k]
    <3>1. /\ LastTask \in Task /\ Planned /\ flow' = "workers" /\ children' = Opened
          /\ state' = Settled(state, Opened, FALSE) /\ \A t \in Task : Done(t, children)
      BY <1>1, <2>1, FindingsFacts
    <3>2. \A k \in Key : k # Reviewer /\ k # LastTask => children'[k] = children[k]
      BY <1>1, <2>1, FindingsFacts
    <3>3. children[Reviewer].state = "running" /\ flight' = flight
      BY <2>1 DEF Findings
    <3>4. children[LastTask].state = "completed" /\ Task \subseteq Key
      BY <3>1, KeyFacts DEF Done
    <3> QED BY <2>2, <3>1, <3>2, <3>3, <3>4
  <2>4. \A k \in Key : children'[k].state \in {children[k].state, "none", "blocked"}
    BY <1>1, <2>2, <2>3
  <2>5. LastTask \in FailedTasks(Opened) /\ LastTask \in FailedTasks(children)'
    BY <2>3 DEF FailedTasks, Failed, Planned
  <2>6. ~Interrupts(Opened)
    BY <1>1, <2>3, <2>4 DEF Interrupts, NoneStopped
  <2>7. state' = IF state = "dispatching" THEN state
                 ELSE IF Shows(children', {"uncertain"}) THEN "uncertain"
                 ELSE FailedState(Opened)
    BY <2>3, <2>5, <2>6 DEF Settled
  <2>8. FailedState(Opened) \in {"needs_input", "running", "blocked"}
    BY DEF FailedState
  <2>9. AllDone' /\ NothingLeft'
    BY <2>5, <2>7, <2>8 DEF AllDone, NothingLeft
  <2>10. \A S \in {{"dispatching"}, {"uncertain"}} : Shows(children, S) => Shows(children', S)
    BY <2>3, <2>4 DEF Shows
  <2> QED BY <1>1, <2>3, <2>7, <2>9, <2>10 DEF RowSettled, At
<1> QED BY <1>3, <1>6, <1>7, <1>8, <1>10, <1>11, <1>12, <1>13, <1>14, <1>15, <1>16 DEF Next, Flight,
        Stopper

-----------------------------------------------------------------------------
(* A stop reaches every run.                                               *)

\* While the sender stops a child, only he moves on.
LEMMA SenderHeld ==
  ASSUME TypeOK, Next, flight.at \in {"stops", "calls"}, ~SenderStops, ~SenderCalls, ~Crash
  PROVE  UNCHANGED flight
<1>1. ~Flight
  BY DEF Flight, At, Begins, Interrupted, PreparesReviews, RepairsTasks, RetriesChildren, Continues,
     Marks, Picks, Sends, Submits, Writes, Ends, ReportBegins, SendsReport, ReportSends,
     ReportWrites, Publishes, ReportPolls, SenderStopsReport
<1> QED BY <1>1 DEF Next, Poll, Polls, PollsFindings, RunsEnd, RunEnds, Stop, Stopper, StopperMarks, StopperReads,
     StopperEnds, StopperClaims, StopperCalls, Resume

\* While the owner stops children, only he moves on.
LEMMA StopperHeld ==
  ASSUME TypeOK, Next, stopper.at \in {"reads", "claims", "calls"}, ~Stopper, ~Crash
  PROVE  UNCHANGED stopper
BY DEF Next, Flight, Begins, Interrupted, PreparesReviews, RepairsTasks, RetriesChildren,
   Continues, Marks, Picks, Sends, Submits, Writes, SenderStops, SenderCalls, Ends, ReportBegins,
   SendsReport, ReportSends, ReportWrites, Publishes, ReportPolls, SenderStopsReport,
   Poll, Polls, PollsFindings, RunsEnd, RunEnds, Stop, Resume

\* A behaviour without a crash had none before.
LEMMA CrashCounted ==
  ASSUME TypeOK, Next, crashes' = 0
  PROVE  crashes = 0 /\ ~Crash
<1>1. crashes \in Nat
  BY DEF TypeOK, RunsType
<1>2. ~Crash
  BY <1>1 DEF Crash
<1>3. crashes' = crashes
  BY <1>2 DEF Next, Flight, Begins, Interrupted, PreparesReviews, RepairsTasks, RetriesChildren,
     Continues, Marks, Picks, Sends, Submits, Writes, SenderStops, SenderCalls, Ends, ReportBegins,
     SendsReport, ReportSends, ReportWrites, Publishes, ReportPolls, SenderStopsReport,
     Poll, Polls, PollsFindings, RunsEnd, RunEnds, Stop, Stopper, StopperMarks, StopperReads, StopperEnds,
     StopperClaims, StopperCalls, Resume
<1> QED BY <1>2, <1>3

\* A run that a stop still has to tell: its child and its name were there before.
LEMMA StillRuns ==
  ASSUME TypeOK, Sender, Owner, StopsTell, Next, stopping, NEW k \in Key,
         children'[k].state = "running", Request(k)' \in DOMAIN runs', runs'[Request(k)'] = "running"
  PROVE  \/ Written(k) /\ flight.got = "accepted" /\ flight' = Accepted
         \/ /\ children[k].state = "running" /\ Request(k)' = Request(k)
            /\ runs[Request(k)] = "running"
<1>1. children \in [Key -> ChildRecord] /\ Absent.state = "none"
  BY DEF TypeOK, RowType, ChildrenType, ChildRecord, Absent
<1>2. Moves(k)
  BY ChildMoves
<1>3. \A st, known : To(k, st, known) => children'[k].state = st
  BY DEF To
<1>4. Doubted(k) => children'[k].state = "uncertain"
  BY <1>1, DoubtedRecord DEF Doubted
<1>5. ~Lost(k) /\ ~Unsure(k) /\ ~Picked(k) /\ ~Dropped(k) /\ ~ToReview(k) /\ ~Again(k)
  BY <1>4 DEF Lost, Unsure, Picked, Dropped, ToReview, Again
<1>6. CASE Written(k)
  BY <1>1, <1>3, <1>6 DEF Written
<1>7. CASE SameName(k) /\ children[k].state = "running"
  <2>1. Request(k)' = Request(k) /\ Request(k) \in DOMAIN runs /\ Request(k) # ReportRequest
    BY <1>7, NameKept, NamesDiffer DEF StopsTell
  <2>2. runs[Request(k)] = "running"
    <3>1. RunsGo
      BY RunsMove
    <3>2. \A r : runs' = Put(runs, r, "running") /\ r # Request(k) => runs'[Request(k)] = runs[Request(k)]
      BY <2>1 DEF Put
    <3>3. At("send") => Request(Next1) # Request(k)
      <4> SUFFICES ASSUME At("send") PROVE Request(Next1) # Request(k)
        OBVIOUS
      <4>1. Next1 \in Key /\ children[Next1].state = "dispatching"
        BY NextIsTarget DEF At, Sender, TypeOK, ProcessType
      <4> QED BY <1>7, <4>1, NamesDiffer
    <3>4. \A r : Told(r) /\ runs'[Request(k)] = "running" => runs[Request(k)] = "running"
      BY <2>1 DEF Told
    <3>5. RunsEnd /\ runs'[Request(k)] = "running" => runs[Request(k)] = "running"
      <4>1. ASSUME NEW r \in DOMAIN runs, NEW result \in {"completed", "findings", "blocked", "decision", "stopped"},
                   RunEnds(r, result), runs'[Request(k)] = "running"
            PROVE  runs[Request(k)] = "running"
        BY <2>1, <4>1 DEF RunEnds
      <4> QED BY <4>1 DEF RunsEnd
    <3> QED BY <2>1, <3>1, <3>2, <3>3, <3>4, <3>5 DEF RunsGo
  <2> QED BY <1>7, <2>1, <2>2
<1>8. Kept(k) \/ Polled(k) => children[k].state = "running"
  BY DEF Kept, Polled
<1>9. ~ReviewTaken(k) /\ ~TaskReopened(k)
  BY FindingsMove
<1> QED BY <1>2, <1>5, <1>6, <1>7, <1>8, <1>9 DEF Moves

\* A call of stop that fails or is heard leaves no run to tell.
LEMMA CallEnds ==
  ASSUME TypeOK, Sender, Owner, NEW k \in Key, children[k].known,
         Request(k) \in DOMAIN runs, runs'[Request(k)] = "running", children'[k].state = "running",
         \/ Told(Request(k))
         \/ Unconfirmed(k)
  PROVE  FALSE
<1>1. children \in [Key -> ChildRecord]
  BY DEF TypeOK, RowType, ChildrenType, ChildRecord
<1>2. ~Told(Request(k))
  BY DEF Told
<1>3. ~Unconfirmed(k)
  BY <1>1 DEF Unconfirmed, Settles, Child
<1> QED BY <1>2, <1>3

\* Under a stop, every run that was not told yet is told by somebody still.
LEMMA StopsTellStep ==
  ASSUME TypeOK, Sender, Owner, StopsTell, Next, TypeOK'
  PROVE  StopsTell'
<1>1. /\ RowType /\ ProcessType /\ children \in [Key -> ChildRecord] /\ Absent.state = "none"
      /\ flight \in [at: Places, left: Seq(Key), got: Got]
      /\ stopper \in [at: {"idle", "marks", "reads", "claims", "calls"}, left: SUBSET Key, now: Key]
      /\ DOMAIN runs \subseteq DOMAIN runs'
  BY RunsGrow DEF TypeOK, RowType, ProcessType, ChildrenType, ChildRecord, Absent
<1>2. ~stopping' => NoneStopped'
  <2> SUFFICES ASSUME ~stopping' PROVE NoneStopped'
    OBVIOUS
  <2>1. ~stopping
    BY StoppingStays
  <2> QED BY <2>1, NoneStoppedStep DEF StopsTell
<1>3. ASSUME NEW k \in Key, children'[k].state = "running"
      PROVE  Request(k)' \in DOMAIN runs'
  <2>1. Moves(k)
    BY ChildMoves
  <2>2. \A st, known : To(k, st, known) => children'[k].state = st
    BY DEF To
  <2>3. Doubted(k) => children'[k].state = "uncertain"
    BY <1>1, DoubtedRecord DEF Doubted
  <2>4. ~Lost(k) /\ ~Unsure(k) /\ ~Picked(k) /\ ~Dropped(k) /\ ~ToReview(k) /\ ~Again(k)
    BY <1>1, <1>3, <2>2, <2>3 DEF Lost, Unsure, Picked, Dropped, ToReview, Again
  <2>5. Kept(k) \/ Polled(k) => Request(k) \in DOMAIN runs
    BY <1>3 DEF Kept, Polled, StopsTell
  <2>6. Written(k) => Request(k) \in DOMAIN runs
    BY <1>1, <1>3, <2>2 DEF Written, Writes, StopsTell
  <2>7. SameName(k) => Request(k)' = Request(k)
    BY NameKept
  <2>8. ~ReviewTaken(k) /\ ~TaskReopened(k)
    BY <1>1, <1>3, <2>2, FindingsMove
  <2> QED BY <1>1, <2>1, <2>4, <2>5, <2>6, <2>7, <2>8 DEF Moves
<1>4. ASSUME flight'.at = "write", flight'.got = "accepted"
      PROVE  Request(Next1)' \in DOMAIN runs'
  <2>1. CASE UNCHANGED flight
    <3>1. Request(Next1)' = Request(Next1) /\ Request(Next1) \in DOMAIN runs
      BY <1>4, <2>1, NextNameKept DEF StopsTell, At
    <3> QED BY <1>1, <3>1
  <2>2. CASE Sends
    <3>1. UNCHANGED <<retries, stage>> /\ Next1' = Next1 /\ Delivers(Request(Next1))
      BY <1>1, <1>4, <2>2 DEF Sends, Submits, row, Next1
    <3>2. Request(Next1)' = Request(Next1)
      BY <3>1 DEF Request
    <3> QED BY <3>1, <3>2 DEF Delivers, Put
  <2>3. FlightGoes
    BY FlightMoves
  <2> QED BY <1>4, <2>1, <2>2, <2>3 DEF FlightGoes
<1>5. ASSUME stopping', crashes' = 0, NEW k \in Key, children'[k].state = "running",
             runs'[Request(k)'] = "running"
      PROVE  Calling(k)' \/ (k \notin claimed' /\ ToCome(k)')
  <2>1. crashes = 0 /\ ~Crash
    BY <1>5, CrashCounted
  <2>2. CASE ~stopping
    <3>1. StopperMarks /\ stopper'.at = "reads"
      BY <1>5, <2>2, StoppingStays
    <3>2. claimed' = claimed
      BY <3>1 DEF StopperMarks
    <3> QED BY <2>2, <3>1, <3>2 DEF Owner, ToCome
  <2>3. CASE stopping /\ Written(k) /\ flight.got = "accepted" /\ flight' = Accepted
    <3>1. Writes /\ k = Next1 /\ children[k].state = "dispatching" /\ At("write")
      BY <2>3 DEF Written, Writes
    <3>2. flight' = [flight EXCEPT !.at = "stops"]
      BY <2>3 DEF Accepted
    <3>3. flight'.at = "stops" /\ Next1' = k
      BY <1>1, <3>1, <3>2 DEF Next1
    <3>4. k \notin claimed /\ claimed' = claimed
      BY <3>1 DEF Writes, Owner, Sender
    <3> QED BY <3>3, <3>4 DEF ToCome, At
  <2>4. CASE /\ stopping /\ children[k].state = "running" /\ Request(k)' = Request(k)
             /\ runs[Request(k)] = "running"
    <3>1. Calling(k) \/ (k \notin claimed /\ ToCome(k))
      BY <2>1, <2>4 DEF StopsTell
    <3>2. Request(k) \in DOMAIN runs /\ children[k].known
      BY <1>1, <2>4 DEF StopsTell, RowType, ChildrenType
    <3>3. k \in claimed' => k \in claimed \/ (SenderStops /\ k = Next1) \/ StopperClaims(k)
      BY ClaimMoves
    <3>4. ~(Told(Request(k)) \/ Unconfirmed(k))
      BY <1>5, <2>4, <3>2, CallEnds
    <3>5. CASE At("calls") /\ Next1 = k
      <4>1. ~SenderCalls /\ ~SenderStops
        BY <3>4, <3>5 DEF SenderCalls, SenderStops, At
      <4>2. flight' = flight
        BY <2>1, <3>5, <4>1, SenderHeld DEF At
      <4> QED BY <3>5, <4>2 DEF Calling, At, Next1
    <3>6. CASE stopper.at = "calls" /\ stopper.now = k
      <4>1. ~Stopper
        BY <3>4, <3>6 DEF Stopper, StopperMarks, StopperReads, StopperEnds, StopperClaims,
             StopperCalls
      <4>2. stopper' = stopper
        BY <2>1, <3>6, <4>1, StopperHeld
      <4> QED BY <3>6, <4>2 DEF Calling
    <3>7. CASE SenderStops /\ k = Next1 /\ k \notin claimed
      <4>1. flight' = [flight EXCEPT !.at = "calls"]
        BY <3>7 DEF SenderStops
      <4>2. flight'.at = "calls" /\ Next1' = k
        BY <1>1, <3>7, <4>1 DEF Next1
      <4> QED BY <4>2 DEF Calling, At
    <3>8. CASE StopperClaims(k) /\ k \notin claimed
      <4>1. stopper' = [stopper EXCEPT !.left = @ \ {k}, !.at = "calls", !.now = k]
        BY <3>8 DEF StopperClaims
      <4>2. stopper'.at = "calls" /\ stopper'.now = k
        BY <1>1, <4>1
      <4> QED BY <4>2 DEF Calling
    <3>9. ASSUME k \notin claimed, k \notin claimed', ToCome(k), ~(SenderStops /\ k = Next1),
                 ~Calling(k)
          PROVE  ToCome(k)' \/ Calling(k)'
      <4>1. CASE At("stops") /\ Next1 = k
        <5>1. ~SenderStops /\ ~SenderCalls
          BY <3>9, <4>1 DEF SenderCalls, At
        <5>2. flight' = flight
          BY <2>1, <4>1, <5>1, SenderHeld DEF At
        <5> QED BY <4>1, <5>2 DEF ToCome, At, Next1
      <4>2. CASE stopper.at = "reads"
        <5>1. CASE StopperReads
          <6>1. Reached' = Seen
            BY <1>1, <5>1 DEF StopperReads, Reached, Seen
          <6>2. k \in Seen
            BY <2>4, <3>2 DEF Seen
          <6> QED BY <6>1, <6>2 DEF ToCome
        <5>2. CASE ~StopperReads
          <6>1. ~Stopper
            BY <4>2, <5>2 DEF Stopper, StopperMarks, StopperEnds, StopperClaims, StopperCalls
          <6> QED BY <2>1, <4>2, <6>1, StopperHeld DEF ToCome
        <5> QED BY <5>1, <5>2
      <4>3. CASE k \in Reached /\ stopper.at = "claims"
        <5>1. k \in stopper.left
          BY <4>3 DEF Reached
        <5>2. ASSUME NEW j \in Key, StopperClaims(j)
              PROVE  k \in Reached'
          <6>1. j # k
            BY <3>9, <5>2 DEF StopperClaims
          <6>2. k \in stopper'.left /\ stopper'.at \in {"claims", "calls"}
            BY <1>1, <4>3, <5>1, <5>2, <6>1 DEF StopperClaims
          <6> QED BY <6>2 DEF Reached
        <5>3. CASE ~\E j \in Key : StopperClaims(j)
          <6>1. ~Stopper
            BY <4>3, <5>1, <5>3 DEF Stopper, StopperMarks, StopperReads, StopperEnds, StopperCalls
          <6>2. stopper' = stopper
            BY <2>1, <4>3, <6>1, StopperHeld
          <6> QED BY <4>3, <6>2 DEF ToCome, Reached
        <5> QED BY <5>2, <5>3 DEF ToCome
      <4>4. CASE k \in Reached /\ stopper.at = "calls"
        <5>1. k \in stopper.left
          BY <3>9, <4>4 DEF Reached, Calling
        <5>2. CASE \E ok \in BOOLEAN : StopperCalls(ok)
          <6>1. k \in stopper'.left /\ stopper'.at = "claims"
            BY <1>1, <5>1, <5>2 DEF StopperCalls
          <6> QED BY <6>1 DEF ToCome, Reached
        <5>3. CASE ~\E ok \in BOOLEAN : StopperCalls(ok)
          <6>1. ~Stopper
            BY <4>4, <5>3 DEF Stopper, StopperMarks, StopperReads, StopperEnds, StopperClaims
          <6>2. stopper' = stopper
            BY <2>1, <4>4, <6>1, StopperHeld
          <6> QED BY <4>4, <6>2 DEF ToCome, Reached
        <5> QED BY <5>2, <5>3
      <4> QED BY <3>9, <4>1, <4>2, <4>3, <4>4 DEF ToCome, Reached
    <3> QED BY <3>1, <3>3, <3>5, <3>6, <3>7, <3>8, <3>9 DEF Calling
  <2>5. Request(k)' \in DOMAIN runs'
    BY <1>3, <1>5
  <2> QED BY <1>5, <2>2, <2>3, <2>4, <2>5, StillRuns
<1> QED BY <1>2, <1>3, <1>4, <1>5 DEF StopsTell, At

-----------------------------------------------------------------------------
(* The review comes apart from the rest.                                   *)

\* When the review is part of the plan, every task is finished.
LEMMA ReviewLeaves ==
  ASSUME TypeOK, PlanShape, ~stopping, Reviewer \in Range(targets)
  PROVE  /\ Planned /\ flow \in {"reviewing", "reviewed"} /\ FailedTasks(children) = {}
         /\ \A t \in Task : Done(t, children) /\ ~Awaiting(t, children)
<1>1. flow \in {"reviewing", "reviewed"}
  BY DEF PlanShape
<1>2. \A t \in Task : Done(t, children)
  BY <1>1 DEF PlanShape
<1> QED BY <1>1, <1>2 DEF Planned, Done, FailedTasks, Failed

\* What is added to a plan with a review, and what the rest of it is doing.
LEMMA ReviewPlan ==
  ASSUME TypeOK, PlanShape, ReviewApart, RowSettled, Next, ~stopping, Reviewer \in Range(targets')
  PROVE  \/ /\ Range(targets') = Range(targets) /\ ~Findings /\ ~Resume
         \/ /\ Continues /\ state = "completed" /\ flow = "workers"
            /\ Reviewer \notin Range(targets) /\ Range(targets') = Range(targets) \cup {Reviewer}
<1>1. PlanGoes
  BY PlanMoves
<1>2. CASE Reviewer \in Range(targets)
  <2>1. flow \in {"reviewing", "reviewed"} /\ FailedTasks(children) = {}
    BY <1>2, ReviewLeaves
  <2>2. ~Resume
    BY <2>1 DEF Resume, ToResume
  <2>3. ~ReviewOff /\ ~Findings
    <3>1. Findings => Range(targets') = Range(targets) \ {Reviewer}
      BY FindingsFacts
    <3> QED BY <3>1 DEF ReviewOff
  <2>4. ASSUME NEW u \in Task, RepairAsked(u) PROVE FALSE
    <3>1. RepairsTasks /\ repairs' # repairs
      BY <2>4 DEF RepairAsked
    <3> QED BY <2>1, <3>1 DEF RepairsTasks, row
  <2>5. PlanKept \/ NextPhase
    BY <1>1, <2>2, <2>3, <2>4 DEF PlanGoes, Replanned
  <2> QED BY <2>1, <2>2, <2>3, <2>5 DEF PlanKept, NextPhase
<1>3. CASE Reviewer \notin Range(targets)
  <2>1. ~PlanKept /\ ~Replanned /\ ~ReviewOff
    BY <1>3 DEF PlanKept, Replanned, ReviewOff
  <2>2. \A u \in Task : ~RepairAsked(u)
    BY <1>3, KeyFacts DEF RepairAsked
  <2>3. NextPhase
    BY <1>1, <2>1, <2>2 DEF PlanGoes
  <2> QED BY <1>3, <2>3, KeyFacts DEF NextPhase
<1> QED BY <1>2, <1>3

\* Beside a review the other targets stay finished.
LEMMA RestFinished ==
  ASSUME TypeOK, PlanShape, ReviewApart, Sender, Owner, RowSettled, Next, ~stopping,
         Reviewer \in Range(targets'), NEW k \in Range(targets') \ {Reviewer}
  PROVE  children'[k].state = "completed"
<1>1. CASE /\ Continues /\ state = "completed"
           /\ Reviewer \notin Range(targets) /\ Range(targets') = Range(targets) \cup {Reviewer}
  <2>1. children' = children
    BY <1>1 DEF Continues
  <2> QED BY <1>1, <2>1 DEF RowSettled, AllDone
<1>2. CASE Range(targets') = Range(targets) /\ ~Findings /\ ~Resume
  <2>1. k \in Range(targets) \ {Reviewer} /\ Reviewer \in Range(targets)
    BY <1>2
  <2>2. children[k].state = "completed" /\ k \in Key
    BY <2>1 DEF ReviewApart, TypeOK, RowType, Range
  <2>3. Moves(k)
    BY <2>2, ChildMoves
  <2>4. ~ToReview(k) /\ ~Again(k)
    BY <2>1, <2>2, ReviewLeaves DEF ToReview, Again, Failed
  <2>5. ~Picked(k) /\ ~Written(k) /\ ~Lost(k) /\ ~Polled(k)
    <3>1. Absent.state = "none"
      BY DEF Absent
    <3> QED BY <2>2, <3>1 DEF Picked, Written, Lost, Polled, Running
  <2>6. ~Unsure(k) /\ ~Dropped(k) /\ ~ReviewTaken(k) /\ ~TaskReopened(k)
    BY <1>2 DEF Unsure, Dropped, ReviewTaken, TaskReopened
  <2> QED BY <2>2, <2>3, <2>4, <2>5, <2>6 DEF Moves, Kept
<1> QED BY <1>1, <1>2, ReviewPlan

\* A row with a review in its plan becomes ready only for that review.
LEMMA BecomesReady ==
  ASSUME TypeOK, PlanShape, Next, ~stopping, Reviewer \in Range(targets), ~Findings, ~Resume,
         state # "ready", state' = "ready"
  PROVE  children' = children /\ \E k \in Range(targets) : children[k] = Absent
<1>1. Planned /\ flow \in {"reviewing", "reviewed"} /\ FailedTasks(children) = {}
      /\ \A t \in Task : ~Awaiting(t, children)
  BY ReviewLeaves
<1>2. \A st, ch, stop : Settled(st, ch, stop) # "ready"
  BY DEF Settled, FailedState, Plain
<1>3. CASE Continues
  BY <1>1, <1>3 DEF Continues, Phase
<1>4. ~PreparesReviews /\ ~RepairsTasks /\ ~RetriesChildren
  BY <1>1 DEF PreparesReviews, RepairsTasks, RetriesChildren, row
<1>5. ~Interrupted /\ ~Marks /\ ~Writes
  BY DEF Interrupted, Marks, Writes
<1>6. ~PollsFindings /\ ~Ends /\ ~SenderCalls /\ ~Poll /\ ~Stopper
  <2>1. ~PollsFindings
    BY DEF PollsFindings, Findings, Found, Request
  <2> QED BY <1>2, <2>1 DEF Ends, SenderCalls, Poll, Polls, Settles, Unconfirmed, Stopper,
                            StopperMarks, StopperReads, StopperEnds, StopperClaims, StopperCalls, row
<1>7. ~(Begins \/ Picks \/ Sends \/ SenderStops \/ ReportBegins \/ SendsReport
          \/ ReportWrites \/ Publishes
          \/ (\E seen \in {"running", "completed", "blocked", "decision", "stopped", "uncertain"} :
                 ReportPolls(seen))
          \/ (\E ok \in BOOLEAN : SenderStopsReport(ok)))
  BY DEF Begins, row, Picks, Sends, Submits, SenderStops, ReportBegins,
         SendsReport, ReportSends, ReportWrites, Publishes, ReportPolls, SenderStopsReport
<1>8. ~(RunsEnd \/ (\E ok \in BOOLEAN : Stop(ok)) \/ Crash)
  BY DEF RunsEnd, RunEnds, row, Stop, Crash
<1> QED BY <1>3, <1>4, <1>5, <1>6, <1>7, <1>8 DEF Next, Flight

\* What is left to send, when anything is.
LEMMA LeftMoves ==
  ASSUME TypeOK, Sender, Next, TypeOK', flight'.left # <<>>
  PROVE  \/ UNCHANGED flight /\ ~Picks /\ ~Writes
         \/ Picks /\ flight'.at = "send" /\ flight'.left = flight.left
         \/ Sends /\ flight'.at = "write" /\ flight'.left = flight.left
         \/ stopping /\ flight'.left = flight.left
         \/ Marks /\ flight'.left = targets /\ state = "ready"
         \/ /\ Picks \/ Writes
            /\ flight.left # <<>> /\ flight'.left = Tail(flight.left)
<1>1. /\ ProcessType /\ FlightGoes /\ flight \in [at: Places, left: Seq(Key), got: Got]
      /\ flight'.at \in {"loop", "send", "write", "stops", "calls"}
  BY FlightMoves DEF TypeOK, ProcessType
<1>2. CASE Writes
  <2>1. flight.left # <<>>
    BY <1>1, <1>2 DEF Writes, At, ProcessType
  <2>2. \/ stopping /\ flight' = [flight EXCEPT !.at = "stops"]
        \/ flight' = Passed \/ flight' = Broken \/ flight' = [Broken EXCEPT !.got = "busy"]
    BY <1>2 DEF Writes, Accepted
  <2> QED BY <1>1, <1>2, <2>1, <2>2 DEF Passed, Broken, Unsent
<1>3. CASE Picks
  BY <1>1, <1>3 DEF Picks, Passed, Broken, Unsent
<1>4. CASE Marks
  <2>1. \/ state = "ready" /\ flight' = [Unsent EXCEPT !.at = "loop", !.left = targets]
        \/ flight' = [Unsent EXCEPT !.at = "between"]
    BY <1>4 DEF Marks, Frees
  <2> QED BY <1>4, <2>1 DEF Unsent
<1>5. CASE SenderStops \/ SenderCalls
  <2>1. stopping
    BY <1>5 DEF SenderStops, SenderCalls, At, Sender
  <2>2. flight' = Broken \/ flight' = [flight EXCEPT !.at = "calls"]
    BY <1>5 DEF SenderStops, SenderCalls
  <2> QED BY <1>1, <2>1, <2>2 DEF Broken, Unsent
<1> QED BY <1>1, <1>2, <1>3, <1>4, <1>5 DEF FlightGoes

\* The review comes when all else is finished, and is sent last.
LEMMA ReviewApartStep ==
  ASSUME TypeOK, PlanShape, ReviewApart, Sender, Owner, RowSettled, Next, TypeOK'
  PROVE  ReviewApart'
<1>1. /\ RowType /\ ProcessType /\ (stopping => stopping')
      /\ flight \in [at: Places, left: Seq(Key), got: Got]
      /\ flight' \in [at: Places, left: Seq(Key), got: Got]
      /\ Absent.state = "none" /\ Reviewer \in Key /\ Reviewer \notin Task
      /\ Range(flight'.left) \subseteq Range(targets')
  BY StoppingStays, KeyFacts DEF TypeOK, ProcessType, Absent
<1>2. IsInjective(flight.left) /\ IsInjective(targets)
  BY DEF ReviewApart, TypeOK, RowType
<1>3. ASSUME flight.left # <<>>
      PROVE  /\ IsInjective(Tail(flight.left)) /\ Next1 \notin Range(Tail(flight.left))
             /\ Range(Tail(flight.left)) \subseteq Range(flight.left)
  <2> DEFINE s == flight.left
  <2>1. s \in Seq(Key) /\ Len(s) > 0 /\ Len(Tail(s)) = Len(s) - 1 /\ Next1 = s[1]
        /\ DOMAIN s = 1..Len(s) /\ DOMAIN Tail(s) = 1..(Len(s) - 1) /\ Len(s) \in Nat
    BY <1>1, <1>3 DEF Next1
  <2>2. \A i \in 1..(Len(s) - 1) : Tail(s)[i] = s[i + 1] /\ i + 1 \in 1..Len(s) /\ 1 \in 1..Len(s)
    BY <2>1
  <2> HIDE DEF s
  <2>3. \A i, j \in DOMAIN s : s[i] = s[j] => i = j
    BY <1>2 DEF s, IsInjective
  <2>4. \A i \in 1..(Len(s) - 1) : s[i + 1] # s[1]
    BY <2>1, <2>2, <2>3
  <2>5. IsInjective(Tail(s))
    <3> SUFFICES ASSUME NEW i \in 1..(Len(s) - 1), NEW j \in 1..(Len(s) - 1), Tail(s)[i] = Tail(s)[j]
                 PROVE  i = j
      BY <2>1 DEF IsInjective
    <3>1. i + 1 = j + 1
      BY <2>1, <2>2, <2>3
    <3> QED BY <2>1, <3>1
  <2> QED BY <2>1, <2>2, <2>4, <2>5 DEF s, Range
<1>4. IsInjective(flight'.left)
  <2>1. IsInjective(<<>>)
    BY DEF IsInjective
  <2>2. CASE flight'.left # <<>>
    BY <1>2, <1>3, <2>2, LeftMoves
  <2> QED BY <2>1, <2>2
<1> SUFFICES ASSUME ~stopping', Reviewer \in Range(targets')
             PROVE  /\ \A k \in Range(targets') \ {Reviewer} : children'[k].state = "completed"
                    /\ state' = "ready" => children'[Reviewer] = Absent
                    /\ Reviewer \in Range(flight'.left) =>
                          \/ children'[Reviewer] = Absent
                          \/ /\ flight'.at \in {"send", "write"} /\ Next1' = Reviewer
                             /\ children'[Reviewer].state = "dispatching"
  BY <1>1, <1>4 DEF ReviewApart
<1>5. ~stopping /\ \A k \in Range(targets') \ {Reviewer} : children'[k].state = "completed"
  BY <1>1, RestFinished
<1>6. Moves(Reviewer)
  BY <1>1, ChildMoves
<1>7. ASSUME children[Reviewer] = Absent, ~Picked(Reviewer)
      PROVE  children'[Reviewer] = Absent
  <2>1. ~Written(Reviewer) /\ ~Lost(Reviewer) /\ ~Polled(Reviewer) /\ ~TaskReopened(Reviewer)
    BY <1>1, <1>7 DEF Written, Lost, Polled, TaskReopened, Running
  <2> QED BY <1>5, <1>6, <1>7, <2>1 DEF Moves, Kept, Unsure, Dropped, ReviewTaken, ToReview, Again
<1>8. CASE /\ Continues /\ Reviewer \notin Range(targets)
           /\ Range(targets') = Range(targets) \cup {Reviewer}
  <2>1. children' = children /\ children[Reviewer] = Absent
    BY <1>1, <1>8 DEF Continues, RowType, ChildrenType
  <2> QED BY <1>5, <2>1
<1>9. CASE Range(targets') = Range(targets) /\ ~Findings /\ ~Resume
  <2>1. Reviewer \in Range(targets)
    BY <1>9
  <2>2. ASSUME state' = "ready" PROVE children'[Reviewer] = Absent
    <3>1. CASE state = "ready"
      <4>1. children[Reviewer] = Absent
        BY <1>5, <2>1, <3>1 DEF ReviewApart
      <4>2. ~Picks
        BY <1>5, <3>1 DEF RowSettled, Picks, At
      <4> QED BY <1>7, <4>1, <4>2 DEF Picked
    <3>2. CASE state # "ready"
      <4>1. children' = children
        BY <1>5, <1>9, <2>1, <2>2, <3>2, BecomesReady
      <4>2. PICK k \in Range(targets) : children[k] = Absent
        BY <1>5, <1>9, <2>1, <2>2, <3>2, BecomesReady
      <4>3. k = Reviewer
        BY <1>1, <1>5, <2>1, <4>2 DEF ReviewApart
      <4> QED BY <4>1, <4>2, <4>3
    <3> QED BY <3>1, <3>2
  <2>3. ASSUME Reviewer \in Range(flight'.left)
        PROVE  \/ children'[Reviewer] = Absent
               \/ /\ flight'.at \in {"send", "write"} /\ Next1' = Reviewer
                  /\ children'[Reviewer].state = "dispatching"
    <3>1. flight'.left # <<>>
      BY <2>3 DEF Range
    <3>2. CASE Marks /\ flight'.left = targets /\ state = "ready"
      BY <1>5, <2>1, <3>2 DEF ReviewApart, Marks
    <3>3. CASE /\ Picks \/ Writes
               /\ flight.left # <<>> /\ flight'.left = Tail(flight.left)
      <4>1. Reviewer \in Range(flight.left) /\ Next1 # Reviewer
        BY <1>3, <2>3, <3>3
      <4>2. children[Reviewer] = Absent
        BY <1>5, <4>1 DEF ReviewApart
      <4> QED BY <1>7, <4>1, <4>2 DEF Picked
    <3>4. CASE /\ flight'.left = flight.left
               /\ \/ UNCHANGED flight /\ ~Picks /\ ~Writes
                  \/ Picks /\ flight'.at = "send"
                  \/ Sends /\ flight'.at = "write"
      <4>1. Next1' = Next1 /\ Reviewer \in Range(flight.left)
        BY <2>3, <3>4 DEF Next1
      <4>2. CASE children[Reviewer] = Absent
        <5>1. Picked(Reviewer) => children'[Reviewer].state = "dispatching" /\ Next1 = Reviewer
                                  /\ flight'.at = "send"
          BY DEF Picked, To
        <5> QED BY <1>7, <4>1, <4>2, <5>1
      <4>3. CASE /\ flight.at \in {"send", "write"} /\ Next1 = Reviewer
                 /\ children[Reviewer].state = "dispatching"
        <5>1. ~Picks /\ ~Writes /\ ~Interrupted
          BY <3>4, <4>3 DEF Picks, Sends, Submits, Writes, Interrupted, At
        <5>2. ~Picked(Reviewer) /\ ~Written(Reviewer) /\ ~Lost(Reviewer) /\ ~Polled(Reviewer)
              /\ ~Unsure(Reviewer) /\ ~Dropped(Reviewer) /\ ~ReviewTaken(Reviewer)
              /\ ~TaskReopened(Reviewer) /\ ~ToReview(Reviewer) /\ ~Again(Reviewer)
          BY <1>1, <1>5, <1>9, <4>3, <5>1
             DEF Picked, Written, Lost, Polled, Unsure, Dropped, ReviewTaken, TaskReopened,
                 ToReview, Again, Failed
        <5>3. children'[Reviewer].state = "dispatching"
          BY <1>6, <4>3, <5>2 DEF Moves, Kept
        <5>4. flight'.at \in {"send", "write"}
          BY <3>4, <4>3, <5>1
        <5> QED BY <4>1, <4>3, <5>3, <5>4
      <4> QED BY <1>5, <4>1, <4>2, <4>3 DEF ReviewApart
    <3> QED BY <1>5, <3>1, <3>2, <3>3, <3>4, LeftMoves
  <2> QED BY <1>5, <2>2, <2>3
<1> QED BY <1>5, <1>8, <1>9, ReviewPlan

-----------------------------------------------------------------------------
(* The theorems.                                                           *)

IInv ==
    /\ TypeOK /\ PlanShape /\ ReviewApart /\ Sender /\ Owner /\ Fresh /\ Ordered /\ StopsTell
    /\ RowSettled /\ ReportOnce /\ NeverSentTwice

\* The invariant holds at first.
LEMMA InitHolds ==
  ASSUME Init
  PROVE  IInv
<1>1. /\ \A k \in Key : children[k] = Absent /\ retries[k] = 0
      /\ state = "ready" /\ flow = "planning" /\ targets = <<Planner>> /\ stopping = FALSE
      /\ claimed = {} /\ repairs = {} /\ flight = Unsent /\ stopper = NoStopper /\ report = NoReport
      /\ DOMAIN runs = {} /\ DOMAIN sends = {}
  BY DEF Init
<1>2. /\ Absent.state = "none" /\ ~Absent.known /\ Unsent.at = "idle" /\ Unsent.left = <<>>
      /\ Unsent.got = "none" /\ NoStopper.at = "idle" /\ NoReport.state = "none" /\ ~NoReport.known
      /\ Range(<<Planner>>) = {Planner} /\ Range(<<>>) = {}
  BY DEF Absent, Unsent, NoStopper, NoReport, Range
<1>3. TypeOK
  <2>1. Absent \in ChildRecord
    BY DEF Absent, ChildRecord, ChildStates
  <2>2. children \in [Key -> ChildRecord]
    BY <2>1 DEF Init
  <2>3. ChildrenType(children, targets)
    BY <1>1, <1>2, <2>2 DEF ChildrenType, ChildRecord
  <2>4. targets \in Seq(Key) /\ IsInjective(targets)
    BY <1>1, KeyFacts DEF IsInjective
  <2>5. report \in [state: ChildStates \cup {"ready"}, known: BOOLEAN, stop: BOOLEAN, posted: 0..1]
    BY <1>1 DEF NoReport, ChildStates
  <2>6. RowType
    BY <2>3, <2>4, <2>5 DEF Init, RowType, States
  <2>7. ProcessType
    BY <1>1, <1>2, KeyFacts DEF ProcessType, Unsent, NoStopper, Places, Got
  <2>8. RunsType
    BY <1>1 DEF Init, RunsType
  <2> QED BY <2>6, <2>7, <2>8 DEF TypeOK
<1>4. PlanShape
  BY <1>1, <1>2, KeyFacts DEF PlanShape
<1>5. Sender /\ Owner /\ Reached = {}
  BY <1>1, <1>2 DEF Sender, Owner, Reached, At
<1>6. Fresh /\ NeverSentTwice
  BY <1>1, <1>2 DEF Fresh, Sendable, NotSent, NeverSentTwice
<1>7. Ordered
  BY <1>1, <1>2, <1>5, KeyFacts DEF Ordered, OrderKept
<1>8. StopsTell
  BY <1>1, <1>2 DEF StopsTell, NoneStopped, At
<1>9. RowSettled
  BY <1>1, <1>2 DEF RowSettled, AllDone, NothingLeft, At
<1>10. ReportOnce
  BY <1>1, <1>2 DEF ReportOnce, NotSent, At
<1>11. ReviewApart
  BY <1>1, <1>2, KeyFacts DEF ReviewApart, IsInjective
<1> QED BY <1>3, <1>4, <1>5, <1>6, <1>7, <1>8, <1>9, <1>10, <1>11 DEF IInv

\* Every step keeps the invariant.
LEMMA StepKeeps ==
  ASSUME IInv, [Next]_vars
  PROVE  IInv'
<1>1. CASE UNCHANGED vars
  BY <1>1 DEF vars, IInv, TypeOK, RowType, ChildrenType, ProcessType, RunsType, PlanShape,
       Planned, Done, ReviewApart,
     Awaiting, Sender, Owner, Reached, Fresh, Old, Retired, Sendable, Found, NotSent, Request, Ordered, OrderKept,
          Quiet,
     StopsTell, NoneStopped, Calling, ToCome, RowSettled, AllDone, NothingLeft, FailedTasks,
          ReportOnce, Closed,
     NeverSentTwice, Next1, At
<1>2. CASE Next
  <2>1. /\ TypeOK /\ PlanShape /\ ReviewApart /\ Sender /\ Owner /\ Fresh /\ Ordered /\ StopsTell
        /\ RowSettled /\ ReportOnce /\ NeverSentTwice
    BY DEF IInv
  <2>2. TypeOK'
    BY <1>2, <2>1, FlightTypes, OtherTypes
  <2>3. PlanShape' /\ Sender' /\ Owner' /\ Fresh' /\ Ordered'
    BY <1>2, <2>1, <2>2, PlanShapeStep, SenderStep, OwnerStep, FreshStep, OrderedStep
  <2>4. StopsTell' /\ RowSettled' /\ ReportOnce' /\ NeverSentTwice'
    BY <1>2, <2>1, <2>2, StopsTellStep, RowSettledStep, ReportOnceStep, OnceStep
  <2>5. ReviewApart'
    BY <1>2, <2>1, <2>2, <2>3, ReviewApartStep
  <2> QED BY <2>2, <2>3, <2>4, <2>5 DEF IInv
<1> QED BY <1>1, <1>2

\* The inductive invariant of the request.
THEOREM Invariant == Spec => []IInv
<1>1. Init => IInv
  BY InitHolds
<1>2. IInv /\ [Next]_vars => IInv'
  BY StepKeeps
<1> QED BY <1>1, <1>2, PTL DEF Spec

\* Types, and what every reader of the row relies on.
THEOREM TypeCorrect == Spec => []TypeOK
<1>1. IInv => TypeOK
  BY DEF IInv
<1> QED BY <1>1, Invariant, PTL

\* No teammate is asked twice under one name: what was cut off is uncertain and never
\* replayed, and what is tried again (a retry, a repair, a resume, the review of a build)
\* has a new name.  One exception: a final review that had findings is asked for again
\* under the name it had, so that the room answers with the old run.
THEOREM SentOnce == Spec => []NeverSentTwice
<1>1. IInv => NeverSentTwice
  BY DEF IInv
<1> QED BY <1>1, Invariant, PTL

\* A step is with a teammate only when the steps before it are finished, an outside
\* member's build by its review.
THEOREM InOrder == Spec => []OrderKept
<1>1. IInv => OrderKept
  BY DEF IInv, Ordered
<1> QED BY <1>1, Invariant, PTL

\* When the owner's stop and the sender are through, no run of a child that is shown
\* as running is left untold, one sent while the stop came included (without a crash).
THEOREM StopTold == Spec => []StopReaches
<1>1. IInv => StopReaches
  <2> SUFFICES ASSUME IInv, stopping, crashes = 0, stopper.at = "idle",
                      NEW k \in Key, children[k].state = "running"
               PROVE  \/ runs[Request(k)] # "running"
                      \/ flight.at \in {"stops", "calls"} /\ Next1 = k
    BY DEF StopReaches
  <2>1. runs[Request(k)] = "running" => Calling(k) \/ ToCome(k)
    BY DEF IInv, StopsTell
  <2>2. ~(k \in Reached)
    BY DEF Reached
  <2> QED BY <2>1, <2>2 DEF Calling, ToCome, At
<1> QED BY <1>1, Invariant, PTL

\* A finished step is never sent again, by a repair, a retry or a resume of others: only
\* a final review with findings reopens one, the last of the plan.
THEOREM FinishedStays == Spec => DoneStays
<1>1. IInv /\ [Next]_vars =>
        [\A t \in Task : Done(t, children) =>
            children'[t].state \in {"completed", "uncertain"} \/ Reopened(t)]_vars
  <2> SUFFICES ASSUME IInv, Next, NEW t \in Task, Done(t, children)
               PROVE  children'[t].state \in {"completed", "uncertain"} \/ Reopened(t)
    OBVIOUS
  <2>1. TaskReopened(t) => Reopened(t)
    BY FindingsMove, KeyFacts DEF TaskReopened, Findings, Found, Reopened
  <2> QED BY <2>1, DoneKept DEF IInv
<1> QED BY <1>1, Invariant, PTL DEF Spec, DoneStays
=============================================================================
