---------------------------- MODULE LandingProofs ----------------------------
(***************************************************************************)
(* Theorems about Landing, for any number of lines, commits, refusals and  *)
(* pushes: a good line is not blamed for a red master, and none is         *)
(* forgotten behind its marker.                                            *)
(*                                                                         *)
(* What the keeper reads in a log was written when a train failed, maybe   *)
(* several commits of master ago.  The argument follows a log from there:  *)
(* a good line fails on a red base only, and since its train took that base*)
(* no repair turned it green (OnItsBase); master turns green after it      *)
(* through the owner, another line or a repair; a repair lands inside the  *)
(* incident, or when no line waits any more (OneSort); and the end of the  *)
(* incident takes every marker (WaitsForRed).                              *)
(***************************************************************************)
EXTENDS Landing, FiniteSetTheorems, SequenceTheorems, TLAPS

\* Records of the processes, whose types TypeOK leaves out.
Tracks == {"none", "working", "lost", "queued", "refused"}
Results == {"landed", "skipped", "retry", "failed", "master-pending"}
HealthType ==
    [at : Nat, tested : Nat, fix : Tracks, revert : Tracks, winner : Repair \cup {"none"}]
RunnerType ==
    [todo : Seq(SUBSET Name), results : SUBSET (Name \X Results), waits : BOOLEAN]
ProcessType ==
    /\ kind \in Work /\ commits # <<>>
    /\ health \in HealthType
    /\ keeper \in [checked : Nat, green : Nat,
                   confirm : [of : Name \cup {"none", "master"}, at : Nat]]
    /\ keeper.checked <= master
    /\ runner \in RunnerType
    /\ train \in [lines : SUBSET Name, base : Nat, moved : BOOLEAN]

\* A runner that waits, waits for the train of its batch.
Waiting == runner.waits => train # NoTrain /\ runner.todo # <<>> /\ Batch = train.lines

\* A commit after b is green.
Turned(b) == \E c \in (b + 1)..master : ~Red(c)

\* No repair turned master green since a train took its base.
OnItsBase ==
    train # NoTrain =>
        /\ train.base \in 1..master
        /\ Red(train.base) /\ Turned(train.base) => OthersTurned(train.base)

\* What the runner has before it and the train that runs are all of one sort.
AllOf(S) == runner.todo \in Seq(SUBSET S) /\ train.lines \subseteq S

\* Repairs run in an incident, or after it, when no line waits for the keeper.
OneSort ==
    \/ AllOf(Line)
    \/ AllOf(Repair) /\ (health = NoIncident => pending \cap Line = {})

RepairsInIncident == \A l \in Repair \cap Queued : health # NoIncident

\* The suite of this very master was green: no incident is open.
GreenIsOver == keeper.checked = master /\ ~Red(master) => health = NoIncident

\* Only a line that is refused comes out as failed.
Failed == \A l \in Line : <<l, "failed">> \in runner.results => Refuses(l)

ConfirmIsLogged == keeper.confirm.of \in Name => log[keeper.confirm.of] # 0

Innocent(l) == l \in Line /\ kind[l] \in {"good", "poison"}

\* A good line that waits for the keeper failed on a red master.  When that is green
\* again, no repair did it or the incident is still open.
WaitsForRed ==
    \A l \in pending \cap Queued :
        Innocent(l) /\ log[l] # 0 =>
            /\ Red(log[l])
            /\ Turned(log[l]) => health # NoIncident \/ OthersTurned(log[l])

IInv ==
    /\ TypeOK /\ ProcessType /\ Waiting /\ OnItsBase /\ OneSort /\ RepairsInIncident
    /\ GreenIsOver /\ Failed /\ ConfirmIsLogged /\ WaitsForRed /\ PendingIsWatched

-----------------------------------------------------------------------------
(* Names, and sets of one name.                                            *)

\* The two repairs are no lines, and what stands for no line is no name.
LEMMA Names ==
  /\ Line \cap Repair = {} /\ "none" \notin Name /\ "master" \notin Name
  /\ "fix" \in Repair /\ "revert" \in Repair /\ Repair \subseteq Name /\ Line \subseteq Name
  /\ IsFiniteSet(Name)
<1>1. IsFiniteSet(Repair)
  <2>1. IsFiniteSet({} \cup {"fix"})
    BY FS_EmptySet, FS_AddElement
  <2>2. IsFiniteSet(({} \cup {"fix"}) \cup {"revert"})
    BY <2>1, FS_AddElement
  <2>3. Repair = ({} \cup {"fix"}) \cup {"revert"}
    BY DEF Repair
  <2> QED BY <2>2, <2>3
<1>2. IsFiniteSet(Name)
  BY <1>1, FS_Union, LineAssumption DEF Name
<1> QED BY <1>2, LineAssumption DEF Name, Repair

\* A batch of one.
LEMMA OneName ==
  ASSUME NEW S \in SUBSET Name
  PROVE  /\ Cardinality(S) = 1 => \E l \in Name : S = {l}
         /\ \A l \in S : ~(Cardinality(S) > 1) => S = {l}
<1>1. IsFiniteSet(S)
  BY Names, FS_Subset
<1>2. Cardinality(S) \in Nat /\ (Cardinality(S) = 0 <=> S = {})
  BY <1>1, FS_EmptySet, FS_CardinalityType
<1>3. Cardinality(S) = 1 <=> \E l : S = {l}
  BY <1>1, FS_Singleton
<1>4. ASSUME NEW l \in S, ~(Cardinality(S) > 1) PROVE S = {l}
  <2>1. Cardinality(S) = 1
    BY <1>2, <1>4
  <2> QED BY <1>3, <2>1
<1> QED BY <1>3, <1>4

\* A push or a landing leaves the commits before it as they were.
LEMMA Grows ==
  ASSUME TypeOK, ProcessType,
         NEW c \in [red : BOOLEAN, by : {"train", "repair", "owner"}],
         commits' = Append(commits, c)
  PROVE  /\ master \in Nat \ {0} /\ master' = master + 1
         /\ \A i \in 1..master : commits'[i] = commits[i]
         /\ commits'[master + 1] = c
         /\ commits' \in Seq([red : BOOLEAN, by : {"train", "repair", "owner"}])
         /\ commits' # <<>>
BY DEF TypeOK, ProcessType, master

\* A commit that is no repair may turn master green, and takes back no turn before it.
LEMMA OthersTurn ==
  ASSUME TypeOK, ProcessType, NEW b \in 1..master, Red(b), Turned(b) => OthersTurned(b),
         NEW c \in [red : BOOLEAN, by : {"train", "repair", "owner"}],
         commits' = Append(commits, c), c.by # "repair",
         NEW g \in (b + 1)..master', ~commits'[g].red
  PROVE  \E i \in (b + 1)..master' :
             commits'[i].by # "repair" /\ ~commits'[i].red /\ commits'[i - 1].red
<1>1. /\ master \in Nat \ {0} /\ master' = master + 1
      /\ \A i \in 1..master : commits'[i] = commits[i]
      /\ commits'[master + 1] = c
  BY Grows
<1>2. CASE Turned(b)
  <2>1. PICK i \in (b + 1)..master : commits[i].by # "repair" /\ ~Red(i) /\ Red(i - 1)
    BY <1>2 DEF OthersTurned
  <2>2. i \in 1..master /\ i - 1 \in 1..master /\ i \in (b + 1)..master'
    BY <1>1
  <2> QED BY <1>1, <2>1, <2>2 DEF Red
<1>3. CASE ~Turned(b)
  <2>1. g = master + 1
    <3>1. g # master + 1 => g \in (b + 1)..master /\ g \in 1..master
      BY <1>1
    <3> QED BY <1>1, <1>3, <3>1 DEF Turned, Red
  <2>2. Red(master)
    <3>1. b = master \/ master \in (b + 1)..master
      BY <1>1
    <3> QED BY <1>3, <3>1 DEF Turned
  <2>3. commits'[(master + 1) - 1].red
    <3>1. (master + 1) - 1 = master /\ master \in 1..master
      BY <1>1
    <3> QED BY <1>1, <2>2, <3>1 DEF Red
  <2> QED BY <1>1, <2>1, <2>3
<1> QED BY <1>2, <1>3

\* Master has a commit.
LEMMA SomeCommit == TypeOK /\ ProcessType => master \in Nat \ {0}
BY DEF TypeOK, ProcessType, master

\* The runner's book after a result and after a split.
LEMMA BookType ==
  ASSUME TypeOK, ProcessType, runner.todo # <<>>
  PROVE  /\ Batch \in SUBSET Name
         /\ \A r \in Results : Came(r) \in RunnerType
         /\ Split \in RunnerType
<1>1. Batch \in SUBSET Name /\ Tail(runner.todo) \in Seq(SUBSET Name)
  BY DEF ProcessType, RunnerType, Batch
<1>2. ASSUME NEW r \in Results PROVE Came(r) \in RunnerType
  <2>1. Batch \X {r} \subseteq Name \X Results
    BY <1>1
  <2> QED BY <1>1, <2>1 DEF Came, ProcessType, RunnerType
<1>3. Halves(Batch) \in Seq(SUBSET Name)
  BY <1>1 DEF Halves
<1>4. Halves(Batch) \o Tail(runner.todo) \in Seq(SUBSET Name)
  BY <1>1, <1>3
<1>5. Split \in RunnerType
  BY <1>4 DEF Split, ProcessType, RunnerType
<1> QED BY <1>1, <1>2, <1>5

\* What was not logged is no evidence.
LEMMA EvidenceIsLogged ==
  ASSUME ConfirmIsLogged, NEW e \in Evidence, e \in Name
  PROVE  log[e] # 0
BY Names DEF Evidence, ConfirmIsLogged, Unconfirmed

-----------------------------------------------------------------------------
(* Types.                                                                  *)

\* The types hold at the start.
LEMMA TypeInit == Init => TypeOK /\ ProcessType
<1> SUFFICES ASSUME Init PROVE TypeOK /\ ProcessType
  OBVIOUS
<1>1. commits \in Seq([red : BOOLEAN, by : {"train", "repair", "owner"}])
      /\ commits # <<>> /\ master = 1
  BY DEF Init, master
<1>2. RetryCap \in Nat
  BY BoundAssumption
<1>3. TypeOK
  BY <1>1, <1>2 DEF Init, TypeOK, NoIncident
<1>4. health \in HealthType /\ runner \in RunnerType
  BY DEF Init, NoIncident, HealthType, Tracks, Idle, RunnerType
<1>5. ProcessType
  BY <1>1, <1>4 DEF Init, ProcessType, NoConfirm, NoTrain
<1> QED BY <1>3, <1>5

\* A step of the runner changes its book, the train or the queue files.
LEMMA RunnerTypes ==
  ASSUME TypeOK, ProcessType, Runner \/ RunnerDies
  PROVE  TypeOK' /\ ProcessType'
<1> USE SomeCommit
<1>k. Idle \in RunnerType
  BY DEF Idle, RunnerType
<1>1. ASSUME RunnerSelects PROVE TypeOK' /\ ProcessType'
  <2>1. PICK R \in SUBSET Ready : \E S \in SUBSET R : runner' = [Idle EXCEPT !.todo = <<S>>]
    BY <1>1 DEF RunnerSelects
  <2>2. PICK S \in SUBSET R : runner' = [Idle EXCEPT !.todo = <<S>>]
    BY <2>1
  <2>3. S \in SUBSET Name
    BY <2>2 DEF Ready, Admitted, Queued, Repair, Name
  <2>4. <<S>> \in Seq(SUBSET Name)
    BY <2>3
  <2>5. runner' \in RunnerType
    BY <2>2, <2>4 DEF Idle, RunnerType
  <2>6. pending' \subseteq Name
    BY <1>1 DEF RunnerSelects, Reconciled, TypeOK
  <2> QED BY <1>1, <2>5, <2>6 DEF RunnerSelects, keeping, TypeOK, ProcessType, master
<1>2. ASSUME RunnerAnswers \/ RunnerSkips \/ RunnerSplits PROVE TypeOK' /\ ProcessType'
  <2>1. runner.todo # <<>>
    BY <1>2 DEF RunnerAnswers, RunnerSkips, RunnerSplits, Starting
  <2>2. "skipped" \in Results /\ (WithoutTrain # "none" => WithoutTrain \in Results)
    BY DEF WithoutTrain, Results
  <2>3. runner' \in RunnerType
    BY <1>2, <2>1, <2>2, BookType DEF RunnerAnswers, RunnerSkips, RunnerSplits
  <2> QED BY <1>2, <2>3 DEF RunnerAnswers, RunnerSkips, RunnerSplits, keeping, files, TypeOK, ProcessType, master
<1>3. ASSUME RunnerTrains PROVE TypeOK' /\ ProcessType'
  <2>1. runner.todo # <<>>
    BY <1>3 DEF RunnerTrains, Starting
  <2>2. runner' \in RunnerType
    BY <1>3 DEF RunnerTrains, RunnerType, ProcessType
  <2>3. train' \in [lines : SUBSET Name, base : Nat, moved : BOOLEAN]
    BY <1>3, <2>1, BookType DEF RunnerTrains
  <2> QED BY <1>3, <2>2, <2>3 DEF RunnerTrains, keeping, files, TypeOK, ProcessType, master
<1>4. ASSUME RunnerEnds PROVE TypeOK' /\ ProcessType'
  <2>1. fate' \in [Name -> {"absent", "queued", "parked", "quarantined", "cancelled", "done"}]
    BY <1>4 DEF RunnerEnds, TypeOK
  <2>2. ASSUME NEW l \in With({"retry"}) \ Spent, l \in Name PROVE retry[l] + 1 \in 0..RetryCap
    BY <2>2, BoundAssumption DEF Spent, TypeOK
  <2>3. retry' \in [Name -> 0..RetryCap]
    BY <1>4, <2>2, BoundAssumption DEF RunnerEnds, TypeOK
  <2> QED BY <1>4, <1>k, <2>1, <2>3 DEF RunnerEnds, keeping, TypeOK, ProcessType, master
<1>5. ASSUME RunnerDies PROVE TypeOK' /\ ProcessType'
  BY <1>5, <1>k DEF RunnerDies, keeping, files, TypeOK, ProcessType, master
<1> QED BY <1>1, <1>2, <1>3, <1>4, <1>5 DEF Runner

\* So does the end of a train, which may also add a commit.
LEMMA TrainTypes ==
  ASSUME TypeOK, ProcessType, Waiting, OnItsBase, TrainEnds
  PROVE  TypeOK' /\ ProcessType'
<1>m. master \in Nat \ {0}
  BY SomeCommit
<1>b. runner.waits => \A r \in Results : Came(r) \in RunnerType /\ Split \in RunnerType
  BY BookType DEF Waiting
<1>t. NoTrain \in [lines : SUBSET Name, base : Nat, moved : BOOLEAN]
  BY DEF NoTrain
<1>r. /\ "landed" \in Results /\ "retry" \in Results /\ "master-pending" \in Results
  BY DEF Results
<1>1. ASSUME NEW red \in BOOLEAN, TrainLands(red) PROVE TypeOK' /\ ProcessType'
  <2> DEFINE c == [red |-> red, by |-> IF train.lines \cap Repair = {} THEN "train" ELSE "repair"]
  <2>1. c \in [red : BOOLEAN, by : {"train", "repair", "owner"}] /\ commits' = Append(commits, c)
    BY <1>1 DEF TrainLands
  <2> HIDE DEF c
  <2>2. /\ master' = master + 1
        /\ commits' \in Seq([red : BOOLEAN, by : {"train", "repair", "owner"}]) /\ commits' # <<>>
    BY <2>1, Grows
  <2>3. landed' \subseteq Name
    BY <1>1 DEF TrainLands, TypeOK, ProcessType
  <2>4. fate' \in [Name -> {"absent", "queued", "parked", "quarantined", "cancelled", "done"}]
    BY <1>1 DEF TrainLands, Cancelled, TypeOK
  <2>5. /\ health' \in HealthType /\ health'.at = health.at /\ health'.tested = health.tested
    <3>1. CASE health' = health
      BY <3>1 DEF ProcessType
    <3>2. CASE health' # health
      <4>1. /\ Cardinality(train.lines) = 1 /\ train.lines \subseteq Repair
            /\ health' = [health EXCEPT !.winner = CHOOSE l \in train.lines : TRUE]
        BY <1>1, <3>2 DEF TrainLands
      <4>2. \E l \in Name : train.lines = {l}
        BY <4>1, OneName DEF ProcessType
      <4>3. (CHOOSE l \in train.lines : TRUE) \in Repair
        BY <4>1, <4>2
      <4> QED BY <4>1, <4>3 DEF ProcessType, HealthType
    <3> QED BY <3>1, <3>2
  <2>6. runner' \in RunnerType
    BY <1>1, <1>b, <1>r DEF TrainLands, ProcessType
  <2>7. UNCHANGED <<kind, retry, pending, log, hold, keeper>> /\ train' = NoTrain
    BY <1>1 DEF TrainLands
  <2>8. log' \in [Name -> 0..master']
    BY <1>m, <2>2, <2>7 DEF TypeOK
  <2>9. health'.at <= master' /\ health'.tested <= master' /\ keeper.checked <= master'
    BY <1>m, <2>2, <2>5 DEF TypeOK, ProcessType, HealthType
  <2> QED BY <1>t, <2>2, <2>3, <2>4, <2>5, <2>6, <2>7, <2>8, <2>9 DEF TypeOK, ProcessType
<1>2. ASSUME TrainFails PROVE TypeOK' /\ ProcessType'
  <2>1. train.base \in 0..master
    BY <1>2, <1>m DEF TrainFails, OnItsBase
  <2>2. log' \in [Name -> 0..master]
    BY <1>2, <2>1 DEF TrainFails, TypeOK
  <2>3. pending' \subseteq Name
    BY <1>2 DEF TrainFails, TypeOK, ProcessType
  <2>4. runner' \in RunnerType
    BY <1>2, <1>b, <1>r DEF TrainFails, ProcessType
  <2> QED BY <1>2, <1>t, <2>2, <2>3, <2>4 DEF TrainFails, keeping, TypeOK, ProcessType, master
<1>3. ASSUME TrainMoves PROVE TypeOK' /\ ProcessType'
  <2>1. train' \in [lines : SUBSET Name, base : Nat, moved : BOOLEAN]
    BY <1>3, <1>m DEF TrainMoves, ProcessType
  <2> QED BY <1>3, <2>1 DEF TrainMoves, files, keeping, TypeOK, ProcessType, master
<1>4. ASSUME TrainRetries PROVE TypeOK' /\ ProcessType'
  <2>1. runner' \in RunnerType
    BY <1>4, <1>b, <1>r DEF TrainRetries, ProcessType
  <2> QED BY <1>4, <1>t, <2>1 DEF TrainRetries, files, keeping, TypeOK, ProcessType, master
<1> QED BY <1>1, <1>2, <1>3, <1>4 DEF TrainEnds

\* The owner pushes, holds, or lets a hold lapse.
LEMMA OwnerTypes ==
  ASSUME TypeOK, ProcessType, Owner
  PROVE  TypeOK' /\ ProcessType'
<1>m. master \in Nat \ {0}
  BY SomeCommit
<1>1. ASSUME NEW red \in BOOLEAN, OwnerPushes(red) PROVE TypeOK' /\ ProcessType'
  <2> DEFINE c == [red |-> red, by |-> "owner"]
  <2>1. c \in [red : BOOLEAN, by : {"train", "repair", "owner"}] /\ commits' = Append(commits, c)
    BY <1>1 DEF OwnerPushes
  <2> HIDE DEF c
  <2>2. /\ master' = master + 1
        /\ commits' \in Seq([red : BOOLEAN, by : {"train", "repair", "owner"}]) /\ commits' # <<>>
    BY <2>1, Grows
  <2>3. /\ hold' \in {"none", "owner", "keeper"}
        /\ UNCHANGED <<kind, landed, log, health, keeper, runner, train, fate, retry, pending>>
    BY <1>1 DEF OwnerPushes, files, TypeOK
  <2>4. log' \in [Name -> 0..master']
    BY <1>m, <2>2, <2>3 DEF TypeOK
  <2>5. health'.at <= master' /\ health'.tested <= master' /\ keeper'.checked <= master'
    BY <1>m, <2>2, <2>3 DEF TypeOK, ProcessType, HealthType
  <2> QED BY <2>2, <2>3, <2>4, <2>5 DEF TypeOK, ProcessType
<1>2. ASSUME OwnerHolds \/ HoldLapses PROVE TypeOK' /\ ProcessType'
  BY <1>2 DEF OwnerHolds, HoldLapses, files, TypeOK, ProcessType, master
<1> QED BY <1>1, <1>2 DEF Owner

\* What a classified log does to the queue files.
LEMMA ClassifiedTypes ==
  ASSUME TypeOK, NEW e, ClassifiedBranch(e)
  PROVE  /\ log' \in [Name -> 0..master] /\ pending' \subseteq Name
         /\ fate' \in [Name -> {"absent", "queued", "parked", "quarantined", "cancelled", "done"}]
         /\ retry' \in [Name -> 0..RetryCap]
<1>1. log' \in [Name -> 0..master] /\ pending' \subseteq Name
  BY DEF ClassifiedBranch, TypeOK, Reconciled, master
<1>2. CASE e \in Name /\ Quarantines(e)
  <2>1. 0 \in 0..RetryCap
    BY BoundAssumption
  <2>2. fate' = [fate EXCEPT ![e] = "quarantined"] /\ retry' = [retry EXCEPT ![e] = 0]
    BY <1>2 DEF ClassifiedBranch
  <2> QED BY <1>1, <2>1, <2>2 DEF TypeOK
<1>3. CASE ~(e \in Name /\ Quarantines(e))
  BY <1>1, <1>3 DEF ClassifiedBranch, TypeOK
<1> QED BY <1>2, <1>3

\* The keeper's ticks.
LEMMA KeeperTypes ==
  ASSUME TypeOK, ProcessType, Waiting, KeeperTick
  PROVE  TypeOK' /\ ProcessType'
<1>m. master \in Nat \ {0}
  BY SomeCommit
<1>h. NoIncident \in HealthType /\ NoIncident.at = 0 /\ NoIncident.tested = 0
  BY DEF NoIncident, HealthType, Tracks
<1>c. NoConfirm \in [of : Name \cup {"none", "master"}, at : Nat]
  BY DEF NoConfirm
<1>r. Reconciled \subseteq Name
  BY DEF Reconciled, TypeOK
<1>l. ASSUME NEW e PROVE [l \in Name |-> IF l = e THEN 0 ELSE log[l]] \in [Name -> 0..master]
  BY <1>m DEF TypeOK
<1>1. ASSUME NEW e \in Name \cup {"none", "master"}, SuiteGreen(e) PROVE TypeOK' /\ ProcessType'
  <2>1. keeper' = [checked |-> master, green |-> master, confirm |-> NoConfirm]
        /\ UNCHANGED <<kind, commits, landed>>
    BY <1>1 DEF SuiteGreen
  <2>2. runner' \in RunnerType
    BY <1>1, BookType DEF SuiteGreen, Waiting, Results, ProcessType
  <2>3. train' \in [lines : SUBSET Name, base : Nat, moved : BOOLEAN]
    <3>1. train' = train \/ train' = NoTrain
      BY <1>1 DEF SuiteGreen
    <3>2. NoTrain \in [lines : SUBSET Name, base : Nat, moved : BOOLEAN]
      BY DEF NoTrain
    <3> QED BY <3>1, <3>2 DEF ProcessType
  <2>4. hold' \in {"none", "owner", "keeper"}
    BY <1>1 DEF SuiteGreen, Cleared, TypeOK
  <2>5. health' \in HealthType /\ health'.at <= master /\ health'.tested <= master
    BY <1>1, <1>h, <1>m DEF SuiteGreen, TypeOK, ProcessType
  <2>6. /\ log' \in [Name -> 0..master] /\ pending' \subseteq Name
        /\ fate' \in [Name -> {"absent", "queued", "parked", "quarantined", "cancelled", "done"}]
        /\ retry' \in [Name -> 0..RetryCap]
    <3>1. CASE health = NoIncident
      BY <1>1, <3>1, ClassifiedTypes DEF SuiteGreen
    <3>2. CASE health # NoIncident
      BY <1>1, <1>l, <3>2 DEF SuiteGreen, Cancelled, TypeOK
    <3> QED BY <3>1, <3>2
  <2>7. keeper' \in [checked : Nat, green : Nat,
                     confirm : [of : Name \cup {"none", "master"}, at : Nat]]
        /\ keeper'.checked = master
    BY <1>c, <1>m, <2>1
  <2>8. TypeOK'
    BY <2>1, <2>4, <2>5, <2>6 DEF TypeOK, master
  <2>9. ProcessType'
    BY <1>m, <2>1, <2>2, <2>3, <2>5, <2>7 DEF ProcessType, master
  <2> QED BY <2>8, <2>9
<1>2. ASSUME NEW e \in Name \cup {"none", "master"}, SuiteRed(e) PROVE TypeOK' /\ ProcessType'
  <2>1. keeper' \in [checked : Nat, green : Nat,
                     confirm : [of : Name \cup {"none", "master"}, at : Nat]]
        /\ keeper'.checked = master
    BY <1>2, <1>m DEF SuiteRed, ProcessType
  <2>2. /\ UNCHANGED <<kind, commits, landed, fate, retry, log, hold, health, runner, train>>
        /\ pending' \subseteq Name
    BY <1>2, <1>r DEF SuiteRed
  <2> QED BY <1>m, <2>1, <2>2 DEF TypeOK, ProcessType, master
<1>3. ASSUME NEW e \in Name \cup {"none", "master"}, ConfirmsRed(e) PROVE TypeOK' /\ ProcessType'
  <2>1. keeper' \in [checked : Nat, green : Nat,
                     confirm : [of : Name \cup {"none", "master"}, at : Nat]]
        /\ keeper'.checked = keeper.checked
    BY <1>3, <1>c DEF ConfirmsRed, ProcessType
  <2>2. Begins \in HealthType /\ Begins.at = master /\ Begins.tested = master
    BY <1>m DEF Begins, NoIncident, HealthType, Tracks
  <2>3. health' \in HealthType /\ health'.at <= master /\ health'.tested <= master
    <3>1. health' = Begins \/ health' = [health EXCEPT !.tested = master]
      BY <1>3 DEF ConfirmsRed
    <3>2. health \in HealthType /\ health.at <= master
      BY DEF TypeOK, ProcessType
    <3>3. CASE health' = [health EXCEPT !.tested = master]
      BY <1>m, <3>2, <3>3 DEF HealthType
    <3> QED BY <1>m, <2>2, <3>1, <3>3
  <2>4. log' \in [Name -> 0..master]
    BY <1>3, <1>l, <1>m DEF ConfirmsRed, Renewed
  <2>5. /\ pending' \subseteq Name /\ landed' \subseteq Name /\ retry' \in [Name -> 0..RetryCap]
        /\ fate' \in [Name -> {"absent", "queued", "parked", "quarantined", "cancelled", "done"}]
        /\ hold' \in {"none", "owner", "keeper"}
    <3>1. 0 \in 0..RetryCap
      BY BoundAssumption
    <3>2. CASE health = NoIncident
      BY <1>3, <1>r, <3>1, <3>2 DEF ConfirmsRed, Renewed, TypeOK
    <3>3. CASE health # NoIncident
      BY <1>3, <1>r, <3>3 DEF ConfirmsRed, TypeOK
    <3> QED BY <3>2, <3>3
  <2>6. UNCHANGED <<kind, commits, runner, train>>
    BY <1>3 DEF ConfirmsRed
  <2> QED BY <2>1, <2>3, <2>4, <2>5, <2>6 DEF TypeOK, ProcessType, master
<1>4. ASSUME NEW e \in Name \cup {"none", "master"}, ConfirmsGreen(e) PROVE TypeOK' /\ ProcessType'
  <2>1. keeper' \in [checked : Nat, green : Nat,
                     confirm : [of : Name \cup {"none", "master"}, at : Nat]]
        /\ keeper'.checked = keeper.checked
    BY <1>4, <1>c DEF ConfirmsGreen, ProcessType
  <2>2. ClassifiedBranch(e) /\ UNCHANGED <<kind, commits, landed, hold, health, runner, train>>
    BY <1>4 DEF ConfirmsGreen
  <2> QED BY <2>1, <2>2, ClassifiedTypes DEF TypeOK, ProcessType, master
<1>5. ASSUME NEW e \in Name \cup {"none", "master"}, ConfirmBlocked(e) PROVE TypeOK' /\ ProcessType'
  <2>1. keeper' \in [checked : Nat, green : Nat,
                     confirm : [of : Name \cup {"none", "master"}, at : Nat]]
        /\ keeper'.checked = keeper.checked
    BY <1>5, <1>m DEF ConfirmBlocked, ProcessType
  <2> QED BY <1>5, <1>r, <2>1 DEF ConfirmBlocked, TypeOK, ProcessType, master
<1>6. ASSUME KeeperHolds PROVE TypeOK' /\ ProcessType'
  BY <1>6 DEF KeeperHolds, files, TypeOK, ProcessType, master
<1>7. ASSUME KeeperDispatches PROVE TypeOK' /\ ProcessType'
  <2>1. health' \in HealthType /\ health'.at = health.at /\ health'.tested = health.tested
    BY <1>7 DEF KeeperDispatches, ProcessType, HealthType, Tracks
  <2> QED BY <1>7, <2>1 DEF KeeperDispatches, files, TypeOK, ProcessType, master
<1>8. ASSUME KeeperQueuesFix PROVE TypeOK' /\ ProcessType'
  <2>1. health' \in HealthType /\ health'.at = health.at /\ health'.tested = health.tested
    BY <1>8 DEF KeeperQueuesFix, ProcessType, HealthType, Tracks
  <2> QED BY <1>8, <2>1, Names DEF KeeperQueuesFix, TypeOK, ProcessType, master
<1>9. ASSUME KeeperQueuesRevert PROVE TypeOK' /\ ProcessType'
  <2>1. health' \in HealthType /\ health'.at = health.at /\ health'.tested = health.tested
    BY <1>9 DEF KeeperQueuesRevert, ProcessType, HealthType, Tracks
  <2>2. fate' \in [Name -> {"absent", "queued", "parked", "quarantined", "cancelled", "done"}]
    BY <1>9, Names DEF KeeperQueuesRevert, TypeOK
  <2> QED BY <1>9, <2>1, <2>2 DEF KeeperQueuesRevert, TypeOK, ProcessType, master
<1> QED BY <1>1, <1>2, <1>3, <1>4, <1>5, <1>6, <1>7, <1>8, <1>9 DEF KeeperTick

\* Every step keeps the types.
LEMMA TypeStep ==
  ASSUME TypeOK, ProcessType, Waiting, OnItsBase, [Next]_vars
  PROVE  TypeOK' /\ ProcessType'
<1>1. CASE UNCHANGED vars
  BY <1>1 DEF vars, TypeOK, ProcessType, master
<1> QED BY <1>1, RunnerTypes, TrainTypes, OwnerTypes, KeeperTypes DEF Next

-----------------------------------------------------------------------------
(* The runner and its train.                                               *)

\* A runner stops waiting when its train is over, or its batch is judged without it.
LEMMA WaitingStep ==
  ASSUME TypeOK, ProcessType, Waiting, [Next]_vars
  PROVE  Waiting'
<1> USE SomeCommit DEF Waiting
<1>k. ~Idle.waits
  BY DEF Idle
<1>b. /\ \A r \in Results : runner.todo # <<>> => ~Came(r).waits
      /\ runner.todo # <<>> => ~Split.waits
  BY DEF Came, Split, ProcessType, RunnerType
<1>r. {"landed", "skipped", "retry", "master-pending", "failed"} = Results
  BY DEF Results
<1>1. ASSUME RunnerSelects \/ RunnerEnds \/ RunnerDies PROVE Waiting'
  <2>1. ~runner'.waits
    BY <1>1, <1>k DEF RunnerSelects, RunnerEnds, RunnerDies, Idle
  <2> QED BY <2>1
<1>2. ASSUME RunnerAnswers \/ RunnerSkips \/ RunnerSplits PROVE Waiting'
  <2>1. runner.todo # <<>>
    BY <1>2 DEF RunnerAnswers, RunnerSkips, RunnerSplits, Starting
  <2>2. "skipped" \in Results /\ (WithoutTrain # "none" => WithoutTrain \in Results)
    BY DEF WithoutTrain, Results
  <2>3. ~runner'.waits
    BY <1>2, <1>b, <2>1, <2>2 DEF RunnerAnswers, RunnerSkips, RunnerSplits
  <2> QED BY <2>3
<1>3. ASSUME RunnerTrains PROVE Waiting'
  <2>1. runner.todo # <<>> /\ runner' = [runner EXCEPT !.waits = TRUE]
        /\ train' = [lines |-> Batch, base |-> master, moved |-> FALSE]
    BY <1>3 DEF RunnerTrains, Starting
  <2>2. runner'.todo = runner.todo
    BY <2>1 DEF ProcessType, RunnerType
  <2>3. train' # NoTrain
    BY <2>1 DEF NoTrain
  <2> QED BY <2>1, <2>2, <2>3 DEF Batch
<1>4. ASSUME TrainEnds PROVE Waiting'
  <2>1. ASSUME TrainMoves PROVE Waiting'
    <3>1. train'.lines = train.lines /\ train'.moved /\ runner' = runner
      BY <2>1 DEF TrainMoves, ProcessType
    <3>2. train' # NoTrain
      BY <3>1 DEF NoTrain
    <3> QED BY <3>1, <3>2 DEF Batch
  <2>2. ASSUME NEW red \in BOOLEAN, TrainLands(red) PROVE ~runner'.waits
    BY <2>2, <1>b, <1>r DEF TrainLands
  <2>3. ASSUME TrainFails PROVE ~runner'.waits
    BY <2>3, <1>b, <1>r DEF TrainFails
  <2>4. ASSUME TrainRetries PROVE ~runner'.waits
    BY <2>4, <1>b, <1>r DEF TrainRetries
  <2> QED BY <1>4, <2>1, <2>2, <2>3, <2>4 DEF TrainEnds
<1>5. ASSUME NEW e \in Name \cup {"none", "master"}, SuiteGreen(e) PROVE Waiting'
  <2>1. CASE KillsTrain /\ runner.waits
    <3>1. ~runner'.waits
      BY <1>5, <2>1, <1>b, <1>r DEF SuiteGreen
    <3> QED BY <3>1
  <2>2. CASE ~(KillsTrain /\ runner.waits)
    <3>1. runner' = runner /\ (runner.waits => train' = train)
      BY <1>5, <2>2 DEF SuiteGreen
    <3> QED BY <3>1 DEF Batch
  <2> QED BY <2>1, <2>2
<1>6. ASSUME UNCHANGED <<runner, train>> PROVE Waiting'
  BY <1>6 DEF Batch
<1>7. ASSUME NEW e \in Name \cup {"none", "master"},
             SuiteRed(e) \/ ConfirmsRed(e) \/ ConfirmsGreen(e) \/ ConfirmBlocked(e)
      PROVE  Waiting'
  BY <1>6, <1>7 DEF SuiteRed, ConfirmsRed, ConfirmsGreen, ConfirmBlocked
<1>8. ASSUME KeeperHolds \/ KeeperDispatches \/ KeeperQueuesFix \/ KeeperQueuesRevert \/ Owner
      PROVE  Waiting'
  BY <1>6, <1>8 DEF KeeperHolds, KeeperDispatches, KeeperQueuesFix, KeeperQueuesRevert,
                    Owner, OwnerPushes, OwnerHolds, HoldLapses
<1>9. CASE UNCHANGED vars
  BY <1>6, <1>9 DEF vars
<1> QED BY <1>1, <1>2, <1>3, <1>4, <1>5, <1>7, <1>8, <1>9 DEF Next, Runner, KeeperTick

\* A train's base stays the last commit but for pushes of the owner: no other train
\* lands while it runs.
LEMMA BaseStep ==
  ASSUME TypeOK, ProcessType, OnItsBase, [Next]_vars
  PROVE  OnItsBase'
<1> USE SomeCommit DEF OnItsBase
<1>1. ASSUME train' = NoTrain PROVE OnItsBase'
  BY <1>1 DEF NoTrain
<1>2. ASSUME UNCHANGED <<train, commits>> PROVE OnItsBase'
  BY <1>2 DEF master, Red, Turned, OthersTurned
<1>3. ASSUME train'.base = master, UNCHANGED commits PROVE OnItsBase'
  BY <1>3 DEF master, Turned
<1>4. ASSUME NEW red \in BOOLEAN, OwnerPushes(red) PROVE OnItsBase'
  <2> DEFINE c == [red |-> red, by |-> "owner"]
  <2>1. c \in [red : BOOLEAN, by : {"train", "repair", "owner"}] /\ commits' = Append(commits, c)
        /\ train' = train /\ c.by = "owner"
    BY <1>4 DEF OwnerPushes
  <2> HIDE DEF c
  <2>2. /\ master' = master + 1
        /\ \A i \in 1..master : commits'[i] = commits[i]
    BY <2>1, Grows
  <2>3. train # NoTrain => train.base \in 1..master'
    BY <2>2
  <2>4. ASSUME train # NoTrain, commits'[train.base].red,
               NEW g \in (train.base + 1)..master', ~commits'[g].red
        PROVE  \E i \in (train.base + 1)..master' :
                   commits'[i].by # "repair" /\ ~commits'[i].red /\ commits'[i - 1].red
    <3>1. train.base \in 1..master /\ Red(train.base)
      BY <2>2, <2>4 DEF Red
    <3> DEFINE b == train.base
    <3>2. b \in 1..master /\ Red(b) /\ (Turned(b) => OthersTurned(b))
      BY <2>4, <3>1
    <3>3. g \in (b + 1)..master'
      BY <2>4
    <3>4. \E i \in (b + 1)..master' :
              commits'[i].by # "repair" /\ ~commits'[i].red /\ commits'[i - 1].red
      <4> HIDE DEF b
      <4> QED BY <2>1, <2>4, <3>2, <3>3, OthersTurn
    <3> QED BY <3>4
  <2> QED BY <2>1, <2>3, <2>4 DEF Turned, OthersTurned, Red
<1>5. ASSUME Runner \/ RunnerDies PROVE OnItsBase'
  BY <1>2, <1>3, <1>5 DEF Runner, RunnerSelects, RunnerAnswers, RunnerSkips, RunnerSplits, RunnerTrains,
                          RunnerEnds, RunnerDies
<1>6. ASSUME TrainEnds PROVE OnItsBase'
  <2>1. CASE TrainMoves
    <3>1. train'.base = master /\ UNCHANGED commits
      BY <2>1 DEF TrainMoves, ProcessType
    <3> QED BY <1>3, <3>1
  <2> QED BY <1>1, <1>6, <2>1 DEF TrainEnds, TrainLands, TrainFails, TrainRetries
<1>7. ASSUME NEW e \in Name \cup {"none", "master"},
             \/ SuiteGreen(e) \/ SuiteRed(e)
             \/ ConfirmsRed(e) \/ ConfirmsGreen(e) \/ ConfirmBlocked(e)
      PROVE  OnItsBase'
  <2>1. UNCHANGED commits /\ (train' = train \/ train' = NoTrain)
    BY <1>7 DEF SuiteGreen, SuiteRed, ConfirmsRed, ConfirmsGreen, ConfirmBlocked
  <2> QED BY <1>1, <1>2, <2>1
<1>8. ASSUME \/ KeeperHolds \/ KeeperDispatches \/ KeeperQueuesFix \/ KeeperQueuesRevert
             \/ OwnerHolds \/ HoldLapses
      PROVE  OnItsBase'
  BY <1>2, <1>8 DEF KeeperHolds, KeeperDispatches, KeeperQueuesFix, KeeperQueuesRevert,
                    OwnerHolds, HoldLapses
<1>9. CASE UNCHANGED vars
  BY <1>2, <1>9 DEF vars
<1> QED BY <1>4, <1>5, <1>6, <1>7, <1>8, <1>9 DEF Next, KeeperTick, Owner

-----------------------------------------------------------------------------
(* What a step may do to the incident, to the queue files and to the logs. *)

\* An incident is over when the suite of a green master ends it, markers and all, and
\* begins on a red one.
LEMMA IncidentStep ==
  ASSUME TypeOK, ProcessType, [Next]_vars
  PROVE  /\ health # NoIncident =>
               health' # NoIncident \/ (pending' = {} /\ Repair \cap Queued' = {})
         /\ health = NoIncident =>
               \/ health' = NoIncident
               \/ Red(master) /\ UNCHANGED <<commits, keeper.checked>>
<1> USE SomeCommit
<1>1. ASSUME UNCHANGED health
      PROVE  /\ health # NoIncident =>
                   health' # NoIncident \/ (pending' = {} /\ Repair \cap Queued' = {})
             /\ health = NoIncident =>
                   \/ health' = NoIncident
                   \/ Red(master) /\ UNCHANGED <<commits, keeper.checked>>
  BY <1>1
<1>2. ASSUME health # NoIncident, health' # NoIncident
      PROVE  /\ health # NoIncident =>
                   health' # NoIncident \/ (pending' = {} /\ Repair \cap Queued' = {})
             /\ health = NoIncident =>
                   \/ health' = NoIncident
                   \/ Red(master) /\ UNCHANGED <<commits, keeper.checked>>
  BY <1>2
<1>3. CASE Runner \/ RunnerDies \/ Owner
  BY <1>1, <1>3 DEF Runner, RunnerSelects, RunnerAnswers, RunnerSkips, RunnerSplits, RunnerTrains, RunnerEnds,
                    RunnerDies, Owner, OwnerPushes, OwnerHolds, HoldLapses, keeping
<1>4. CASE TrainEnds
  <2>1. ASSUME NEW red \in BOOLEAN, TrainLands(red), health' # health
        PROVE  health # NoIncident /\ health' # NoIncident
    <3>1. /\ Cardinality(train.lines) = 1 /\ train.lines \subseteq Repair /\ health # NoIncident
          /\ health' = [health EXCEPT !.winner = CHOOSE l \in train.lines : TRUE]
      BY <2>1 DEF TrainLands
    <3>2. \E l \in Name : train.lines = {l}
      BY <3>1, OneName DEF ProcessType
    <3>3. (CHOOSE l \in train.lines : TRUE) \in Repair
      BY <3>1, <3>2
    <3>4. health'.winner # "none"
      BY <3>1, <3>3, Names DEF ProcessType, HealthType
    <3> QED BY <3>1, <3>4 DEF NoIncident
  <2> QED BY <1>1, <1>2, <1>4, <2>1 DEF TrainEnds, TrainFails, TrainMoves, TrainRetries, keeping
<1>5. ASSUME NEW e \in Name \cup {"none", "master"}, SuiteGreen(e), health # NoIncident
      PROVE  pending' = {} /\ Repair \cap Queued' = {}
  <2>1. pending' = {} /\ fate' = Cancelled
    BY <1>5 DEF SuiteGreen
  <2> QED BY <2>1, Names DEF Cancelled, Queued
<1>6. ASSUME NEW e \in Name \cup {"none", "master"}, SuiteGreen(e), health = NoIncident
      PROVE  health' = health
  BY <1>6 DEF SuiteGreen
<1>7. ASSUME NEW e \in Name \cup {"none", "master"}, ConfirmsRed(e)
      PROVE  health' # NoIncident /\ Red(master) /\ UNCHANGED <<commits, keeper.checked>>
  <2>1. health' = Begins \/ health' = [health EXCEPT !.tested = master]
    BY <1>7 DEF ConfirmsRed
  <2>2. health'.tested = master
    BY <2>1 DEF Begins, NoIncident, ProcessType, HealthType
  <2>3. health' # NoIncident
    BY <2>2 DEF NoIncident
  <2>4. keeper'.checked = keeper.checked
    BY <1>7 DEF ConfirmsRed, ProcessType
  <2> QED BY <1>7, <2>3, <2>4 DEF ConfirmsRed
<1>8. ASSUME NEW e \in Name \cup {"none", "master"}, SuiteRed(e) \/ ConfirmsGreen(e) \/ ConfirmBlocked(e)
      PROVE  UNCHANGED health
  BY <1>8 DEF SuiteRed, ConfirmsGreen, ConfirmBlocked
<1>9. CASE KeeperDispatches
  <2>1. health'.fix # "none"
    BY <1>9 DEF KeeperDispatches, ProcessType, HealthType
  <2> QED BY <1>2, <1>9, <2>1 DEF KeeperDispatches, NoIncident
<1>10. CASE KeeperQueuesFix
  <2>1. health.fix # "none" /\ health'.fix # "none"
    BY <1>10 DEF KeeperQueuesFix, ProcessType, HealthType
  <2> QED BY <1>2, <2>1 DEF NoIncident
<1>11. CASE KeeperQueuesRevert
  <2>1. health'.revert # "none"
    BY <1>11 DEF KeeperQueuesRevert, ProcessType, HealthType
  <2> QED BY <1>2, <1>11, <2>1 DEF KeeperQueuesRevert, NoIncident
<1>12. CASE KeeperHolds
  BY <1>1, <1>12 DEF KeeperHolds
<1>13. CASE UNCHANGED vars
  BY <1>1, <1>13 DEF vars
<1>14. CASE KeeperTick
  BY <1>1, <1>5, <1>6, <1>7, <1>8, <1>9, <1>10, <1>11, <1>12, <1>14 DEF KeeperTick
<1> QED BY <1>3, <1>4, <1>13, <1>14 DEF Next

\* A line failed alone, on a red base or for a test of its own.
FailedAlone(l) ==
    /\ TrainFails /\ train.lines = {l} /\ train # NoTrain /\ log'[l] = train.base
    /\ MayFail({l}, train.base) \/ l \in Repair

\* How line l comes to wait for the keeper after a step: as before, as one that just failed
\* alone, or as one whose log opened an incident.
Waits(l) ==
    /\ l \in Queued
    /\ \/ l \in pending /\ log'[l] = log[l]
       \/ FailedAlone(l)
       \/ l \in pending /\ log'[l] = 0 /\ health' # NoIncident

\* A log that was classified has its line out of the queue, or no marker to lose.
LEMMA ClassifiedWaits ==
  ASSUME TypeOK, NEW e, ClassifiedBranch(e), NEW l \in Line, l \in pending', l \in Queued'
  PROVE  l \in Queued /\ l \in pending /\ log'[l] = log[l]
<1>1. l \in Name /\ l \in pending /\ l \in Queued
  BY Names DEF ClassifiedBranch, Reconciled
<1>2. l # e
  BY <1>1 DEF ClassifiedBranch, Quarantines, Queued, Reconciled, TypeOK
<1> QED BY <1>1, <1>2 DEF ClassifiedBranch

\* No step makes a line wait in another way.
LEMMA LineStep ==
  ASSUME TypeOK, ProcessType, Waiting, [Next]_vars,
         NEW l \in Line, l \in pending', l \in Queued'
  PROVE  Waits(l)
<1> USE DEF Waits
<1>n. l \in Name /\ l \notin Repair
  BY Names
<1>1. CASE Runner \/ RunnerDies
  BY <1>n, <1>1 DEF Runner, RunnerSelects, RunnerAnswers, RunnerSkips, RunnerSplits, RunnerTrains, RunnerEnds,
               RunnerDies, Reconciled, Queued, files
<1>2. CASE Owner
  BY <1>2 DEF Owner, OwnerPushes, OwnerHolds, HoldLapses, files, Queued
<1>3. CASE TrainFails
  <2>0. l \in Queued
    BY <1>3 DEF TrainFails, Queued
  <2>1. CASE l \in train.lines /\ ~(Cardinality(train.lines) > 1)
    <3>1. train.lines = {l}
      BY <2>1, OneName DEF ProcessType
    <3>2. log'[l] = train.base
      BY <1>3, <1>n, <2>1 DEF TrainFails
    <3>3. MayFail({l}, train.base) \/ l \in Repair
      BY <1>3, <3>1 DEF TrainFails
    <3>4. train # NoTrain
      BY <1>3 DEF TrainFails
    <3> QED BY <1>3, <2>0, <3>1, <3>2, <3>3, <3>4 DEF FailedAlone
  <2>2. CASE ~(l \in train.lines /\ ~(Cardinality(train.lines) > 1))
    <3>1. log'[l] = log[l] /\ l \in pending
      BY <1>3, <1>n, <2>2 DEF TrainFails
    <3> QED BY <2>0, <3>1
  <2> QED BY <2>1, <2>2
<1>4. ASSUME NEW red \in BOOLEAN, TrainLands(red) PROVE Waits(l)
  BY <1>n, <1>4 DEF TrainLands, Cancelled, Queued
<1>5. CASE TrainMoves \/ TrainRetries
  BY <1>5 DEF TrainMoves, TrainRetries, files, Queued
<1>6. ASSUME NEW e \in Name \cup {"none", "master"}, SuiteGreen(e) PROVE Waits(l)
  <2>1. CASE health = NoIncident
    BY <1>6, <2>1, ClassifiedWaits DEF SuiteGreen
  <2>2. CASE health # NoIncident
    BY <1>6, <2>2 DEF SuiteGreen
  <2> QED BY <2>1, <2>2
<1>7. ASSUME NEW e \in Name \cup {"none", "master"}, ConfirmsGreen(e) PROVE Waits(l)
  BY <1>7, ClassifiedWaits DEF ConfirmsGreen
<1>8. ASSUME NEW e \in Name \cup {"none", "master"}, ConfirmsRed(e) PROVE Waits(l)
  <2>1. health' # NoIncident
    <3>1. health' = Begins \/ health' = [health EXCEPT !.tested = master]
      BY <1>8 DEF ConfirmsRed
    <3>2. health'.tested = master
      BY <3>1 DEF Begins, NoIncident, ProcessType, HealthType
    <3> QED BY <3>2, SomeCommit DEF NoIncident
  <2>2. log'[l] = log[l] \/ log'[l] = 0
    BY <1>8, <1>n DEF ConfirmsRed, Renewed
  <2>3. l \in pending /\ l \in Queued
    BY <1>8, <1>n DEF ConfirmsRed, Reconciled
  <2> QED BY <2>1, <2>2, <2>3
<1>9. ASSUME NEW e \in Name \cup {"none", "master"}, SuiteRed(e) \/ ConfirmBlocked(e) PROVE Waits(l)
  BY <1>9 DEF SuiteRed, ConfirmBlocked, Reconciled
<1>10. CASE KeeperHolds \/ KeeperDispatches
  BY <1>10 DEF KeeperHolds, KeeperDispatches, files, Queued
<1>11. CASE KeeperQueuesFix \/ KeeperQueuesRevert
  BY <1>n, <1>11 DEF KeeperQueuesFix, KeeperQueuesRevert, Queued, Repair, TypeOK
<1>12. CASE UNCHANGED vars
  BY <1>12 DEF vars, Queued
<1> QED BY <1>1, <1>2, <1>3, <1>4, <1>5, <1>6, <1>7, <1>8, <1>9, <1>10, <1>11, <1>12
        DEF Next, KeeperTick, TrainEnds

-----------------------------------------------------------------------------
(* The parts of the invariant.                                             *)

\* A repair enters the queue in an incident, and leaves it with the incident.
LEMMA RepairsStep ==
  ASSUME TypeOK, ProcessType, RepairsInIncident, [Next]_vars
  PROVE  RepairsInIncident'
<1> SUFFICES ASSUME NEW l \in Repair, l \in Queued', health' = NoIncident
             PROVE  FALSE
  BY DEF RepairsInIncident
<1>n. l \in Name /\ l \notin Line
  BY Names
<1>1. l \notin Queued
  BY IncidentStep DEF RepairsInIncident
<1>2. ASSUME fate' \in {fate, Cancelled, Renewed(fate, "absent")} PROVE FALSE
  BY <1>1, <1>2, <1>n DEF Queued, Cancelled, Renewed, TypeOK
<1>3. CASE \/ (Runner /\ ~RunnerEnds) \/ RunnerDies \/ TrainEnds \/ Owner \/ UNCHANGED vars
           \/ KeeperHolds \/ KeeperDispatches
  <2>1. fate' \in {fate, Cancelled}
    BY <1>3 DEF Runner, RunnerSelects, RunnerAnswers, RunnerSkips, RunnerSplits, RunnerTrains, RunnerDies,
                TrainEnds, TrainLands, TrainFails, TrainMoves, TrainRetries, Owner, OwnerPushes,
                OwnerHolds, HoldLapses, KeeperHolds, KeeperDispatches, files, vars
  <2> QED BY <1>2, <2>1
<1>4. CASE RunnerEnds
  BY <1>1, <1>4, <1>n DEF RunnerEnds, Queued
<1>5. ASSUME NEW e, ClassifiedBranch(e) PROVE FALSE
  BY <1>1, <1>5, <1>n DEF ClassifiedBranch, Queued, TypeOK
<1>6. ASSUME NEW e \in Name \cup {"none", "master"},
             \/ SuiteGreen(e) \/ SuiteRed(e)
             \/ ConfirmsRed(e) \/ ConfirmsGreen(e) \/ ConfirmBlocked(e)
      PROVE  FALSE
  <2>1. ClassifiedBranch(e) \/ fate' \in {fate, Cancelled, Renewed(fate, "absent")}
    BY <1>6 DEF SuiteGreen, SuiteRed, ConfirmsRed, ConfirmsGreen, ConfirmBlocked
  <2> QED BY <1>2, <1>5, <2>1
<1>7. CASE KeeperQueuesFix \/ KeeperQueuesRevert
  <2>1. health # NoIncident
    BY <1>7 DEF KeeperQueuesFix, KeeperQueuesRevert, NoIncident
  <2> QED BY <2>1, IncidentStep
<1> QED BY <1>3, <1>4, <1>6, <1>7 DEF Next, KeeperTick

\* The book of the runner and the train stay within a set of names.
LEMMA BookStep ==
  ASSUME TypeOK, ProcessType, Waiting, [Next]_vars, ~RunnerSelects,
         NEW S \in SUBSET Name, AllOf(S)
  PROVE  AllOf(S)'
<1> USE DEF AllOf
<1>k. Idle.todo \in Seq(SUBSET S) /\ NoTrain.lines \subseteq S
  BY DEF Idle, NoTrain
<1>b. ASSUME runner.todo # <<>>
      PROVE  /\ Batch \in SUBSET S
             /\ \A r \in Results : Came(r).todo \in Seq(SUBSET S)
             /\ Split.todo \in Seq(SUBSET S)
  <2>1. Batch \in SUBSET S /\ Tail(runner.todo) \in Seq(SUBSET S)
    BY <1>b DEF Batch
  <2>2. \A r \in Results : Came(r).todo = Tail(runner.todo)
    BY DEF Came, ProcessType, RunnerType
  <2>3. Halves(Batch) \in Seq(SUBSET S)
    BY <2>1 DEF Halves
  <2>4. Halves(Batch) \o Tail(runner.todo) \in Seq(SUBSET S)
    BY <2>1, <2>3
  <2>5. Split.todo = Halves(Batch) \o Tail(runner.todo)
    BY DEF Split, ProcessType, RunnerType
  <2> QED BY <2>1, <2>2, <2>4, <2>5
<1>r. {"landed", "skipped", "retry", "master-pending", "failed"} = Results
  BY DEF Results
<1>1. CASE RunnerEnds \/ RunnerDies
  BY <1>1, <1>k DEF RunnerEnds, RunnerDies
<1>2. CASE RunnerAnswers \/ RunnerSkips \/ RunnerSplits
  <2>1. "skipped" \in Results /\ (WithoutTrain # "none" => WithoutTrain \in Results)
    BY DEF WithoutTrain, Results
  <2> QED BY <1>2, <1>b, <2>1 DEF RunnerAnswers, RunnerSkips, RunnerSplits, Starting
<1>3. CASE RunnerTrains
  <2>1. runner'.todo = runner.todo /\ train'.lines = Batch
    BY <1>3 DEF RunnerTrains, ProcessType, RunnerType
  <2> QED BY <1>3, <1>b, <2>1 DEF RunnerTrains, Starting
<1>4. ASSUME NEW red \in BOOLEAN, TrainLands(red) PROVE AllOf(S)'
  BY <1>4, <1>b, <1>k, <1>r DEF TrainLands, Waiting
<1>5. CASE TrainFails
  BY <1>5, <1>b, <1>k, <1>r DEF TrainFails, Waiting
<1>6. CASE TrainMoves
  BY <1>6 DEF TrainMoves, ProcessType
<1>7. CASE TrainRetries
  BY <1>7, <1>b, <1>k, <1>r DEF TrainRetries, Waiting
<1>8. ASSUME NEW e \in Name \cup {"none", "master"}, SuiteGreen(e) PROVE AllOf(S)'
  <2>1. train'.lines \subseteq S
    BY <1>8, <1>k DEF SuiteGreen
  <2>2. runner'.todo \in Seq(SUBSET S)
    BY <1>8, <1>b, <1>r DEF SuiteGreen, Waiting
  <2> QED BY <2>1, <2>2
<1>9. CASE UNCHANGED <<runner, train>>
  BY <1>9
<1>10. ASSUME NEW e \in Name \cup {"none", "master"},
              SuiteRed(e) \/ ConfirmsRed(e) \/ ConfirmsGreen(e) \/ ConfirmBlocked(e)
       PROVE  AllOf(S)'
  BY <1>10 DEF SuiteRed, ConfirmsRed, ConfirmsGreen, ConfirmBlocked
<1>11. CASE KeeperHolds \/ KeeperDispatches \/ KeeperQueuesFix \/ KeeperQueuesRevert \/ Owner
  BY <1>9, <1>11 DEF KeeperHolds, KeeperDispatches, KeeperQueuesFix, KeeperQueuesRevert,
                     Owner, OwnerPushes, OwnerHolds, HoldLapses
<1>12. CASE UNCHANGED vars
  BY <1>9, <1>12 DEF vars
<1> QED BY <1>1, <1>2, <1>3, <1>4, <1>5, <1>6, <1>7, <1>8, <1>10, <1>11, <1>12
        DEF Next, Runner, TrainEnds, KeeperTick

\* A cycle takes repairs in an incident and lines out of one, and nobody changes sorts in
\* between.
LEMMA SortStep ==
  ASSUME TypeOK, ProcessType, Waiting, RepairsInIncident, OneSort, [Next]_vars
  PROVE  OneSort'
<1> USE Names
<1>1. CASE RunnerSelects
  <2>1. PICK R \in SUBSET Ready : \E S \in SUBSET R : runner' = [Idle EXCEPT !.todo = <<S>>]
    BY <1>1 DEF RunnerSelects
  <2>2. PICK S \in SUBSET R : runner' = [Idle EXCEPT !.todo = <<S>>]
    BY <2>1
  <2>3. runner'.todo = <<S>> /\ train' = train /\ train.lines = {} /\ health' = health
    BY <1>1, <2>2 DEF RunnerSelects, Idle, NoTrain, keeping
  <2>4. CASE health = NoIncident
    <3>1. S \subseteq Line
      BY <2>2, <2>4 DEF Ready, Admitted, RepairsInIncident, Queued, Name
    <3> QED BY <2>3, <3>1 DEF OneSort, AllOf
  <2>5. CASE health # NoIncident
    <3>1. S \subseteq Repair
      BY <2>2, <2>5 DEF Ready, Admitted
    <3> QED BY <2>3, <2>5, <3>1 DEF OneSort, AllOf
  <2> QED BY <2>4, <2>5
<1>2. CASE ~RunnerSelects /\ AllOf(Line)
  BY <1>2, BookStep DEF OneSort
<1>3. CASE /\ ~RunnerSelects /\ AllOf(Repair) /\ health' = NoIncident
           /\ health = NoIncident => pending \cap Line = {}
  <2>1. CASE health # NoIncident
    BY <1>3, <2>1, BookStep, IncidentStep DEF OneSort
  <2>2. CASE health = NoIncident
    <3>1. ASSUME NEW l \in Line, l \in pending' PROVE l \in pending
      <4>1. l \notin train.lines
        BY <1>3 DEF AllOf
      <4>2. CASE Runner \/ RunnerDies \/ Owner \/ UNCHANGED vars
        BY <3>1, <4>2 DEF Runner, RunnerSelects, RunnerAnswers, RunnerSkips, RunnerSplits, RunnerTrains,
                     RunnerEnds, RunnerDies, Owner, OwnerPushes, OwnerHolds, HoldLapses,
                     Reconciled, files, vars
      <4>3. CASE TrainEnds
        BY <3>1, <4>1, <4>3 DEF TrainEnds, TrainLands, TrainFails, TrainMoves, TrainRetries, files
      <4>4. ASSUME NEW e \in Name \cup {"none", "master"},
                   \/ SuiteGreen(e) \/ SuiteRed(e)
                   \/ ConfirmsRed(e) \/ ConfirmsGreen(e) \/ ConfirmBlocked(e)
            PROVE  l \in pending
        BY <3>1, <4>4 DEF SuiteGreen, SuiteRed, ConfirmsRed, ConfirmsGreen, ConfirmBlocked,
                     ClassifiedBranch, Reconciled
      <4>5. CASE KeeperHolds \/ KeeperDispatches \/ KeeperQueuesFix \/ KeeperQueuesRevert
        BY <3>1, <4>5 DEF KeeperHolds, KeeperDispatches, KeeperQueuesFix, KeeperQueuesRevert, files
      <4> QED BY <4>2, <4>3, <4>4, <4>5 DEF Next, KeeperTick
    <3>2. pending' \cap Line = {}
      BY <1>3, <2>2, <3>1
    <3> QED BY <1>3, <3>2, BookStep DEF OneSort
  <2> QED BY <2>1, <2>2
<1>4. CASE ~RunnerSelects /\ AllOf(Repair) /\ health' # NoIncident
  BY <1>4, BookStep DEF OneSort
<1> QED BY <1>1, <1>2, <1>3, <1>4 DEF OneSort

\* How master moves: not at all, or by one commit above what the keeper has checked.
LEMMA MasterStep ==
  ASSUME TypeOK, ProcessType, [Next]_vars
  PROVE  \/ UNCHANGED commits
         \/ /\ master' = master + 1 /\ keeper' = keeper
            /\ \A i \in 1..master : commits'[i] = commits[i]
            /\ \/ /\ \E red \in BOOLEAN : OwnerPushes(red)
                  /\ commits'[master'].by = "owner" /\ health' = health
               \/ \E red \in BOOLEAN : TrainLands(red)
<1>1. ASSUME NEW red \in BOOLEAN, OwnerPushes(red)
      PROVE  /\ master' = master + 1 /\ keeper' = keeper /\ health' = health
             /\ \A i \in 1..master : commits'[i] = commits[i]
             /\ commits'[master'].by = "owner"
  <2> DEFINE c == [red |-> red, by |-> "owner"]
  <2>1. c \in [red : BOOLEAN, by : {"train", "repair", "owner"}] /\ commits' = Append(commits, c)
        /\ c.by = "owner" /\ keeper' = keeper /\ health' = health
    BY <1>1 DEF OwnerPushes
  <2> HIDE DEF c
  <2> QED BY <2>1, Grows
<1>2. ASSUME NEW red \in BOOLEAN, TrainLands(red)
      PROVE  /\ master' = master + 1 /\ keeper' = keeper
             /\ \A i \in 1..master : commits'[i] = commits[i]
  <2> DEFINE c == [red |-> red, by |-> IF train.lines \cap Repair = {} THEN "train" ELSE "repair"]
  <2>1. c \in [red : BOOLEAN, by : {"train", "repair", "owner"}] /\ commits' = Append(commits, c)
        /\ keeper' = keeper
    BY <1>2 DEF TrainLands
  <2> HIDE DEF c
  <2> QED BY <2>1, Grows
<1>3. CASE UNCHANGED vars
  BY <1>3 DEF vars
<1>4. CASE Runner \/ RunnerDies \/ KeeperTick
  BY <1>4 DEF Runner, RunnerSelects, RunnerAnswers, RunnerSkips, RunnerSplits, RunnerTrains, RunnerEnds, RunnerDies,
              KeeperTick, SuiteGreen, SuiteRed, ConfirmsRed, ConfirmsGreen, ConfirmBlocked,
              KeeperHolds, KeeperDispatches, KeeperQueuesFix, KeeperQueuesRevert
<1>5. CASE TrainEnds
  BY <1>2, <1>5 DEF TrainEnds, TrainFails, TrainMoves, TrainRetries
<1>6. CASE Owner
  BY <1>1, <1>6 DEF Owner, OwnerHolds, HoldLapses
<1> QED BY <1>3, <1>4, <1>5, <1>6 DEF Next

\* A master the keeper has found green has no incident.
LEMMA GreenStep ==
  ASSUME TypeOK, ProcessType, GreenIsOver, [Next]_vars
  PROVE  GreenIsOver'
<1>1. CASE ~UNCHANGED commits
  <2>1. keeper'.checked # master'
    BY <1>1, MasterStep, SomeCommit DEF ProcessType
  <2> QED BY <2>1 DEF GreenIsOver
<1>2. ASSUME UNCHANGED <<commits, keeper>> PROVE GreenIsOver'
  BY <1>2, IncidentStep DEF GreenIsOver, Red, master
<1>3. ASSUME NEW e \in Name \cup {"none", "master"}, SuiteGreen(e) PROVE GreenIsOver'
  BY <1>3 DEF SuiteGreen, GreenIsOver
<1>4. ASSUME NEW e \in Name \cup {"none", "master"}, SuiteRed(e) PROVE GreenIsOver'
  BY <1>4 DEF SuiteRed, GreenIsOver, Red, master
<1>5. ASSUME NEW e \in Name \cup {"none", "master"},
             ConfirmsRed(e) \/ ConfirmsGreen(e) \/ ConfirmBlocked(e)
      PROVE  GreenIsOver'
  <2>1. UNCHANGED commits /\ keeper'.checked = keeper.checked
    BY <1>5 DEF ConfirmsRed, ConfirmsGreen, ConfirmBlocked, ProcessType
  <2> QED BY <2>1, IncidentStep DEF GreenIsOver, Red, master
<1>6. CASE UNCHANGED commits /\ ~(\E e \in Name \cup {"none", "master"} :
               SuiteGreen(e) \/ SuiteRed(e) \/ ConfirmsRed(e) \/ ConfirmsGreen(e) \/ ConfirmBlocked(e))
  <2>1. keeper' = keeper
    BY <1>6 DEF Next, vars, Runner, RunnerSelects, RunnerAnswers, RunnerSkips, RunnerSplits, RunnerTrains,
                RunnerEnds, RunnerDies, TrainEnds, TrainLands, TrainFails, TrainMoves, TrainRetries,
                Owner, OwnerPushes, OwnerHolds, HoldLapses, KeeperTick, KeeperHolds,
                KeeperDispatches, KeeperQueuesFix, KeeperQueuesRevert, keeping
  <2> QED BY <1>2, <1>6, <2>1
<1> QED BY <1>1, <1>3, <1>4, <1>5, <1>6

\* A line comes out as failed only when its batch of one is refused, a repair also when the
\* end of an incident kills its train.
LEMMA FailedStep ==
  ASSUME TypeOK, ProcessType, Waiting, Failed, [Next]_vars
  PROVE  Failed'
<1> SUFFICES ASSUME NEW l \in Line, <<l, "failed">> \in runner'.results
             PROVE  Refuses(l)'
  BY DEF Failed
<1>n. l \in Name /\ l \notin Repair
  BY Names
<1>k. kind' = kind
  BY DEF Next, vars, Runner, RunnerSelects, RunnerAnswers, RunnerSkips, RunnerSplits, RunnerTrains,
         RunnerEnds, RunnerDies, TrainEnds, TrainLands, TrainFails, TrainMoves, TrainRetries,
         Owner, OwnerPushes, OwnerHolds, HoldLapses, KeeperTick, SuiteGreen, SuiteRed,
         ConfirmsRed, ConfirmsGreen, ConfirmBlocked, KeeperHolds,
         KeeperDispatches, KeeperQueuesFix, KeeperQueuesRevert
<1> SUFFICES ASSUME <<l, "failed">> \notin runner.results
             PROVE  Refuses(l)
  BY <1>k DEF Failed, Refuses
<1>c. ASSUME NEW r, runner' = Came(r)
      PROVE  r = "failed" /\ l \in Batch
  <2>1. runner'.results = runner.results \cup (Batch \X {r})
    BY <1>c DEF Came, ProcessType, RunnerType
  <2> QED BY <2>1
<1>s. ASSUME runner'.results \subseteq runner.results PROVE FALSE
  BY <1>s
<1>p. Split.results = runner.results /\ Idle.results = {}
  BY DEF Split, Idle, ProcessType, RunnerType
<1>1. CASE RunnerAnswers
  <2>1. WithoutTrain = "failed" /\ l \in Batch /\ runner.todo # <<>>
    BY <1>1, <1>c DEF RunnerAnswers, Starting
  <2>2. Single /\ \E k \in Batch : Refuses(k)
    BY <2>1 DEF WithoutTrain
  <2>3. \E k \in Name : Batch = {k}
    BY <2>1, <2>2, BookType, OneName DEF Single
  <2> QED BY <2>1, <2>2, <2>3
<1>8. CASE RunnerSkips
  BY <1>8, <1>c DEF RunnerSkips
<1>2. CASE RunnerSelects \/ RunnerSplits \/ RunnerTrains \/ RunnerEnds \/ RunnerDies
  <2>1. runner'.results \subseteq runner.results
    BY <1>2, <1>p DEF RunnerSelects, RunnerSplits, RunnerTrains, RunnerEnds, RunnerDies,
                 ProcessType, RunnerType, Idle
  <2> QED BY <1>s, <2>1
<1>3. CASE TrainEnds
  <2>1. runner' = runner \/ runner' = Split \/ \E r \in {"landed", "retry", "master-pending"} : runner' = Came(r)
    BY <1>3 DEF TrainEnds, TrainLands, TrainFails, TrainMoves, TrainRetries
  <2> QED BY <1>c, <1>s, <1>p, <2>1
<1>4. ASSUME NEW e \in Name \cup {"none", "master"}, SuiteGreen(e) PROVE Refuses(l)
  <2>1. CASE KillsTrain /\ runner.waits
    <3>1. runner' = Came("failed")
      BY <1>4, <2>1 DEF SuiteGreen
    <3>2. l \in Batch /\ Batch = train.lines
      BY <1>c, <2>1, <3>1 DEF Waiting
    <3> QED BY <1>n, <2>1, <3>2 DEF KillsTrain
  <2>2. CASE ~(KillsTrain /\ runner.waits)
    BY <1>4, <1>s, <2>2 DEF SuiteGreen
  <2> QED BY <2>1, <2>2
<1>5. CASE runner' = runner
  BY <1>5
<1>6. ASSUME NEW e \in Name \cup {"none", "master"},
             SuiteRed(e) \/ ConfirmsRed(e) \/ ConfirmsGreen(e) \/ ConfirmBlocked(e)
      PROVE  runner' = runner
  BY <1>6 DEF SuiteRed, ConfirmsRed, ConfirmsGreen, ConfirmBlocked
<1>7. CASE \/ KeeperHolds \/ KeeperDispatches \/ KeeperQueuesFix \/ KeeperQueuesRevert \/ Owner
           \/ UNCHANGED vars
  BY <1>5, <1>7 DEF KeeperHolds, KeeperDispatches, KeeperQueuesFix, KeeperQueuesRevert,
                    Owner, OwnerPushes, OwnerHolds, HoldLapses, vars
<1> QED BY <1>1, <1>2, <1>3, <1>4, <1>5, <1>6, <1>7, <1>8 DEF Next, Runner, KeeperTick

\* The evidence a check was taken up for keeps its log until the check is over.
LEMMA ConfirmStep ==
  ASSUME TypeOK, ProcessType, OnItsBase, ConfirmIsLogged, [Next]_vars
  PROVE  ConfirmIsLogged'
<1> USE Names
<1>1. ASSUME keeper'.confirm = NoConfirm PROVE ConfirmIsLogged'
  BY <1>1 DEF NoConfirm, ConfirmIsLogged
<1>2. ASSUME UNCHANGED <<keeper, log>> PROVE ConfirmIsLogged'
  BY <1>2 DEF ConfirmIsLogged
<1>3. CASE TrainFails
  <2>1. \A l \in Name : log[l] # 0 => log'[l] # 0
    BY <1>3, SomeCommit DEF TrainFails, OnItsBase
  <2>2. keeper' = keeper
    BY <1>3 DEF TrainFails, keeping
  <2> QED BY <2>1, <2>2 DEF ConfirmIsLogged
<1>4. ASSUME NEW e \in Name \cup {"none", "master"}, SuiteGreen(e) PROVE ConfirmIsLogged'
  BY <1>1, <1>4 DEF SuiteGreen
<1>5. ASSUME NEW e \in Name \cup {"none", "master"}, ConfirmsRed(e) \/ ConfirmsGreen(e)
      PROVE  ConfirmIsLogged'
  <2>1. keeper'.confirm = NoConfirm
    BY <1>5 DEF ConfirmsRed, ConfirmsGreen, ProcessType
  <2> QED BY <1>1, <2>1
<1>6. ASSUME NEW e \in Name \cup {"none", "master"}, SuiteRed(e) \/ ConfirmBlocked(e)
      PROVE  ConfirmIsLogged'
  <2>1. keeper'.confirm.of \in {e, "master"} /\ log' = log /\ e \in Evidence
    <3>1. CASE SuiteRed(e)
      <4>1. keeper'.confirm = [of |-> IF ShowsMasterTest(e) /\ ~ShowsOwnTest(e) THEN e ELSE "master",
                               at |-> master]
        BY <3>1 DEF SuiteRed, ProcessType
      <4> QED BY <3>1, <4>1 DEF SuiteRed
    <3>2. CASE ConfirmBlocked(e)
      BY <3>2 DEF ConfirmBlocked, ProcessType
    <3> QED BY <1>6, <3>1, <3>2
  <2> QED BY <2>1, EvidenceIsLogged DEF ConfirmIsLogged
<1>7. CASE ~TrainFails /\ ~(\E e \in Name \cup {"none", "master"} :
               SuiteGreen(e) \/ SuiteRed(e) \/ ConfirmsRed(e) \/ ConfirmsGreen(e) \/ ConfirmBlocked(e))
  BY <1>2, <1>7
     DEF Next, vars, Runner, RunnerSelects, RunnerAnswers, RunnerSkips, RunnerSplits, RunnerTrains,
         RunnerEnds, RunnerDies, TrainEnds, TrainLands, TrainMoves, TrainRetries,
         Owner, OwnerPushes, OwnerHolds, HoldLapses, KeeperTick, KeeperHolds,
         KeeperDispatches, KeeperQueuesFix, KeeperQueuesRevert, keeping
<1> QED BY <1>3, <1>4, <1>5, <1>6, <1>7

\* A line that waits has a log, or an incident to wait for.
LEMMA WatchedStep ==
  ASSUME TypeOK, ProcessType, Waiting, OnItsBase, RepairsInIncident, PendingIsWatched, [Next]_vars
  PROVE  PendingIsWatched'
<1> SUFFICES ASSUME NEW l \in pending', l \in Queued', health' = NoIncident
             PROVE  log'[l] # 0
  BY DEF PendingIsWatched
<1>1. l \in Line
  BY RepairsStep DEF RepairsInIncident, Queued, Name
<1>2. Waits(l)
  BY <1>1, LineStep
<1>3. CASE l \in pending /\ log'[l] = log[l]
  <2>1. log[l] # 0 \/ health # NoIncident
    BY <1>2, <1>3 DEF PendingIsWatched, Waits
  <2> QED BY <1>3, <2>1, IncidentStep
<1>4. CASE FailedAlone(l)
  BY <1>4, SomeCommit DEF FailedAlone, OnItsBase
<1> QED BY <1>2, <1>3, <1>4 DEF Waits

\* A log of a good line is of a red master, and what turns it green again is the owner,
\* another line, or a repair in an incident that is still open.
LEMMA RedStep ==
  ASSUME TypeOK, ProcessType, Waiting, OnItsBase, OneSort, WaitsForRed, [Next]_vars
  PROVE  WaitsForRed'
<1> USE SomeCommit
<1> SUFFICES ASSUME NEW l \in pending', l \in Queued', Innocent(l)', log'[l] # 0
             PROVE  /\ Red(log[l])'
                    /\ Turned(log[l])' => health' # NoIncident \/ OthersTurned(log[l])'
  BY DEF WaitsForRed
<1>n. l \in Line /\ l \in Name /\ l \notin Repair
  BY Names DEF Innocent
<1>k. Innocent(l)
  BY <1>n DEF Innocent, Next, vars, Runner, RunnerSelects, RunnerAnswers, RunnerSkips, RunnerSplits, RunnerTrains,
         RunnerEnds, RunnerDies, TrainEnds, TrainLands, TrainFails, TrainMoves, TrainRetries,
         Owner, OwnerPushes, OwnerHolds, HoldLapses, KeeperTick, SuiteGreen, SuiteRed,
         ConfirmsRed, ConfirmsGreen, ConfirmBlocked, KeeperHolds,
         KeeperDispatches, KeeperQueuesFix, KeeperQueuesRevert
<1>w. Waits(l)
  BY <1>n, LineStep
<1>b. log'[l] \in 1..master'
  BY <1>n, TypeStep DEF TypeOK
<1>1. CASE FailedAlone(l)
  <2>1. Red(train.base) /\ log'[l] = train.base /\ train.base \in 1..master
    BY <1>1, <1>k, <1>n DEF FailedAlone, MayFail, FailsOn, FailsTests, Innocent, OnItsBase
  <2>2. UNCHANGED commits
    BY <1>1 DEF FailedAlone, TrainFails
  <2>4. Turned(train.base) => OthersTurned(train.base)
    BY <1>1, <2>1 DEF FailedAlone, OnItsBase
  <2> QED BY <2>1, <2>2, <2>4 DEF Red, Turned, OthersTurned, master
<1>2. CASE l \in pending /\ log'[l] = log[l] /\ l \in Queued
  <2> DEFINE b == log[l]
  <2>0. b \in 1..master
    BY <1>2, <1>n DEF TypeOK
  <2>1. /\ Red(b)
        /\ Turned(b) => health # NoIncident \/ OthersTurned(b)
    BY <1>2, <1>k DEF WaitsForRed
  <2>2. health # NoIncident => health' # NoIncident
    BY IncidentStep
  <2>3. CASE UNCHANGED commits
    BY <1>2, <2>1, <2>2, <2>3 DEF Red, Turned, OthersTurned, master
  <2>4. CASE ~UNCHANGED commits
    <3>1. /\ master' = master + 1
          /\ \A i \in 1..master : commits'[i] = commits[i]
      BY <2>4, MasterStep
    <3> HIDE DEF b
    <3>2. commits'[b].red
      BY <2>0, <2>1, <3>1 DEF Red
    <3> DEFINE Others == \E d \in (b + 1)..master' :
                 commits'[d].by # "repair" /\ ~commits'[d].red /\ commits'[d - 1].red
    <3>3. OthersTurned(b) => Others
      <4>1. ASSUME NEW c \in (b + 1)..master
            PROVE  /\ c \in (b + 1)..master' /\ commits'[c] = commits[c]
                   /\ commits'[c - 1] = commits[c - 1]
        <5>1. c \in 1..master /\ c - 1 \in 1..master
          BY <2>0
        <5> QED BY <3>1, <5>1
      <4> QED BY <4>1 DEF OthersTurned, Red
    <3>4. ASSUME NEW c \in (b + 1)..master', ~commits'[c].red
          PROVE  health' # NoIncident \/ Others
      <4>1. CASE health # NoIncident \/ (Turned(b) /\ OthersTurned(b))
        BY <2>2, <3>3, <4>1
      <4>2. CASE health = NoIncident /\ (Turned(b) => OthersTurned(b))
        <5>1. \E new \in [red : BOOLEAN, by : {"train", "repair", "owner"}] :
                  commits' = Append(commits, new) /\ new.by # "repair"
          <6>1. ASSUME NEW red \in BOOLEAN, OwnerPushes(red)
                PROVE  commits' = Append(commits, [red |-> red, by |-> "owner"])
            BY <6>1 DEF OwnerPushes
          <6>2. ASSUME NEW red \in BOOLEAN, TrainLands(red)
                PROVE  commits' = Append(commits, [red |-> red, by |-> "train"])
            <7>1. train.lines \cap Repair = {}
              <8>1. AllOf(Line)
                BY <1>2, <1>n, <4>2 DEF OneSort
              <8> QED BY <8>1, Names DEF AllOf
            <7> QED BY <6>2, <7>1 DEF TrainLands
          <6>3. (\E red \in BOOLEAN : OwnerPushes(red)) \/ \E red \in BOOLEAN : TrainLands(red)
            BY <2>4, MasterStep
          <6>4. \E by \in {"owner", "train"}, red \in BOOLEAN :
                    commits' = Append(commits, [red |-> red, by |-> by])
            BY <6>1, <6>2, <6>3
          <6>5. PICK by \in {"owner", "train"}, red \in BOOLEAN :
                    commits' = Append(commits, [red |-> red, by |-> by])
            BY <6>4
          <6> DEFINE new == [red |-> red, by |-> by]
          <6>6. /\ new \in [red : BOOLEAN, by : {"train", "repair", "owner"}]
                /\ new.by # "repair" /\ commits' = Append(commits, new)
            BY <6>5
          <6> HIDE DEF new
          <6> QED BY <6>6
        <5>2. Others
          BY <2>0, <2>1, <3>4, <4>2, <5>1, OthersTurn
        <5> QED BY <5>2
      <4> QED BY <2>1, <4>1, <4>2
    <3>5. log'[l] = b
      BY <1>2 DEF b
    <3> QED BY <3>2, <3>4, <3>5 DEF Red, Turned, OthersTurned
  <2> QED BY <2>3, <2>4
<1> QED BY <1>w, <1>1, <1>2 DEF Waits

-----------------------------------------------------------------------------
(* The theorems.                                                           *)

\* So do the other parts: nothing waits, nothing ran, no incident is open.
LEMMA InitHolds == Init => IInv
<1> SUFFICES ASSUME Init PROVE IInv
  OBVIOUS
<1> USE Names
<1>1. TypeOK /\ ProcessType
  BY TypeInit
<1>2. master = 1 /\ ~Red(1)
  BY DEF Init, master, Red
<1>3. Waiting /\ OnItsBase /\ OneSort /\ Failed
  BY DEF Init, Waiting, OnItsBase, OneSort, AllOf, Failed, Idle, NoTrain
<1>4. RepairsInIncident
  BY DEF Init, RepairsInIncident, Queued
<1>5. GreenIsOver /\ ConfirmIsLogged /\ WaitsForRed /\ PendingIsWatched
  BY DEF Init, GreenIsOver, ConfirmIsLogged, NoConfirm, WaitsForRed, PendingIsWatched
<1> QED BY <1>1, <1>3, <1>4, <1>5 DEF IInv

\* The inductive invariant.
THEOREM Invariant == Spec => []IInv
<1>1. IInv /\ [Next]_vars => IInv'
  <2> SUFFICES ASSUME IInv, [Next]_vars PROVE IInv'
    OBVIOUS
  <2>1. TypeOK' /\ ProcessType' /\ Waiting' /\ OnItsBase'
    BY TypeStep, WaitingStep, BaseStep DEF IInv
  <2>2. OneSort' /\ RepairsInIncident' /\ GreenIsOver'
    BY SortStep, RepairsStep, GreenStep DEF IInv
  <2>3. Failed' /\ ConfirmIsLogged'
    BY FailedStep, ConfirmStep DEF IInv
  <2>4. WaitsForRed' /\ PendingIsWatched'
    BY RedStep, WatchedStep DEF IInv
  <2> QED BY <2>1, <2>2, <2>3, <2>4 DEF IInv
<1> QED BY <1>1, InitHolds, PTL DEF Spec

\* The files of the queue, the keeper and the runner keep their types, a retry count within
\* its cap among them.
THEOREM TypeCorrect == Spec => []TypeOK
<1>1. IInv => TypeOK
  BY DEF IInv
<1> QED BY <1>1, Invariant, PTL

\* No line is forgotten behind its marker: while it waits, the keeper has its log still to
\* classify, or the incident is open whose end takes every marker.
THEOREM NoneForgotten == Spec => []PendingIsWatched
<1>1. IInv => PendingIsWatched
  BY DEF IInv
<1> QED BY <1>1, Invariant, PTL

\* A classified log quarantines a good line only after others turned master green.
LEMMA QuarantineIsLate ==
  ASSUME IInv, NEW l \in Line, Innocent(l), NEW e \in Evidence, ClassifiedBranch(e),
         fate'[l] # fate[l], ~Red(master), health = NoIncident
  PROVE  /\ fate'[l] = "quarantined"
         /\ OthersTurned(log[l])
<1>n. l \in Name
  BY Names
<1>1. l = e /\ l \in Queued \cap pending /\ fate'[l] = "quarantined"
  BY <1>n DEF ClassifiedBranch, Quarantines, IInv, TypeOK
<1>2. log[l] # 0
  BY <1>n, <1>1, EvidenceIsLogged DEF IInv
<1>3. Red(log[l]) /\ (Turned(log[l]) => OthersTurned(log[l]))
  BY <1>1, <1>2 DEF IInv, WaitsForRed
<1>4. master \in (log[l] + 1)..master
  <2>1. log[l] \in 1..master /\ master \in Nat
    BY <1>n, <1>2, SomeCommit DEF IInv, TypeOK
  <2>2. log[l] # master
    BY <1>3
  <2> QED BY <2>1, <2>2
<1>5. Turned(log[l])
  BY <1>4 DEF Turned
<1> QED BY <1>1, <1>3, <1>5

\* A good line is never blamed: not parked, and quarantined only when a push of the owner
\* or another line turned the red master green on which it had failed.
THEOREM GoodLinesKept == Spec => InnocentKept
<1> DEFINE Kept(l) ==
        /\ fate'[l] # "parked"
        /\ fate'[l] = "quarantined" => OthersTurned(log[l])
<1>1. ASSUME IInv, Next, NEW l \in Line, kind[l] \in {"good", "poison"}, fate'[l] # fate[l]
      PROVE  Kept(l)
  <2>n. l \in Name /\ l \notin Repair /\ Innocent(l)
    BY <1>1, Names DEF Innocent
  <2>1. CASE RunnerEnds
    <3>1. ~(<<l, "failed">> \in runner.results)
      BY <1>1, <2>n DEF IInv, Failed, Innocent, Refuses
    <3>2. fate'[l] = "done"
      BY <1>1, <2>1, <2>n, <3>1 DEF RunnerEnds, With
    <3> QED BY <3>2
  <2>2. ASSUME NEW e \in Name \cup {"none", "master"}, SuiteGreen(e) PROVE Kept(l)
    <3>1. CASE health = NoIncident
      <4>1. ClassifiedBranch(e) /\ ~Red(master) /\ e \in Evidence
        BY <2>2, <3>1 DEF SuiteGreen
      <4> QED BY <1>1, <2>n, <3>1, <4>1, QuarantineIsLate
    <3>2. CASE health # NoIncident
      BY <1>1, <2>2, <2>n, <3>2 DEF SuiteGreen, Cancelled
    <3> QED BY <3>1, <3>2
  <2>3. ASSUME NEW e \in Name \cup {"none", "master"}, ConfirmsGreen(e) PROVE Kept(l)
    <3>1. ClassifiedBranch(e) /\ e \in Evidence /\ keeper.checked = master
          /\ ~(Red(master) /\ ShowsMasterTest(e))
      BY <2>3 DEF ConfirmsGreen
    <3>2. l = e /\ l \in Queued \cap pending
      BY <1>1, <2>n, <3>1 DEF ClassifiedBranch, Quarantines, IInv, TypeOK
    <3>3. Red(log[l])
      BY <1>1, <2>n, <3>1, <3>2, EvidenceIsLogged DEF IInv, WaitsForRed
    <3>4. ~Red(master)
      BY <2>n, <3>1, <3>2, <3>3 DEF ShowsMasterTest
    <3>5. health = NoIncident
      BY <1>1, <3>1, <3>4 DEF IInv, GreenIsOver
    <3> QED BY <1>1, <2>n, <3>1, <3>4, <3>5, QuarantineIsLate
  <2>4. ASSUME fate' \in {fate, Cancelled, Renewed(fate, "absent")} PROVE FALSE
    BY <1>1, <2>n, <2>4 DEF Cancelled, Renewed
  <2>5. CASE KeeperQueuesFix \/ KeeperQueuesRevert
    BY <1>1, <2>n, <2>5 DEF KeeperQueuesFix, KeeperQueuesRevert, Repair, IInv, TypeOK
  <2>6. CASE ~RunnerEnds /\ ~KeeperQueuesFix /\ ~KeeperQueuesRevert
             /\ ~(\E e \in Name \cup {"none", "master"} : SuiteGreen(e) \/ ConfirmsGreen(e))
    <3>1. fate' \in {fate, Cancelled, Renewed(fate, "absent")}
      BY <1>1, <2>6
         DEF Next, Runner, RunnerSelects, RunnerAnswers, RunnerSkips, RunnerSplits, RunnerTrains,
             RunnerDies, TrainEnds, TrainLands, TrainFails, TrainMoves, TrainRetries,
             Owner, OwnerPushes, OwnerHolds, HoldLapses, KeeperTick, SuiteRed, ConfirmsRed,
             ConfirmBlocked, KeeperHolds, KeeperDispatches, files
    <3> QED BY <2>4, <3>1
  <2> QED BY <2>1, <2>2, <2>3, <2>5, <2>6
<1>2. IInv /\ [Next]_vars =>
        [\A l \in Line : kind[l] \in {"good", "poison"} /\ fate'[l] # fate[l] =>
            /\ fate'[l] # "parked"
            /\ fate'[l] = "quarantined" => OthersTurned(log[l])]_vars
  BY <1>1
<1> QED BY <1>2, Invariant, PTL DEF Spec, InnocentKept

=============================================================================
