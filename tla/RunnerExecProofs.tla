--------------------------- MODULE RunnerExecProofs ---------------------------
(***************************************************************************)
(* RunnerExec never loses or doubles a file: proofs for every registry,    *)
(* every set of files and every order in which runners fail and come back. *)
(***************************************************************************)
EXTENDS RunnerExec, TLAPS

\* The files of the attempt the loop still waits for.
Running(r) == IF r \in dead THEN {} ELSE live[r].paths

FilesOf(q) == UNION {q[i] : i \in DOMAIN q}

Waiting(r) == FilesOf(queue[r])

\* A runner's plan is what it was accepted for, is running or has queued, each
\* file in one of these places, while it lives.
Whole ==
    \A r \in Runner \ dead :
        /\ plan[r] = done[r] \cup Running(r) \cup Waiting(r)
        /\ done[r] \cap Running(r) = {}
        /\ (done[r] \cup Running(r)) \cap Waiting(r) = {}
        /\ \A i, j \in DOMAIN queue[r] : i # j => queue[r][i] \cap queue[r][j] = {}

\* A dead runner has nothing to run.
Buried == \A r \in dead : plan[r] = {} /\ queue[r] = <<>>

\* No file is with two runners, be it planned or accepted.
Apart ==
    \A r, s \in Runner : r # s =>
        /\ plan[r] \cap plan[s] = {}
        /\ plan[r] \cap done[s] = {}
        /\ done[r] \cap done[s] = {}

\* Every file is with some runner, and only where it may run.
Kept ==
    /\ pc # "plans" => \A f \in File : \E r \in Runner : f \in plan[r] \/ f \in done[r]
    /\ \A r \in Runner : \A f \in plan[r] : <<r, f>> \in MayRun

Idles == \A r \in Runner : live[r].state = "idle" => live[r].paths = {}

Sound == Idles /\ Whole /\ Buried /\ Apart /\ Kept /\ twice = {}

Blank ==
    pc = "plans" => /\ dead = {}
                    /\ \A r \in Runner : plan[r] = {} /\ done[r] = {} /\ live[r] = Idle

\* While the executor is at work its books are sound; it ends with a verdict
\* that does not blame them.
IInv ==
    /\ TypeOK /\ Blank /\ EachFileOnce
    /\ pc # "ended" => Sound

-----------------------------------------------------------------------------

\* A shard that is queued behind shards it shares no file with.
LEMMA QueuedShard ==
  ASSUME NEW q \in Seq(SUBSET File), NEW X \in SUBSET File,
         \A i \in DOMAIN q : q[i] \cap X = {},
         \A i, j \in DOMAIN q : i # j => q[i] \cap q[j] = {}
  PROVE  LET w == Queued(q, X) IN
         /\ w \in Seq(SUBSET File)
         /\ FilesOf(w) = FilesOf(q) \cup X
         /\ \A i, j \in DOMAIN w : i # j => w[i] \cap w[j] = {}
<1>1. CASE X = {}
  BY <1>1 DEF Queued
<1>2. CASE X # {}
  <2> DEFINE w == Append(q, X)
  <2>1. /\ w \in Seq(SUBSET File) /\ DOMAIN w = DOMAIN q \cup {Len(q) + 1}
        /\ Len(q) + 1 \notin DOMAIN q /\ w[Len(q) + 1] = X
        /\ \A i \in DOMAIN q : w[i] = q[i]
    OBVIOUS
  <2>2. Queued(q, X) = w
    BY <1>2 DEF Queued
  <2> HIDE DEF w
  <2> QED BY <2>1, <2>2 DEF FilesOf
<1> QED BY <1>1, <1>2

\* The shard at the head of a queue is started.
LEMMA HeadStarts ==
  ASSUME NEW q \in Seq(SUBSET File), q # <<>>,
         \A i, j \in DOMAIN q : i # j => q[i] \cap q[j] = {}
  PROVE  LET w == Tail(q) IN
         /\ Head(q) \in SUBSET File /\ w \in Seq(SUBSET File)
         /\ FilesOf(q) = Head(q) \cup FilesOf(w)
         /\ Head(q) \cap FilesOf(w) = {}
         /\ \A i, j \in DOMAIN w : i # j => w[i] \cap w[j] = {}
<1> DEFINE w == Tail(q)
<1>1. /\ w \in Seq(SUBSET File) /\ Head(q) = q[1] /\ 1 \in DOMAIN q
      /\ \A i \in DOMAIN w : i + 1 \in DOMAIN q /\ w[i] = q[i + 1] /\ i + 1 # 1 /\ i \in Nat
  OBVIOUS
<1>2. ASSUME NEW k \in DOMAIN q
      PROVE  q[k] = Head(q) \/ \E i \in DOMAIN w : w[i] = q[k]
  <2>1. CASE k = 1
    BY <2>1, <1>1
  <2>2. CASE k # 1
    <3>1. k - 1 \in DOMAIN w /\ w[k - 1] = q[k]
      BY <2>2
    <3> QED BY <3>1
  <2> QED BY <2>1, <2>2
<1>3. ASSUME NEW i \in DOMAIN w, NEW j \in DOMAIN w, i # j
      PROVE  w[i] \cap w[j] = {}
  <2>1. i + 1 # j + 1
    BY <1>1, <1>3
  <2> QED BY <1>1, <1>3, <2>1
<1> HIDE DEF w
<1>4. FilesOf(q) = Head(q) \cup FilesOf(w)
  <2>1. \A x \in FilesOf(q) : x \in Head(q) \cup FilesOf(w)
    BY <1>2 DEF FilesOf
  <2>2. \A x \in Head(q) \cup FilesOf(w) : x \in FilesOf(q)
    BY <1>1 DEF FilesOf
  <2> QED BY <2>1, <2>2
<1>5. Head(q) \cap FilesOf(w) = {}
  BY <1>1 DEF FilesOf
<1>6. Head(q) \in SUBSET File
  BY <1>1
<1> QED BY <1>1, <1>3, <1>4, <1>5, <1>6 DEF w

-----------------------------------------------------------------------------

LEMMA QueuedTyped ==
  ASSUME NEW q \in Seq(SUBSET File), NEW X \in SUBSET File
  PROVE  Queued(q, X) \in Seq(SUBSET File)
  BY DEF Queued

\* What a placement gives to the runners.
LEMMA PlacedTyped ==
  ASSUME NEW F \in SUBSET File, NEW R, NEW p \in Placements(F, R)
  PROVE  /\ \A s : Shard(p, s) \in SUBSET F
         /\ \A s, t : s # t => Shard(p, s) \cap Shard(p, t) = {}
         /\ \A s : \A f \in Shard(p, s) : <<s, f>> \in MayRun /\ s \in R
         /\ \A f \in F : p[f] \in R /\ f \in Shard(p, p[f])
  BY DEF Placements, Shard

LEMMA TypeFail ==
  ASSUME TypeOK, NEW r \in Runner, FailRunner(r)
  PROVE  /\ pc' \in {pc, "ended"} /\ verdict' \in {verdict, "no runner"}
         /\ plan' \in [Runner -> SUBSET File] /\ queue' \in [Runner -> Seq(SUBSET File)]
         /\ done' = done /\ twice' = twice /\ dead' \subseteq Runner
<1>1. ASSUME NEW p \in Placements(Unfinished(r), Survivors(r)),
             plan' = [s \in Runner |-> IF s = r THEN {} ELSE plan[s] \cup Shard(p, s)],
             queue' = [s \in Runner |-> IF s = r THEN <<>> ELSE Queued(queue[s], Shard(p, s))]
      PROVE  plan' \in [Runner -> SUBSET File] /\ queue' \in [Runner -> Seq(SUBSET File)]
  <2>0. Unfinished(r) \in SUBSET File
    BY DEF Unfinished, TypeOK
  <2>1. \A s \in Runner : Shard(p, s) \in SUBSET File
    <3>1. \A s : Shard(p, s) \in SUBSET Unfinished(r)
      BY <2>0, PlacedTyped
    <3> QED BY <2>0, <3>1
  <2>2. ASSUME NEW s \in Runner
        PROVE  Queued(queue[s], Shard(p, s)) \in Seq(SUBSET File)
    BY <2>1, QueuedTyped DEF TypeOK
  <2>3. <<>> \in Seq(SUBSET File)
    OBVIOUS
  <2>4. plan' \in [Runner -> SUBSET File]
    BY <1>1, <2>1 DEF TypeOK
  <2>5. queue' \in [Runner -> Seq(SUBSET File)]
    BY <1>1, <2>2, <2>3
  <2> QED BY <2>4, <2>5
<1> QED BY <1>1 DEF FailRunner, TypeOK

\* A thread that comes back changes what its attempt says, not its files.
LEMMA FinishShape ==
  ASSUME TypeOK, NEW r \in Runner, Finishes(r)
  PROVE  /\ live' \in [Runner -> Attempt]
         /\ live'[r].paths = live[r].paths /\ live'[r].state # "idle"
         /\ \A s \in Runner \ {r} : live'[s] = live[s]
<1>1. ASSUME NEW state \in Back, NEW bad \in SUBSET File, ComesBack(r, state, bad)
      PROVE  /\ live' \in [Runner -> Attempt]
             /\ live'[r].paths = live[r].paths /\ live'[r].state # "idle"
             /\ \A s \in Runner \ {r} : live'[s] = live[s]
  <2>1. [state |-> state, paths |-> live[r].paths, bad |-> bad] \in Attempt
    BY DEF TypeOK, Attempt
  <2>2. state # "idle"
    BY DEF Back
  <2> QED BY <1>1, <2>1, <2>2 DEF ComesBack, TypeOK
<1>2. live[r].paths \in SUBSET File /\ broken \cap live[r].paths \in SUBSET File
  BY DEF TypeOK, Attempt
<1>3. {"lost", "skipped", "zero", "nonzero"} \subseteq Back
  BY DEF Back
<1>4. \E state \in Back, bad \in SUBSET File : ComesBack(r, state, bad)
  BY <1>2, <1>3 DEF Finishes
<1> QED BY <1>1, <1>4

\* Every step keeps the types.
LEMMA TypeStep == TypeOK /\ [Next]_vars => TypeOK'
<1> SUFFICES ASSUME TypeOK, [Next]_vars PROVE TypeOK'
  OBVIOUS
<1> USE DEF places, marks, fixed
<1>1. CASE Plans
  <2>1. ASSUME NEW p \in Placements(File, Runner)
        PROVE  /\ [r \in Runner |-> Shard(p, r)] \in [Runner -> SUBSET File]
               /\ [r \in Runner |-> Queued(<<>>, Shard(p, r))] \in [Runner -> Seq(SUBSET File)]
    <3>1. \A r \in Runner : Shard(p, r) \in SUBSET File
      BY PlacedTyped
    <3>2. <<>> \in Seq(SUBSET File)
      OBVIOUS
    <3>3. \A r \in Runner : Queued(<<>>, Shard(p, r)) \in Seq(SUBSET File)
      BY <3>1, <3>2, QueuedTyped
    <3> QED BY <3>1, <3>3
  <2> QED BY <1>1, <2>1 DEF Plans, TypeOK
<1>2. CASE Starts
  <2>1. ASSUME NEW r \in Ready
        PROVE  Head(queue[r]) \in SUBSET File /\ Tail(queue[r]) \in Seq(SUBSET File)
    <3>1. queue[r] \in Seq(SUBSET File) /\ queue[r] # <<>>
      BY DEF Ready, TypeOK
    <3> QED BY <3>1
  <2>2. \A r \in Ready : Started(Head(queue[r])) \in Attempt
    BY <2>1 DEF Started, Attempt
  <2>3. CASE pc' = "waits"
    <3>1. /\ live' = [r \in Runner |->
                  IF r \in Ready THEN Started(Head(queue[r])) ELSE live[r]]
          /\ queue' = [r \in Runner |-> IF r \in Ready THEN Tail(queue[r]) ELSE queue[r]]
          /\ UNCHANGED <<verdict, plan, done, twice, batch, dead, marks, fixed>>
      BY <1>2, <2>3 DEF Starts
    <3>2. live' \in [Runner -> Attempt]
      BY <3>1, <2>2 DEF TypeOK
    <3>3. queue' \in [Runner -> Seq(SUBSET File)]
      BY <3>1, <2>1 DEF TypeOK
    <3> QED BY <2>3, <3>1, <3>2, <3>3 DEF TypeOK
  <2>4. CASE pc' # "waits"
    BY <1>2, <2>4 DEF Starts, TypeOK
  <2> QED BY <2>3, <2>4
<1>3. CASE Waits
  BY <1>3 DEF Waits, TypeOK
<1>4. ASSUME NEW r \in Runner, Judged(r)
      PROVE  live' \in [Runner -> Attempt] /\ batch' \subseteq Runner /\ UNCHANGED fixed
  BY <1>4 DEF Judged, Idle, Attempt, TypeOK
<1>5. ASSUME NEW r \in Runner, Discards(r) PROVE TypeOK'
  BY <1>4, <1>5 DEF Discards, Attempt, TypeOK
<1>6. ASSUME NEW r \in Runner, Loses(r) PROVE TypeOK'
  BY <1>4, <1>6, TypeFail DEF Loses, TypeOK
<1>7. ASSUME NEW r \in Runner, Refuses(r) PROVE TypeOK'
  BY <1>4, <1>7 DEF Refuses, TypeOK
<1>8. ASSUME NEW r \in Runner, Accepts(r) PROVE TypeOK'
  BY <1>4, <1>8 DEF Accepts, Attempt, TypeOK
<1>9. CASE Loops
  BY <1>9 DEF Loops, TypeOK
<1>10. CASE Ends
  BY <1>10 DEF Ends, Account, TypeOK
<1>11. ASSUME NEW r \in Runner, Finishes(r) PROVE TypeOK'
  BY <1>11, FinishShape DEF Finishes, TypeOK
<1>12. ASSUME NEW r \in Runner, TimesOut(r) PROVE TypeOK'
  BY <1>12, TypeFail DEF TimesOut, TypeOK
<1>13. CASE UNCHANGED vars
  BY <1>13 DEF vars, TypeOK
<1> QED
  BY <1>1, <1>2, <1>3, <1>5, <1>6, <1>7, <1>8, <1>9, <1>10, <1>11, <1>12, <1>13
  DEF Next, Loop, Judges

-----------------------------------------------------------------------------

\* The shard of a runner that failed moves, and the books stay sound.
LEMMA SoundFail ==
  ASSUME TypeOK, Sound, pc # "plans", NEW r \in Runner, r \notin dead,
         FailRunner(r), pc' # "ended",
         \A s \in Runner : live'[s] = live[s] \/ (s = r /\ live'[s] = Idle)
  PROVE  Sound'
<1>1. PICK p \in Placements(Unfinished(r), Survivors(r)) :
        /\ plan' = [s \in Runner |-> IF s = r THEN {} ELSE plan[s] \cup Shard(p, s)]
        /\ queue' = [s \in Runner |-> IF s = r THEN <<>> ELSE Queued(queue[s], Shard(p, s))]
        /\ UNCHANGED <<pc, verdict>>
  BY DEF FailRunner
<1>2. dead' = dead \cup {r} /\ UNCHANGED <<done, twice>>
  BY DEF FailRunner
<1>3. /\ \A s : Shard(p, s) \in SUBSET Unfinished(r)
      /\ \A s, t : s # t => Shard(p, s) \cap Shard(p, t) = {}
      /\ \A s : \A f \in Shard(p, s) : <<s, f>> \in MayRun /\ s \in Survivors(r)
      /\ \A f \in Unfinished(r) : p[f] \in Survivors(r) /\ f \in Shard(p, p[f])
  <2>1. Unfinished(r) \in SUBSET File
    BY DEF Unfinished, TypeOK
  <2> QED BY <2>1, PlacedTyped
<1>4. Unfinished(r) \subseteq plan[r] /\ Unfinished(r) \subseteq File
  BY DEF Unfinished, TypeOK
<1>5. Idles'
  BY DEF Sound, Idles, Idle
<1>6. ASSUME NEW s \in Runner \ dead'
      PROVE  /\ plan'[s] = done'[s] \cup Running(s)' \cup Waiting(s)'
             /\ done'[s] \cap Running(s)' = {}
             /\ (done'[s] \cup Running(s)') \cap Waiting(s)' = {}
             /\ \A i, j \in DOMAIN queue'[s] : i # j => queue'[s][i] \cap queue'[s][j] = {}
  <2>1. s # r /\ s \notin dead /\ Running(s)' = Running(s) /\ done'[s] = done[s]
    BY <1>2 DEF Running
  <2>2. /\ plan[s] = done[s] \cup Running(s) \cup Waiting(s)
        /\ done[s] \cap Running(s) = {}
        /\ (done[s] \cup Running(s)) \cap Waiting(s) = {}
        /\ \A i, j \in DOMAIN queue[s] : i # j => queue[s][i] \cap queue[s][j] = {}
    BY <2>1 DEF Sound, Whole
  <2>3. Shard(p, s) \cap plan[s] = {} /\ Shard(p, s) \in SUBSET File
    BY <1>3, <1>4, <2>1 DEF Sound, Apart
  <2>4. \A i \in DOMAIN queue[s] : queue[s][i] \cap Shard(p, s) = {}
    BY <2>2, <2>3 DEF Waiting, FilesOf
  <2>5. /\ FilesOf(queue'[s]) = FilesOf(queue[s]) \cup Shard(p, s)
        /\ \A i, j \in DOMAIN queue'[s] : i # j => queue'[s][i] \cap queue'[s][j] = {}
    <3>1. queue[s] \in Seq(SUBSET File) /\ queue'[s] = Queued(queue[s], Shard(p, s))
      BY <1>1, <2>1 DEF TypeOK
    <3> QED BY <3>1, <2>2, <2>3, <2>4, QueuedShard
  <2>6. plan'[s] = plan[s] \cup Shard(p, s)
    BY <1>1, <2>1
  <2>7. Waiting(s)' = Waiting(s) \cup Shard(p, s)
    BY <2>5 DEF Waiting
  <2> QED BY <2>1, <2>2, <2>3, <2>5, <2>6, <2>7
<1>7. Buried'
  <2>1. ASSUME NEW s \in dead' PROVE plan'[s] = {} /\ queue'[s] = <<>>
    <3>1. CASE s = r
      BY <3>1, <1>1
    <3>2. CASE s # r
      <4>1. s \in dead /\ s \in Runner /\ plan[s] = {} /\ queue[s] = <<>>
        BY <3>2, <1>2 DEF TypeOK, Sound, Buried
      <4>2. Shard(p, s) = {}
        BY <4>1, <1>3 DEF Survivors
      <4> QED BY <3>2, <4>1, <4>2, <1>1 DEF Queued
    <3> QED BY <3>1, <3>2
  <2> QED BY <2>1 DEF Buried
<1>8. Apart'
  <2>1. ASSUME NEW s \in Runner, NEW t \in Runner, s # t
        PROVE  /\ plan'[s] \cap plan'[t] = {}
               /\ plan'[s] \cap done'[t] = {}
               /\ done'[s] \cap done'[t] = {}
    <3>1. /\ plan[s] \cap plan[t] = {} /\ plan[s] \cap done[t] = {} /\ done[s] \cap done[t] = {}
          /\ plan[r] \cap plan[s] = {} \/ r = s
          /\ plan[r] \cap plan[t] = {} \/ r = t
          /\ plan[r] \cap done[t] = {} \/ r = t
      BY <2>1 DEF Sound, Apart
    <3>2. Shard(p, s) \subseteq plan[r] \ done[r] /\ Shard(p, t) \subseteq plan[r] \ done[r]
          /\ Shard(p, s) \cap Shard(p, t) = {}
      BY <1>3, <2>1 DEF Unfinished
    <3> QED BY <1>1, <1>2, <3>1, <3>2
  <2> QED BY <2>1 DEF Apart
<1>9. Kept'
  <2>1. ASSUME NEW f \in File PROVE \E s \in Runner : f \in plan'[s] \/ f \in done'[s]
    <3>1. PICK s \in Runner : f \in plan[s] \/ f \in done[s]
      BY DEF Sound, Kept
    <3>2. CASE f \in done[s]
      BY <3>2, <1>2
    <3>3. CASE f \in plan[s] /\ s # r
      BY <3>3, <1>1
    <3>4. CASE f \in plan[r] /\ f \notin done[r]
      <4>1. p[f] \in Runner \ {r} /\ f \in Shard(p, p[f])
        BY <3>4, <1>3 DEF Unfinished, Survivors
      <4> QED BY <4>1, <1>1
    <3>5. CASE f \in done[r]
      BY <3>5, <1>2
    <3> QED BY <3>1, <3>2, <3>3, <3>4, <3>5
  <2>2. \A s \in Runner : \A f \in plan'[s] : <<s, f>> \in MayRun
    BY <1>1, <1>3 DEF Sound, Kept
  <2> QED BY <2>1, <2>2 DEF Kept
<1>10. Whole'
  BY <1>6 DEF Whole
<1>11. twice' = {}
  BY <1>2 DEF Sound
<1> QED BY <1>5, <1>7, <1>8, <1>9, <1>10, <1>11 DEF Sound

-----------------------------------------------------------------------------

\* The first placement covers every file once.
LEMMA SoundPlans == TypeOK /\ Blank /\ Sound /\ Plans /\ pc' # "ended" => Sound'
<1> SUFFICES ASSUME TypeOK, Blank, Sound, Plans, pc' # "ended" PROVE Sound'
  OBVIOUS
<1>1. PICK p \in Placements(File, Runner) :
        /\ plan' = [r \in Runner |-> Shard(p, r)]
        /\ queue' = [r \in Runner |-> Queued(<<>>, Shard(p, r))]
  BY DEF Plans
<1>2. /\ dead = {} /\ UNCHANGED <<live, dead, done, twice>>
      /\ \A r \in Runner : done[r] = {} /\ live[r] = Idle
  BY DEF Plans, Blank
<1>3. /\ \A s : Shard(p, s) \in SUBSET File
      /\ \A s, t : s # t => Shard(p, s) \cap Shard(p, t) = {}
      /\ \A s : \A f \in Shard(p, s) : <<s, f>> \in MayRun
      /\ \A f \in File : p[f] \in Runner /\ f \in Shard(p, p[f])
  BY PlacedTyped
<1>4. ASSUME NEW r \in Runner
      PROVE  /\ FilesOf(queue'[r]) = Shard(p, r)
             /\ \A i, j \in DOMAIN queue'[r] : i # j => queue'[r][i] \cap queue'[r][j] = {}
  <2>1. <<>> \in Seq(SUBSET File) /\ DOMAIN <<>> = {} /\ FilesOf(<<>>) = {}
    BY DEF FilesOf
  <2>2. queue'[r] = Queued(<<>>, Shard(p, r)) /\ Shard(p, r) \in SUBSET File
    BY <1>1, <1>3
  <2>3. /\ \A i \in DOMAIN <<>> : <<>>[i] \cap Shard(p, r) = {}
        /\ \A i, j \in DOMAIN <<>> : i # j => <<>>[i] \cap <<>>[j] = {}
    BY <2>1
  <2> DEFINE q == Queued(<<>>, Shard(p, r))
  <2>4. /\ FilesOf(q) = FilesOf(<<>>) \cup Shard(p, r)
        /\ \A i, j \in DOMAIN q : i # j => q[i] \cap q[j] = {}
    BY <2>1, <2>2, <2>3, QueuedShard
  <2> HIDE DEF q
  <2>5. queue'[r] = q
    BY <2>2 DEF q
  <2> QED BY <2>1, <2>4, <2>5
<1>5. \A r \in Runner : Running(r)' = {}
  BY <1>2 DEF Running, Idle
<1>6. Whole'
  BY <1>1, <1>2, <1>4, <1>5 DEF Whole, Waiting
<1>7. Apart'
  BY <1>1, <1>2, <1>3 DEF Apart
<1>8. Kept'
  BY <1>1, <1>3 DEF Kept
<1> QED BY <1>2, <1>6, <1>7, <1>8 DEF Sound, Idles, Buried

\* A started shard leaves the queue of a runner that had nothing running, and
\* may run there.
LEMMA SoundStarts == TypeOK /\ Sound /\ Starts => Sound' /\ UNCHANGED verdict
<1> SUFFICES ASSUME TypeOK, Sound, Starts PROVE Sound' /\ UNCHANGED verdict
  OBVIOUS
<1>1. ASSUME NEW r \in Ready
      PROVE  /\ r \in Runner \ dead /\ Running(r) = {}
             /\ Head(queue[r]) \in SUBSET File
             /\ FilesOf(queue[r]) = Head(queue[r]) \cup FilesOf(Tail(queue[r]))
             /\ Head(queue[r]) \cap FilesOf(Tail(queue[r])) = {}
             /\ \A i, j \in DOMAIN Tail(queue[r]) :
                    i # j => Tail(queue[r])[i] \cap Tail(queue[r])[j] = {}
             /\ \A f \in Head(queue[r]) : <<r, f>> \in MayRun
  <2>1. /\ r \in Runner \ dead /\ queue[r] \in Seq(SUBSET File) /\ queue[r] # <<>>
        /\ \A i, j \in DOMAIN queue[r] : i # j => queue[r][i] \cap queue[r][j] = {}
        /\ Running(r) = {}
    BY DEF Ready, TypeOK, Sound, Whole, Idles, Running
  <2>2. /\ Head(queue[r]) \in SUBSET File
        /\ FilesOf(queue[r]) = Head(queue[r]) \cup FilesOf(Tail(queue[r]))
        /\ Head(queue[r]) \cap FilesOf(Tail(queue[r])) = {}
        /\ \A i, j \in DOMAIN Tail(queue[r]) :
               i # j => Tail(queue[r])[i] \cap Tail(queue[r])[j] = {}
    BY <2>1, HeadStarts
  <2>3. Head(queue[r]) \subseteq plan[r]
    BY <2>1, <2>2 DEF Sound, Whole, Waiting
  <2> QED BY <2>1, <2>2, <2>3 DEF Sound, Kept
<1>2. /\ live' = [r \in Runner |-> IF r \in Ready THEN Started(Head(queue[r])) ELSE live[r]]
      /\ queue' = [r \in Runner |-> IF r \in Ready THEN Tail(queue[r]) ELSE queue[r]]
      /\ UNCHANGED <<verdict, plan, done, twice, dead>>
      /\ pc # "plans"
  BY <1>1 DEF Starts
<1>3. ASSUME NEW r \in Runner \ dead
      PROVE  /\ plan[r] = done[r] \cup Running(r)' \cup Waiting(r)'
             /\ done[r] \cap Running(r)' = {}
             /\ (done[r] \cup Running(r)') \cap Waiting(r)' = {}
             /\ \A i, j \in DOMAIN queue'[r] : i # j => queue'[r][i] \cap queue'[r][j] = {}
  <2>1. /\ plan[r] = done[r] \cup Running(r) \cup Waiting(r)
        /\ done[r] \cap Running(r) = {}
        /\ (done[r] \cup Running(r)) \cap Waiting(r) = {}
        /\ \A i, j \in DOMAIN queue[r] : i # j => queue[r][i] \cap queue[r][j] = {}
    BY DEF Sound, Whole
  <2>2. CASE r \in Ready
    <3>1. Running(r)' = Head(queue[r]) /\ queue'[r] = Tail(queue[r])
      BY <2>2, <1>2 DEF Running, Started
    <3>2. Waiting(r) = FilesOf(queue[r]) /\ Waiting(r)' = FilesOf(Tail(queue[r]))
      BY <3>1 DEF Waiting
    <3>3. /\ Running(r) = {}
          /\ FilesOf(queue[r]) = Head(queue[r]) \cup FilesOf(Tail(queue[r]))
          /\ Head(queue[r]) \cap FilesOf(Tail(queue[r])) = {}
      BY <2>2, <1>1
    <3>4. \A i, j \in DOMAIN queue'[r] : i # j => queue'[r][i] \cap queue'[r][j] = {}
      BY <2>2, <3>1, <1>1
    <3> QED BY <2>1, <3>1, <3>2, <3>3, <3>4
  <2>3. CASE r \notin Ready
    <3>1. Running(r)' = Running(r) /\ queue'[r] = queue[r]
      BY <2>3, <1>2 DEF Running
    <3> QED BY <3>1, <2>1 DEF Waiting
  <2> QED BY <2>2, <2>3
<1>4. Whole'
  <2>1. dead' = dead /\ plan' = plan /\ done' = done
    BY <1>2
  <2>2. ASSUME NEW r \in Runner \ dead'
        PROVE  /\ plan'[r] = done'[r] \cup Running(r)' \cup Waiting(r)'
               /\ done'[r] \cap Running(r)' = {}
               /\ (done'[r] \cup Running(r)') \cap Waiting(r)' = {}
               /\ \A i, j \in DOMAIN queue'[r] : i # j => queue'[r][i] \cap queue'[r][j] = {}
    BY <2>1, <1>3
  <2> QED BY <2>2 DEF Whole
<1>5. Idles'
  BY <1>2 DEF Sound, Idles, Started
<1>6. Buried'
  <2>1. ASSUME NEW r \in dead PROVE plan'[r] = {} /\ queue'[r] = <<>>
    BY <1>2 DEF Ready, Sound, Buried, TypeOK
  <2> QED BY <2>1, <1>2 DEF Buried
<1>7. Apart' /\ Kept'
  BY <1>2 DEF Sound, Apart, Kept
<1> QED BY <1>2, <1>4, <1>5, <1>6, <1>7 DEF Sound

\* What a thread comes back with is no matter of the books.
LEMMA SoundFinishes ==
  ASSUME TypeOK, Sound, NEW r \in Runner, Finishes(r)
  PROVE  Sound'
<1>1. /\ UNCHANGED <<pc, plan, queue, done, twice, dead>>
      /\ \A s \in Runner : live'[s].paths = live[s].paths
      /\ \A s \in Runner \ {r} : live'[s] = live[s]
      /\ live'[r].state # "idle"
  BY FinishShape DEF Finishes, places
<1>2. \A s \in Runner : Running(s)' = Running(s) /\ Waiting(s)' = Waiting(s)
  BY <1>1 DEF Running, Waiting
<1>3. Idles'
  BY <1>1 DEF Sound, Idles
<1>4. Whole'
  BY <1>1, <1>2 DEF Sound, Whole
<1>5. Buried' /\ Apart' /\ Kept'
  BY <1>1 DEF Sound, Buried, Apart, Kept
<1> QED BY <1>1, <1>3, <1>4, <1>5 DEF Sound

\* A late attempt leaves the books alone.
LEMMA SoundDiscards ==
  ASSUME TypeOK, Sound, NEW r \in Runner, Discards(r)
  PROVE  Sound'
<1>1. /\ UNCHANGED <<pc, plan, queue, done, twice, dead>> /\ r \in dead
      /\ live' = [live EXCEPT ![r] = Idle]
  BY DEF Discards, Judged, places
<1>2. \A s \in Runner : Running(s)' = Running(s) /\ Waiting(s)' = Waiting(s)
  BY <1>1 DEF Running, Waiting, TypeOK
<1>3. Idles'
  BY <1>1 DEF Sound, Idles, Idle, TypeOK
<1>4. Whole'
  BY <1>1, <1>2 DEF Sound, Whole
<1>5. Buried' /\ Apart' /\ Kept'
  BY <1>1 DEF Sound, Buried, Apart, Kept
<1> QED BY <1>1, <1>3, <1>4, <1>5 DEF Sound

\* An attempt that is accepted was counted nowhere yet.
LEMMA SoundAccepts ==
  ASSUME TypeOK, Sound, NEW r \in Runner, Accepts(r)
  PROVE  Sound'
<1> DEFINE X == live[r].paths
<1>1. /\ UNCHANGED <<pc, plan, queue, dead>> /\ r \notin dead
      /\ live' = [live EXCEPT ![r] = Idle]
      /\ done' = [done EXCEPT ![r] = @ \cup X]
      /\ twice' = twice \cup (X \cap UNION {done[s] : s \in Runner})
  BY DEF Accepts, Judged
<1>2. Running(r) = X
  BY <1>1 DEF Running
<1>3. X \subseteq plan[r] /\ X \cap done[r] = {} /\ X \subseteq File
  <2>1. X \subseteq File
    BY DEF TypeOK, Attempt
  <2>2. plan[r] = done[r] \cup Running(r) \cup Waiting(r) /\ done[r] \cap Running(r) = {}
    BY <1>1 DEF Sound, Whole
  <2> QED BY <2>1, <2>2, <1>2
<1> HIDE DEF X
<1>4. \A s \in Runner : X \cap done[s] = {}
  BY <1>3 DEF Sound, Apart
<1>5. twice' = {}
  BY <1>1, <1>4 DEF Sound
<1>6. /\ done'[r] = done[r] \cup X
      /\ \A s \in Runner \ {r} : done'[s] = done[s]
  BY <1>1 DEF TypeOK
<1>7. /\ Running(r)' = {}
      /\ \A s \in Runner \ {r} : Running(s)' = Running(s)
      /\ \A s \in Runner : Waiting(s)' = Waiting(s)
  BY <1>1 DEF Running, Waiting, Idle, TypeOK
<1>8. Whole'
  <2>1. ASSUME NEW s \in Runner \ dead
        PROVE  /\ plan[s] = done'[s] \cup Running(s)' \cup Waiting(s)
               /\ done'[s] \cap Running(s)' = {}
               /\ (done'[s] \cup Running(s)') \cap Waiting(s) = {}
               /\ \A i, j \in DOMAIN queue[s] : i # j => queue[s][i] \cap queue[s][j] = {}
    <3>1. /\ plan[s] = done[s] \cup Running(s) \cup Waiting(s)
          /\ done[s] \cap Running(s) = {}
          /\ (done[s] \cup Running(s)) \cap Waiting(s) = {}
          /\ \A i, j \in DOMAIN queue[s] : i # j => queue[s][i] \cap queue[s][j] = {}
      BY DEF Sound, Whole
    <3>2. CASE s = r
      BY <3>1, <3>2, <1>2, <1>6, <1>7
    <3>3. CASE s # r
      BY <3>1, <3>3, <1>6, <1>7
    <3> QED BY <3>2, <3>3
  <2> QED BY <2>1, <1>1, <1>7 DEF Whole
<1>9. Apart'
  <2>1. ASSUME NEW s \in Runner, NEW t \in Runner, s # t
        PROVE  /\ plan[s] \cap plan[t] = {}
               /\ plan[s] \cap done'[t] = {}
               /\ done'[s] \cap done'[t] = {}
    <3>1. /\ plan[s] \cap plan[t] = {} /\ plan[s] \cap done[t] = {} /\ done[s] \cap done[t] = {}
          /\ plan[t] \cap done[s] = {}
      BY <2>1 DEF Sound, Apart
    <3>2. /\ done'[t] = done[t] \/ (t = r /\ done'[t] = done[t] \cup X)
          /\ done'[s] = done[s] \/ (s = r /\ done'[s] = done[s] \cup X)
      BY <1>6
    <3> QED BY <2>1, <3>1, <3>2, <1>3, <1>4
  <2> QED BY <2>1, <1>1 DEF Apart
<1>10. Kept'
  <2>1. \A s \in Runner : done[s] \subseteq done'[s]
    BY <1>6
  <2> QED BY <2>1, <1>1 DEF Sound, Kept
<1>11. Idles'
  BY <1>1 DEF Sound, Idles, Idle, TypeOK
<1>12. Buried'
  BY <1>1 DEF Sound, Buried
<1> QED BY <1>5, <1>8, <1>9, <1>10, <1>11, <1>12 DEF Sound

\* When nothing is left to run, every file was counted.
LEMMA EndsCounted ==
  ASSUME TypeOK, Sound, Ends
  PROVE  verdict' \in {"pass", "fail"}
<1>1. /\ pc = "loop" /\ Ready = {} /\ Active = {} /\ verdict' = Account
  BY DEF Ends
<1>2. ASSUME NEW r \in Runner PROVE plan[r] \subseteq done[r]
  <2>1. CASE r \in dead
    BY <2>1 DEF Sound, Buried
  <2>2. CASE r \notin dead
    <3>1. live[r].state = "idle" /\ queue[r] = <<>>
      BY <2>2, <1>1 DEF Ready, Active
    <3>2. Running(r) = {} /\ Waiting(r) = {}
      BY <3>1 DEF Sound, Idles, Running, Waiting, FilesOf
    <3> QED BY <2>2, <3>2 DEF Sound, Whole
  <2> QED BY <2>1, <2>2
<1>3. ASSUME NEW f \in File PROVE \E r \in Runner : f \in done[r]
  BY <1>1, <1>2 DEF Sound, Kept
<1>4. UNION {done[r] : r \in Runner} = File
  BY <1>3 DEF TypeOK
<1> QED BY <1>1, <1>4 DEF Account, Sound

-----------------------------------------------------------------------------

LEMMA InitIInv == Init => IInv
<1> SUFFICES ASSUME Init PROVE IInv
  OBVIOUS
<1>1. <<>> \in Seq(SUBSET File) /\ FilesOf(<<>>) = {} /\ DOMAIN <<>> = {}
  BY DEF FilesOf
<1>2. TypeOK
  BY <1>1 DEF Init, TypeOK, Idle, Attempt
<1>3. \A r \in Runner : Running(r) = {} /\ Waiting(r) = {}
  BY <1>1 DEF Init, Running, Waiting, Idle
<1>4. Whole
  BY <1>1, <1>3 DEF Init, Whole
<1>5. Idles /\ Buried /\ Apart /\ Kept /\ twice = {}
  BY DEF Init, Idles, Idle, Buried, Apart, Kept
<1> QED BY <1>2, <1>4, <1>5 DEF Init, IInv, Blank, EachFileOnce, Sound

\* Every step keeps the books, or ends with a verdict that does not blame them.
LEMMA SoundStep ==
  ASSUME IInv, Next
  PROVE  EachFileOnce' /\ (pc' # "ended" => Sound')
<1>0. TypeOK /\ Blank /\ EachFileOnce
  BY DEF IInv
<1>1. CASE Plans
  BY <1>0, <1>1, SoundPlans DEF IInv, Plans, EachFileOnce
<1>2. CASE Starts
  BY <1>0, <1>2, SoundStarts DEF IInv, Starts, EachFileOnce
<1>3. CASE Waits \/ Loops
  <2>1. /\ pc # "ended" /\ pc # "plans" /\ pc' # "plans"
        /\ UNCHANGED <<plan, queue, done, twice, live, dead, verdict>>
    BY <1>3 DEF Waits, Loops, places
  <2>2. Sound
    BY <2>1 DEF IInv
  <2>3. Idles' /\ Whole' /\ Buried' /\ Apart' /\ Kept'
    BY <2>1, <2>2 DEF Sound, Idles, Whole, Buried, Apart, Kept, Running, Waiting
  <2> QED BY <1>0, <2>1, <2>2, <2>3 DEF Sound, EachFileOnce
<1>4. ASSUME NEW r \in Runner, Discards(r)
      PROVE  EachFileOnce' /\ (pc' # "ended" => Sound')
  BY <1>0, <1>4, SoundDiscards DEF IInv, Discards, Judged, EachFileOnce
<1>5. ASSUME NEW r \in Runner, Loses(r) \/ TimesOut(r)
      PROVE  EachFileOnce' /\ (pc' # "ended" => Sound')
  <2>1. /\ pc = "judges" /\ FailRunner(r) /\ r \notin dead
        /\ \A s \in Runner : live'[s] = live[s] \/ (s = r /\ live'[s] = Idle)
    BY <1>0, <1>5 DEF Loses, TimesOut, Judged, Active, TypeOK
  <2>2. verdict' \in {verdict, "no runner"}
    BY <1>0, <2>1, TypeFail
  <2>3. EachFileOnce'
    BY <1>0, <2>2 DEF EachFileOnce
  <2>4. Sound
    BY <2>1 DEF IInv
  <2> QED BY <1>0, <2>1, <2>3, <2>4, SoundFail
<1>6. ASSUME NEW r \in Runner, Refuses(r)
      PROVE  EachFileOnce' /\ (pc' # "ended" => Sound')
  BY <1>6 DEF Refuses, EachFileOnce
<1>7. ASSUME NEW r \in Runner, Accepts(r)
      PROVE  EachFileOnce' /\ (pc' # "ended" => Sound')
  BY <1>0, <1>7, SoundAccepts DEF IInv, Accepts, Judged, EachFileOnce
<1>8. CASE Ends
  BY <1>0, <1>8, EndsCounted DEF IInv, Ends, EachFileOnce
<1>9. ASSUME NEW r \in Runner, Finishes(r)
      PROVE  EachFileOnce' /\ (pc' # "ended" => Sound')
  BY <1>0, <1>9, SoundFinishes DEF IInv, Finishes, EachFileOnce
<1> QED BY <1>1, <1>2, <1>3, <1>4, <1>5, <1>6, <1>7, <1>8, <1>9 DEF Next, Loop, Judges

\* Nothing runs before the phase is planned.
LEMMA BlankStep == TypeOK /\ Blank /\ Next => Blank'
<1> SUFFICES ASSUME TypeOK, Blank, Next, pc' = "plans" PROVE Blank'
  BY DEF Blank
<1>1. ASSUME NEW r \in Runner, Finishes(r) PROVE FALSE
  BY <1>1 DEF Finishes, Blank, Idle
<1>2. ASSUME NEW r \in Runner, FailRunner(r), pc # "plans" PROVE FALSE
  BY <1>2 DEF FailRunner
<1>3. \A r \in Runner : ~Judges(r) /\ ~TimesOut(r)
  BY <1>2 DEF Judges, Discards, Loses, Refuses, Accepts, Judged, TimesOut
<1>4. ~(Plans \/ Starts \/ Waits \/ Loops \/ Ends)
  BY DEF Plans, Starts, Waits, Loops, Ends
<1> QED BY <1>1, <1>3, <1>4 DEF Next, Loop

\* The invariant holds in every state, for every registry and set of files.
LEMMA Invariant == Spec => []IInv
<1>1. IInv /\ [Next]_vars => IInv'
  <2> SUFFICES ASSUME IInv, [Next]_vars PROVE IInv'
    OBVIOUS
  <2>1. TypeOK'
    BY TypeStep DEF IInv
  <2>2. CASE Next
    BY <2>1, <2>2, BlankStep, SoundStep DEF IInv
  <2>3. CASE UNCHANGED vars
    BY <2>1, <2>3 DEF IInv, vars, places, marks, Blank, EachFileOnce, Sound, Idles, Whole,
       Buried, Apart, Kept, Running, Waiting
  <2> QED BY <2>2, <2>3
<1> QED BY InitIInv, <1>1, PTL DEF Spec

\* Type correctness: the books of the executor are always sets and sequences of
\* files of runners of the registry, whatever comes back.
THEOREM TypeCorrect == Spec => []TypeOK
<1>1. IInv => TypeOK
  BY DEF IInv
<1> QED BY Invariant, <1>1, PTL

\* However many runners fail, in whatever order attempts come back late, the
\* files the verdict counts are those of the phase, each counted once.
THEOREM FilesCountedOnce == Spec => []EachFileOnce
<1>1. IInv => EachFileOnce
  BY DEF IInv
<1> QED BY Invariant, <1>1, PTL

-----------------------------------------------------------------------------
(* A broken file is noticed wherever it ran and whoever ran it.            *)

\* A result names the broken files among those that were run.
Reported ==
    \A r \in Runner : live[r].state \in {"zero", "nonzero", "skipped"} =>
        broken \cap live[r].paths \subseteq live[r].bad

\* What was accepted took its failures along.
FailuresKept == \A r \in Runner : broken \cap done[r] \subseteq failed

Honest == Reported /\ FailuresKept /\ BrokenNeverPasses

\* A runner that fails touches no result, and its end is no pass.
LEMMA FailIsHonest ==
  ASSUME TypeOK, Honest, NEW r \in Runner, FailRunner(r), UNCHANGED <<marks, fixed>>,
         \A s \in Runner : live'[s] = live[s] \/ live'[s] = Idle
  PROVE  Honest'
<1>1. UNCHANGED <<done, failed, broken>> /\ verdict' \in {verdict, "no runner"}
  BY TypeFail DEF marks, fixed
<1>2. Reported'
  <2>1. ASSUME NEW s \in Runner, live'[s].state \in {"zero", "nonzero", "skipped"}
        PROVE  live'[s] = live[s]
    BY <2>1 DEF Idle
  <2> QED BY <1>1, <2>1 DEF Honest, Reported
<1>3. FailuresKept' /\ BrokenNeverPasses'
  BY <1>1 DEF Honest, FailuresKept, BrokenNeverPasses
<1> QED BY <1>2, <1>3 DEF Honest

LEMMA HonestStep == TypeOK /\ Honest /\ [Next]_vars => Honest'
<1> SUFFICES ASSUME TypeOK, Honest, [Next]_vars PROVE Honest'
  OBVIOUS
<1>1. CASE Plans
  <2>1. UNCHANGED <<live, done, failed, broken>> /\ verdict' \in {verdict, "unplaced"}
    BY <1>1 DEF Plans, marks, fixed
  <2> QED BY <2>1 DEF Honest, Reported, FailuresKept, BrokenNeverPasses
<1>2. CASE Starts
  <2>1. /\ UNCHANGED <<done, failed, broken>> /\ verdict' \in {verdict, "forbidden"}
        /\ \A r \in Runner : live'[r] = live[r] \/ live'[r].state = "running"
    BY <1>2 DEF Starts, Started, marks, fixed
  <2> QED BY <2>1 DEF Honest, Reported, FailuresKept, BrokenNeverPasses
<1>3. CASE Waits \/ Loops \/ UNCHANGED vars
  <2>1. UNCHANGED <<live, done, failed, broken, verdict>>
    BY <1>3 DEF Waits, Loops, vars, places, marks, fixed
  <2> QED BY <2>1 DEF Honest, Reported, FailuresKept, BrokenNeverPasses
<1>4. ASSUME NEW r \in Runner, Judged(r)
      PROVE  UNCHANGED broken /\ Reported'
  <2>1. UNCHANGED broken /\ \A s \in Runner : live'[s] = live[s] \/ live'[s] = Idle
    BY <1>4 DEF Judged, fixed, TypeOK
  <2> QED BY <2>1 DEF Honest, Reported, Idle
<1>5. ASSUME NEW r \in Runner, Discards(r) \/ Refuses(r) PROVE Honest'
  <2>1. /\ UNCHANGED done /\ failed \subseteq failed' /\ verdict' \in {verdict, "refused"}
    BY <1>5 DEF Discards, Refuses, places, marks
  <2>2. UNCHANGED broken /\ Reported'
    BY <1>4, <1>5 DEF Discards, Refuses
  <2> QED BY <2>1, <2>2 DEF Honest, FailuresKept, BrokenNeverPasses
<1>6. ASSUME NEW r \in Runner, Accepts(r) PROVE Honest'
  <2>1. /\ broken \cap live[r].paths \subseteq live[r].bad
        /\ done' = [done EXCEPT ![r] = @ \cup live[r].paths]
        /\ failed' = failed \cup live[r].bad /\ UNCHANGED verdict
    BY <1>6 DEF Accepts, Honest, Reported
  <2>2. UNCHANGED broken /\ Reported'
    BY <1>4, <1>6 DEF Accepts
  <2>3. FailuresKept'
    BY <2>1, <2>2 DEF Honest, FailuresKept, TypeOK
  <2> QED BY <2>1, <2>2, <2>3 DEF Honest, BrokenNeverPasses
<1>7. ASSUME NEW r \in Runner, Loses(r) \/ TimesOut(r) PROVE Honest'
  <2>1. /\ FailRunner(r) /\ UNCHANGED <<marks, fixed>>
        /\ \A s \in Runner : live'[s] = live[s] \/ live'[s] = Idle
    BY <1>7 DEF Loses, TimesOut, Judged, TypeOK
  <2> QED BY <2>1, FailIsHonest
<1>8. CASE Ends
  <2>1. UNCHANGED <<live, done, failed, broken>> /\ verdict' = Account
    BY <1>8 DEF Ends, places, marks, fixed
  <2>2. ASSUME Account = "pass" PROVE broken = {}
    <3>1. failed = {} /\ UNION {done[r] : r \in Runner} = File
      BY <2>2 DEF Account
    <3>2. ASSUME NEW f \in broken PROVE FALSE
      <4>1. PICK r \in Runner : f \in done[r]
        BY <3>1 DEF TypeOK
      <4> QED BY <4>1, <3>1 DEF Honest, FailuresKept
    <3> QED BY <3>2
  <2> QED BY <2>1, <2>2 DEF Honest, Reported, FailuresKept, BrokenNeverPasses
<1>9. ASSUME NEW r \in Runner, Finishes(r) PROVE Honest'
  <2>1. UNCHANGED <<done, failed, broken, verdict>>
    BY <1>9 DEF Finishes, places, marks, fixed
  <2>2. ASSUME NEW state, NEW bad, ComesBack(r, state, bad),
               state = "lost" \/ bad = live[r].paths \/ bad = broken \cap live[r].paths
        PROVE  Reported'
    <3>1. /\ live'[r] = [state |-> state, paths |-> live[r].paths, bad |-> bad]
          /\ \A s \in Runner \ {r} : live'[s] = live[s]
      BY <2>2 DEF ComesBack, TypeOK
    <3> QED BY <3>1, <2>1, <2>2 DEF Honest, Reported
  <2>3. Reported'
    BY <1>9, <2>2 DEF Finishes
  <2> QED BY <2>1, <2>3 DEF Honest, FailuresKept, BrokenNeverPasses
<1> QED BY <1>1, <1>2, <1>3, <1>5, <1>6, <1>7, <1>8, <1>9 DEF Next, Loop, Judges

\* No failover, no late result and no missing report turns a broken file into a
\* pass: a pass counted every file, and a broken one was reported as failed by
\* the attempt it was counted from.
THEOREM BrokenNoticed == Spec => []BrokenNeverPasses
<1>1. Init => Honest
  BY DEF Init, Honest, Reported, FailuresKept, BrokenNeverPasses, Idle
<1>2. TypeOK /\ Honest /\ [Next]_vars => Honest'
  BY HonestStep
<1>3. Honest => BrokenNeverPasses
  BY DEF Honest
<1> QED BY TypeCorrect, <1>1, <1>2, <1>3, PTL DEF Spec

=============================================================================
