----------------------------- MODULE TrainTurn -----------------------------
(***************************************************************************)
(* Several landing trains of scripts/train.py.  A train waits its turn by  *)
(* the state files of the others, builds its merge on origin/master, takes *)
(* the lock of each area it changes, and lands through                     *)
(* scripts/workflow_land.py: the suite, a last look at master, and a push  *)
(* that git refuses unless it is a fast-forward.  A master that moved is   *)
(* merged once, and the landing runs again.  A train may be stopped, or be *)
(* killed and resumed; its landing, a process of its own, is not stopped   *)
(* with it and may go on when the locks are free again.                    *)
(*                                                                         *)
(* A commit is the set of the trains merged into it: merges only add, and  *)
(* master only moves forward.  A landing runs the tests that its change    *)
(* from master selects, on the merged tree: Fails says for which change    *)
(* onto which master one of them fails, and need not see every fault.  A   *)
(* rank stands for the area and the priority.  The browser phase, its lock *)
(* and the rebase of old branches are left out.                            *)
(***************************************************************************)
EXTENDS Integers, FiniteSets

CONSTANTS
    Train,
    Area,
    Areas,      \* the areas each train changes
    Web,        \* the area of what a browser page may show
    AreaRank,   \* the fixed order locks are taken in
    Rank,       \* the boarding order of each train, lower first
    After,      \* the train each one was chained behind, or Nobody
    Nobody,
    Fails,      \* the <<master, head>> whose change selects a test that fails on head
    MaxLaunch   \* bound: launches, the first ones included

ASSUME TrainAssumption ==
    /\ Nobody \notin Train
    /\ Rank \in [Train -> Nat] /\ After \in [Train -> Train \cup {Nobody}]
    /\ Areas \in [Train -> SUBSET Area] /\ Web \in Area
    /\ AreaRank \in [Area -> Nat] /\ \A a, b \in Area : AreaRank[a] = AreaRank[b] => a = b
    /\ Fails \subseteq (SUBSET Train) \X (SUBSET Train)
    /\ MaxLaunch \in Nat

VARIABLES
    master,     \* origin/master
    file,       \* <name>.state.json: the status and the outcome of each train
    proc,       \* where the process of each train is
    tree,       \* the worktree of each train: its head, the master merged into it,
                \* and whether it lands for the second time
    locks,      \* the landing-<area> locks of each train
    orphans,    \* the landings that go on without their train
    receipts,   \* the last suite result of each commit, in lands.log
    launches    \* how many trains were launched

vars == <<master, file, proc, tree, locks, orphans, receipts, launches>>

NoFile == [status |-> "none", outcome |-> "none"]
NoTree == [head |-> {}, base |-> {}, again |-> FALSE]
Gone == {"none", "killed"}
Alive(t) == proc[t] \notin Gone

Init ==
    /\ master = {}
    /\ file = [t \in Train |-> NoFile]
    /\ proc = [t \in Train |-> "none"]
    /\ tree = [t \in Train |-> NoTree]
    /\ locks = [t \in Train |-> {}]
    /\ orphans = {}
    /\ receipts = [c \in SUBSET Train |-> "none"]
    /\ launches = 0

At(t, place) == proc[t] = place
Goes(t, place) == proc' = [proc EXCEPT ![t] = place]

\* finish(), and the finally clauses before it: the locks go, the file says how
\* the train ended.
Recorded(t, outcome) == file' = [file EXCEPT ![t] = [status |-> "done", outcome |-> outcome]]
Finishes(t, outcome) ==
    /\ Recorded(t, outcome)
    /\ Goes(t, "none")
    /\ locks' = [locks EXCEPT ![t] = {}]

-----------------------------------------------------------------------------
(* Waiting for the turn.                                                   *)

\* claim_name() and the first write of wait_turn().  A train that has a worktree
\* is resumed.
Launch(t) ==
    /\ ~Alive(t)
    /\ launches < MaxLaunch
    /\ launches' = launches + 1
    /\ file' = [file EXCEPT ![t] = [status |-> "waiting", outcome |-> "none"]]
    /\ Goes(t, "asks")
    /\ locks' = [locks EXCEPT ![t] = {}]
    /\ UNCHANGED <<master, tree, orphans, receipts>>

\* prev_outcome(): a recorded outcome wins, then a live process, then master.
PrevOutcome(p) ==
    CASE file[p] = NoFile                  -> "missing"
      [] file[p].outcome = "landed"        -> "landed"
      [] file[p].outcome # "none"          -> "ended"
      [] Alive(p)                          -> file[p].status
      [] p \in master                      -> "landed"
      [] OTHER                             -> "ended"

\* Mutant of AsksAfter: a train that ended without landing will do.
AsksAfterAnyEnd(t) ==
    /\ At(t, "asks")
    /\ After[t] # Nobody => PrevOutcome(After[t]) \notin {"waiting", "running"}
    /\ Goes(t, "ranks")
    /\ UNCHANGED <<master, file, tree, locks, orphans, receipts, launches>>

\* The train that this one is chained behind has landed, or there is none.
AsksAfter(t) ==
    /\ At(t, "asks")
    /\ After[t] # Nobody => PrevOutcome(After[t]) = "landed"
    /\ Goes(t, "ranks")
    /\ UNCHANGED <<master, file, tree, locks, orphans, receipts, launches>>

\* It ended without landing, or it never started: nothing is built.
AsksInVain(t) ==
    /\ At(t, "asks")
    /\ After[t] # Nobody
    /\ PrevOutcome(After[t]) \in {"ended", "missing"}
    /\ Finishes(t, "not_started")
    /\ UNCHANGED <<master, tree, orphans, receipts, launches>>

\* waits_on_me(): the chain of "after" of u reaches t.
Chained(u, t) ==
    \E n \in 1..Cardinality(Train) : \E link \in [0..n -> Train] :
        /\ link[0] = u /\ link[n] = t
        /\ \A i \in 0..(n - 1) : file[link[i]] # NoFile /\ After[link[i]] = link[i + 1]

\* higher_trains()
Higher(t) ==
    {u \in Train \ {t} :
        /\ file[u].status \in {"waiting", "running"} /\ Alive(u)
        /\ Rank[u] < Rank[t]
        /\ ~Chained(u, t)}

AsksRank(t) ==
    /\ At(t, "ranks")
    /\ IF Higher(t) = {}
       THEN /\ file' = [file EXCEPT ![t] = [status |-> "running", outcome |-> file[t].outcome]]
            /\ Goes(t, "builds")
       ELSE /\ Goes(t, "asks")
            /\ UNCHANGED file
    /\ UNCHANGED <<master, tree, locks, orphans, receipts, launches>>

\* Whom a waiting train waits for.
WaitsFor(t) ==
    Higher(t) \cup {p \in {After[t]} \ {Nobody} : PrevOutcome(p) \in {"waiting", "running"}}

Waiting(t) == Alive(t) /\ proc[t] \in {"asks", "ranks"}

\* Mutant of TimesOut: the deadline is looked at when there is nothing to wait for.
TimesOutTooLate(t) ==
    /\ Waiting(t)
    /\ WaitsFor(t) = {}
    /\ Finishes(t, "not_started")
    /\ UNCHANGED <<master, tree, orphans, receipts, launches>>

\* The deadline passed while the train had to wait.
TimesOut(t) ==
    /\ Waiting(t)
    /\ WaitsFor(t) # {}
    /\ Finishes(t, "not_started")
    /\ UNCHANGED <<master, tree, orphans, receipts, launches>>

-----------------------------------------------------------------------------
(* Building, the locks and the landing.                                    *)

Onto(head, again) == [head |-> head, base |-> master, again |-> again]
Merged(t, again) ==
    tree' = [tree EXCEPT ![t] = Onto(tree[t].head \cup {t} \cup master, again)]

\* create(), or on --resume merge_all() and remerge_master().
Builds(t) ==
    /\ At(t, "builds")
    /\ Merged(t, FALSE)
    /\ Goes(t, "locks")
    /\ UNCHANGED <<master, file, locks, orphans, receipts, launches>>

\* The precheck refuses, or a merge conflicts.
BuildFails(t) ==
    /\ At(t, "builds")
    /\ Finishes(t, "refused")
    /\ UNCHANGED <<master, tree, orphans, receipts, launches>>

\* lock_areas(): a web train holds the lock of its browser phase and no other.
LockAreas(t) == IF Web \in Areas[t] THEN {Web} ELSE Areas[t]

\* area_locks(): the next area in the fixed order.  A lock whose holder is gone
\* is taken over.
NextArea(t, a) == /\ a \in LockAreas(t) \ locks[t]
                  /\ \A b \in LockAreas(t) \ locks[t] : AreaRank[a] <= AreaRank[b]

HeldByOther(t, a) == \E u \in Train \ {t} : Alive(u) /\ a \in locks[u]

TakesLock(t, a) ==
    /\ At(t, "locks")
    /\ NextArea(t, a)
    /\ ~HeldByOther(t, a)
    /\ locks' = [u \in Train |-> IF u = t THEN locks[u] \cup {a} ELSE locks[u] \ {a}]
    /\ UNCHANGED <<master, file, proc, tree, orphans, receipts, launches>>

LockRefused(t, a) ==
    /\ At(t, "locks")
    /\ NextArea(t, a)
    /\ HeldByOther(t, a)
    /\ Finishes(t, "refused")
    /\ UNCHANGED <<master, tree, orphans, receipts, launches>>

\* land(): refused unless the head is ahead of the current master.
FastForward(t) == master \subseteq tree[t].head /\ master # tree[t].head

LandBegins(t) ==
    /\ At(t, "locks")
    /\ LockAreas(t) = locks[t]
    /\ Goes(t, IF FastForward(t) THEN "suite" ELSE "moved")
    /\ tree' = IF FastForward(t) THEN [tree EXCEPT ![t] = Onto(tree[t].head, tree[t].again)] ELSE tree
    /\ UNCHANGED <<master, file, locks, orphans, receipts, launches>>

\* A landing of workflow_land.py, with or without its train: impact_runner() selects
\* the tests of the change from base on the checkout of head.
Passes(head, base) == <<base, head>> \notin Fails
Noted(head, result) == receipts' = [receipts EXCEPT ![head] = result]

\* The selected tests and the privacy guards run on the head; the result is recorded.
Suite(t, result) ==
    /\ At(t, "suite")
    /\ result = "pass" => Passes(tree[t].head, tree[t].base)
    /\ Noted(tree[t].head, result)
    /\ Goes(t, IF result = "pass" THEN "looks" ELSE "moved")
    /\ UNCHANGED <<master, file, tree, locks, orphans, launches>>

LastLook(t) ==
    /\ At(t, "looks")
    /\ Goes(t, IF master = tree[t].base THEN "pushes" ELSE "moved")
    /\ UNCHANGED <<master, file, tree, locks, orphans, receipts, launches>>

\* git takes a fast-forward only.  What it took may be reported as failed.
Pushable(head) == master \subseteq head

Pushes(t, reported) ==
    /\ At(t, "pushes")
    /\ Pushable(tree[t].head)
    /\ master' = tree[t].head
    /\ Goes(t, IF reported THEN "landed" ELSE "moved")
    /\ UNCHANGED <<file, tree, locks, orphans, receipts, launches>>

PushRefused(t) ==
    /\ At(t, "pushes")
    /\ Goes(t, "moved")
    /\ UNCHANGED <<master, file, tree, locks, orphans, receipts, launches>>

\* The same steps of a landing whose train is gone.  Nothing makes it go on.
Then(o, place) == [head |-> o.head, base |-> o.base, place |-> place]
OrphanSuite(o, result) ==
    /\ o.place = "suite"
    /\ result = "pass" => Passes(o.head, o.base)
    /\ Noted(o.head, result)
    /\ orphans' = (orphans \ {o}) \cup
                   (IF result = "pass" THEN {Then(o, "looks")} ELSE {})
    /\ UNCHANGED <<master, file, proc, tree, locks, launches>>

OrphanLooks(o) ==
    /\ o.place = "looks"
    /\ orphans' = (orphans \ {o}) \cup
                   (IF master = o.base THEN {Then(o, "pushes")} ELSE {})
    /\ UNCHANGED <<master, file, proc, tree, locks, receipts, launches>>

OrphanPushes(o) ==
    /\ o.place = "pushes"
    /\ master' = IF Pushable(o.head) THEN o.head ELSE master
    /\ orphans' = orphans \ {o}
    /\ UNCHANGED <<file, proc, tree, locks, receipts, launches>>

Orphan == \E o \in orphans :
    \/ \E result \in {"pass", "fail"} : OrphanSuite(o, result)
    \/ OrphanLooks(o) \/ OrphanPushes(o)

\* Mutant of MergesMoved: the receipt of the first landing stands for the merge.
MergesMovedUntested(t) ==
    /\ At(t, "moved")
    /\ ~tree[t].again
    /\ ~(master \subseteq tree[t].head)
    /\ receipts[tree[t].head] = "pass"
    /\ Merged(t, TRUE)
    /\ Goes(t, "looks")
    /\ UNCHANGED <<master, file, locks, orphans, receipts, launches>>

\* _land_after_move(): once, when master moved and the suite did not fail.
MergesMoved(t) ==
    /\ At(t, "moved")
    /\ ~tree[t].again
    /\ ~(master \subseteq tree[t].head)
    /\ receipts[tree[t].head] # "fail"
    /\ Merged(t, TRUE)
    /\ Goes(t, "locks")
    /\ UNCHANGED <<master, file, locks, orphans, receipts, launches>>

\* A real refusal, a second one, or a merge that conflicts.
Refused(t) ==
    /\ At(t, "moved")
    /\ Finishes(t, "refused")
    /\ UNCHANGED <<master, tree, orphans, receipts, launches>>

Landed(t) ==
    /\ At(t, "landed")
    /\ Finishes(t, "landed")
    /\ UNCHANGED <<master, tree, orphans, receipts, launches>>

-----------------------------------------------------------------------------

Landing(t) == proc[t] \in {"suite", "looks", "pushes"}

\* run_land_subprocess() leaves its process alone when it is interrupted.
LeavesOrphan(t) ==
    orphans' = orphans \cup
        (IF Landing(t)
         THEN {[head |-> tree[t].head, base |-> tree[t].base, place |-> proc[t]]}
         ELSE {})

\* SIGTERM is an exception: the outcome is recorded.
Stopped(t) ==
    /\ Alive(t)
    /\ Finishes(t, "refused")
    /\ LeavesOrphan(t)
    /\ UNCHANGED <<master, tree, receipts, launches>>

\* SIGKILL, or the Mac goes down.
Killed(t) ==
    /\ Alive(t)
    /\ Goes(t, "killed")
    /\ LeavesOrphan(t)
    /\ UNCHANGED <<master, file, tree, locks, receipts, launches>>

Turn(t) == AsksAfter(t) \/ AsksInVain(t) \/ AsksRank(t)
Work(t) ==
    \/ Builds(t) \/ BuildFails(t)
    \/ (\E a \in LockAreas(t) : TakesLock(t, a) \/ LockRefused(t, a))
    \/ LandBegins(t)
    \/ (\E result \in {"pass", "fail"} : Suite(t, result))
    \/ LastLook(t)
    \/ (\E reported \in BOOLEAN : Pushes(t, reported))
    \/ PushRefused(t)
    \/ MergesMoved(t) \/ Refused(t) \/ Landed(t)

Next ==
    \/ \E t \in Train :
          Launch(t) \/ Turn(t) \/ TimesOut(t) \/ Work(t) \/ Stopped(t) \/ Killed(t)
    \/ Orphan

Spec == Init /\ [][Next]_vars

-----------------------------------------------------------------------------

Places == {"none", "killed", "asks", "ranks", "builds", "locks", "suite", "looks", "pushes",
           "moved", "landed"}

TypeOK ==
    /\ master \subseteq Train
    /\ file \in [Train -> [status : {"none", "waiting", "running", "done"},
                           outcome : {"none", "landed", "refused", "not_started"}]]
    /\ proc \in [Train -> Places]
    /\ tree \in [Train -> [head : SUBSET Train, base : SUBSET Train, again : BOOLEAN]]
    /\ locks \in [Train -> SUBSET Area]
    /\ orphans \subseteq [head : SUBSET Train, base : SUBSET Train,
                         place : {"suite", "looks", "pushes"}]
    /\ receipts \in [SUBSET Train -> {"none", "pass", "fail"}]
    /\ launches \in 0..MaxLaunch

\* Master moves only by a change whose own tests passed on the very commit that it
\* makes of that master, however the landings interleave and whoever died: a run
\* against an older master, or on a head without it, never counts.
LandedAsTested == [][master' # master => Passes(master', master)]_vars

\* A train that was chained behind another one builds only on a master that has it.
ChainKept ==
    \A t \in Train :
        Alive(t) /\ proc[t] # "asks" /\ After[t] # Nobody => After[t] \in master

\* A train that landed stays landed: no push takes a commit off master.
NothingLost == [][master \subseteq master']_vars

\* Two live trains that change the same area never land side by side, unless one of
\* them is a web train and the other is not.
OneTrainPerArea ==
    \A t, u \in Train :
        t # u /\ Landing(t) /\ Landing(u) =>
            \/ Areas[t] \cap Areas[u] = {}
            \/ (Web \in Areas[t]) # (Web \in Areas[u])

\* Every launched train ends.
EveryTrainEnds == \A t \in Train : Alive(t) ~> ~Alive(t)

FairSpec == Spec /\ \A t \in Train : WF_vars(Turn(t) \/ Work(t)) /\ WF_vars(TimesOut(t))

\* Trains never wait for each other in a circle.
NoWaitCycle ==
    ~\E S \in SUBSET {t \in Train : Waiting(t)} :
        S # {} /\ \A t \in S : WaitsFor(t) \cap S # {}

=============================================================================
