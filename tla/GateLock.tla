------------------------------ MODULE GateLock ------------------------------
(***************************************************************************)
(* The landing gate's lock files, src/companion/gate_lock.py.              *)
(*                                                                         *)
(* Each kind of gate run has one lock file.  A wrapper (`gate_lock.py run`)*)
(* inspects the files that conflict with its kind one after another, each  *)
(* under that file's own guard, then publishes its own file, starts the    *)
(* gate command in a session of its own, records the command's pid in the  *)
(* lock, waits for it and removes the lock.  An action is what happens     *)
(* under one guard, or one system call between two guards; the wrapper can *)
(* be killed between any two of them.                                      *)
(*                                                                         *)
(* A lock always holds complete metadata (it is linked or replaced whole), *)
(* so the grace for unreadable files never applies to locks written here.  *)
(* A pid is recorded with its start time: a recycled pid is not the owner. *)
(***************************************************************************)
EXTENDS Naturals

CONSTANTS
    Proc,       \* wrapper processes; each takes a lock at most once
    Waiter,     \* processes that run `gate_lock.py wait`
    WaitKind,   \* the kind whose lock each of them waits for
    Area,       \* the areas that have a kind of their own
    Rank,       \* each kind's place in the code's table of lock files
    None

Base == {"single", "landing", "gpu"}
Kind == Base \cup Area

ASSUME KindAssumption == Base \cap Area = {}
ASSUME RankAssumption == Rank \in [Kind -> Nat]
ASSUME WaitKindAssumption == WaitKind \in [Waiter -> Kind]
ASSUME NoneAssumption == None \notin Proc \cup Kind

VARIABLES
    lock,       \* lock file of each kind: its owner and whether the gate
                \* command's pid is recorded, NoLock when there is none
    pc,         \* where each wrapper is
    want,       \* the kind each wrapper runs as
    todo,       \* conflicting files a wrapper has still to inspect
    child,      \* the gate command each wrapper started
    waiting,    \* the waiters that poll the gate
    left        \* conflicting files a waiter's poll has still to inspect

waitVars == <<waiting, left>>
gateVars == <<lock, pc, want, todo, child, waitVars>>

NoLock == [owner |-> None, recorded |-> FALSE]

\* conflicting(): single excludes every kind; landing excludes single and the
\* areas; an area and gpu exclude single, an area excludes landing as well.
Conflicting(k) ==
    CASE k = "single"  -> Kind
      [] k = "landing" -> {"single", "landing"} \cup Area
      [] k \in Area    -> {"single", "landing", k}
      [] OTHER         -> {"single", k}

Others(k) == Conflicting(k) \ {k}

ProcAlive(p) == pc[p] \notin {"killed", "done"}

\* Mutant of Live: the recorded command is not looked at.
LiveWrapper(k) == lock[k] # NoLock /\ ProcAlive(lock[k].owner)

\* live(): the wrapper runs, or the command whose pid it recorded does.
Live(k) ==
    /\ lock[k] # NoLock
    /\ \/ ProcAlive(lock[k].owner)
       \/ lock[k].recorded /\ child[lock[k].owner] = "running"

\* Mutants of Inspected: the file is always cleared, or never.
InspectedGone(k) == NoLock
InspectedKept(k) == lock[k]

\* _holder(): the file as an inspection under its guard leaves it.
Inspected(k) == IF Live(k) THEN lock[k] ELSE NoLock

Goto(p, at) == pc' = [pc EXCEPT ![p] = at]

GateInit ==
    /\ lock = [k \in Kind |-> NoLock]
    /\ pc = [p \in Proc |-> "idle"]
    /\ want = [p \in Proc |-> None]
    /\ todo = [p \in Proc |-> {}]
    /\ child = [p \in Proc |-> "none"]
    /\ waiting = {}
    /\ left = [r \in Waiter |-> {}]

-----------------------------------------------------------------------------
(* acquire()                                                               *)

Start(p, k) ==
    /\ pc[p] = "idle"
    /\ want' = [want EXCEPT ![p] = k]
    /\ todo' = [todo EXCEPT ![p] = Others(k)]
    /\ Goto(p, "checking")
    /\ UNCHANGED <<lock, child, waitVars>>

\* holder(other): a stale file is cleared; a live one refuses the run, which
\* may be tried again later.
CheckOther(p) ==
    /\ pc[p] = "checking"
    /\ \E k \in todo[p] :
          /\ \A j \in todo[p] : Rank[k] <= Rank[j]
          /\ lock' = [lock EXCEPT ![k] = Inspected(k)]
          /\ IF Live(k)
             THEN Goto(p, "idle") /\ todo' = [todo EXCEPT ![p] = {}]
             ELSE UNCHANGED pc /\ todo' = [todo EXCEPT ![p] = @ \ {k}]
    /\ UNCHANGED <<want, child, waitVars>>

\* Under the guard of its own file: refuse, or clear what is stale and link.
Publish(p) ==
    /\ pc[p] = "checking"
    /\ todo[p] = {}
    /\ IF Live(want[p])
       THEN Goto(p, "idle") /\ UNCHANGED lock
       ELSE /\ lock' = [lock EXCEPT ![want[p]] = [owner |-> p, recorded |-> FALSE]]
            /\ Goto(p, "holding")
    /\ UNCHANGED <<want, todo, child, waitVars>>

-----------------------------------------------------------------------------
(* run()                                                                   *)

Launch(p) ==
    /\ pc[p] = "holding"
    /\ child' = [child EXCEPT ![p] = "running"]
    /\ Goto(p, "launched")
    /\ UNCHANGED <<lock, want, todo, waitVars>>

\* Popen raises OSError: the finally clause releases the lock.
LaunchFails(p) ==
    /\ pc[p] = "holding"
    /\ Goto(p, "releasing")
    /\ UNCHANGED <<lock, want, todo, child, waitVars>>

RecordChild(p) ==
    /\ pc[p] = "launched"
    /\ lock' = [lock EXCEPT ![want[p]] =
                  IF @.owner = p THEN [@ EXCEPT !.recorded = TRUE] ELSE @]
    /\ Goto(p, "waiting")
    /\ UNCHANGED <<want, todo, child, waitVars>>

\* The gate command ends, by itself or by a forwarded signal.
ChildExits(p) ==
    /\ child[p] = "running"
    /\ child' = [child EXCEPT ![p] = "exited"]
    /\ UNCHANGED <<lock, pc, want, todo, waitVars>>

ChildReaped(p) ==
    /\ pc[p] = "waiting"
    /\ child[p] = "exited"
    /\ Goto(p, "releasing")
    /\ UNCHANGED <<lock, want, todo, child, waitVars>>

Release(p) ==
    /\ pc[p] = "releasing"
    /\ lock' = [lock EXCEPT ![want[p]] = IF @.owner = p THEN NoLock ELSE @]
    /\ Goto(p, "done")
    /\ UNCHANGED <<want, todo, child, waitVars>>

-----------------------------------------------------------------------------
(* The environment and the readers                                         *)

\* SIGKILL of the wrapper; the gate command runs on in its own session.
Kill(p) ==
    /\ pc[p] \in {"checking", "holding", "launched", "waiting", "releasing"}
    /\ Goto(p, "killed")
    /\ UNCHANGED <<lock, want, todo, child, waitVars>>

\* `gate_lock.py status` or a second reader inspects a file, and clears it when
\* it is stale.
Reader(k) ==
    /\ lock[k] # NoLock
    /\ lock' = [lock EXCEPT ![k] = Inspected(k)]
    /\ UNCHANGED <<pc, want, todo, child, waitVars>>

\* wait(): the polls of one waiter.  Each poll, blocking(), inspects the
\* conflicting files in the table's order and stops at the first holder.
WaitBegins(r) ==
    /\ r \notin waiting
    /\ waiting' = waiting \cup {r}
    /\ left' = [left EXCEPT ![r] = Conflicting(WaitKind[r])]
    /\ UNCHANGED <<lock, pc, want, todo, child>>

\* The files a poll has to inspect after it found this in the file of kind k:
\* a holder ends the poll, and the next one starts over.
StillLeft(r, k) ==
    IF Inspected(k) # NoLock THEN Conflicting(WaitKind[r]) ELSE left[r] \ {k}

WaitInspects(r) ==
    /\ r \in waiting
    /\ \E k \in left[r] :
          /\ \A j \in left[r] : Rank[k] <= Rank[j]
          /\ lock' = [lock EXCEPT ![k] = Inspected(k)]
          /\ left' = [left EXCEPT ![r] = StillLeft(r, k)]
          /\ waiting' = IF StillLeft(r, k) = {} THEN waiting \ {r} ELSE waiting
    /\ UNCHANGED <<pc, want, todo, child>>

\* The deadline passes, which is looked at only before a poll.
WaitGivesUp(r) ==
    /\ r \in waiting
    /\ left[r] = Conflicting(WaitKind[r])
    /\ waiting' = waiting \ {r}
    /\ left' = [left EXCEPT ![r] = {}]
    /\ UNCHANGED <<lock, pc, want, todo, child>>

-----------------------------------------------------------------------------

Wrapper(p) ==
    \/ \E k \in Kind : Start(p, k)
    \/ CheckOther(p)
    \/ Publish(p)
    \/ Launch(p)
    \/ LaunchFails(p)
    \/ RecordChild(p)
    \/ ChildReaped(p)
    \/ Release(p)

GateNext ==
    \/ \E p \in Proc : Wrapper(p) \/ ChildExits(p) \/ Kill(p)
    \/ \E k \in Kind : Reader(k)
    \/ \E r \in Waiter : WaitBegins(r) \/ WaitInspects(r) \/ WaitGivesUp(r)

GateSpec == GateInit /\ [][GateNext]_gateVars

\* A waiter that has not given up goes on polling; nothing else is fair.
FairGateSpec == GateSpec /\ \A r \in Waiter : WF_gateVars(WaitInspects(r))

-----------------------------------------------------------------------------
(* Properties.                                                             *)

PC == {"idle", "checking", "holding", "launched", "waiting", "releasing",
       "done", "killed"}

Lock == [owner: Proc, recorded: BOOLEAN]

\* Every lock file is absent or complete, and every wrapper that left idle
\* knows the kind it runs as.
GateTypeOK ==
    /\ lock \in [Kind -> Lock \cup {NoLock}]
    /\ pc \in [Proc -> PC]
    /\ want \in [Proc -> Kind \cup {None}]
    /\ todo \in [Proc -> SUBSET Kind]
    /\ child \in [Proc -> {"none", "running", "exited"}]
    /\ \A p \in Proc : pc[p] # "idle" => want[p] \in Kind
    /\ waiting \subseteq Waiter
    /\ left \in [Waiter -> SUBSET Kind]

\* p is inside the gate: its wrapper lives between publish and release, or
\* was killed after the running command's pid reached the lock.
OwnsFile(p) == want[p] \in Kind /\ lock[want[p]].owner = p

InGate(p) ==
    \/ pc[p] \in {"holding", "launched", "waiting", "releasing"}
    \/ /\ pc[p] = "killed" /\ child[p] = "running"
       /\ OwnsFile(p) /\ lock[want[p]].recorded

\* Two runs of one kind never hold the gate together, across kills, stale
\* locks cleared by readers, and commands that outlive their wrapper.
SameKindExclusive ==
    \A p, q \in Proc :
        p # q /\ InGate(p) /\ InGate(q) => want[p] # want[q]

\* A wrapper inside the gate still finds its own lock on disk: no reader took
\* it for stale and no other run replaced it.
HolderKeepsLock ==
    \A p \in Proc : InGate(p) => OwnsFile(p)

\* A recorded gate command keeps the lock for as long as it runs: no step
\* removes or replaces the file before the command has ended, except the
\* release that follows its end.
RecordedChildGuards ==
    \A k \in Kind :
        lock[k].recorded /\ child[lock[k].owner] = "running"
        => lock'[k] = lock[k]
ChildOutlivesWrapper == [][RecordedChildGuards]_gateVars

\* A waiter that keeps polling is told that the gate is free unless live runs
\* keep taking it: however many locks dead processes left in front of one
\* another, they hold no waiter back for good.
LiveRunBlocks(r) == \E k \in Conflicting(WaitKind[r]) : Live(k)
WaitEnds ==
    \A r \in Waiter : r \in waiting ~> r \notin waiting \/ LiveRunBlocks(r)

=============================================================================
