--------------------------- MODULE SharedFileProofs ---------------------------
(***************************************************************************)
(* Theorems about three files that processes share, for any sizes.         *)
(*                                                                         *)
(* The lock, GateLock: two runs of one kind are never in the gate together,*)
(* and a recorded gate command keeps its lock.  HolderKeepsLock is the     *)
(* inductive invariant: exclusion follows because one file names one owner.*)
(*                                                                         *)
(* The queue, MergeQueue, for any shas, candidates and times: what was     *)
(* reported stays, and the journal implements a queue of owned entries.    *)
(* The argument is what replay makes of a line appended to the journal.    *)
(* Every plan of such a queue is layered: the loop of plan() is followed   *)
(* by induction on its rounds, with LayeredSoFar as its loop invariant.    *)
(*                                                                         *)
(* The record, RunRecord: a worker dispatches a second time only on a count *)
(* it found unused.  SpentInv says so of every record that can still be    *)
(* written back, on disk or loaded, so no stale write can take back more   *)
(* than one count of a record.                                             *)
(***************************************************************************)
EXTENDS GateLock, MergeQueue, RunRecord, FiniteSetTheorems, TLAPS

\* What a status reader and a poll of a waiter do to the lock files.
ReadsFile(k) ==
    /\ lock' = [lock EXCEPT ![k] = Inspected(k)]
    /\ UNCHANGED <<pc, want, todo, child>>

WaiterAtRest(r) == WaitBegins(r) \/ WaitGivesUp(r)

\* Every reader's step inspects one file, or leaves the locks and the wrappers
\* alone.
LEMMA ReadersInspect ==
    ASSUME GateTypeOK
    PROVE  /\ \A k \in Kind : Reader(k) => ReadsFile(k)
           /\ \A r \in Waiter : WaitInspects(r) => \E k \in Kind : ReadsFile(k)
           /\ \A r \in Waiter : WaiterAtRest(r) => UNCHANGED <<lock, pc, want, todo, child>>
  BY DEF GateTypeOK, Reader, WaitInspects, WaiterAtRest, WaitBegins, WaitGivesUp, ReadsFile

\* The files a kind conflicts with are lock files.
LEMMA ConflictsAreKinds == \A k \in Kind : Conflicting(k) \in SUBSET Kind
  BY DEF Conflicting, Kind, Base

LEMMA LockTypeInit == GateInit => GateTypeOK
  BY DEF GateInit, GateTypeOK, PC, NoLock

LEMMA LockTypeKept == GateTypeOK /\ [GateNext]_gateVars => GateTypeOK'
<1> SUFFICES ASSUME GateTypeOK, [GateNext]_gateVars
             PROVE  GateTypeOK'
  OBVIOUS
<1> USE DEF GateTypeOK, PC, Goto, waitVars
<1>1. ASSUME NEW p \in Proc, NEW k \in Kind, Start(p, k)
      PROVE  GateTypeOK'
  BY <1>1 DEF Start, Others, Conflicting, Kind, Base
<1>2. ASSUME NEW p \in Proc, CheckOther(p)
      PROVE  GateTypeOK'
  <2>1. PICK k \in todo[p] : /\ lock' = [lock EXCEPT ![k] = Inspected(k)]
                             /\ pc' \in {pc, [pc EXCEPT ![p] = "idle"]}
                             /\ todo' \in {[todo EXCEPT ![p] = {}], [todo EXCEPT ![p] = @ \ {k}]}
    BY <1>2 DEF CheckOther
  <2>2. k \in Kind
    OBVIOUS
  <2>3. lock' \in [Kind -> Lock \cup {NoLock}]
    BY <2>1, <2>2 DEF Inspected
  <2>4. QED
    BY <1>2, <2>1, <2>2, <2>3 DEF CheckOther
<1>3. ASSUME NEW p \in Proc, Publish(p)
      PROVE  GateTypeOK'
  <2>1. want[p] \in Kind
    BY <1>3 DEF Publish
  <2>2. CASE Live(want[p])
    BY <1>3, <2>1, <2>2 DEF Publish
  <2>3. CASE ~Live(want[p])
    <3>1. [owner |-> p, recorded |-> FALSE] \in Lock
      BY DEF Lock
    <3>2. lock' = [lock EXCEPT ![want[p]] = [owner |-> p, recorded |-> FALSE]]
      BY <1>3, <2>3 DEF Publish
    <3>3. lock' \in [Kind -> Lock \cup {NoLock}]
      BY <2>1, <3>1, <3>2
    <3>4. QED
      BY <1>3, <2>1, <2>3, <3>3 DEF Publish
  <2>4. QED
    BY <2>2, <2>3
<1>4. ASSUME NEW p \in Proc, Launch(p) \/ LaunchFails(p) \/ ChildExits(p) \/ ChildReaped(p) \/ Kill(p)
      PROVE  GateTypeOK'
  BY <1>4 DEF Launch, LaunchFails, ChildExits, ChildReaped, Kill
<1>5. ASSUME NEW p \in Proc, RecordChild(p)
      PROVE  GateTypeOK'
  <2>1. want[p] \in Kind
    BY <1>5 DEF RecordChild
  <2>2. lock[want[p]].owner = p =>
           [lock[want[p]] EXCEPT !.recorded = TRUE] \in Lock
    <3>1. lock[want[p]].owner = p => lock[want[p]] \in Lock
      BY <2>1, NoneAssumption DEF NoLock
    <3>2. QED
      BY <3>1 DEF Lock
  <2>3. lock' \in [Kind -> Lock \cup {NoLock}]
    BY <1>5, <2>1, <2>2 DEF RecordChild
  <2>4. QED
    BY <1>5, <2>1, <2>3 DEF RecordChild
<1>6. ASSUME NEW p \in Proc, Release(p)
      PROVE  GateTypeOK'
  BY <1>6 DEF Release, Lock
<1>7. ASSUME NEW k \in Kind, Reader(k)
      PROVE  GateTypeOK'
  BY <1>7 DEF Reader, Inspected
<1>8. ASSUME NEW r \in Waiter, WaitInspects(r)
      PROVE  GateTypeOK'
  <2>1. PICK k \in left[r] : /\ lock' = [lock EXCEPT ![k] = Inspected(k)]
                             /\ left' = [left EXCEPT ![r] = StillLeft(r, k)]
                             /\ waiting' \in {waiting, waiting \ {r}}
    BY <1>8 DEF WaitInspects
  <2>2. StillLeft(r, k) \in SUBSET Kind
    BY ConflictsAreKinds, WaitKindAssumption DEF StillLeft
  <2>3. k \in Kind /\ lock' \in [Kind -> Lock \cup {NoLock}]
    BY <2>1 DEF Inspected
  <2>4. QED
    BY <1>8, <2>1, <2>2, <2>3 DEF WaitInspects
<1>9. ASSUME NEW r \in Waiter, WaiterAtRest(r)
      PROVE  GateTypeOK'
  BY <1>9, ConflictsAreKinds, WaitKindAssumption DEF WaiterAtRest, WaitBegins, WaitGivesUp
<1>10. CASE UNCHANGED gateVars
  BY <1>10 DEF gateVars, waitVars
<1>11. QED
  BY <1>1, <1>2, <1>3, <1>4, <1>5, <1>6, <1>7, <1>8, <1>9, <1>10
     DEF GateNext, Wrapper, WaiterAtRest

\* Every lock file is absent or complete, in every reachable state.
THEOREM LockTypeCorrect == GateSpec => []GateTypeOK
  BY LockTypeInit, LockTypeKept, PTL DEF GateSpec

-----------------------------------------------------------------------------

\* The lock of a wrapper inside the gate is live, so an inspection keeps it.
LEMMA InGateIsLive ==
    ASSUME NEW p \in Proc, InGate(p), OwnsFile(p)
    PROVE  Live(want[p])
  BY NoneAssumption DEF InGate, OwnsFile, Live, ProcAlive, NoLock

LEMMA HolderNext == GateTypeOK /\ HolderKeepsLock /\ [GateNext]_gateVars => HolderKeepsLock'
<1> SUFFICES ASSUME GateTypeOK, HolderKeepsLock, [GateNext]_gateVars, NEW p \in Proc, InGate(p)'
             PROVE  OwnsFile(p)'
  BY DEF HolderKeepsLock
<1> USE DEF GateTypeOK, Goto, NoLock, Lock
<1>1. ASSUME NEW q \in Proc, NEW k \in Kind, Start(q, k)
      PROVE  OwnsFile(p)'
  BY <1>1 DEF Start, InGate, OwnsFile, HolderKeepsLock
<1>2. ASSUME NEW q \in Proc, CheckOther(q)
      PROVE  OwnsFile(p)'
  <2>1. InGate(p)
    BY <1>2 DEF CheckOther, InGate, OwnsFile, Inspected
  <2>2. OwnsFile(p) /\ Live(want[p])
    BY <2>1, InGateIsLive DEF HolderKeepsLock
  <2>3. lock'[want[p]] = lock[want[p]] /\ want' = want
    BY <1>2, <2>2 DEF CheckOther, Inspected, OwnsFile
  <2>4. QED
    BY <2>2, <2>3 DEF OwnsFile
<1>3. ASSUME NEW q \in Proc, Publish(q)
      PROVE  OwnsFile(p)'
  <2>1. CASE InGate(p)
    <3>1. OwnsFile(p) /\ Live(want[p])
      BY <2>1, InGateIsLive DEF HolderKeepsLock
    <3>2. lock'[want[p]] = lock[want[p]] /\ want' = want
      BY <1>3, <3>1 DEF Publish, OwnsFile
    <3>3. QED
      BY <3>1, <3>2 DEF OwnsFile
  <2>2. CASE ~InGate(p)
    <3>1. p = q \/ OwnsFile(p)'
      BY <1>3, <2>2 DEF Publish, InGate, OwnsFile
    <3>2. CASE p = q
      BY <1>3, <3>2 DEF Publish, InGate, OwnsFile
    <3>3. QED
      BY <3>1, <3>2
  <2>3. QED
    BY <2>1, <2>2
<1>4. ASSUME NEW q \in Proc, Launch(q) \/ LaunchFails(q) \/ ChildExits(q) \/ ChildReaped(q) \/ Kill(q)
      PROVE  OwnsFile(p)'
  BY <1>4 DEF Launch, LaunchFails, ChildExits, ChildReaped, Kill, InGate, OwnsFile, HolderKeepsLock
<1>5. ASSUME NEW q \in Proc, RecordChild(q)
      PROVE  OwnsFile(p)'
  BY <1>5 DEF RecordChild, InGate, OwnsFile, HolderKeepsLock
<1>6. ASSUME NEW q \in Proc, Release(q)
      PROVE  OwnsFile(p)'
  BY <1>6 DEF Release, InGate, OwnsFile, HolderKeepsLock
<1>7. ASSUME NEW k \in Kind, ReadsFile(k)
      PROVE  OwnsFile(p)'
  <2>1. InGate(p)
    BY <1>7 DEF ReadsFile, InGate, OwnsFile, Inspected
  <2>2. OwnsFile(p) /\ Live(want[p])
    BY <2>1, InGateIsLive DEF HolderKeepsLock
  <2>3. lock'[want[p]] = lock[want[p]] /\ want' = want
    BY <1>7, <2>2 DEF ReadsFile, Inspected, OwnsFile
  <2>4. QED
    BY <2>2, <2>3 DEF OwnsFile
<1>8. CASE UNCHANGED <<lock, pc, want, todo, child>>
  BY <1>8 DEF InGate, OwnsFile, HolderKeepsLock
<1>9. QED
  BY <1>1, <1>2, <1>3, <1>4, <1>5, <1>6, <1>7, <1>8, ReadersInspect
     DEF GateNext, Wrapper, WaiterAtRest, gateVars

\* A wrapper inside the gate always finds its own lock on disk, however many
\* runs and readers inspect and clear the file meanwhile.
THEOREM HolderKeeps == GateSpec => []HolderKeepsLock
<1>1. GateInit => HolderKeepsLock
  BY DEF GateInit, HolderKeepsLock, InGate
<1>2. QED
  BY <1>1, HolderNext, LockTypeCorrect, PTL DEF GateSpec

\* Two runs of one kind are never in the gate together.
THEOREM SameKindExcluded == GateSpec => []SameKindExclusive
<1>1. HolderKeepsLock => SameKindExclusive
  BY DEF HolderKeepsLock, SameKindExclusive, OwnsFile
<1>2. QED
  BY <1>1, HolderKeeps, PTL

\* Where a wrapper is says what its command can be doing: none before the
\* launch, and none running once the wrapper has come to its release.
ChildStages ==
    \A p \in Proc :
        /\ pc[p] \in {"idle", "checking", "holding"} => child[p] = "none"
        /\ pc[p] = "releasing" => child[p] # "running"

LEMMA StagesNext == GateTypeOK /\ ChildStages /\ [GateNext]_gateVars => ChildStages'
<1> SUFFICES ASSUME GateTypeOK, ChildStages, [GateNext]_gateVars
             PROVE  ChildStages'
  OBVIOUS
<1> USE DEF GateTypeOK, Goto, ChildStages
<1>1. ASSUME NEW q \in Proc, NEW k \in Kind, Start(q, k)
      PROVE  ChildStages'
  BY <1>1 DEF Start
<1>2. ASSUME NEW q \in Proc, CheckOther(q) \/ Publish(q)
      PROVE  ChildStages'
  BY <1>2 DEF CheckOther, Publish
<1>3. ASSUME NEW q \in Proc,
             \/ Launch(q) \/ LaunchFails(q) \/ RecordChild(q)
             \/ ChildExits(q) \/ ChildReaped(q) \/ Release(q) \/ Kill(q)
      PROVE  ChildStages'
  BY <1>3 DEF Launch, LaunchFails, RecordChild, ChildExits, ChildReaped, Release, Kill
<1>4. CASE (\E k \in Kind : ReadsFile(k)) \/ UNCHANGED <<lock, pc, want, todo, child>>
  BY <1>4 DEF ReadsFile
<1>5. QED
  BY <1>1, <1>2, <1>3, <1>4, ReadersInspect DEF GateNext, Wrapper, WaiterAtRest, gateVars

LEMMA StepGuards == GateTypeOK /\ ChildStages /\ [GateNext]_gateVars => RecordedChildGuards
<1> SUFFICES ASSUME GateTypeOK, ChildStages, [GateNext]_gateVars, NEW k \in Kind,
                    lock[k].recorded, child[lock[k].owner] = "running"
             PROVE  lock'[k] = lock[k]
  BY DEF RecordedChildGuards
<1>1. lock[k] \in Lock /\ lock[k] # NoLock
  BY NoneAssumption DEF GateTypeOK, NoLock, Lock
<1>2. Live(k)
  BY <1>1 DEF Live
<1>3. ASSUME NEW q \in Proc, CheckOther(q) \/ Publish(q)
      PROVE  lock'[k] = lock[k]
  BY <1>2, <1>3 DEF CheckOther, Publish, Inspected, GateTypeOK
<1>4. ASSUME NEW q \in Proc, RecordChild(q)
      PROVE  lock'[k] = lock[k]
  BY <1>1, <1>4 DEF RecordChild, GateTypeOK, Lock
<1>5. ASSUME NEW q \in Proc, Release(q)
      PROVE  lock'[k] = lock[k]
  BY <1>1, <1>5 DEF Release, GateTypeOK, ChildStages
<1>6. CASE \E j \in Kind : ReadsFile(j)
  BY <1>2, <1>6 DEF ReadsFile, Inspected, GateTypeOK
<1>7. ASSUME NEW q \in Proc,
             \/ \E j \in Kind : Start(q, j)
             \/ Launch(q) \/ LaunchFails(q) \/ ChildExits(q) \/ ChildReaped(q) \/ Kill(q)
      PROVE  lock'[k] = lock[k]
  BY <1>7 DEF Start, Launch, LaunchFails, ChildExits, ChildReaped, Kill
<1>8. QED
  BY <1>3, <1>4, <1>5, <1>6, <1>7, ReadersInspect DEF GateNext, Wrapper, WaiterAtRest, gateVars

\* While a recorded gate command runs, no step of any wrapper or reader
\* removes or replaces the lock that stands for it.
THEOREM CommandGuarded == GateSpec => ChildOutlivesWrapper
<1>1. GateInit => ChildStages
  BY DEF GateInit, ChildStages
<1>2. GateTypeOK /\ ChildStages /\ [GateNext]_gateVars => [RecordedChildGuards]_gateVars
  BY StepGuards
<1>3. QED
  BY <1>1, <1>2, StagesNext, LockTypeCorrect, PTL DEF GateSpec, ChildOutlivesWrapper

-----------------------------------------------------------------------------
(* The journal of the queue.                                               *)

Line == Row \cup {Unreadable}

\* A new last line decides about its own sha and leaves the others alone.
LEMMA ReplayOfAppend ==
    ASSUME NEW lines \in Seq(Line), NEW row \in Line, NEW s \in Sha
    PROVE  Replayed(Append(lines, row), s) =
               IF row.sha = s THEN row.entry ELSE Replayed(lines, s)
<1> DEFINE longer == Append(lines, row)
           n == Len(lines) + 1
<1>1. /\ DOMAIN lines = 1..Len(lines)
      /\ DOMAIN longer = 1..n
      /\ Len(lines) \in Nat
      /\ longer[n] = row
      /\ \A i \in 1..Len(lines) : longer[i] = lines[i]
    OBVIOUS
<1>2. CASE row.sha = s
    <2>1. LastRows(longer, s) = {n}
        BY <1>1, <1>2 DEF LastRows
    <2>2. (CHOOSE i \in {n} : TRUE) = n
        OBVIOUS
    <2> QED
        BY <1>1, <1>2, <2>1, <2>2 DEF Replayed
<1>3. CASE row.sha # s
    <2>1. LastRows(longer, s) = LastRows(lines, s)
        <3>1. ASSUME NEW i \in 1..n PROVE i \in LastRows(longer, s) <=> i \in LastRows(lines, s)
            BY <1>1, <1>3 DEF LastRows
        <3> QED
            BY <1>1, <3>1 DEF LastRows
    <2>2. CASE LastRows(lines, s) = {}
        BY <1>3, <2>1, <2>2 DEF Replayed
    <2>3. CASE LastRows(lines, s) # {}
        <3>1. (CHOOSE i \in LastRows(lines, s) : TRUE) \in LastRows(lines, s)
            BY <2>3
        <3>2. longer[CHOOSE i \in LastRows(lines, s) : TRUE] =
                  lines[CHOOSE i \in LastRows(lines, s) : TRUE]
            BY <1>1, <3>1 DEF LastRows
        <3> QED
            BY <1>3, <2>1, <2>3, <3>2 DEF Replayed
    <2> QED
        BY <2>2, <2>3
<1> QED
    BY <1>2, <1>3

\* An unreadable line changes nothing.
LEMMA ReplayOfUnreadable ==
    ASSUME NEW lines \in Seq(Line), NEW s \in Sha
    PROVE  Replayed(Append(lines, Unreadable), s) = Replayed(lines, s)
<1>1. Unreadable.sha # s
    BY ShaAssumption DEF Unreadable
<1> QED
    BY <1>1, ReplayOfAppend DEF Line

\* Replay yields an entry that was written, or none.
LEMMA ReplayType ==
    ASSUME NEW lines \in Seq(Line), NEW s \in Sha
    PROVE  Replayed(lines, s) \in Entries \cup {Absent}
<1>1. CASE LastRows(lines, s) = {}
    BY <1>1 DEF Replayed
<1>2. CASE LastRows(lines, s) # {}
    <2> DEFINE i == CHOOSE j \in LastRows(lines, s) : TRUE
    <2>1. i \in DOMAIN lines
        BY <1>2 DEF LastRows
    <2>2. lines[i] \in Line
        BY <2>1
    <2>3. lines[i].entry \in Entries \cup {Absent}
        BY <2>2 DEF Line, Row, Unreadable
    <2> QED
        BY <1>2, <2>3 DEF Replayed
<1> QED
    BY <1>1, <1>2

-----------------------------------------------------------------------------

\* Storing a join time changes nothing else of a candidate.
LEMMA StoredCandidate ==
    ASSUME NEW c \in Candidates, NEW t \in Time
    PROVE  /\ [c EXCEPT !.joined_at = t] \in CandidateType
           /\ [c EXCEPT !.joined_at = t].sha = c.sha
           /\ [c EXCEPT !.joined_at = t].owner = c.owner
           /\ [c EXCEPT !.joined_at = t].joined_at = t
<1>1. c \in CandidateType
    BY CandidatesAssumption
<1> QED
    BY <1>1 DEF CandidateType

LEMMA EntriesTyped == Entries \subseteq CandidateType
BY StoredCandidate DEF Entries

\* What the rows of join() and leave() are.
LEMMA WrittenRows ==
    ASSUME TypeOK, Next
    PROVE  \E row \in Row :
              /\ Writes(row)
              /\ row.entry # Absent /\ Entry(row.sha) # Absent
                    => /\ Entry(row.sha).owner = row.entry.owner
                       /\ Entry(row.sha).joined_at = row.entry.joined_at
              /\ row.entry = Absent => Entry(row.sha) # Absent
              /\ row.entry # Absent => row.entry.sha = row.sha
<1>1. ASSUME NEW c \in Candidates, NEW head \in Masters, NEW now \in Time \ {0},
             Join(c, head, now)
      PROVE  \E row \in Row :
              /\ Writes(row)
              /\ row.entry # Absent /\ Entry(row.sha) # Absent
                    => /\ Entry(row.sha).owner = row.entry.owner
                       /\ Entry(row.sha).joined_at = row.entry.joined_at
              /\ row.entry = Absent => Entry(row.sha) # Absent
              /\ row.entry # Absent => row.entry.sha = row.sha
    <2> DEFINE e == [c EXCEPT !.joined_at = JoinTime(c, now)]
               row == [sha |-> c.sha, entry |-> e]
    <2>1. c.sha \in Sha /\ c.joined_at \in Time
        BY CandidatesAssumption DEF CandidateType
    <2>2. Entry(c.sha) \in Entries \cup {Absent}
        BY <2>1, ReplayType DEF TypeOK, Entry, Line
    <2>3. ASSUME Entry(c.sha) # Absent PROVE Entry(c.sha).joined_at \in Time
        BY <2>2, <2>3, EntriesTyped DEF CandidateType
    <2>4. JoinTime(c, now) \in Time
        BY <2>1, <2>3 DEF JoinTime
    <2>5. /\ e \in Entries
          /\ e.sha = c.sha /\ e.owner = c.owner
          /\ e.joined_at = JoinTime(c, now)
        <3> HIDE DEF e
        <3>1. e = [c EXCEPT !.joined_at = JoinTime(c, now)]
            BY DEF e
        <3>2. e \in Entries
            BY <2>4, <3>1 DEF Entries
        <3> QED
            BY <2>4, <3>1, <3>2, StoredCandidate
    <2> HIDE DEF e
    <2>6. row \in Row
        BY <2>1, <2>5 DEF Row
    <2>7. Writes(row) /\ OwnerMayJoin(c)
        BY <1>1 DEF Join, e
    <2>8. ASSUME Entry(c.sha) # Absent
          PROVE  Entry(c.sha).owner = e.owner /\ Entry(c.sha).joined_at = e.joined_at
        BY <2>5, <2>7, <2>8 DEF OwnerMayJoin, JoinTime
    <2>9. e # Absent
        BY <2>5, AbsentAssumption
    <2> HIDE DEF row
    <2>10. row.sha = c.sha /\ row.entry = e
        BY DEF row
    <2> QED
        BY <2>5, <2>6, <2>7, <2>8, <2>9, <2>10
<1>2. ASSUME NEW s \in Sha, Leave(s)
      PROVE  \E row \in Row :
              /\ Writes(row)
              /\ row.entry # Absent /\ Entry(row.sha) # Absent
                    => /\ Entry(row.sha).owner = row.entry.owner
                       /\ Entry(row.sha).joined_at = row.entry.joined_at
              /\ row.entry = Absent => Entry(row.sha) # Absent
              /\ row.entry # Absent => row.entry.sha = row.sha
    <2> DEFINE row == [sha |-> s, entry |-> Absent]
    <2>1. row \in Row /\ row.entry = Absent /\ row.sha = s
        BY DEF Row
    <2>2. Writes(row) /\ Entry(s) # Absent
        BY <1>2 DEF Leave
    <2> HIDE DEF row
    <2> QED
        BY <2>1, <2>2
<1> QED
    BY <1>1, <1>2 DEF Next

\* An append that was cut off either left the queue alone or did what the
\* whole append does.
LEMMA EffectOfWrite ==
    ASSUME TypeOK, NEW row \in Row, Writes(row)
    PROVE  \/ \A s \in Sha : Entry(s)' = IF row.sha = s THEN row.entry ELSE Entry(s)
           \/ /\ told' = [told EXCEPT ![row.sha] = Unknown]
              /\ \A s \in Sha : Entry(s)' = Entry(s)
<1>1. log \in Seq(Line) /\ row \in Line
    BY DEF TypeOK, Line
<1>2. CASE log' = Append(log, row)
    BY <1>1, <1>2, ReplayOfAppend DEF Entry
<1>3. CASE Fails(row) /\ log' = Append(log, Unreadable)
    BY <1>1, <1>3, ReplayOfUnreadable DEF Entry, Fails
<1>4. CASE Fails(row) /\ log' = log
    BY <1>4 DEF Entry, Fails
<1> QED
    BY <1>2, <1>3, <1>4 DEF Writes, Completes, Appended, Fails, CutOff

LEMMA QueueTypeKept == TypeOK /\ [Next]_vars => TypeOK'
<1> SUFFICES ASSUME TypeOK, [Next]_vars PROVE TypeOK'
    OBVIOUS
<1>1. CASE Next
    <2>1. PICK row \in Row : Writes(row)
        BY <1>1, WrittenRows
    <2>2. row.sha \in Sha /\ row.entry \in Entries \cup {Absent, Unknown}
        BY DEF Row
    <2>3. log \in Seq(Line)
        BY DEF TypeOK, Line
    <2>4. ASSUME NEW line \in Line
          PROVE  Append(log, line) \in Seq(Line) /\ Append(log, line) # <<>>
        <3>1. Len(Append(log, line)) = Len(log) + 1 /\ Len(log) \in Nat
            BY <2>3
        <3>2. Append(log, line) # <<>>
            BY <3>1
        <3>3. Append(log, line) \in Seq(Line)
            BY <2>3
        <3> QED
            BY <3>2, <3>3
    <2>5. /\ log' = log \/ log' = Append(log, row) \/ log' = Append(log, Unreadable)
          /\ torn' \in BOOLEAN
          /\ torn' => torn \/ log' # log
        <3>1. log # Append(log, row) /\ log # Append(log, Unreadable)
            BY <2>3
        <3>2. torn \in BOOLEAN
            BY DEF TypeOK
        <3>3. CASE UNCHANGED <<log, torn>>
            BY <3>2, <3>3
        <3>4. CASE log' = log /\ torn' = FALSE
            BY <3>4
        <3>5. CASE log' = Append(log, Unreadable) /\ torn' = TRUE
            BY <3>1, <3>5
        <3>6. CASE log' = Append(log, row) /\ torn' \in BOOLEAN
            BY <3>1, <3>6
        <3>7. \/ UNCHANGED <<log, torn>>
              \/ log' = log /\ torn' = FALSE
              \/ log' = Append(log, Unreadable) /\ torn' = TRUE
              \/ log' = Append(log, row) /\ torn' = FALSE
              \/ log' = Append(log, row) /\ torn' = TRUE
            BY <2>1, Zenon DEF Writes, Completes, Appended, Fails, CutOff
        <3> QED
            BY <3>3, <3>4, <3>5, <3>6, <3>7
    <2>6. log' \in Seq(Line) /\ (torn' => log' # <<>>)
        <3>1. torn => log # <<>>
            BY DEF TypeOK
        <3> QED
            BY <2>3, <2>4, <2>5, <3>1 DEF Line
    <2>7. told' \in [Sha -> Entries \cup {Absent, Unknown}]
        BY <2>1, <2>2 DEF TypeOK, Writes, Completes, Fails
    <2> QED
        BY <2>5, <2>6, <2>7 DEF TypeOK, Line
<1>2. CASE UNCHANGED vars
    BY <1>2 DEF TypeOK, vars
<1> QED
    BY <1>1, <1>2

\* The log is a sequence of rows and unreadable lines, a torn log has a line.
THEOREM QueueTypeCorrect == Spec => []TypeOK
<1>1. Init => TypeOK
    <2> SUFFICES ASSUME Init PROVE TypeOK
        OBVIOUS
    <2>1. log \in Seq(Row \cup {Unreadable})
        BY DEF Init
    <2>2. told \in [Sha -> Entries \cup {Absent, Unknown}]
        BY DEF Init
    <2> QED
        BY <2>1, <2>2 DEF Init, TypeOK
<1> QED
    BY <1>1, QueueTypeKept, PTL DEF Spec

LEMMA InitiallyEmpty == Init => \A s \in Sha : Entry(s) = Absent
BY DEF Init, Entry, Replayed, LastRows

\* What a call of join() or leave() reported stays readable, whatever appends
\* are cut off around it.
THEOREM Durable == Spec => []ReportedStays
<1>1. Init => ReportedStays
    BY InitiallyEmpty DEF Init, ReportedStays
<1>2. TypeOK /\ ReportedStays /\ [Next]_vars => ReportedStays'
    <2> SUFFICES ASSUME TypeOK, ReportedStays, [Next]_vars PROVE ReportedStays'
        OBVIOUS
    <2>1. CASE Next
        <3>1. PICK row \in Row : Writes(row)
            BY <2>1, WrittenRows
        <3>2. row.sha \in Sha
            BY DEF Row
        <3>3. told \in [Sha -> Entries \cup {Absent, Unknown}]
            BY DEF TypeOK
        <3>4. CASE Completes(row)
            <4>1. log' = Append(log, row) /\ told' = [told EXCEPT ![row.sha] = row.entry]
                BY <3>4 DEF Completes, Appended
            <4>2. \A s \in Sha : Entry(s)' = IF row.sha = s THEN row.entry ELSE Entry(s)
                BY <4>1, ReplayOfAppend DEF TypeOK, Line, Entry
            <4> QED
                BY <3>2, <3>3, <4>1, <4>2 DEF ReportedStays
        <3>5. CASE Fails(row)
            <4>1. told' = [told EXCEPT ![row.sha] = Unknown]
                BY <3>5 DEF Fails
            <4>2. \A s \in Sha : s # row.sha => Entry(s)' = Entry(s)
                BY <3>1, EffectOfWrite
            <4> QED
                BY <3>2, <3>3, <4>1, <4>2 DEF ReportedStays
        <3> QED
            BY <3>1, <3>4, <3>5 DEF Writes
    <2>2. CASE UNCHANGED vars
        BY <2>2 DEF ReportedStays, Entry, vars
    <2> QED
        BY <2>1, <2>2
<1> QED
    BY <1>1, <1>2, QueueTypeCorrect, PTL DEF Spec

\* The log implements the owned queue: one owner per sha, a refresh keeps its
\* place, an entry leaves by leave() only.
THEOREM ImplementsQueue == Spec => QueueSpec
<1> DEFINE q == [s \in Sha |-> Entry(s)]
<1>1. Init => Owned!QueueInit
    BY InitiallyEmpty DEF Owned!QueueInit
<1>2. TypeOK /\ [Next]_vars => [Owned!QueueNext]_q
    <2> SUFFICES ASSUME TypeOK, [Next]_vars PROVE [Owned!QueueNext]_q
        OBVIOUS
    <2>1. CASE Next
        <3>1. PICK row \in Row :
                  /\ Writes(row)
                  /\ row.entry # Absent /\ Entry(row.sha) # Absent
                        => /\ Entry(row.sha).owner = row.entry.owner
                           /\ Entry(row.sha).joined_at = row.entry.joined_at
                  /\ row.entry = Absent => Entry(row.sha) # Absent
            BY <2>1, WrittenRows
        <3>2. row.sha \in Sha /\ row.entry \in Entries \cup {Absent}
            BY DEF Row
        <3>3. CASE \A s \in Sha : Entry(s)' = Entry(s)
            BY <3>3
        <3>4. CASE \A s \in Sha : Entry(s)' = IF row.sha = s THEN row.entry ELSE Entry(s)
            <4>1. q' = [q EXCEPT ![row.sha] = row.entry]
                BY <3>2, <3>4
            <4>2. q[row.sha] = Entry(row.sha)
                BY <3>2
            <4>3. CASE row.entry = Absent
                BY <3>1, <3>2, <4>1, <4>2, <4>3 DEF Owned!QueueNext, Owned!Take
            <4>4. CASE row.entry # Absent
                <5>1. q'[row.sha] = row.entry /\ row.entry \in Entries
                    BY <3>2, <4>1, <4>4
                <5>2. Owned!Put(row.sha, row.entry)
                    BY <3>1, <4>1, <4>2, <4>4 DEF Owned!Put
                <5> QED
                    BY <3>2, <5>1, <5>2 DEF Owned!QueueNext
            <4> QED
                BY <4>3, <4>4
        <3> QED
            BY <3>1, <3>3, <3>4, EffectOfWrite
    <2>2. CASE UNCHANGED vars
        BY <2>2 DEF vars, Entry
    <2> QED
        BY <2>1, <2>2
<1> QED
    BY <1>1, <1>2, QueueTypeCorrect, PTL DEF Spec, QueueSpec, Owned!QueueSpec

-----------------------------------------------------------------------------
(* Induction over numbers, as facts about sets of them.                    *)

\* A set of numbers that is not empty has a least one.
LEMMA LeastNumber ==
    ASSUME NEW T \in SUBSET Nat, T # {}
    PROVE  \E n \in T : \A m \in T : n <= m
<1> DEFINE R == {ss \in Nat \X Nat : ss[1] < ss[2]}
<1>1. IsWellFoundedOn(R, Nat)
    BY NatLessThanWellFounded DEF OpToRel
<1>2. \E n \in T : \A m \in T : ~(<<m, n>> \in R)
    <2> HIDE DEF R
    <2> QED
        BY <1>1, WFMin
<1>3. ASSUME NEW n \in Nat, NEW m \in Nat, ~(<<m, n>> \in R) PROVE n <= m
    BY <1>3
<1> HIDE DEF R
<1> QED
    BY <1>2, <1>3

\* Induction up to N, over a set of numbers.
LEMMA CountUp ==
    ASSUME NEW N \in Nat, NEW T \in SUBSET (0..N), 0 \in T,
           \A n \in 1..N : n - 1 \in T => n \in T
    PROVE  N \in T
<1> SUFFICES ASSUME N \notin T PROVE FALSE
    OBVIOUS
<1> DEFINE U == (0..N) \ T
<1>1. PICK n \in U : \A m \in U : n <= m
    <2>1. U \in SUBSET Nat /\ U # {}
        OBVIOUS
    <2> QED
        BY <2>1, LeastNumber
<1>2. n \in 1..N /\ n - 1 \notin U /\ n - 1 \in 0..N
    BY <1>1
<1> QED
    BY <1>1, <1>2

-----------------------------------------------------------------------------
(* The boarding order.                                                     *)

\* What entries() hands to plan(): finitely many candidates of different shas.
Planable(C) ==
    /\ IsFiniteSet(C)
    /\ C \subseteq CandidateType
    /\ \A c, d \in C : c.sha = d.sha => c = d

\* A name has a place, listed or not.
LEMMA PlaceType ==
    ASSUME NEW list \in Seq(STRING), NEW name
    PROVE  Place(name, list) \in Nat
<1>1. CASE name \in Range(list)
    <2>1. \E i \in DOMAIN list : list[i] = name
        BY <1>1 DEF Range
    <2>2. Place(name, list) \in DOMAIN list
        BY <1>1, <2>1 DEF Place
    <2> QED
        BY <2>2
<1>2. CASE name \notin Range(list)
    BY <1>2 DEF Place
<1> QED
    BY <1>1, <1>2

LEMMA SortKeyType ==
    ASSUME NEW c \in CandidateType, NEW features \in Seq(STRING)
    PROVE  SortKey(c, features) \in Nat \X Nat \X Nat \X Nat
<1>1. c.joined_at \in Nat /\ c.sha \in Nat
    BY TimeAssumption, ShaAssumption DEF CandidateType
<1>2. Place(c.area, Areas) \in Nat /\ Place(c.feature, features) \in Nat
    BY AreasAssumption, PlaceType
<1> QED
    BY <1>1, <1>2 DEF SortKey

\* The order of the keys, place by place.
LEMMA PrecedesUnfolded ==
    ASSUME NEW c, NEW d, NEW features
    PROVE  LET k == SortKey(c, features)
               l == SortKey(d, features)
           IN  Precedes(c, d, features) <=>
                   \/ k[1] < l[1]
                   \/ k[1] = l[1] /\ k[2] < l[2]
                   \/ k[1] = l[1] /\ k[2] = l[2] /\ k[3] < l[3]
                   \/ k[1] = l[1] /\ k[2] = l[2] /\ k[3] = l[3] /\ k[4] < l[4]
<1> DEFINE k == SortKey(c, features)
           l == SortKey(d, features)
<1>1. 1..4 = {1, 2, 3, 4} /\ 1..(1 - 1) = {} /\ 1..(2 - 1) = {1}
      /\ 1..(3 - 1) = {1, 2} /\ 1..(4 - 1) = {1, 2, 3}
    OBVIOUS
<1>2. Precedes(c, d, features) <=> \E i \in 1..4 : k[i] < l[i] /\ \A j \in 1..(i - 1) : k[j] = l[j]
    BY DEF Precedes
<1> HIDE DEF k, l
<1>3. (\E i \in 1..4 : k[i] < l[i] /\ \A j \in 1..(i - 1) : k[j] = l[j]) <=>
          \/ k[1] < l[1]
          \/ k[1] = l[1] /\ k[2] < l[2]
          \/ k[1] = l[1] /\ k[2] = l[2] /\ k[3] < l[3]
          \/ k[1] = l[1] /\ k[2] = l[2] /\ k[3] = l[3] /\ k[4] < l[4]
    BY <1>1
<1> QED
    BY <1>2, <1>3 DEF k, l

\* The order is strict and total on candidates of different shas.
LEMMA PrecedesIsOrder ==
    ASSUME NEW features \in Seq(STRING), NEW C, Planable(C),
           NEW a \in C, NEW b \in C, NEW c \in C
    PROVE  /\ ~Precedes(a, a, features)
           /\ Precedes(a, b, features) /\ Precedes(b, c, features) => Precedes(a, c, features)
           /\ a # b => Precedes(a, b, features) \/ Precedes(b, a, features)
<1> DEFINE j == SortKey(a, features)
           k == SortKey(b, features)
           l == SortKey(c, features)
<1>1. /\ j[1] \in Nat /\ j[2] \in Nat /\ j[3] \in Nat /\ j[4] \in Nat
      /\ k[1] \in Nat /\ k[2] \in Nat /\ k[3] \in Nat /\ k[4] \in Nat
      /\ l[1] \in Nat /\ l[2] \in Nat /\ l[3] \in Nat /\ l[4] \in Nat
    <2>1. j \in Nat \X Nat \X Nat \X Nat /\ k \in Nat \X Nat \X Nat \X Nat
          /\ l \in Nat \X Nat \X Nat \X Nat
        BY SortKeyType DEF Planable
    <2> HIDE DEF j, k, l
    <2> QED
        BY <2>1
<1>2. a # b => j[4] # k[4]
    BY DEF Planable, SortKey
<1>3. /\ Precedes(a, a, features) <=>
             \/ j[1] < j[1]
             \/ j[1] = j[1] /\ j[2] < j[2]
             \/ j[1] = j[1] /\ j[2] = j[2] /\ j[3] < j[3]
             \/ j[1] = j[1] /\ j[2] = j[2] /\ j[3] = j[3] /\ j[4] < j[4]
      /\ Precedes(a, b, features) <=>
             \/ j[1] < k[1]
             \/ j[1] = k[1] /\ j[2] < k[2]
             \/ j[1] = k[1] /\ j[2] = k[2] /\ j[3] < k[3]
             \/ j[1] = k[1] /\ j[2] = k[2] /\ j[3] = k[3] /\ j[4] < k[4]
      /\ Precedes(b, a, features) <=>
             \/ k[1] < j[1]
             \/ k[1] = j[1] /\ k[2] < j[2]
             \/ k[1] = j[1] /\ k[2] = j[2] /\ k[3] < j[3]
             \/ k[1] = j[1] /\ k[2] = j[2] /\ k[3] = j[3] /\ k[4] < j[4]
      /\ Precedes(b, c, features) <=>
             \/ k[1] < l[1]
             \/ k[1] = l[1] /\ k[2] < l[2]
             \/ k[1] = l[1] /\ k[2] = l[2] /\ k[3] < l[3]
             \/ k[1] = l[1] /\ k[2] = l[2] /\ k[3] = l[3] /\ k[4] < l[4]
      /\ Precedes(a, c, features) <=>
             \/ j[1] < l[1]
             \/ j[1] = l[1] /\ j[2] < l[2]
             \/ j[1] = l[1] /\ j[2] = l[2] /\ j[3] < l[3]
             \/ j[1] = l[1] /\ j[2] = l[2] /\ j[3] = l[3] /\ j[4] < l[4]
    BY PrecedesUnfolded
<1> HIDE DEF j, k, l
<1>4. ~Precedes(a, a, features)
    BY <1>1, <1>3
<1>5. ASSUME Precedes(a, b, features), Precedes(b, c, features)
      PROVE  Precedes(a, c, features)
    <2>1. CASE j[1] < k[1]
        BY <1>1, <1>3, <1>5, <2>1
    <2>2. CASE j[1] = k[1] /\ j[2] < k[2]
        BY <1>1, <1>3, <1>5, <2>2
    <2>3. CASE j[1] = k[1] /\ j[2] = k[2] /\ j[3] < k[3]
        BY <1>1, <1>3, <1>5, <2>3
    <2>4. CASE j[1] = k[1] /\ j[2] = k[2] /\ j[3] = k[3] /\ j[4] < k[4]
        BY <1>1, <1>3, <1>5, <2>4
    <2> QED
        BY <1>3, <1>5, <2>1, <2>2, <2>3, <2>4
<1>6. ASSUME a # b
      PROVE  Precedes(a, b, features) \/ Precedes(b, a, features)
    <2>1. CASE j[1] # k[1]
        BY <1>1, <1>3, <2>1
    <2>2. CASE j[1] = k[1] /\ j[2] # k[2]
        BY <1>1, <1>3, <2>2
    <2>3. CASE j[1] = k[1] /\ j[2] = k[2] /\ j[3] # k[3]
        BY <1>1, <1>3, <2>3
    <2>4. CASE j[1] = k[1] /\ j[2] = k[2] /\ j[3] = k[3]
        BY <1>1, <1>2, <1>3, <1>6, <2>4
    <2> QED
        BY <2>1, <2>2, <2>3, <2>4
<1> QED
    BY <1>4, <1>5, <1>6

\* A candidate has fewer others before it than one it precedes.
LEMMA RankGrows ==
    ASSUME NEW features \in Seq(STRING), NEW C, Planable(C), NEW c \in C
    PROVE  LET before(e) == {d \in C : Precedes(d, e, features)}
           IN  /\ Cardinality(before(c)) \in 0..(Cardinality(C) - 1)
               /\ \A e \in C : Precedes(c, e, features) =>
                      Cardinality(before(c)) < Cardinality(before(e))
<1> DEFINE before(e) == {d \in C : Precedes(d, e, features)}
<1>1. IsFiniteSet(C) /\ Cardinality(C) \in Nat
    BY FS_CardinalityType DEF Planable
<1>2. ASSUME NEW e \in C
      PROVE  /\ IsFiniteSet(before(e)) /\ Cardinality(before(e)) \in Nat
             /\ Cardinality(before(e)) <= Cardinality(C)
             /\ Cardinality(before(e)) # Cardinality(C)
    <2>1. before(e) \in SUBSET C /\ e \notin before(e)
        BY PrecedesIsOrder
    <2> HIDE DEF before
    <2>2. IsFiniteSet(before(e)) /\ Cardinality(before(e)) <= Cardinality(C)
          /\ (Cardinality(C) = Cardinality(before(e)) => C = before(e))
        BY <1>1, <2>1, FS_Subset
    <2>3. Cardinality(before(e)) \in Nat
        BY <2>2, FS_CardinalityType
    <2> QED
        BY <2>1, <2>2, <2>3
<1>3. ASSUME NEW e \in C, Precedes(c, e, features)
      PROVE  Cardinality(before(c)) < Cardinality(before(e))
    <2>1. before(c) \subseteq before(e)
        BY <1>3, PrecedesIsOrder
    <2>2. c \in before(e) /\ c \notin before(c)
        BY <1>3, PrecedesIsOrder
    <2> HIDE DEF before
    <2>3. /\ Cardinality(before(c)) <= Cardinality(before(e))
          /\ (Cardinality(before(e)) = Cardinality(before(c)) => before(e) = before(c))
        BY <1>2, <2>1, FS_Subset
    <2> QED
        BY <1>2, <2>2, <2>3
<1>4. Cardinality(before(c)) \in 0..(Cardinality(C) - 1)
    <2> HIDE DEF before
    <2> QED
        BY <1>1, <1>2
<1> QED
    BY <1>3, <1>4

\* The order holds every candidate once, each after those that precede it.
LEMMA OrderSorts ==
    ASSUME NEW features \in Seq(STRING), NEW C, Planable(C)
    PROVE  LET order == Order(C, features)
               N == Len(order)
           IN  /\ N \in Nat /\ order \in [1..N -> C]
               /\ \A c \in C : \E i \in 1..N : order[i] = c
               /\ \A i, j \in 1..N : Precedes(order[i], order[j], features) <=> i < j
<1> DEFINE order == Order(C, features)
           N == Cardinality(C)
           rank(c) == Cardinality({d \in C : Precedes(d, c, features)})
           f == [c \in C |-> rank(c) + 1]
<1>1. IsFiniteSet(C) /\ N \in Nat
    BY FS_CardinalityType DEF Planable
<1>2. \A c \in C : /\ rank(c) \in 0..(N - 1)
                   /\ \A e \in C : Precedes(c, e, features) => rank(c) < rank(e)
    BY RankGrows
<1>3. order = [i \in 1..N |-> CHOOSE c \in C : rank(c) = i - 1]
    BY DEF Order
<1> HIDE DEF order, rank
<1>4. f \in Surjection(C, 1..N)
    <2>1. f \in [C -> 1..N]
        BY <1>1, <1>2
    <2>2. \A c, d \in C : f[c] = f[d] => c = d
        BY <1>1, <1>2, PrecedesIsOrder
    <2>3. f \in Injection(C, 1..N)
        BY <2>1, <2>2 DEF Injection, IsInjective
    <2>4. IsFiniteSet(1..N) /\ Cardinality(1..N) = N
        BY <1>1, FS_Interval
    <2> HIDE DEF f
    <2> QED
        BY <2>3, <2>4, FS_Injection
<1>5. \A i \in 1..N : \E c \in C : rank(c) = i - 1
    <2>1. \A i \in 1..N : \E c \in C : f[c] = i
        BY <1>4 DEF Surjection
    <2> QED
        BY <1>1, <1>2, <2>1
<1>6. \A i \in 1..N : order[i] \in C /\ rank(order[i]) = i - 1
    <2> SUFFICES ASSUME NEW i \in 1..N
                 PROVE  order[i] \in C /\ rank(order[i]) = i - 1
        OBVIOUS
    <2>1. \E c \in C : rank(c) = i - 1
        BY <1>5
    <2>2. order[i] = CHOOSE c \in C : rank(c) = i - 1
        BY <1>3
    <2> QED
        BY <2>1, <2>2
<1>7. order \in [1..N -> C] /\ Len(order) = N
    BY <1>1, <1>3, <1>6
<1>8. ASSUME NEW c \in C PROVE \E i \in 1..N : order[i] = c
    <2>1. rank(c) + 1 \in 1..N
        BY <1>1, <1>2
    <2>2. rank(order[rank(c) + 1]) = rank(c) /\ order[rank(c) + 1] \in C
        BY <1>1, <1>2, <1>6, <2>1
    <2>3. order[rank(c) + 1] = c
        BY <1>2, <2>2, PrecedesIsOrder
    <2> QED
        BY <2>1, <2>3
<1>9. ASSUME NEW i \in 1..N, NEW j \in 1..N
      PROVE  Precedes(order[i], order[j], features) <=> i < j
    <2>1. /\ order[i] \in C /\ rank(order[i]) = i - 1
          /\ order[j] \in C /\ rank(order[j]) = j - 1
        BY <1>6
    <2>2. Precedes(order[i], order[j], features) => i < j
        BY <1>2, <2>1
    <2>3. i < j => Precedes(order[i], order[j], features)
        <3>1. CASE order[i] = order[j]
            BY <2>1, <3>1
        <3>2. CASE order[i] # order[j]
            <4>1. Precedes(order[i], order[j], features) \/ Precedes(order[j], order[i], features)
                BY <2>1, <3>2, PrecedesIsOrder
            <4>2. Precedes(order[j], order[i], features) => j < i
                BY <1>2, <2>1
            <4> QED
                BY <4>1, <4>2
        <3> QED
            BY <3>1, <3>2
    <2> QED
        BY <2>2, <2>3
<1>10. /\ \A c \in C : \E i \in 1..N : order[i] = c
       /\ \A i, j \in 1..N : Precedes(order[i], order[j], features) <=> i < j
    BY <1>8, <1>9
<1> HIDE DEF N
<1> QED
    BY <1>1, <1>7, <1>10 DEF order

\* A rule for the value of a candidate that looks only at those before it.
LooksBack(rule, C, V, features) ==
    /\ rule \in [C -> [[C -> V] -> V]]
    /\ \A c \in C : \A g, h \in [C -> V] :
           (\A d \in C : Precedes(d, c, features) => g[d] = h[d])
               => rule[c][g] = rule[c][h]

\* Recursion along the order: some function meets such a rule.
LEMMA RecursionAlongOrder ==
    ASSUME NEW features \in Seq(STRING), NEW C, Planable(C), NEW V, V # {},
           NEW rule, LooksBack(rule, C, V, features)
    PROVE  \E f \in [C -> V] : \A c \in C : f[c] = rule[c][f]
<1> DEFINE order == Order(C, features)
           N == Len(order)
<1>1. /\ N \in Nat /\ order \in [1..N -> C]
      /\ \A c \in C : \E i \in 1..N : order[i] = c
      /\ \A i, j \in 1..N : Precedes(order[i], order[j], features) <=> i < j
    BY OrderSorts
<1> HIDE DEF order, N
<1> DEFINE Met(f, n) == \A i \in 1..n : f[order[i]] = rule[order[i]][f]
           T == {n \in 0..N : \E f \in [C -> V] : Met(f, n)}
<1>2. 0 \in T
    <2>0. PICK v \in V : TRUE
        OBVIOUS
    <2>1. [c \in C |-> v] \in [C -> V] /\ Met([c \in C |-> v], 0)
        OBVIOUS
    <2> HIDE DEF Met
    <2> QED
        BY <1>1, <2>1
<1>3. ASSUME NEW n \in 1..N, n - 1 \in T PROVE n \in T
    <2>1. PICK g \in [C -> V] : Met(g, n - 1)
        BY <1>3
    <2> DEFINE last == order[n]
               h == [g EXCEPT ![last] = rule[last][g]]
    <2>2. last \in C /\ rule[last][g] \in V
        BY <1>1 DEF LooksBack
    <2>3. h \in [C -> V] /\ h[last] = rule[last][g]
          /\ \A d \in C : d # last => h[d] = g[d]
        BY <2>2
    <2> HIDE DEF h
    <2>4. ASSUME NEW i \in 1..n
          PROVE  h[order[i]] = rule[order[i]][h]
        <3>1. order[i] \in C /\ n \in 1..N /\ i \in 1..N
            BY <1>1
        <3>2. ~Precedes(last, order[i], features)
            BY <1>1, <3>1
        <3>3. \A d \in C : Precedes(d, order[i], features) => g[d] = h[d]
            BY <2>3, <3>2
        <3>4. rule[order[i]][g] = rule[order[i]][h]
            BY <2>3, <3>1, <3>3 DEF LooksBack
        <3>5. CASE i = n
            BY <2>3, <3>4, <3>5
        <3>6. CASE i # n
            <4>1. i \in 1..(n - 1) /\ Precedes(order[i], last, features)
                BY <1>1, <3>1, <3>6
            <4>2. order[i] # last
                BY <3>1, <3>2, <4>1
            <4>3. g[order[i]] = rule[order[i]][g]
                BY <2>1, <4>1
            <4> QED
                BY <2>3, <3>1, <3>4, <4>2, <4>3
        <3> QED
            BY <3>5, <3>6
    <2>5. Met(h, n)
        BY <2>4
    <2> HIDE DEF Met
    <2> QED
        BY <2>3, <2>5
<1>4. N \in T
    <2> HIDE DEF T
    <2>1. T \in SUBSET (0..N)
        BY DEF T
    <2> QED
        BY <1>1, <1>2, <1>3, <2>1, CountUp
<1>5. PICK f \in [C -> V] : Met(f, N)
    BY <1>4
<1>6. \A c \in C : f[c] = rule[c][f]
    BY <1>1, <1>5
<1> QED
    BY <1>6

\* Two functions agree on a candidate whenever they agree on those before it.
AgreeOnward(f, h, C, features) ==
    \A c \in C : (\A d \in C : Precedes(d, c, features) => f[d] = h[d]) => f[c] = h[c]

\* Then they agree on all of them.
LEMMA AgreeAlongOrder ==
    ASSUME NEW features \in Seq(STRING), NEW C, Planable(C), NEW f, NEW h,
           AgreeOnward(f, h, C, features)
    PROVE  \A c \in C : f[c] = h[c]
<1> DEFINE order == Order(C, features)
           N == Len(order)
           T == {n \in 0..N : \A i \in 1..n : f[order[i]] = h[order[i]]}
<1>1. /\ N \in Nat /\ order \in [1..N -> C]
      /\ \A c \in C : \E i \in 1..N : order[i] = c
      /\ \A i, j \in 1..N : Precedes(order[i], order[j], features) <=> i < j
    BY OrderSorts
<1> HIDE DEF order, N
<1>2. ASSUME NEW n \in 1..N, n - 1 \in T PROVE n \in T
    <2>1. \A d \in C : Precedes(d, order[n], features) => f[d] = h[d]
        <3> SUFFICES ASSUME NEW i \in 1..N, Precedes(order[i], order[n], features)
                     PROVE  f[order[i]] = h[order[i]]
            BY <1>1
        <3>1. i \in 1..(n - 1)
            BY <1>1
        <3> QED
            BY <1>2, <3>1
    <2>2. f[order[n]] = h[order[n]]
        BY <1>1, <2>1 DEF AgreeOnward
    <2>3. \A i \in 1..n : i = n \/ i \in 1..(n - 1)
        BY <1>1
    <2> QED
        BY <1>1, <1>2, <2>2, <2>3
<1>3. N \in T
    <2>1. T \in SUBSET (0..N) /\ 0 \in T
        BY <1>1
    <2> HIDE DEF T
    <2> QED
        BY <1>1, <1>2, <2>1, CountUp
<1> QED
    BY <1>1, <1>3

\* Stuck and Wave are what their definitions say.
LEMMA StuckUnfolds ==
    ASSUME NEW features \in Seq(STRING), NEW C, Planable(C), NEW head
    PROVE  \A c \in C : Stuck(C, head, features)[c] <=>
                \/ ~Ready(c, head)
                \/ \E d \in Ahead(c, C, features) : Stuck(C, head, features)[d]
<1> DEFINE Rule(c, g) == \/ ~Ready(c, head)
                         \/ \E d \in Ahead(c, C, features) : g[d]
           rule == [c \in C |-> [g \in [C -> BOOLEAN] |-> Rule(c, g)]]
<1>1. rule \in [C -> [[C -> BOOLEAN] -> BOOLEAN]]
    OBVIOUS
<1>2. ASSUME NEW c \in C, NEW g \in [C -> BOOLEAN], NEW h \in [C -> BOOLEAN],
             \A d \in C : Precedes(d, c, features) => g[d] = h[d]
      PROVE  rule[c][g] = rule[c][h]
    <2>1. \A d \in Ahead(c, C, features) : g[d] = h[d]
        BY <1>2 DEF Ahead
    <2>2. Rule(c, g) = Rule(c, h)
        BY <2>1
    <2> QED
        BY <2>2
<1>3. PICK f \in [C -> BOOLEAN] : \A c \in C : f[c] = rule[c][f]
    <2> DEFINE V == BOOLEAN
    <2>1. V # {}
        OBVIOUS
    <2>2. LooksBack(rule, C, V, features)
        BY <1>1, <1>2 DEF LooksBack
    <2> HIDE DEF rule, V
    <2>3. \E f \in [C -> V] : \A c \in C : f[c] = rule[c][f]
        BY <2>1, <2>2, RecursionAlongOrder
    <2> QED
        BY <2>3 DEF V
<1>4. f = [c \in C |-> Rule(c, f)]
    <2>1. \A c \in C : rule[c][f] = Rule(c, f)
        OBVIOUS
    <2> HIDE DEF rule, Rule
    <2>2. \A c \in C : f[c] = Rule(c, f)
        BY <1>3, <2>1
    <2> QED
        BY <2>2
<1>5. Stuck(C, head, features) = CHOOSE s : s = [c \in C |-> Rule(c, s)]
    BY DEF Stuck
<1>6. Stuck(C, head, features) = [c \in C |-> Rule(c, Stuck(C, head, features))]
    <2> DEFINE S == CHOOSE s : s = [c \in C |-> Rule(c, s)]
    <2>1. S = [c \in C |-> Rule(c, S)]
        <3> HIDE DEF Rule
        <3> QED
            BY <1>4
    <2> QED
        BY <1>5, <2>1
<1> HIDE DEF Rule
<1>7. \A c \in C : Stuck(C, head, features)[c] = Rule(c, Stuck(C, head, features))
    BY <1>6
<1> QED
    BY <1>7 DEF Rule

\* Finitely many numbers have a bound.
LEMMA ValuesBounded ==
    ASSUME NEW C, IsFiniteSet(C), NEW g \in [C -> Nat]
    PROVE  \E b \in Nat : \A c \in C : g[c] <= b
<1> DEFINE N == Cardinality(C)
<1>1. N \in Nat /\ ExistsBijection(1..N, C)
    BY FS_CardinalityType
<1> HIDE DEF N
<1>2. PICK e \in [1..N -> C] : \A c \in C : \E i \in 1..N : e[i] = c
    BY <1>1 DEF ExistsBijection, Bijection, Surjection
<1> DEFINE T == {n \in 0..N : \E b \in Nat : \A i \in 1..n : g[e[i]] <= b}
<1>3. 0 \in T
    BY <1>1
<1>4. ASSUME NEW n \in 1..N, n - 1 \in T PROVE n \in T
    <2>1. PICK b \in Nat : \A i \in 1..(n - 1) : g[e[i]] <= b
        BY <1>4
    <2> DEFINE c == IF g[e[n]] <= b THEN b ELSE g[e[n]]
    <2>2. c \in Nat /\ b <= c /\ g[e[n]] <= c
        BY <1>1, <1>2
    <2> HIDE DEF c
    <2>3. \A i \in 1..n : g[e[i]] <= c
        <3>1. ASSUME NEW i \in 1..n PROVE g[e[i]] <= c
            <4>1. CASE i = n
                BY <2>2, <4>1
            <4>2. CASE i # n
                <5>1. i \in 1..(n - 1) /\ g[e[i]] \in Nat
                    BY <1>1, <1>2, <4>2
                <5> QED
                    BY <2>1, <2>2, <5>1
            <4> QED
                BY <4>1, <4>2
        <3> QED
            BY <3>1
    <2> QED
        BY <2>2, <2>3
<1>5. N \in T
    <2>1. T \in SUBSET (0..N)
        OBVIOUS
    <2> HIDE DEF T
    <2> QED
        BY <1>1, <1>3, <1>4, <2>1, CountUp
<1> QED
    BY <1>2, <1>5

\* The choice of Wave and Board: a greatest number.
LEMMA GreatestNumber ==
    ASSUME NEW S \in SUBSET Nat, S # {}, NEW b \in Nat, \A x \in S : x <= b
    PROVE  LET n == CHOOSE i \in S : \A j \in S : j <= i
           IN  n \in S /\ \A j \in S : j <= n
<1> DEFINE T == {n \in Nat : \A x \in S : x <= n}
<1>1. PICK n \in T : \A m \in T : n <= m
    <2>1. b \in T
        OBVIOUS
    <2> QED
        BY <2>1, LeastNumber
<1>2. n \in S
    <2> SUFFICES ASSUME n \notin S PROVE FALSE
        OBVIOUS
    <2>1. \A x \in S : x < n
        OBVIOUS
    <2>2. n > 0
        <3>1. PICK x \in S : TRUE
            OBVIOUS
        <3>2. x \in Nat /\ n \in Nat /\ x < n
            BY <2>1
        <3> QED
            BY <3>2
    <2>3. n - 1 \in T
        BY <2>1, <2>2
    <2> QED
        BY <1>1, <2>3
<1> QED
    BY <1>1, <1>2

LEMMA WaveUnfolds ==
    ASSUME NEW features \in Seq(STRING), NEW C, Planable(C)
    PROVE  LET wave == Wave(C, features)
           IN  \A c \in C :
                  /\ wave[c] \in Nat /\ wave[c] >= 1
                  /\ \A d \in Ahead(c, C, features) : wave[d] < wave[c]
                  /\ wave[c] = 1 \/ \E d \in Ahead(c, C, features) : wave[c] = wave[d] + 1
<1> DEFINE Before(c, g) == {g[d] : d \in Ahead(c, C, features)}
           Top(S) == CHOOSE n \in S : \A m \in S : m <= n
           Rule(c, g) == 1 + (IF Before(c, g) = {} THEN 0 ELSE Top(Before(c, g)))
           rule == [c \in C |-> [g \in [C -> Nat] |-> Rule(c, g)]]
<1>1. ASSUME NEW c \in C, NEW g \in [C -> Nat]
      PROVE  /\ Rule(c, g) \in Nat /\ Rule(c, g) >= 1
             /\ \A d \in Ahead(c, C, features) : g[d] < Rule(c, g)
             /\ Rule(c, g) = 1 \/ \E d \in Ahead(c, C, features) : Rule(c, g) = g[d] + 1
    <2>1. PICK b \in Nat : \A d \in C : g[d] <= b
        BY ValuesBounded DEF Planable
    <2>2. /\ Before(c, g) \in SUBSET Nat /\ \A x \in Before(c, g) : x <= b
          /\ \A x \in Before(c, g) : \E d \in Ahead(c, C, features) : x = g[d]
          /\ \A d \in Ahead(c, C, features) : g[d] \in Before(c, g)
        BY <2>1 DEF Ahead
    <2>3. Before(c, g) # {} => /\ Top(Before(c, g)) \in Before(c, g)
                               /\ \A x \in Before(c, g) : x <= Top(Before(c, g))
        <3> HIDE DEF Before
        <3> QED
            BY <2>1, <2>2, GreatestNumber
    <2> HIDE DEF Before, Top
    <2>4. CASE Before(c, g) = {}
        BY <2>2, <2>4
    <2>5. CASE Before(c, g) # {}
        <3>1. Rule(c, g) = 1 + Top(Before(c, g)) /\ Top(Before(c, g)) \in Nat
            BY <2>2, <2>3, <2>5
        <3> HIDE DEF Rule
        <3>2. \A d \in Ahead(c, C, features) : g[d] < Rule(c, g)
            BY <2>2, <2>3, <2>5, <3>1
        <3>3. \E d \in Ahead(c, C, features) : Rule(c, g) = g[d] + 1
            BY <2>2, <2>3, <2>5, <3>1
        <3> QED
            BY <3>1, <3>2, <3>3
    <2> QED
        BY <2>4, <2>5
<1>2. LooksBack(rule, C, Nat, features)
    <2>1. rule \in [C -> [[C -> Nat] -> Nat]]
        BY <1>1
    <2>2. ASSUME NEW c \in C, NEW g \in [C -> Nat], NEW h \in [C -> Nat],
                 \A d \in C : Precedes(d, c, features) => g[d] = h[d]
          PROVE  rule[c][g] = rule[c][h]
        <3>1. \A d \in Ahead(c, C, features) : g[d] = h[d]
            BY <2>2 DEF Ahead
        <3>2. Before(c, g) = Before(c, h)
            BY <3>1
        <3> HIDE DEF Before, Top
        <3> QED
            BY <3>2
    <2> HIDE DEF rule
    <2> QED
        BY <2>1, <2>2 DEF LooksBack
<1> HIDE DEF Rule
<1>3. PICK f \in [C -> Nat] : \A c \in C : f[c] = rule[c][f]
    <2> DEFINE V == Nat
    <2>1. V # {} /\ LooksBack(rule, C, V, features)
        BY <1>2
    <2> HIDE DEF rule, V
    <2>2. \E f \in [C -> V] : \A c \in C : f[c] = rule[c][f]
        BY <2>1, RecursionAlongOrder
    <2> QED
        BY <2>2 DEF V
<1>4. f = [c \in C |-> Rule(c, f)]
    <2>1. \A c \in C : f[c] = Rule(c, f)
        BY <1>3
    <2> QED
        BY <2>1
<1>5. Wave(C, features) = CHOOSE w : w = [c \in C |-> Rule(c, w)]
    BY DEF Wave, Rule
<1>6. Wave(C, features) = [c \in C |-> Rule(c, Wave(C, features))]
    <2> DEFINE W == CHOOSE w : w = [c \in C |-> Rule(c, w)]
    <2>1. W = [c \in C |-> Rule(c, W)]
        BY <1>4
    <2> QED
        BY <1>5, <2>1
<1> DEFINE wave == Wave(C, features)
<1>7. \A c \in C : f[c] = wave[c]
    <2>1. ASSUME NEW c \in C, \A d \in C : Precedes(d, c, features) => f[d] = wave[d]
          PROVE  f[c] = wave[c]
        <3>1. \A d \in Ahead(c, C, features) : f[d] = wave[d]
            BY <2>1 DEF Ahead
        <3>2. Rule(c, f) = Rule(c, wave)
            <4>1. Before(c, f) = Before(c, wave)
                BY <3>1
            <4> HIDE DEF Before, Top
            <4> QED
                BY <4>1 DEF Rule
        <3>3. f[c] = Rule(c, f) /\ wave[c] = Rule(c, wave)
            BY <1>4, <1>6
        <3> QED
            BY <3>2, <3>3
    <2>2. AgreeOnward(f, wave, C, features)
        BY <2>1 DEF AgreeOnward
    <2> HIDE DEF wave
    <2> QED
        BY <2>2, AgreeAlongOrder
<1>8. wave = f
    BY <1>6, <1>7
<1>9. \A c \in C : wave[c] = Rule(c, wave)
    BY <1>6
<1> HIDE DEF wave
<1> QED
    BY <1>1, <1>8, <1>9 DEF wave
-----------------------------------------------------------------------------
(* The pass of plan() over the order.                                      *)

\* The pass is a loop: nothing listed, then one candidate after the other.
LEMMA ConsideredUnfolds ==
    ASSUME NEW order, Len(order) \in Nat, NEW head
    PROVE  LET after == Considered(order, head)
           IN  /\ after[0] = NoPlan
               /\ \A n \in 1..Len(order) : after[n] = Consider(after[n - 1], order[n], head)
<1> DEFINE N == Len(order)
           Rule(g, n) == IF n = 0 THEN NoPlan ELSE Consider(g[n - 1], order[n], head)
           T == {m \in 0..N : \E g : g = [n \in 0..m |-> Rule(g, n)]}
<1> HIDE DEF N
<1>0. N \in Nat
    BY DEF N
<1>1. 0 \in T
    <2>1. [n \in 0..0 |-> NoPlan] = [n \in 0..0 |-> Rule([m \in 0..0 |-> NoPlan], n)]
        OBVIOUS
    <2> HIDE DEF Rule
    <2> QED
        BY <1>0, <2>1
<1>2. ASSUME NEW m \in 1..N, m - 1 \in T PROVE m \in T
    <2>1. PICK g : g = [n \in 0..(m - 1) |-> Rule(g, n)]
        BY <1>2
    <2> DEFINE h == [n \in 0..m |-> IF n = m THEN Consider(g[m - 1], order[m], head) ELSE g[n]]
    <2>2. ASSUME NEW n \in 0..m PROVE h[n] = Rule(h, n)
        <3>1. CASE n = 0
            <4>1. 0 \in 0..(m - 1) /\ 0 # m
                BY <1>0
            <4>2. g[0] = Rule(g, 0)
                BY <2>1, <4>1
            <4> QED
                BY <3>1, <4>1, <4>2
        <3>2. CASE n # 0
            <4>1. n - 1 \in 0..m /\ n - 1 # m /\ n - 1 \in 0..(m - 1)
                BY <1>0, <3>2
            <4>2. h[n - 1] = g[n - 1]
                BY <4>1
            <4>3. CASE n = m
                BY <3>2, <4>2, <4>3
            <4>4. CASE n # m
                <5>1. n \in 0..(m - 1)
                    BY <1>0, <4>4
                <5>2. g[n] = Rule(g, n)
                    BY <2>1, <5>1
                <5> QED
                    BY <3>2, <4>2, <4>4, <5>2
            <4> QED
                BY <4>3, <4>4
        <3> QED
            BY <3>1, <3>2
    <2>3. h = [n \in 0..m |-> Rule(h, n)]
        <3> HIDE DEF Rule
        <3>1. h = [n \in 0..m |-> h[n]]
            OBVIOUS
        <3> HIDE DEF h
        <3> QED
            BY <2>2, <3>1
    <2> HIDE DEF h, Rule
    <2> QED
        BY <2>3
<1>3. N \in T
    <2>1. T \in SUBSET (0..N)
        OBVIOUS
    <2> HIDE DEF T
    <2> QED
        BY <1>0, <1>1, <1>2, <2>1, CountUp
<1>4. \E g : g = [n \in 0..N |-> Rule(g, n)]
    BY <1>3
<1>5. Considered(order, head) = CHOOSE g : g = [n \in 0..N |-> Rule(g, n)]
    BY DEF Considered, N
<1> DEFINE after == Considered(order, head)
<1> HIDE DEF Rule
<1>6. after = [n \in 0..N |-> Rule(after, n)]
    <2> DEFINE A == CHOOSE g : g = [n \in 0..N |-> Rule(g, n)]
    <2>1. A = [n \in 0..N |-> Rule(A, n)]
        BY <1>4
    <2> QED
        BY <1>5, <2>1
<1> HIDE DEF after
<1>7. after[0] = NoPlan
    <2>1. after[0] = Rule(after, 0)
        BY <1>0, <1>6
    <2> QED
        BY <2>1 DEF Rule
<1>8. ASSUME NEW n \in 1..N PROVE after[n] = Consider(after[n - 1], order[n], head)
    <2>1. after[n] = Rule(after, n)
        BY <1>0, <1>6
    <2> QED
        BY <1>0, <2>1 DEF Rule
<1> QED
    BY <1>7, <1>8 DEF N, after

\* Where Board puts a candidate: at b, when b is the first train after every
\* train that touches its files.
LEMMA BoardPlaces ==
    ASSUME NEW C, NEW trains \in Seq(SUBSET C), NEW c \in C, NEW b \in 1..(Len(trains) + 1),
           \A i \in 1..Len(trains) : Touches(trains[i], c) => i < b,
           b = 1 \/ Touches(trains[b - 1], c)
    PROVE  Board(trains, c) = IF b <= Len(trains) THEN [trains EXCEPT ![b] = @ \cup {c}]
                                                  ELSE Append(trains, {c})
<1> DEFINE taken == {i \in DOMAIN trains : Touches(trains[i], c)}
           last == CHOOSE i \in taken : \A j \in taken : j <= i
           start == 1 + (IF taken = {} THEN 0 ELSE last)
<1>1. DOMAIN trains = 1..Len(trains) /\ Len(trains) \in Nat
    OBVIOUS
<1>2. start = b
    <2>1. CASE b = 1
        <3>1. taken = {}
            BY <1>1, <2>1
        <3> QED
            BY <2>1, <3>1
    <2>2. CASE b # 1
        <3>1. b - 1 \in taken /\ \A j \in taken : j \in Nat /\ j <= b - 1
            BY <1>1, <2>2
        <3>2. last \in taken /\ \A j \in taken : j <= last
            <4> HIDE DEF taken
            <4> QED
                BY <3>1
        <3>3. last = b - 1
            <4> HIDE DEF taken, last
            <4> QED
                BY <3>1, <3>2
        <3> HIDE DEF last
        <3> QED
            BY <3>1, <3>3
    <2> QED
        BY <2>1, <2>2
<1>3. Board(trains, c) = IF start <= Len(trains) THEN [trains EXCEPT ![start] = @ \cup {c}]
                                                 ELSE Append(trains, {c})
    BY DEF Board
<1> HIDE DEF start
<1> QED
    BY <1>2, <1>3

PlanType(C) ==
    [trains : Seq(SUBSET C), rebase : SUBSET C, rereview : SUBSET C, held : SUBSET C,
     blocked : SUBSET Files]

\* The loop invariant of plan(): p is layered as far as the candidates of D,
\* and the blocked files are those of the stuck ones.
LayeredSoFar(p, D, C, head, features) ==
    LET stuck == Stuck(C, head, features)
        wave  == Wave(C, features)
    IN  /\ p \in PlanType(C)
        /\ p.rereview = {c \in D : ~Eligible(c, head)}
        /\ p.rebase = {c \in D : Eligible(c, head) /\ c.base # head}
        /\ p.held = {c \in D : Ready(c, head) /\ stuck[c]}
        /\ \A x \in Files : x \in p.blocked <=> \E c \in D : stuck[c] /\ x \in c.files
        /\ \A i \in 1..Len(p.trains) : /\ p.trains[i] # {}
                                       /\ p.trains[i] = {c \in D : ~stuck[c] /\ wave[c] = i}
        /\ \A c \in D : ~stuck[c] => wave[c] \in 1..Len(p.trains)

\* The list a stuck candidate belongs on.
ListOf(c, head) == IF ~Eligible(c, head) THEN "rereview"
                   ELSE IF c.base # head THEN "rebase" ELSE "held"

\* It is put there and blocks its files.
LEMMA HoldKeeps ==
    ASSUME NEW features, NEW C, C \subseteq CandidateType, NEW head,
           NEW D \in SUBSET C, NEW c \in C, c \notin D, NEW p,
           LayeredSoFar(p, D, C, head, features), Stuck(C, head, features)[c],
           NEW list, list = ListOf(c, head)
    PROVE  LayeredSoFar(Hold(p, list, c), D \cup {c}, C, head, features)
<1> DEFINE stuck == Stuck(C, head, features)
           wave == Wave(C, features)
           q == Hold(p, list, c)
<1>0. /\ list \in {"rereview", "rebase", "held"}
      /\ list = "rereview" <=> ~Eligible(c, head)
      /\ list = "rebase" <=> Eligible(c, head) /\ c.base # head
    BY DEF ListOf
<1> USE DEF LayeredSoFar
<1>1. p \in PlanType(C) /\ c.files \in SUBSET Files
    BY DEF CandidateType
<1>2. /\ q \in PlanType(C)
      /\ q.trains = p.trains
      /\ q.blocked = p.blocked \cup c.files
      /\ q.rereview = IF list = "rereview" THEN p.rereview \cup {c} ELSE p.rereview
      /\ q.rebase = IF list = "rebase" THEN p.rebase \cup {c} ELSE p.rebase
      /\ q.held = IF list = "held" THEN p.held \cup {c} ELSE p.held
    <2>1. CASE list = "rereview"
        BY <1>1, <2>1 DEF Hold, PlanType
    <2>2. CASE list = "rebase"
        BY <1>1, <2>2 DEF Hold, PlanType
    <2>3. CASE list = "held"
        BY <1>1, <2>3 DEF Hold, PlanType
    <2> QED
        BY <1>0, <2>1, <2>2, <2>3
<1> HIDE DEF q
<1>3. stuck[c]
    OBVIOUS
<1>4. Ready(c, head) <=> list = "held"
    BY <1>0 DEF Ready
<1> HIDE DEF stuck, wave
<1> USE DEF LayeredSoFar
<1>5. q.rereview = {d \in D \cup {c} : ~Eligible(d, head)}
    BY <1>0, <1>2
<1>6. q.rebase = {d \in D \cup {c} : Eligible(d, head) /\ d.base # head}
    BY <1>0, <1>2
<1>7. q.held = {d \in D \cup {c} : Ready(d, head) /\ stuck[d]}
    BY <1>2, <1>3, <1>4 DEF stuck
<1>8. \A x \in Files : x \in q.blocked <=> \E d \in D \cup {c} : stuck[d] /\ x \in d.files
    BY <1>1, <1>2, <1>3 DEF stuck
<1>9. \A i \in 1..Len(q.trains) : /\ q.trains[i] # {}
                                  /\ q.trains[i] = {d \in D \cup {c} : ~stuck[d] /\ wave[d] = i}
    BY <1>2, <1>3 DEF stuck, wave
<1>10. \A d \in D \cup {c} : ~stuck[d] => wave[d] \in 1..Len(q.trains)
    BY <1>2, <1>3 DEF stuck, wave
<1> QED
    BY <1>2, <1>5, <1>6, <1>7, <1>8, <1>9, <1>10 DEF stuck, wave, q

\* A candidate that is not stuck boards the train of its wave.
LEMMA BoardKeeps ==
    ASSUME NEW features, NEW C, NEW head,
           NEW D \in SUBSET C, NEW c \in C, c \notin D, NEW p,
           LayeredSoFar(p, D, C, head, features),
           ~Stuck(C, head, features)[c], Ready(c, head),
           Ahead(c, C, features) = {d \in D : Overlap(c, d)},
           \A d \in Ahead(c, C, features) :
               ~Stuck(C, head, features)[d] /\ Wave(C, features)[d] < Wave(C, features)[c],
           Wave(C, features)[c] \in Nat, Wave(C, features)[c] >= 1,
           \/ Wave(C, features)[c] = 1
           \/ \E d \in Ahead(c, C, features) : Wave(C, features)[c] = Wave(C, features)[d] + 1
    PROVE  LayeredSoFar([p EXCEPT !.trains = Board(@, c)], D \cup {c}, C, head, features)
<1> DEFINE stuck == Stuck(C, head, features)
           wave == Wave(C, features)
           trains == p.trains
           new == Board(trains, c)
           q == [p EXCEPT !.trains = new]
           b == wave[c]
<1>1. /\ p \in PlanType(C)
      /\ \A i \in 1..Len(trains) : /\ trains[i] # {}
                                    /\ trains[i] = {d \in D : ~stuck[d] /\ wave[d] = i}
      /\ \A d \in D : ~stuck[d] => wave[d] \in 1..Len(trains)
    BY DEF LayeredSoFar
<1>2. trains \in Seq(SUBSET C) /\ Len(trains) \in Nat
    BY <1>1 DEF PlanType
<1>3. /\ ~stuck[c] /\ b \in Nat /\ b >= 1
      /\ \A d \in Ahead(c, C, features) : d \in D /\ Overlap(c, d) /\ ~stuck[d] /\ wave[d] < b
      /\ \A d \in D : Overlap(c, d) => d \in Ahead(c, C, features)
      /\ b = 1 \/ \E d \in Ahead(c, C, features) : b = wave[d] + 1
    OBVIOUS
<1>4. \A d \in C : Overlap(c, d) <=> Overlap(d, c)
    BY DEF Overlap
<1> HIDE DEF stuck, wave, trains, b
<1>5. \A i \in 1..Len(trains) : Touches(trains[i], c) => i < b
    <2> SUFFICES ASSUME NEW i \in 1..Len(trains), NEW d \in trains[i], Overlap(c, d)
                 PROVE  i < b
        BY <1>1, <1>2, <1>4 DEF Touches
    <2>1. d \in D /\ wave[d] = i
        BY <1>1
    <2> QED
        BY <1>3, <2>1
<1>6. b \in 1..(Len(trains) + 1) /\ (b = 1 \/ Touches(trains[b - 1], c))
    <2>1. CASE b = 1
        BY <1>2, <2>1
    <2>2. CASE b # 1
        <3>1. PICK d \in Ahead(c, C, features) : b = wave[d] + 1
            BY <1>3, <2>2
        <3>2. d \in D /\ Overlap(d, c) /\ ~stuck[d] /\ wave[d] \in 1..Len(trains)
            BY <1>1, <1>3, <1>4
        <3>3. b - 1 = wave[d]
            BY <1>2, <3>1, <3>2
        <3>4. d \in trains[b - 1]
            BY <1>1, <3>2, <3>3
        <3> QED
            BY <1>2, <3>1, <3>2, <3>4 DEF Touches
    <2> QED
        BY <2>1, <2>2
<1>7. new = IF b <= Len(trains) THEN [trains EXCEPT ![b] = @ \cup {c}] ELSE Append(trains, {c})
    BY <1>2, <1>5, <1>6, BoardPlaces
<1> HIDE DEF new
<1>8. /\ new \in Seq(SUBSET C)
      /\ b \in 1..Len(new)
      /\ \A i \in 1..Len(trains) : i \in 1..Len(new)
      /\ \A i \in 1..Len(new) : /\ new[i] # {}
                                 /\ new[i] = {d \in D \cup {c} : ~stuck[d] /\ wave[d] = i}
    <2>1. CASE b <= Len(trains)
        <3>1. /\ new \in Seq(SUBSET C) /\ Len(new) = Len(trains)
              /\ new[b] = trains[b] \cup {c}
              /\ \A i \in 1..Len(trains) : i # b => new[i] = trains[i]
            BY <1>2, <1>6, <1>7, <2>1
        <3>2. ASSUME NEW i \in 1..Len(new)
              PROVE  new[i] # {} /\ new[i] = {d \in D \cup {c} : ~stuck[d] /\ wave[d] = i}
            <4>1. CASE i = b
                BY <1>1, <1>3, <3>1, <4>1 DEF b
            <4>2. CASE i # b
                BY <1>1, <1>3, <3>1, <4>2 DEF b
            <4> QED
                BY <4>1, <4>2
        <3> QED
            BY <1>2, <1>6, <2>1, <3>1, <3>2
    <2>2. CASE ~(b <= Len(trains))
        <3>1. b = Len(trains) + 1
            BY <1>2, <1>6, <2>2
        <3>2. /\ new \in Seq(SUBSET C) /\ Len(new) = b
              /\ new[b] = {c}
              /\ \A i \in 1..Len(trains) : new[i] = trains[i]
            BY <1>2, <1>7, <2>2, <3>1
        <3>3. ASSUME NEW i \in 1..Len(new)
              PROVE  new[i] # {} /\ new[i] = {d \in D \cup {c} : ~stuck[d] /\ wave[d] = i}
            <4>1. CASE i = b
                <5>1. \A d \in D : ~stuck[d] => wave[d] # b
                    BY <1>1, <1>2, <3>1
                <5> QED
                    BY <1>3, <3>2, <4>1, <5>1 DEF b
            <4>2. CASE i # b
                <5>1. i \in 1..Len(trains)
                    BY <1>2, <3>1, <3>2, <4>2
                <5> QED
                    BY <1>1, <3>2, <4>2, <5>1 DEF b
            <4> QED
                BY <4>1, <4>2
        <3> QED
            BY <1>2, <3>1, <3>2, <3>3
    <2> QED
        BY <2>1, <2>2
<1>9. \A d \in D \cup {c} : ~stuck[d] => wave[d] \in 1..Len(new)
    BY <1>1, <1>8 DEF b
<1>10. /\ q \in PlanType(C) /\ q.trains = new
       /\ q.rebase = p.rebase /\ q.rereview = p.rereview /\ q.held = p.held
       /\ q.blocked = p.blocked
    BY <1>1, <1>8 DEF PlanType
<1>11. /\ q.rereview = {d \in D \cup {c} : ~Eligible(d, head)}
       /\ q.rebase = {d \in D \cup {c} : Eligible(d, head) /\ d.base # head}
       /\ q.held = {d \in D \cup {c} : Ready(d, head) /\ stuck[d]}
       /\ \A x \in Files : x \in q.blocked <=> \E d \in D \cup {c} : stuck[d] /\ x \in d.files
    <2> HIDE DEF q
    <2>1. ~stuck[c] /\ Eligible(c, head) /\ c.base = head
        BY <1>3 DEF Ready
    <2> QED
        BY <1>10, <2>1 DEF LayeredSoFar, stuck
<1> HIDE DEF q
<1>12. LayeredSoFar(q, D \cup {c}, C, head, features)
    BY <1>8, <1>9, <1>10, <1>11 DEF LayeredSoFar, stuck, wave
<1> QED
    BY <1>12 DEF q, new, trains

\* One round of the loop.
LEMMA ConsiderKeeps ==
    ASSUME NEW features \in Seq(STRING), NEW C, Planable(C), NEW head,
           NEW D \in SUBSET C, NEW c \in C, c \notin D, NEW p,
           LayeredSoFar(p, D, C, head, features),
           Ahead(c, C, features) = {d \in D : Overlap(c, d)}
    PROVE  LayeredSoFar(Consider(p, c, head), D \cup {c}, C, head, features)
<1> DEFINE stuck == Stuck(C, head, features)
           wave == Wave(C, features)
<1>1. \A d \in C : stuck[d] <=> \/ ~Ready(d, head)
                                 \/ \E e \in Ahead(d, C, features) : stuck[e]
    BY StuckUnfolds
<1>2. /\ wave[c] \in Nat /\ wave[c] >= 1
      /\ \A d \in Ahead(c, C, features) : wave[d] < wave[c]
      /\ wave[c] = 1 \/ \E d \in Ahead(c, C, features) : wave[c] = wave[d] + 1
    BY WaveUnfolds
<1> HIDE DEF stuck, wave
<1>3. C \subseteq CandidateType
    BY DEF Planable
<1>4. CASE ~Eligible(c, head)
    <2>1. Consider(p, c, head) = Hold(p, "rereview", c)
        BY <1>4 DEF Consider, Ready
    <2>2. stuck[c]
        BY <1>1, <1>4 DEF Ready
    <2>3. "rereview" = ListOf(c, head)
        BY <1>4 DEF ListOf
    <2> QED
        BY <1>3, <2>1, <2>2, <2>3, HoldKeeps DEF stuck
<1>5. CASE Eligible(c, head) /\ c.base # head
    <2>1. Consider(p, c, head) = Hold(p, "rebase", c)
        BY <1>5 DEF Consider, Ready
    <2>2. stuck[c]
        BY <1>1, <1>5 DEF Ready
    <2>3. "rebase" = ListOf(c, head)
        BY <1>5 DEF ListOf
    <2> QED
        BY <1>3, <2>1, <2>2, <2>3, HoldKeeps DEF stuck
<1>6. CASE Ready(c, head)
    <2>1. Eligible(c, head) /\ c.base = head /\ c.files \subseteq Files
        BY <1>3, <1>6 DEF Ready, CandidateType
    <2>2. stuck[c] <=> \E d \in D : Overlap(c, d) /\ stuck[d]
        BY <1>1, <1>6
    <2>3. \A x \in Files : x \in p.blocked <=> \E d \in D : stuck[d] /\ x \in d.files
        BY DEF LayeredSoFar, stuck
    <2>4. p.blocked \subseteq Files
        BY DEF LayeredSoFar, PlanType
    <2>5. stuck[c] <=> c.files \cap p.blocked # {}
        BY <2>1, <2>2, <2>3, <2>4 DEF Overlap
    <2>6. CASE stuck[c]
        <3>1. Consider(p, c, head) = Hold(p, "held", c)
            BY <1>6, <2>1, <2>5, <2>6 DEF Consider
        <3>2. "held" = ListOf(c, head)
            BY <2>1 DEF ListOf
        <3> QED
            BY <1>3, <2>6, <3>1, <3>2, HoldKeeps DEF stuck
    <2>7. CASE ~stuck[c]
        <3>1. Consider(p, c, head) = [p EXCEPT !.trains = Board(@, c)]
            BY <1>6, <2>1, <2>5, <2>7 DEF Consider
        <3>2. \A d \in Ahead(c, C, features) : ~stuck[d]
            BY <2>2, <2>7
        <3> QED
            BY <1>2, <1>6, <2>7, <3>1, <3>2, BoardKeeps DEF stuck, wave
    <2> QED
        BY <2>6, <2>7
<1> QED
    BY <1>4, <1>5, <1>6 DEF Ready

\* plan() of queue.py, whatever finite queue, head and list of features it is
\* given: every candidate is listed once, where its readiness, the stuck work
\* ahead of it and its longest chain of overlapping work put it.
THEOREM PlanLayers ==
    ASSUME NEW features \in Seq(STRING), NEW C, Planable(C), NEW head
    PROVE  IsLayered(Plan(C, head, features), C, head, features)
<1> DEFINE order == Order(C, features)
           N == Len(order)
           after == Considered(order, head)
           D(n) == {order[i] : i \in 1..n}
           T == {n \in 0..N : LayeredSoFar(after[n], D(n), C, head, features)}
<1>1. /\ N \in Nat /\ order \in [1..N -> C]
      /\ \A c \in C : \E i \in 1..N : order[i] = c
      /\ \A i, j \in 1..N : Precedes(order[i], order[j], features) <=> i < j
    BY OrderSorts
<1>2. /\ after[0] = NoPlan
      /\ \A n \in 1..N : after[n] = Consider(after[n - 1], order[n], head)
    BY <1>1, ConsideredUnfolds
<1>3. Plan(C, head, features) = after[N]
    BY DEF Plan
<1> HIDE DEF order, N, after
<1>4. 0 \in T
    <2>1. D(0) = {}
        OBVIOUS
    <2> HIDE DEF D
    <2>2. LayeredSoFar(NoPlan, {}, C, head, features)
        BY DEF LayeredSoFar, NoPlan, PlanType
    <2>3. LayeredSoFar(after[0], D(0), C, head, features)
        BY <1>2, <2>1, <2>2
    <2> QED
        BY <1>1, <2>3
<1>5. ASSUME NEW n \in 1..N, n - 1 \in T PROVE n \in T
    <2> DEFINE c == order[n]
    <2>1. c \in C /\ n \in 1..N /\ n \in Nat
        BY <1>1
    <2>2. D(n - 1) \in SUBSET C
        BY <1>1
    <2>3. \A i \in 1..N : Precedes(order[i], c, features) <=> i \in 1..(n - 1)
        BY <1>1, <2>1
    <2>4. c \notin D(n - 1)
        <3>1. ~Precedes(c, c, features)
            BY <2>1, PrecedesIsOrder
        <3>2. \A i \in 1..(n - 1) : Precedes(order[i], c, features)
            BY <1>1, <2>1
        <3> QED
            BY <3>1, <3>2
    <2>5. D(n) = D(n - 1) \cup {c}
        <3>1. \A i : i \in 1..n <=> i \in 1..(n - 1) \/ i = n
            BY <2>1
        <3> QED
            BY <3>1
    <2>6. Ahead(c, C, features) = {d \in D(n - 1) : Overlap(c, d)}
        <3>1. \A d \in C : Precedes(d, c, features) <=> d \in D(n - 1)
            <4>1. ASSUME NEW d \in C PROVE Precedes(d, c, features) <=> d \in D(n - 1)
                <5>1. PICK i \in 1..N : order[i] = d
                    BY <1>1
                <5>2. Precedes(d, c, features) => d \in D(n - 1)
                    BY <2>3, <5>1
                <5>3. d \in D(n - 1) => Precedes(d, c, features)
                    BY <1>1, <2>1
                <5> QED
                    BY <5>2, <5>3
            <4> QED
                BY <4>1
        <3> HIDE DEF D, c
        <3> QED
            BY <2>2, <3>1 DEF Ahead
    <2>7. LayeredSoFar(after[n - 1], D(n - 1), C, head, features)
        BY <1>5
    <2>8. after[n] = Consider(after[n - 1], c, head)
        BY <1>2
    <2> HIDE DEF D, c
    <2>9. LayeredSoFar(after[n], D(n), C, head, features)
        BY <2>1, <2>2, <2>4, <2>5, <2>6, <2>7, <2>8, ConsiderKeeps
    <2> QED
        BY <1>1, <2>1, <2>9
<1>6. N \in T
    <2>1. T \in SUBSET (0..N)
        OBVIOUS
    <2> HIDE DEF T
    <2> QED
        BY <1>1, <1>4, <1>5, <2>1, CountUp
<1>7. D(N) = C
    BY <1>1
<1> HIDE DEF D
<1> DEFINE p == after[N]
           stuck == Stuck(C, head, features)
           wave == Wave(C, features)
<1>8. LayeredSoFar(p, C, C, head, features)
    BY <1>6, <1>7
<1> HIDE DEF p
<1>9. DOMAIN p.trains = 1..Len(p.trains) /\ Len(p.trains) \in Nat
    BY <1>8 DEF LayeredSoFar, PlanType
<1>10. UNION Range(p.trains) = {c \in C : ~stuck[c]}
    <2>1. \A i \in DOMAIN p.trains : p.trains[i] = {c \in C : ~stuck[c] /\ wave[c] = i}
        BY <1>8, <1>9 DEF LayeredSoFar
    <2>2. \A c \in C : ~stuck[c] => wave[c] \in DOMAIN p.trains
        BY <1>8, <1>9 DEF LayeredSoFar
    <2> HIDE DEF stuck, wave
    <2> QED
        BY <2>1, <2>2 DEF Range
<1> QED
    BY <1>3, <1>8, <1>9, <1>10 DEF IsLayered, LayeredSoFar, p

\* The docstring of plan() from that: nothing boards that overlaps work ahead
\* of it which cannot, and of two that overlap the higher-ranked one lands on
\* an earlier train; so no train has two candidates of one file.
THEOREM NeverAhead ==
    ASSUME NEW features \in Seq(STRING), NEW C, Planable(C), NEW head, NEW plan,
           IsLayered(plan, C, head, features),
           NEW i \in DOMAIN plan.trains, NEW c \in plan.trains[i],
           NEW d \in C, c # d, Overlap(c, d)
    PROVE  /\ Precedes(d, c, features) => \E j \in DOMAIN plan.trains : d \in plan.trains[j]
           /\ \A j \in DOMAIN plan.trains :
                 d \in plan.trains[j] => (Precedes(d, c, features) <=> j < i) /\ j # i
<1> DEFINE stuck == Stuck(C, head, features)
           wave == Wave(C, features)
<1>1. /\ c \in C /\ ~stuck[c] /\ wave[c] = i
      /\ \A j \in DOMAIN plan.trains : d \in plan.trains[j] => wave[d] = j
      /\ ~stuck[d] => \E j \in DOMAIN plan.trains : d \in plan.trains[j]
    BY DEF IsLayered, Range
<1>2. Overlap(d, c)
    BY DEF Overlap
<1>3. /\ Precedes(d, c, features) => wave[d] < wave[c] /\ ~stuck[d]
      /\ Precedes(c, d, features) => wave[c] < wave[d]
    <2>1. /\ Precedes(d, c, features) => d \in Ahead(c, C, features)
          /\ Precedes(c, d, features) => c \in Ahead(d, C, features)
        BY <1>1, <1>2 DEF Ahead
    <2> QED
        BY <1>1, <2>1, StuckUnfolds, WaveUnfolds
<1>4. wave[c] \in Nat /\ wave[d] \in Nat
    BY <1>1, WaveUnfolds
<1>5. Precedes(d, c, features) \/ Precedes(c, d, features)
    BY <1>1, PrecedesIsOrder
<1> HIDE DEF stuck, wave
<1> QED
    BY <1>1, <1>3, <1>4, <1>5

-----------------------------------------------------------------------------
(* What the journal hands to plan().                                       *)

\* A row that leaves an entry is about the sha of that entry.
RowsNameTheirSha ==
    \A i \in DOMAIN log : log[i].entry # Absent => log[i].entry.sha = log[i].sha

LEMMA RowsNamedKept == TypeOK /\ RowsNameTheirSha /\ [Next]_vars => RowsNameTheirSha'
<1> SUFFICES ASSUME TypeOK, RowsNameTheirSha, [Next]_vars PROVE RowsNameTheirSha'
    OBVIOUS
<1>1. CASE Next
    <2>1. PICK row \in Row : Writes(row) /\ (row.entry # Absent => row.entry.sha = row.sha)
        BY <1>1, WrittenRows
    <2>2. log' = log \/ log' = Append(log, row) \/ log' = Append(log, Unreadable)
        BY <2>1 DEF Writes, Completes, Appended, Fails, CutOff
    <2>3. log \in Seq(Line)
        BY DEF TypeOK, Line
    <2>4. ASSUME NEW line \in Line, line.entry # Absent => line.entry.sha = line.sha,
                 log' = Append(log, line)
          PROVE  RowsNameTheirSha'
        <3>1. /\ DOMAIN log' = 1..(Len(log) + 1) /\ Len(log) \in Nat
              /\ DOMAIN log = 1..Len(log)
              /\ log'[Len(log) + 1] = line
              /\ \A i \in 1..Len(log) : log'[i] = log[i]
            BY <2>3, <2>4
        <3>2. \A i \in DOMAIN log' : i = Len(log) + 1 \/ i \in DOMAIN log
            BY <3>1
        <3> QED
            BY <2>4, <3>1, <3>2 DEF RowsNameTheirSha
    <2>5. row \in Line /\ Unreadable \in Line /\ Unreadable.entry = Absent
        BY DEF Line, Unreadable
    <2> QED
        BY <2>1, <2>2, <2>4, <2>5 DEF RowsNameTheirSha
<1>2. CASE UNCHANGED vars
    BY <1>2 DEF RowsNameTheirSha, vars
<1> QED
    BY <1>1, <1>2

\* The queue is finite, because the journal is, and holds one entry per sha.
LEMMA QueuedPlanable ==
    ASSUME TypeOK, RowsNameTheirSha
    PROVE  Planable(Queued)
<1>1. log \in Seq(Line)
    BY DEF TypeOK, Line
<1>2. ASSUME NEW s \in Sha, Entry(s) # Absent
      PROVE  /\ Entry(s) \in CandidateType /\ Entry(s).sha = s
             /\ \E i \in 1..Len(log) : Entry(s) = log[i].entry
    <2>1. LastRows(log, s) # {}
        BY <1>2 DEF Entry, Replayed
    <2> DEFINE i == CHOOSE j \in LastRows(log, s) : TRUE
    <2>2. i \in DOMAIN log /\ log[i].sha = s
        BY <2>1 DEF LastRows
    <2>3. Entry(s) = log[i].entry
        BY <2>1 DEF Entry, Replayed
    <2> HIDE DEF i
    <2>4. Entry(s) \in Entries
        BY <1>1, <1>2, ReplayType DEF Entry
    <2> QED
        BY <1>1, <1>2, <2>2, <2>3, <2>4, EntriesTyped DEF RowsNameTheirSha
<1>3. \A c \in Queued : \E s \in Sha : c = Entry(s) /\ Entry(s) # Absent
    BY DEF Queued
<1>4. IsFiniteSet(Queued)
    <2> DEFINE written == [i \in 1..Len(log) |-> log[i].entry]
               W == Range(written)
    <2>1. written \in Surjection(1..Len(log), W)
        BY DEF Surjection, Range
    <2>2. IsFiniteSet(1..Len(log))
        BY <1>1, FS_Interval
    <2>3. Queued \subseteq W
        BY <1>2, <1>3 DEF Range
    <2> HIDE DEF W, written
    <2>4. IsFiniteSet(W)
        BY <2>1, <2>2, FS_Surjection
    <2> QED
        BY <2>3, <2>4, FS_Subset
<1> QED
    BY <1>2, <1>3, <1>4 DEF Planable

\* At every head and for every list of features, plan() layers the queue that
\* any joins, leaves and cut-off appends have left behind.
THEOREM PlanCorrect == Spec => []PlanIsLayered
<1>1. Init => RowsNameTheirSha
    BY DEF Init, RowsNameTheirSha
<1>2. TypeOK /\ RowsNameTheirSha => PlanIsLayered
    <2> SUFFICES ASSUME TypeOK, RowsNameTheirSha,
                        NEW head \in Masters, NEW features \in FeatureLists
                 PROVE  IsLayered(Plan(Queued, head, features), Queued, head, features)
        BY DEF PlanIsLayered
    <2>1. features \in Seq(STRING)
        BY FeatureListsAssumption
    <2> QED
        BY <2>1, QueuedPlanable, PlanLayers
<1> QED
    BY <1>1, <1>2, RowsNamedKept, QueueTypeCorrect, PTL DEF Spec

-----------------------------------------------------------------------------
(* The run record.                                                         *)

-----------------------------------------------------------------------------
(* The calls of transition().                                              *)

\* A move that the table allows leads to a state of a record.
LEMMA TransitionsStates ==
    ASSUME NEW s \in State, NEW t \in Transitions[s]
    PROVE  t \in State
BY DEF State, Transitions

\* Loading a record keeps the invariant's part on copies and goals.
LEMMA LoadKeeps ==
    ASSUME RecordTypeOK, NEW w \in Writer, NEW s \in State, Load(w, s)
    PROVE  /\ copy' \in [Writer -> Record \cup {NoCopy}]
           /\ goal' \in [Writer -> State \cup {"same"}]
           /\ \A v \in Writer : copy'[v] = NoCopy => goal'[v] = "same"
<1>1. file # NoCopy
  BY DEF RecordTypeOK, Record, NoCopy, State
<1>. QED  BY <1>1 DEF RecordTypeOK, Load, Idle

\* The same for a plain rewrite, whose goal is no state.
LEMMA LoadSameKeeps ==
    ASSUME RecordTypeOK, NEW w \in Writer, Load(w, "same")
    PROVE  /\ copy' \in [Writer -> Record \cup {NoCopy}]
           /\ goal' \in [Writer -> State \cup {"same"}]
           /\ \A v \in Writer : copy'[v] = NoCopy => goal'[v] = "same"
BY DEF RecordTypeOK, Load, Idle

\* An allowed move of a loaded record is a record.
LEMMA MovedRecord ==
    ASSUME RecordTypeOK, NEW w \in Writer, ~Idle(w), goal[w] # "same", Allowed(w)
    PROVE  Moved(w) \in Record
<1>1. copy[w] \in Record /\ goal[w] \in State
  BY DEF RecordTypeOK, Idle
<1>. QED  BY <1>1 DEF Moved, Allowed, Record

\* A commit keeps the record and the copies well formed.
LEMMA CommitKeeps ==
    ASSUME RecordTypeOK, NEW w \in Writer, Commit(w)
    PROVE  /\ file' \in Record
           /\ copy' \in [Writer -> Record \cup {NoCopy}]
           /\ goal' \in [Writer -> State \cup {"same"}]
           /\ \A v \in Writer : copy'[v] = NoCopy => goal'[v] = "same"
<1>1. copy[w] \in Record
  BY DEF RecordTypeOK, Idle, Commit
<1>2. file' \in Record
  BY <1>1, MovedRecord DEF Commit
<1>. QED  BY <1>2 DEF Commit, RecordTypeOK, Idle

\* So does a refusal, which writes nothing.
LEMMA RefusedKeeps ==
    ASSUME RecordTypeOK, NEW w \in Writer, Refused(w)
    PROVE  /\ file' \in Record
           /\ copy' \in [Writer -> Record \cup {NoCopy}]
           /\ goal' \in [Writer -> State \cup {"same"}]
           /\ \A v \in Writer : copy'[v] = NoCopy => goal'[v] = "same"
BY DEF Refused, RecordTypeOK, Idle

\* So does the first of two writes, which leaves a record to be written again.
LEMMA CommitsTwiceKeeps ==
    ASSUME RecordTypeOK, NEW w \in Writer, ~Idle(w), goal[w] # "same",
           NEW noted \in Record, CommitsTwice(w, noted)
    PROVE  /\ file' \in Record
           /\ copy' \in [Writer -> Record \cup {NoCopy}]
           /\ goal' \in [Writer -> State \cup {"same"}]
           /\ \A v \in Writer : copy'[v] = NoCopy => goal'[v] = "same"
<1>1. noted # NoCopy
  BY DEF Record, NoCopy, State
<1>. QED  BY <1>1, MovedRecord DEF CommitsTwice, RecordTypeOK, Idle

\* A successor of a record is a record nobody has loaded.
LEMMA SucceedsType ==
    ASSUME NEW old \in Record, Succeeds(old), RecordTypeOK
    PROVE  RecordTypeOK'
<1>1. file' = [state |-> "queued", attempts |-> old.attempts, silent |-> FALSE, closed |-> FALSE]
  BY DEF Succeeds, NoCopy, Inherited
<1>2. file' \in Record
  BY <1>1 DEF Record, State
<1>. QED  BY <1>2 DEF Succeeds, RecordTypeOK, Idle, Stage

-----------------------------------------------------------------------------

\* The invariant holds of a queued record nobody has loaded.
LEMMA RecordTypeInit == RecordInit => RecordTypeOK
<1>. SUFFICES ASSUME RecordInit PROVE RecordTypeOK
  OBVIOUS
<1>1. file = [state |-> "queued", attempts |-> 0, silent |-> FALSE, closed |-> FALSE]
  BY DEF RecordInit, NoCopy
<1>2. file \in Record
  BY <1>1 DEF Record, State
<1>. QED  BY <1>2 DEF RecordInit, RecordTypeOK, Stage, Idle

\* Every step of every writer keeps it.
LEMMA RecordTypeStep == RecordTypeOK /\ [RecordNext]_recordVars => RecordTypeOK'
<1>. SUFFICES ASSUME RecordTypeOK, [RecordNext]_recordVars PROVE RecordTypeOK'
  OBVIOUS
<1>. USE DEF Idle, Over
<1>a. "tick" \in Writer /\ "inspector" \in Writer /\ "watchdog" \in Writer
      /\ "worker" \in Writer /\ "verify" \in Writer
  BY DEF Writer
<1>1. CASE UNCHANGED recordVars
  BY <1>1 DEF RecordTypeOK, recordVars
<1>2. CASE TickReads
  BY <1>2 DEF TickReads, RecordTypeOK
<1>3. CASE TickMarksSilent
  <2>1. snap \in Record
    BY <1>3 DEF TickMarksSilent, RecordTypeOK, Working, NoCopy
  <2>2. file' \in Record /\ snap' \in Record
    BY <1>3, <2>1 DEF TickMarksSilent, Record
  <2>. QED  BY <1>3, <2>2 DEF TickMarksSilent, RecordTypeOK
<1>4. CASE TickLoads
  <2>1. PICK s \in TickGoals : Load("tick", s)
    BY <1>4 DEF TickLoads
  <2>2. s \in State
    BY DEF TickGoals, State
  <2>. QED  BY <1>4, <1>a, <2>1, <2>2, LoadKeeps DEF TickLoads, Load, RecordTypeOK
<1>5. CASE TickCommits
  <2>s. spent' \in Nat
    BY <1>5 DEF TickCommits, Spends, RecordTypeOK
  <2>1. CASE goal["tick"] = "fixback" /\ Allowed("tick")
    <3>1. copy["tick"] # NoCopy /\ goal["tick"] # "same"
      BY <2>1, <1>a DEF RecordTypeOK
    <3>2. Moved("tick") \in Record
      BY <2>1, <3>1, <1>a, MovedRecord
    <3>3. CommitsTwice("tick", Moved("tick"))
      BY <1>5, <2>1 DEF TickCommits
    <3>. QED  BY <1>5, <2>s, <2>1, <3>1, <3>2, <3>3, <1>a, CommitsTwiceKeeps DEF TickCommits, RecordTypeOK
  <2>2. CASE ~(goal["tick"] = "fixback" /\ Allowed("tick"))
    BY <1>5, <2>s, <2>2, <1>a, CommitKeeps DEF TickCommits, RecordTypeOK, Stage
  <2>. QED  BY <2>1, <2>2
<1>6. CASE TickEnds
  BY <1>6, <1>a, RefusedKeeps DEF TickEnds, RecordTypeOK
<1>7. CASE WatchdogLoads
  <2>1. "timeout" \in State
    BY DEF State
  <2>. QED  BY <1>7, <1>a, <2>1, LoadKeeps DEF WatchdogLoads, Load, RecordTypeOK
<1>8. CASE WatchdogFinishes
  BY <1>8, <1>a, CommitKeeps, RefusedKeeps DEF WatchdogFinishes, RecordTypeOK
<1>9. CASE InspectorLoads
  <2>1. "timeout" \in State /\ "escalated" \in State
    BY DEF State
  <2>. QED  BY <1>9, <1>a, <2>1, LoadKeeps DEF InspectorLoads, Load, RecordTypeOK
<1>10. CASE InspectorCommits
  <2>1. CASE goal["inspector"] = "timeout" /\ Allowed("inspector")
    <3>1. copy["inspector"] # NoCopy /\ goal["inspector"] # "same"
      BY <2>1, <1>a DEF RecordTypeOK
    <3>2. Moved("inspector") \in Record
      BY <2>1, <3>1, <1>a, MovedRecord
    <3>. DEFINE marked == [Moved("inspector") EXCEPT !.closed = TRUE]
    <3>3. marked \in Record
      BY <3>2 DEF Record
    <3>4. CommitsTwice("inspector", marked)
      BY <1>10, <2>1 DEF InspectorCommits
    <3>. HIDE DEF marked
    <3>. QED  BY <1>10, <3>1, <3>3, <3>4, <1>a, CommitsTwiceKeeps DEF InspectorCommits, RecordTypeOK
  <2>2. CASE ~(goal["inspector"] = "timeout" /\ Allowed("inspector"))
    BY <1>10, <2>2, <1>a, CommitKeeps, RefusedKeeps
    DEF InspectorCommits, RecordTypeOK
  <2>. QED  BY <2>1, <2>2
<1>11. CASE WorkerBoots
  BY <1>11, <1>a, LoadSameKeeps DEF WorkerBoots, Load, RecordTypeOK, Stage
<1>12. CASE WorkerRenders
  BY <1>12, <1>a, CommitKeeps DEF WorkerRenders, RecordTypeOK, Stage
<1>13. CASE WorkerAttempts
  <2>1. "timeout" \in State /\ "escalated" \in State /\ "dispatched" \in State
    BY DEF State
  <2>2. \/ UNCHANGED <<copy, goal>>
        \/ \E s \in State : Load("worker", s)
    BY <1>13, <2>1 DEF WorkerAttempts
  <2>3. stage' \in Stage /\ UNCHANGED <<file, snap, checking, late, spent>>
    BY <1>13 DEF WorkerAttempts, Stage
  <2>. QED  BY <2>2, <2>3, <1>a, LoadKeeps DEF RecordTypeOK
<1>14. CASE WorkerSends
  BY <1>14, <1>a, LoadSameKeeps DEF WorkerSends, Load, RecordTypeOK, Stage
<1>15. CASE WorkerAsks
  <2>1. PICK s \in WorkerGoals : Load("worker", s)
    BY <1>15 DEF WorkerAsks
  <2>2. s \in State
    BY DEF WorkerGoals, State
  <2>. QED  BY <1>15, <1>a, <2>1, <2>2, LoadKeeps DEF WorkerAsks, Load, RecordTypeOK
<1>16. CASE WorkerCommits
  <2>1. spent' \in Nat
    BY <1>16 DEF WorkerCommits, Spends, RecordTypeOK
  <2>. QED  BY <1>16, <1>a, <2>1, CommitKeeps DEF WorkerCommits, After, RecordTypeOK, Stage
<1>17. CASE WorkerRefused
  BY <1>17, <1>a, RefusedKeeps DEF WorkerRefused, RecordTypeOK, Stage
<1>18. CASE WorkerGivesUp
  <2>1. "escalated" \in State
    BY DEF State
  <2>. QED  BY <1>18, <1>a, <2>1, LoadKeeps DEF WorkerGivesUp, Load, RecordTypeOK, Stage
<1>19. CASE WorkerKilled
  BY <1>19, <1>a DEF WorkerKilled, RecordTypeOK, Stage
<1>20. CASE VerifyReads
  BY <1>20 DEF VerifyReads, RecordTypeOK
<1>21. CASE VerifyLoads
  <2>1. PICK s \in {"verify_pass", "verify_fail"} : Load("verify", s)
    BY <1>21 DEF VerifyLoads
  <2>2. s \in State
    BY DEF State
  <2>. QED  BY <1>21, <1>a, <2>1, <2>2, LoadKeeps DEF VerifyLoads, Load, RecordTypeOK
<1>22. CASE VerifyFinishes
  BY <1>22, <1>a, CommitKeeps, RefusedKeeps DEF VerifyFinishes, RecordTypeOK
<1>23. CASE DeadlinePasses
  BY <1>23 DEF DeadlinePasses, RecordTypeOK
<1>24. CASE TickRetries
  <2>1. snap \in Record
    BY <1>24 DEF TickRetries, RecordTypeOK, NoCopy
  <2>. QED  BY <1>24, <2>1, SucceedsType DEF TickRetries
<1>25. CASE InspectorRequeues
  BY <1>25, SucceedsType DEF InspectorRequeues, RecordTypeOK
<1>. QED
  BY <1>1, <1>2, <1>3, <1>4, <1>5, <1>6, <1>7, <1>8, <1>9, <1>10, <1>11, <1>12, <1>13,
     <1>14, <1>15, <1>16, <1>17, <1>18, <1>19, <1>20, <1>21, <1>22, <1>23, <1>24, <1>25
  DEF RecordNext, Tick, Worker

\* Every record and copy is well formed, whatever is written over whatever.
THEOREM RecordTypeCorrect == RecordSpec => []RecordTypeOK
  BY RecordTypeInit, RecordTypeStep, PTL DEF RecordSpec
-----------------------------------------------------------------------------
(* How many dispatches a node can be given.                                *)

\* From a launch until the worker has decided whether to dispatch once more.
Early == {"boot", "render", "attempt", "redispatch"}

\* A record that counts at least half of what was spent, and leaves one of its
\* counts unused while the worker may still dispatch again.
Counts(r) ==
    /\ spent <= 2 * r.attempts
    /\ stage \in Early => spent < 2 * r.attempts

\* The records that can still be written back all count so.
Counted ==
    /\ Counts(file)
    /\ \A w \in Writer : copy[w] # NoCopy => Counts(copy[w])
    /\ snap # NoCopy => Counts(snap)

\* Before the launch of a record only the tick is in a call on it.
Waits == {"queued", "timeout", "escalated"}
Unsent ==
    /\ \A w \in Writer \ {"tick"} : copy[w] = NoCopy
    /\ ~checking
    /\ file.state \in Waits /\ ~file.closed
    /\ snap # NoCopy => snap.state \in Waits /\ ~snap.closed
    /\ copy["tick"] # NoCopy => /\ copy["tick"].state \in Waits /\ ~copy["tick"].closed
                                /\ goal["tick"] \in {"timeout", "dispatched", "escalated"}

\* After it nobody holds a record that the tick could launch again.
Sent ==
    /\ file.state # "queued" /\ snap.state # "queued"
    /\ \A w \in Writer : copy[w].state # "queued"
    /\ goal["tick"] # "dispatched"

SpentInv ==
    /\ spent < 2 * AttemptsPerTier
    /\ Counted
    /\ stage = "none" => Unsent
    /\ stage # "none" => Sent
    /\ goal["worker"] = "dispatched" => stage = "redispatch"
    /\ \A w \in Writer \ {"tick", "worker"} : goal[w] # "dispatched"

\* No move leads back to a queued record.
LEMMA NeverQueuedAgain ==
    ASSUME NEW s \in State, NEW t \in Transitions[s]
    PROVE  t # "queued"
BY DEF State, Transitions

\* Nothing is spent on a node nobody has dispatched.
LEMMA SpentInit == RecordInit => SpentInv
<1>. SUFFICES ASSUME RecordInit PROVE SpentInv
  OBVIOUS
<1>1. file.attempts = 0 /\ file.state = "queued" /\ ~file.closed /\ spent = 0 /\ stage = "none"
  BY DEF RecordInit, NoCopy
<1>2. Counts(file)
  BY <1>1 DEF Counts, Early
<1>. QED
  BY <1>1, <1>2, AttemptsAssumption
  DEF RecordInit, SpentInv, Counted, Unsent, Waits, Writer

\* A load hands on what is known of the file.
LEMMA LoadSpent ==
    ASSUME RecordTypeOK, SpentInv, NEW w \in Writer, NEW s \in State \cup {"same"}, Load(w, s),
           UNCHANGED <<file, snap, checking, spent>>,
           stage # "none", stage' # "none",
           stage' \in Early => stage \in Early,
           s = "dispatched" => w = "worker" /\ stage' = "redispatch",
           w = "worker" \/ stage' = stage
    PROVE  SpentInv'
<1>1. \A r : Counts(r) => /\ spent' <= 2 * r.attempts
                          /\ stage' \in Early => spent' < 2 * r.attempts
  BY DEF Counts
<1>2. Counted'
  BY <1>1 DEF SpentInv, Counted, Counts, Load, Idle, RecordTypeOK
<1>3. Sent'
  BY DEF SpentInv, Sent, Load, Idle, RecordTypeOK, Writer
<1>4. goal["worker"]' = "dispatched" => stage' = "redispatch"
  BY DEF SpentInv, Load, Idle, RecordTypeOK, Writer
<1>5. \A v \in Writer \ {"tick", "worker"} : goal[v]' # "dispatched"
  BY DEF SpentInv, Load, Idle, RecordTypeOK, Writer
<1>. QED  BY <1>2, <1>3, <1>4, <1>5 DEF SpentInv

\* What is written in a step that dispatches nothing, once the node is sent: a
\* record some call had in hand, or a move of it that its caller may keep.
LEMMA WriteSpent ==
    ASSUME RecordTypeOK, SpentInv, NEW w \in Writer,
           stage # "none", stage' # "none", stage' \in Early => stage \in Early,
           UNCHANGED spent,
           file'.attempts = file.attempts
             \/ (copy[w] # NoCopy /\ file'.attempts = copy[w].attempts)
             \/ (snap # NoCopy /\ file'.attempts = snap.attempts),
           file'.state # "queued",
           snap' = snap \/ snap' = NoCopy \/ (snap'.attempts = snap.attempts /\ snap # NoCopy /\ snap'.state # "queued"),
           \/ copy' = copy
           \/ copy' = [copy EXCEPT ![w] = NoCopy]
           \/ \E r \in Record : /\ copy' = [copy EXCEPT ![w] = r]
                                /\ copy[w] # NoCopy
                                /\ r.attempts = copy[w].attempts /\ r.state # "queued",
           \/ goal' = goal /\ (goal["worker"] = "dispatched" => stage' = "redispatch")
           \/ goal' = [goal EXCEPT ![w] = "same"]
              /\ (w = "worker" \/ goal["worker"] # "dispatched" \/ stage' = "redispatch")
    PROVE  SpentInv'
<1>1. \A r : Counts(r) => /\ spent' <= 2 * r.attempts
                          /\ stage' \in Early => spent' < 2 * r.attempts
  BY DEF Counts
<1>2. /\ Counts(file)
      /\ copy[w] # NoCopy => Counts(copy[w])
      /\ snap # NoCopy => Counts(snap)
  BY DEF SpentInv, Counted
<1>3. spent' <= 2 * file'.attempts /\ (stage' \in Early => spent' < 2 * file'.attempts)
  BY <1>1, <1>2
<1>4. snap' # NoCopy => spent' <= 2 * snap'.attempts /\ (stage' \in Early => spent' < 2 * snap'.attempts)
  BY <1>1, <1>2
<1>5. ASSUME NEW v \in Writer, copy[v]' # NoCopy
      PROVE  spent' <= 2 * copy'[v].attempts /\ (stage' \in Early => spent' < 2 * copy'[v].attempts)
  <2>1. CASE copy'[v] = copy[v]
    BY <1>1, <1>5, <2>1 DEF SpentInv, Counted
  <2>2. CASE copy'[v] # copy[v]
    <3>1. v = w /\ copy[w] # NoCopy /\ copy'[w].attempts = copy[w].attempts
      BY <1>5, <2>2 DEF RecordTypeOK
    <3>. QED  BY <1>1, <1>2, <3>1
  <2>. QED  BY <2>1, <2>2
<1>6. Counted'
  BY <1>3, <1>4, <1>5 DEF Counted, Counts, Early
<1>7. Sent'
  <2>1. snap'.state # "queued"
    BY DEF SpentInv, Sent, NoCopy
  <2>2. \A v \in Writer : copy[v]'.state # "queued"
    BY DEF SpentInv, Sent, NoCopy, RecordTypeOK
  <2>3. goal["tick"]' # "dispatched"
    BY DEF SpentInv, Sent, RecordTypeOK, Writer
  <2>. QED  BY <2>1, <2>2, <2>3 DEF Sent
<1>8. goal["worker"]' = "dispatched" => stage' = "redispatch"
  BY DEF RecordTypeOK, Writer
<1>9. \A v \in Writer \ {"tick", "worker"} : goal[v]' # "dispatched"
  BY DEF SpentInv, RecordTypeOK, Writer
<1>. QED  BY <1>6, <1>7, <1>8, <1>9 DEF SpentInv

\* A commit by anyone but the tick's and the worker's dispatches writes a
\* record it had loaded, or a move of that one.
LEMMA CommitSpent ==
    ASSUME RecordTypeOK, SpentInv, NEW w \in Writer, Commit(w), goal[w] # "dispatched",
           stage # "none", stage' # "none", stage' \in Early => stage \in Early,
           UNCHANGED spent, snap' = snap \/ snap' = NoCopy,
           w = "worker" \/ stage' = stage
    PROVE  SpentInv'
<1>1. copy[w] \in Record /\ copy[w] # NoCopy /\ copy[w].state # "queued"
  BY DEF Commit, Idle, RecordTypeOK, SpentInv, Sent
<1>2. file'.attempts = copy[w].attempts /\ file'.state # "queued"
  <2>1. CASE goal[w] # "same" /\ Allowed(w) /\ file' = Moved(w)
    <3>1. goal[w] # "queued"
      BY <1>1, <2>1, NeverQueuedAgain DEF Allowed, Record
    <3>. QED  BY <2>1, <3>1 DEF Moved
  <2>2. CASE file' = copy[w]
    BY <1>1, <2>2
  <2>. QED  BY <2>1, <2>2 DEF Commit
<1>3. copy' = [copy EXCEPT ![w] = NoCopy] /\ goal' = [goal EXCEPT ![w] = "same"]
  BY DEF Commit
<1>4. w = "worker" \/ goal["worker"] # "dispatched" \/ stage' = "redispatch"
  BY DEF SpentInv
<1>. QED  BY <1>1, <1>2, <1>3, <1>4, WriteSpent

\* A refusal writes nothing.
LEMMA RefusedSpent ==
    ASSUME RecordTypeOK, SpentInv, NEW w \in Writer, Refused(w),
           stage # "none", stage' # "none", stage' \in Early => stage \in Early,
           UNCHANGED spent, snap' = snap \/ snap' = NoCopy,
           w = "worker" \/ stage' = stage
    PROVE  SpentInv'
<1>1. file'.attempts = file.attempts /\ file'.state # "queued"
  BY DEF Refused, SpentInv, Sent
<1>2. copy' = [copy EXCEPT ![w] = NoCopy] /\ goal' = [goal EXCEPT ![w] = "same"]
  BY DEF Refused
<1>3. w = "worker" \/ goal["worker"] # "dispatched" \/ stage' = "redispatch"
  BY DEF SpentInv
<1>. QED  BY <1>1, <1>2, <1>3, WriteSpent

\* The first of two writes: the record kept for the second counts the same.
LEMMA TwiceSpent ==
    ASSUME RecordTypeOK, SpentInv, NEW w \in Writer \ {"worker"}, copy[w] # NoCopy,
           goal[w] \notin {"same", "dispatched"},
           NEW noted \in Record, noted.attempts = copy[w].attempts, noted.state = goal[w],
           CommitsTwice(w, noted), stage # "none", UNCHANGED <<stage, spent, snap>>
    PROVE  SpentInv'
<1>1. copy[w] \in Record /\ goal[w] \in Transitions[copy[w].state]
  BY DEF RecordTypeOK, CommitsTwice, Allowed
<1>2. goal[w] # "queued"
  BY <1>1, NeverQueuedAgain DEF Record
<1>3. file'.attempts = copy[w].attempts /\ file'.state # "queued"
  BY <1>2 DEF CommitsTwice, Moved
<1>4. copy' = [copy EXCEPT ![w] = noted] /\ goal' = [goal EXCEPT ![w] = "same"]
  BY DEF CommitsTwice
<1>5. w = "worker" \/ goal["worker"] # "dispatched" \/ stage' = "redispatch"
  BY DEF SpentInv
<1>. QED  BY <1>2, <1>3, <1>4, <1>5, WriteSpent

\* A successor counts what its predecessor counted, and nobody holds it yet.
LEMMA SucceedsSpent ==
    ASSUME RecordTypeOK, SpentInv, NEW old \in Record, Counts(old), Succeeds(old)
    PROVE  SpentInv'
<1>1. file' = [state |-> "queued", attempts |-> old.attempts, silent |-> FALSE, closed |-> FALSE]
  BY DEF Succeeds, NoCopy, Inherited
<1>2. spent' = spent /\ stage' = "none" /\ snap' = NoCopy /\ ~checking'
      /\ copy' = [w \in Writer |-> NoCopy] /\ goal' = [w \in Writer |-> "same"]
  BY DEF Succeeds
<1>3. Counted'
  BY <1>1, <1>2 DEF Counted, Counts, Early
<1>4. Unsent'
  BY <1>1, <1>2 DEF Unsent, Waits, Writer
<1>5. goal["worker"]' # "dispatched" /\ \A w \in Writer \ {"tick", "worker"} : goal[w]' # "dispatched"
  BY <1>2 DEF Writer
<1>. QED  BY <1>2, <1>3, <1>4, <1>5 DEF SpentInv

\* The tick's own steps before the launch.
LEMMA UnsentSpent ==
    ASSUME RecordTypeOK, SpentInv, stage = "none",
           TickReads \/ TickLoads \/ TickCommits \/ TickEnds
    PROVE  SpentInv'
<1>. USE DEF Idle
<1>a. "tick" \in Writer /\ "worker" \in Writer /\ Unsent
  BY DEF Writer, SpentInv
<1>1. CASE TickReads
  BY <1>1, <1>a DEF TickReads, SpentInv, Counted, Counts, Unsent
<1>2. CASE TickLoads
  <2>1. PICK s \in TickGoals : Load("tick", s)
    BY <1>2 DEF TickLoads
  <2>2. s \in {"timeout", "dispatched", "escalated"}
    BY <1>2, <1>a, <2>1 DEF TickLoads, TickGoals, Unsent, Waits, Working
  <2>3. copy' = [copy EXCEPT !["tick"] = file] /\ goal' = [goal EXCEPT !["tick"] = s]
        /\ UNCHANGED <<file, snap, stage, checking, late, spent>>
    BY <1>2, <2>1 DEF Load, TickLoads
  <2>4. Counted'
    BY <2>3 DEF SpentInv, Counted, Counts, RecordTypeOK
  <2>5. Unsent'
    BY <1>a, <2>2, <2>3 DEF Unsent, RecordTypeOK, Writer
  <2>6. \A w \in Writer \ {"tick"} : goal'[w] = goal[w]
    BY <2>3 DEF RecordTypeOK
  <2>. QED  BY <1>a, <2>3, <2>4, <2>5, <2>6 DEF SpentInv, Writer
<1>3. CASE TickCommits
  <2>1. copy["tick"] \in Record /\ copy["tick"] # NoCopy
        /\ goal["tick"] \in {"timeout", "dispatched", "escalated"}
    <3>1. copy["tick"] # NoCopy
      BY <1>3, <1>a DEF TickCommits, Commit, CommitsTwice, RecordTypeOK
    <3>. QED  BY <3>1, <1>a DEF Unsent, RecordTypeOK
  <2>2. /\ copy' = [copy EXCEPT !["tick"] = NoCopy] /\ goal' = [goal EXCEPT !["tick"] = "same"]
        /\ snap' = NoCopy /\ checking' = checking /\ Spends("tick")
        /\ stage' = (IF goal["tick"] = "dispatched" THEN "boot" ELSE stage)
        /\ Allowed("tick") /\ file' = Moved("tick")
    BY <1>3, <2>1 DEF TickCommits, Commit, LateHeartbeat
  <2>3. \A w \in Writer : copy'[w] = NoCopy
    BY <1>a, <2>2 DEF Unsent, RecordTypeOK
  <2>4. \A w \in Writer : goal'[w] = "same"
    BY <1>a, <2>2, <2>3 DEF Unsent, RecordTypeOK
  <2>5. spent <= 2 * copy["tick"].attempts
    BY <1>a, <2>1 DEF SpentInv, Counted, Counts
  <2>6. copy["tick"].attempts \in Nat /\ spent \in Nat /\ AttemptsPerTier \in Nat
    BY <2>1, AttemptsAssumption DEF Record, RecordTypeOK
  <2>7. CASE goal["tick"] = "dispatched"
    <3>1. file'.attempts = copy["tick"].attempts + 1 /\ file'.state = "dispatched"
      BY <2>2, <2>7 DEF Moved
    <3>2. spent' = spent + 1 /\ copy["tick"].attempts < AttemptsPerTier
      BY <2>2, <2>7 DEF Spends, Allowed
    <3>3. spent' < 2 * AttemptsPerTier /\ spent' < 2 * file'.attempts
      BY <2>5, <2>6, <3>1, <3>2
    <3>4. Counted'
      BY <2>2, <2>3, <2>6, <3>1, <3>2, <3>3 DEF Counted, Counts
    <3>5. Sent'
      BY <1>a, <2>2, <2>3, <2>4, <3>1 DEF Sent, NoCopy
    <3>. QED  BY <1>a, <2>2, <2>4, <2>7, <3>3, <3>4, <3>5 DEF SpentInv
  <2>8. CASE goal["tick"] # "dispatched"
    <3>1. file'.attempts = copy["tick"].attempts /\ file'.state \in Waits /\ ~file'.closed
      BY <1>a, <2>1, <2>2, <2>8 DEF Moved, Waits, Unsent
    <3>2. spent' = spent /\ stage' = "none"
      BY <2>2, <2>8 DEF Spends
    <3>3. Counted'
      BY <2>2, <2>3, <2>5, <3>1, <3>2 DEF Counted, Counts, Early
    <3>4. Unsent'
      BY <1>a, <2>2, <2>3, <3>1 DEF Unsent
    <3>. QED  BY <1>a, <2>4, <3>2, <3>3, <3>4 DEF SpentInv
  <2>. QED  BY <2>7, <2>8
<1>4. CASE TickEnds
  <2>1. /\ \/ copy' = copy /\ goal' = goal
           \/ copy' = [copy EXCEPT !["tick"] = NoCopy] /\ goal' = [goal EXCEPT !["tick"] = "same"]
        /\ snap' = NoCopy /\ UNCHANGED <<file, stage, checking, spent>>
    BY <1>4 DEF TickEnds, Refused
  <2>2. \A w \in Writer : copy'[w] = copy[w] \/ copy'[w] = NoCopy
    BY <2>1 DEF RecordTypeOK
  <2>3. Counted'
    BY <2>1, <2>2 DEF SpentInv, Counted, Counts
  <2>4. Unsent'
    BY <1>a, <2>1, <2>2 DEF Unsent, RecordTypeOK
  <2>5. \A w \in Writer \ {"tick"} : goal'[w] = goal[w]
    BY <2>1 DEF RecordTypeOK
  <2>. QED  BY <1>a, <2>1, <2>3, <2>4, <2>5 DEF SpentInv, Writer
<1>. QED  BY <1>1, <1>2, <1>3, <1>4

\* After the launch, the steps of everyone but the worker.
LEMMA OthersSpent ==
    ASSUME RecordTypeOK, SpentInv, stage # "none",
           \/ TickReads \/ TickMarksSilent \/ TickLoads \/ TickCommits \/ TickEnds
           \/ WatchdogLoads \/ WatchdogFinishes \/ InspectorLoads \/ InspectorCommits
           \/ VerifyReads \/ VerifyLoads \/ VerifyFinishes \/ DeadlinePasses
    PROVE  SpentInv'
<1>. USE DEF Idle
<1>a. /\ "tick" \in Writer /\ "inspector" \in Writer /\ "watchdog" \in Writer
      /\ "verify" \in Writer
      /\ "timeout" \in State /\ "escalated" \in State /\ "verify_pass" \in State
      /\ "verify_fail" \in State
  BY DEF Writer, State
<1>b. Sent /\ \A w \in Writer \ {"worker"} : goal[w] # "dispatched"
  BY DEF SpentInv, Sent
<1>1. CASE TickReads
  BY <1>1, <1>b DEF TickReads, SpentInv, Counted, Counts, Sent
<1>2. CASE TickMarksSilent
  <2>1. snap # NoCopy /\ snap \in Record
    BY <1>2 DEF TickMarksSilent, Working, NoCopy, RecordTypeOK
  <2>2. snap'.attempts = snap.attempts /\ file'.attempts = snap.attempts
        /\ snap'.state # "queued" /\ file'.state # "queued"
    BY <1>2, <1>b, <2>1 DEF TickMarksSilent, Sent, Record
  <2>3. UNCHANGED <<copy, goal, stage, spent>>
    BY <1>2 DEF TickMarksSilent
  <2>4. goal["worker"] = "dispatched" => stage' = "redispatch"
    BY <2>3 DEF SpentInv
  <2>. QED  BY <1>a, <2>1, <2>2, <2>3, <2>4, WriteSpent
<1>3. CASE TickLoads
  <2>1. PICK s \in TickGoals : Load("tick", s)
    BY <1>3 DEF TickLoads
  <2>2. s \in State /\ s # "dispatched"
    BY <1>b, <2>1 DEF TickGoals, State, Sent
  <2>. QED  BY <1>3, <1>a, <2>1, <2>2, LoadSpent DEF TickLoads
<1>4. CASE TickCommits
  <2>1. UNCHANGED spent
    BY <1>4, <1>b DEF TickCommits, Spends, Sent
  <2>2. CASE goal["tick"] = "fixback" /\ Allowed("tick")
    <3>1. copy["tick"] # NoCopy /\ copy["tick"] \in Record
      BY <1>a, <2>2 DEF RecordTypeOK
    <3>2. Moved("tick") \in Record
      BY <1>a, <2>2, <3>1, MovedRecord
    <3>3. Moved("tick").attempts = copy["tick"].attempts /\ Moved("tick").state = goal["tick"]
      BY <2>2 DEF Moved
    <3>. QED  BY <1>4, <1>a, <2>1, <2>2, <3>1, <3>2, <3>3, TwiceSpent DEF TickCommits, Writer
  <2>3. CASE ~(goal["tick"] = "fixback" /\ Allowed("tick"))
    BY <1>4, <1>a, <1>b, <2>1, <2>3, CommitSpent DEF TickCommits, Sent
  <2>. QED  BY <2>2, <2>3
<1>5. CASE TickEnds
  <2>1. CASE Refused("tick")
    BY <1>5, <1>a, <2>1, RefusedSpent DEF TickEnds
  <2>2. CASE UNCHANGED <<file, copy, goal>>
    <3>1. UNCHANGED <<stage, spent>> /\ snap' = NoCopy
      BY <1>5 DEF TickEnds
    <3>. QED  BY <1>a, <1>b, <2>2, <3>1, WriteSpent DEF Sent, SpentInv
  <2>. QED  BY <1>5, <2>1, <2>2 DEF TickEnds
<1>6. CASE WatchdogLoads
  BY <1>6, <1>a, LoadSpent DEF WatchdogLoads
<1>7. CASE WatchdogFinishes
  BY <1>7, <1>a, <1>b, CommitSpent, RefusedSpent DEF WatchdogFinishes, Writer
<1>8. CASE InspectorLoads
  <2>1. \E s \in {"timeout", "escalated"} : Load("inspector", s)
    BY <1>8 DEF InspectorLoads
  <2>. QED  BY <1>8, <1>a, <2>1, LoadSpent DEF InspectorLoads
<1>9. CASE InspectorCommits
  <2>1. CASE goal["inspector"] = "timeout" /\ Allowed("inspector")
    <3>1. copy["inspector"] # NoCopy /\ copy["inspector"] \in Record
      BY <1>a, <2>1 DEF RecordTypeOK
    <3>2. Moved("inspector") \in Record
      BY <1>a, <2>1, <3>1, MovedRecord
    <3>. DEFINE marked == [Moved("inspector") EXCEPT !.closed = TRUE]
    <3>3. /\ marked \in Record /\ marked.attempts = copy["inspector"].attempts
          /\ marked.state = goal["inspector"]
      BY <2>1, <3>2 DEF Moved, Record
    <3>4. CommitsTwice("inspector", marked) /\ UNCHANGED <<stage, spent, snap>>
      BY <1>9, <2>1 DEF InspectorCommits
    <3>. HIDE DEF marked
    <3>. QED  BY <1>a, <2>1, <3>1, <3>3, <3>4, TwiceSpent DEF Writer
  <2>2. CASE Commit("inspector") \/ Refused("inspector")
    <3>1. UNCHANGED <<stage, spent, snap>>
      BY <1>9 DEF InspectorCommits
    <3>. QED  BY <1>a, <1>b, <2>2, <3>1, CommitSpent, RefusedSpent DEF Writer
  <2>. QED  BY <1>9, <2>1, <2>2 DEF InspectorCommits
<1>10. CASE VerifyReads
  BY <1>10, <1>b DEF VerifyReads, SpentInv, Counted, Counts, Sent
<1>11. CASE VerifyLoads
  <2>1. PICK s \in {"verify_pass", "verify_fail"} : Load("verify", s)
    BY <1>11 DEF VerifyLoads
  <2>. QED  BY <1>11, <1>a, <2>1, LoadSpent DEF VerifyLoads
<1>12. CASE VerifyFinishes
  <2>1. UNCHANGED <<snap, stage, spent>>
    BY <1>12 DEF VerifyFinishes
  <2>. QED  BY <1>12, <1>a, <1>b, <2>1, CommitSpent, RefusedSpent DEF VerifyFinishes, Writer
<1>13. CASE DeadlinePasses
  BY <1>13, <1>b DEF DeadlinePasses, SpentInv, Counted, Counts, Sent
<1>. QED
  BY <1>1, <1>2, <1>3, <1>4, <1>5, <1>6, <1>7, <1>8, <1>9, <1>10, <1>11, <1>12, <1>13

\* The worker's steps: its second dispatch finds a count still unused.
LEMMA WorkerSpent ==
    ASSUME RecordTypeOK, SpentInv, stage # "none", Worker \/ WorkerKilled
    PROVE  SpentInv'
<1>. USE DEF Idle
<1>a. /\ "worker" \in Writer /\ "tick" \in Writer
      /\ "timeout" \in State /\ "escalated" \in State /\ "dispatched" \in State
  BY DEF Writer, State
<1>b. Sent /\ (goal["worker"] = "dispatched" => stage = "redispatch")
  BY DEF SpentInv
<1>1. CASE WorkerBoots
  <2>1. CASE Load("worker", "same") /\ stage' = "render"
    BY <1>1, <1>a, <2>1, LoadSpent DEF WorkerBoots, Early
  <2>2. CASE stage' = "dead" /\ UNCHANGED <<copy, goal>>
    <3>1. UNCHANGED <<file, snap, spent>> /\ goal["worker"] # "dispatched"
      BY <1>1, <1>b DEF WorkerBoots
    <3>. QED  BY <1>a, <1>b, <2>2, <3>1, WriteSpent DEF Sent, Early
  <2>. QED  BY <1>1, <2>1, <2>2 DEF WorkerBoots
<1>2. CASE WorkerRenders
  <2>1. UNCHANGED <<snap, spent>> /\ goal["worker"] # "dispatched"
    BY <1>2, <1>b DEF WorkerRenders
  <2>. QED  BY <1>2, <1>a, <2>1, CommitSpent DEF WorkerRenders, Early
<1>3. CASE WorkerAttempts
  <2>1. UNCHANGED <<file, snap, checking, spent>> /\ stage = "attempt"
    BY <1>3 DEF WorkerAttempts
  <2>2. \/ stage' = "send" /\ UNCHANGED <<copy, goal>>
        \/ stage' = "ending" /\ \E s \in {"timeout", "escalated"} : Load("worker", s)
        \/ stage' = "redispatch" /\ Load("worker", "dispatched")
    BY <1>3 DEF WorkerAttempts
  <2>3. CASE stage' = "send" /\ UNCHANGED <<copy, goal>>
    BY <1>a, <1>b, <2>1, <2>3, WriteSpent DEF Sent, Early
  <2>4. CASE stage' = "ending" /\ \E s \in {"timeout", "escalated"} : Load("worker", s)
    BY <1>a, <2>1, <2>4, LoadSpent DEF Early
  <2>5. CASE stage' = "redispatch" /\ Load("worker", "dispatched")
    BY <1>a, <2>1, <2>5, LoadSpent DEF Early
  <2>. QED  BY <2>2, <2>3, <2>4, <2>5
<1>4. CASE WorkerSends
  <2>1. UNCHANGED <<file, snap, checking, spent>> /\ stage' = "sending"
    BY <1>4 DEF WorkerSends
  <2>. QED  BY <1>4, <1>a, <2>1, LoadSpent DEF WorkerSends, Early
<1>5. CASE WorkerAsks
  <2>1. PICK s \in WorkerGoals : Load("worker", s)
    BY <1>5 DEF WorkerAsks
  <2>2. s \in State /\ s # "dispatched"
    BY DEF WorkerGoals, State
  <2>3. UNCHANGED <<file, snap, stage, checking, spent>>
    BY <1>5 DEF WorkerAsks
  <2>. QED  BY <1>a, <2>1, <2>2, <2>3, LoadSpent
<1>6. CASE WorkerCommits
  <2>1. /\ Commit("worker") /\ UNCHANGED snap /\ Spends("worker")
        /\ stage' \notin Early \/ stage' = stage
    BY <1>6 DEF WorkerCommits, After, Early
  <2>2. stage' # "none"
    BY <1>6 DEF WorkerCommits, After
  <2>3. CASE goal["worker"] # "dispatched"
    BY <1>a, <2>1, <2>2, <2>3, CommitSpent DEF Spends
  <2>4. CASE goal["worker"] = "dispatched"
    <3>1. stage = "redispatch" /\ stage' = "send"
      BY <1>6, <1>b, <2>4 DEF WorkerCommits
    <3>2. copy["worker"] \in Record /\ copy["worker"] # NoCopy
      BY <1>6, <1>a DEF WorkerCommits, Commit, RecordTypeOK
    <3>3. /\ copy' = [copy EXCEPT !["worker"] = NoCopy]
          /\ goal' = [goal EXCEPT !["worker"] = "same"]
          /\ spent' = spent + 1 /\ snap' = snap
          /\ Allowed("worker") /\ file' = Moved("worker")
      BY <1>6, <2>1, <2>4 DEF WorkerCommits, Commit, Spends, LateHeartbeat
    <3>4. file'.attempts = copy["worker"].attempts + 1 /\ file'.state = "dispatched"
          /\ copy["worker"].attempts < AttemptsPerTier
      BY <2>4, <3>3 DEF Moved, Allowed
    <3>5. \A r : Counts(r) => spent < 2 * r.attempts
      BY <3>1 DEF Counts, Early
    <3>6. spent < 2 * copy["worker"].attempts
      BY <1>a, <3>2, <3>5 DEF SpentInv, Counted
    <3>7. /\ copy["worker"].attempts \in Nat /\ spent \in Nat /\ AttemptsPerTier \in Nat
          /\ spent' < 2 * AttemptsPerTier /\ spent' <= 2 * file'.attempts
      BY <3>2, <3>3, <3>4, <3>6, AttemptsAssumption DEF Record, RecordTypeOK
    <3>8. ASSUME NEW r \in Record, Counts(r) PROVE spent' <= 2 * r.attempts
      BY <3>3, <3>5, <3>7, <3>8 DEF Record
    <3>9. snap' # NoCopy => spent' <= 2 * snap'.attempts
      BY <3>3, <3>8 DEF SpentInv, Counted, RecordTypeOK
    <3>10. \A w \in Writer : copy'[w] # NoCopy => spent' <= 2 * copy'[w].attempts
      <4>1. \A w \in Writer : copy'[w] # NoCopy => copy'[w] = copy[w] /\ copy[w] \in Record
        BY <3>3 DEF RecordTypeOK
      <4>. QED  BY <3>8, <4>1 DEF SpentInv, Counted
    <3>11. Counted'
      BY <3>1, <3>7, <3>9, <3>10 DEF Counted, Counts, Early
    <3>12. Sent'
      <4>1. \A w \in Writer : copy'[w].state # "queued"
        BY <1>b, <3>3 DEF Sent, RecordTypeOK, NoCopy
      <4>2. goal'["tick"] # "dispatched"
        BY <1>a, <1>b, <3>3 DEF Sent, RecordTypeOK
      <4>. QED  BY <1>b, <3>3, <3>4, <4>1, <4>2 DEF Sent
    <3>13. goal'["worker"] = "same" /\ \A w \in Writer \ {"worker"} : goal'[w] = goal[w]
      BY <1>a, <3>3 DEF RecordTypeOK
    <3>. QED  BY <3>1, <3>7, <3>11, <3>12, <3>13 DEF SpentInv
  <2>. QED  BY <2>3, <2>4
<1>7. CASE WorkerRefused
  <2>1. stage' \in {"dead", "broken"} /\ UNCHANGED <<snap, spent>>
    BY <1>7 DEF WorkerRefused
  <2>. QED  BY <1>7, <1>a, <2>1, RefusedSpent DEF WorkerRefused, Early
<1>8. CASE WorkerGivesUp
  <2>1. UNCHANGED <<file, snap, checking, spent>> /\ stage' = "failing"
    BY <1>8 DEF WorkerGivesUp
  <2>. QED  BY <1>8, <1>a, <2>1, LoadSpent DEF WorkerGivesUp, Early
<1>9. CASE WorkerKilled
  <2>1. /\ copy' = [copy EXCEPT !["worker"] = NoCopy] /\ goal' = [goal EXCEPT !["worker"] = "same"]
        /\ stage' = "dead" /\ UNCHANGED <<file, snap, spent>>
    BY <1>9 DEF WorkerKilled
  <2>. QED  BY <1>a, <1>b, <2>1, WriteSpent DEF Sent, Early
<1>. QED  BY <1>1, <1>2, <1>3, <1>4, <1>5, <1>6, <1>7, <1>8, <1>9 DEF Worker

\* Before the launch nobody but the tick can take a step on the record.
LEMMA WaitingSteps ==
    ASSUME RecordTypeOK, SpentInv, stage = "none", RecordNext
    PROVE  \/ TickReads \/ TickLoads \/ TickCommits \/ TickEnds \/ TickRetries
           \/ DeadlinePasses
<1>a. /\ Unsent /\ "worker" \in Writer /\ "inspector" \in Writer /\ "watchdog" \in Writer
      /\ "verify" \in Writer
      /\ \A w \in Writer \ {"tick"} : copy[w] = NoCopy /\ goal[w] = "same"
  BY DEF SpentInv, Unsent, Writer, RecordTypeOK, Idle
<1>1. ~TickMarksSilent /\ ~WatchdogLoads /\ ~VerifyReads
  BY <1>a DEF TickMarksSilent, WatchdogLoads, VerifyReads, Working, Waits, Unsent, NoCopy
<1>2. ~WatchdogFinishes /\ ~InspectorCommits /\ ~VerifyFinishes
  BY <1>a DEF WatchdogFinishes, InspectorCommits, VerifyFinishes, Commit, Refused, Idle, Writer
<1>3. ~InspectorLoads /\ ~InspectorRequeues /\ ~VerifyLoads
  BY <1>a DEF InspectorLoads, InspectorRequeues, VerifyLoads, Working, Waits, Unsent
<1>4. ~WorkerBoots /\ ~WorkerRenders /\ ~WorkerAttempts /\ ~WorkerSends /\ ~WorkerGivesUp
      /\ ~WorkerKilled
  BY DEF WorkerBoots, WorkerRenders, WorkerAttempts, WorkerSends, WorkerGivesUp, WorkerKilled
<1>5. ~WorkerAsks
  BY DEF WorkerAsks, WorkerGoals
<1>6. ~WorkerCommits /\ ~WorkerRefused
  BY <1>a DEF WorkerCommits, WorkerRefused, Commit, Refused, Idle, Writer
<1>. QED  BY <1>1, <1>2, <1>3, <1>4, <1>5, <1>6 DEF RecordNext, Tick, Worker

\* Every step keeps the count.
LEMMA SpentStep ==
    RecordTypeOK /\ SpentInv /\ [RecordNext]_recordVars => SpentInv'
<1>. SUFFICES ASSUME RecordTypeOK, SpentInv, [RecordNext]_recordVars PROVE SpentInv'
  OBVIOUS
<1>1. CASE UNCHANGED recordVars
  BY <1>1 DEF recordVars, SpentInv, Counted, Counts, Unsent, Sent
<1>2. CASE TickRetries
  <2>1. snap \in Record /\ Counts(snap)
    BY <1>2 DEF TickRetries, RecordTypeOK, NoCopy, SpentInv, Counted
  <2>. QED  BY <1>2, <2>1, SucceedsSpent DEF TickRetries
<1>3. CASE InspectorRequeues
  BY <1>3, SucceedsSpent DEF InspectorRequeues, RecordTypeOK, SpentInv, Counted
<1>4. CASE RecordNext /\ stage = "none" /\ ~TickRetries
  <2>1. CASE DeadlinePasses
    BY <1>4, <2>1 DEF DeadlinePasses, SpentInv, Counted, Counts, Unsent
  <2>2. CASE ~DeadlinePasses
    BY <1>4, <2>2, WaitingSteps, UnsentSpent
  <2>. QED  BY <2>1, <2>2
<1>5. CASE RecordNext /\ stage # "none" /\ ~TickRetries /\ ~InspectorRequeues
  BY <1>5, OthersSpent, WorkerSpent DEF RecordNext, Tick
<1>. QED  BY <1>1, <1>2, <1>3, <1>4, <1>5

\* However the writers of a record interleave, less than twice the budget of a
\* tier is dispatched: a lost update takes back one count of a record, and the
\* worker's own check stops it from happening twice.
THEOREM BudgetDoubledAtMost == RecordSpec => []DispatchesDoubledAtMost
<1>1. RecordTypeOK /\ SpentInv => DispatchesDoubledAtMost
  BY DEF SpentInv, DispatchesDoubledAtMost
<1>. QED  BY <1>1, RecordTypeInit, RecordTypeStep, SpentInit, SpentStep, PTL DEF RecordSpec

=============================================================================
