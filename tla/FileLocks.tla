------------------------------ MODULE FileLocks ------------------------------
(***************************************************************************)
(* The per-file leases of src/companion/feature_team/locks.py.             *)
(*                                                                         *)
(* One SQLite database holds three tables the handlers below read and      *)
(* write: the claims (one row per run id, never deleted), the waits (one   *)
(* row per run that was told to wait) and the append-only audit events.    *)
(* Every handler is one BEGIN IMMEDIATE transaction, so it is one action.  *)
(* The scheduler cursor of next_ready(), which has no caller, is left out. *)
(*                                                                         *)
(* Times are ticks.  A refused call (ValueError, PermissionError) rolls    *)
(* its transaction back and changes nothing: it is a stuttering step.      *)
(* So is claim() called again by the run that holds the lease.             *)
(***************************************************************************)
EXTENDS Integers, FiniteSets, Sequences, SequencesExt

CONSTANTS
    Run,        \* run ids
    Owner,      \* worker identities
    File,       \* logical file paths
    MaxWait,    \* MAX_WAIT_SECONDS
    MaxNow      \* bound: the last tick of the clock

ASSUME RunAssumption == IsFiniteSet(Run)
ASSUME MaxWaitAssumption == MaxWait \in Nat \ {0}
ASSUME MaxNowAssumption == MaxNow \in Nat

VARIABLES
    now,        \* the clock every caller reads
    claims,     \* table claims: run id -> row, NoClaim when there is none
    waits,      \* table waits: run id -> row, NoWait when there is none
    events      \* table events, in row id order

vars == <<now, claims, waits, events>>

Nobody == "nobody"

ASSUME NobodyAssumption == Nobody \notin Run \cup Owner

NoClaim == [owner |-> Nobody, deadline |-> 0, files |-> {}, state |-> "none"]
NoWait  == [started |-> -1, timed_out |-> FALSE]

\* The reasons release() accepts.
Reason == {"result", "timeout", "dead"}

ClaimRow(o, d, F, s) == [owner |-> o, deadline |-> d, files |-> F, state |-> s]

Event(kind, r, other, why) ==
    [kind |-> kind, run |-> r, other |-> other, why |-> why]

Held(r) == claims[r].state = "held"

\* _active: the held rows, here the run ids they are keyed by.
Active == {r \in Run : Held(r)}

\* Mutant of Conflicts: only a lease on exactly the same set is a conflict.
SameFiles(F) == {r \in Active : F = claims[r].files}

Conflicts(F) == {r \in Active : F \cap claims[r].files # {}}

Expired(r) == claims[r].deadline <= now

Init ==
    /\ now = 0
    /\ claims = [r \in Run |-> NoClaim]
    /\ waits = [r \in Run |-> NoWait]
    /\ events = <<>>

-----------------------------------------------------------------------------
(* claim(), split by what the transaction decides.                         *)

\* The checks before any decision: a deadline in the future, and a run id
\* that was never granted a claim.  A run id with a row, held or closed, is
\* answered without a change: True for the holder, an error for the others.
MayAsk(r, d) ==
    /\ d > now
    /\ claims[r] = NoClaim

WaitedTooLong(r) ==
    /\ waits[r] # NoWait
    /\ \/ waits[r].timed_out
       \/ now - waits[r].started >= MaxWait

\* A dispatcher may steal only when every conflicting lease has expired.
Blocked(F, steal) ==
    /\ Conflicts(F) # {}
    /\ \/ ~steal
       \/ \E c \in Conflicts(F) : ~Expired(c)

\* The first call after the wait limit marks the row; later calls only raise.
ClaimTimesOut(r, d) ==
    /\ MayAsk(r, d)
    /\ WaitedTooLong(r)
    /\ ~waits[r].timed_out
    /\ waits' = [waits EXCEPT ![r].timed_out = TRUE]
    /\ events' = Append(events, Event("lock_wait_timeout", r, r, "none"))
    /\ UNCHANGED <<now, claims>>

ClaimWaits(r, d, F, steal) ==
    /\ MayAsk(r, d)
    /\ ~WaitedTooLong(r)
    /\ Blocked(F, steal)
    /\ waits[r] = NoWait
    /\ waits' = [waits EXCEPT ![r] = [started |-> now, timed_out |-> FALSE]]
    /\ events' = Append(events, Event("lock_wait", r, r, "none"))
    /\ UNCHANGED <<now, claims>>

StealEvents(r, victims) ==
    LET order == SetToSeq(victims)
    IN  [i \in 1 .. Len(order) |-> Event("lock_steal", r, order[i], "none")]

\* The whole set or nothing: the conflicting leases, all expired here, are
\* fenced as stolen in the transaction that grants the new one.
ClaimTakes(r, o, d, F, steal) ==
    /\ MayAsk(r, d)
    /\ ~WaitedTooLong(r)
    /\ ~Blocked(F, steal)
    /\ claims' = [c \in Run |->
                    CASE c = r -> ClaimRow(o, d, F, "held")
                      [] c \in Conflicts(F) \ {r} ->
                            [claims[c] EXCEPT !.state = "stolen"]
                      [] OTHER -> claims[c]]
    /\ waits' = [waits EXCEPT ![r] = NoWait]
    /\ events' = Append(events \o StealEvents(r, Conflicts(F)),
                        Event("lock_claim", r, r, "none"))
    /\ UNCHANGED now

-----------------------------------------------------------------------------
(* release() and expire().                                                 *)

\* A late release of a row that is no longer held returns False; a wrong
\* owner is refused; reason "timeout" waits for the deadline.
Release(r, o, reason) ==
    /\ Held(r)
    /\ claims[r].owner = o
    /\ reason = "timeout" => Expired(r)
    /\ claims' = [claims EXCEPT ![r].state = reason]
    /\ events' = Append(events, Event("lock_release", r, r, reason))
    /\ UNCHANGED <<now, waits>>

\* Mutant of ExpiredClaims: a lease is expired only when somebody waits.
WantedExpiredClaims ==
    {r \in Active : Expired(r) /\ \E w \in Run : waits[w] # NoWait}

ExpiredClaims == {r \in Active : Expired(r)}

\* The dispatcher's tick closes every expired lease, waited for or not.
Expire ==
    /\ ExpiredClaims # {}
    /\ claims' = [r \in Run |-> IF r \in ExpiredClaims
                                THEN [claims[r] EXCEPT !.state = "timeout"]
                                ELSE claims[r]]
    /\ LET order == SetToSeq(ExpiredClaims)
       IN  events' = events \o [i \in 1 .. Len(order) |->
                                    Event("lock_release", order[i], order[i], "timeout")]
    /\ UNCHANGED <<now, waits>>

Tick ==
    /\ now < MaxNow
    /\ now' = now + 1
    /\ UNCHANGED <<claims, waits, events>>

-----------------------------------------------------------------------------

Claim(r, d) ==
    \/ ClaimTimesOut(r, d)
    \/ \E F \in (SUBSET File) \ {{}}, steal \in BOOLEAN :
          \/ ClaimWaits(r, d, F, steal)
          \/ \E o \in Owner : ClaimTakes(r, o, d, F, steal)

Next ==
    \/ Tick
    \/ Expire
    \/ \E r \in Run :
          \/ \E d \in 1 .. MaxNow : Claim(r, d)
          \/ \E o \in Owner, reason \in Reason : Release(r, o, reason)

Spec == Init /\ [][Next]_vars

\* The tick loop runs forever and calls expire() on each turn; time passes.
FairSpec == Spec /\ WF_vars(Tick) /\ WF_vars(Expire)

-----------------------------------------------------------------------------
(* The abstract lease this module implements.                              *)

Granted == {r \in Run : claims[r].state # "none"}

\* The run that holds f now.  HeldDisjoint makes it unique.
LeaseHolder == [f \in File |->
                    IF \E r \in Active : f \in claims[r].files
                    THEN CHOOSE r \in Active : f \in claims[r].files
                    ELSE Nobody]

Lease == INSTANCE FileLease
            WITH Free <- Nobody, holder <- LeaseHolder, spent <- Granted

\* Every transaction on the tables is one grant of a whole set of files, one
\* loss of whole sets, or no change of any lease.
LeaseSpec == Lease!LeaseSpec

-----------------------------------------------------------------------------
(* Properties.                                                             *)

RowState == {"none", "held", "stolen"} \cup Reason

Rows == [owner: Owner \cup {Nobody}, deadline: Nat,
         files: SUBSET File, state: RowState]

WaitRows == [started: Int, timed_out: BOOLEAN]

Events == [kind: {"lock_wait", "lock_wait_timeout", "lock_claim", "lock_steal",
                  "lock_release"},
           run: Run, other: Run, why: {"none"} \cup Reason]

\* The tables hold rows of their schema; a row exists exactly when it was
\* granted, and a granted row names at least one file.
TypeOK ==
    /\ now \in Nat
    /\ claims \in [Run -> Rows]
    /\ waits \in [Run -> WaitRows]
    /\ events \in Seq(Events)
    /\ \A r \in Run : claims[r].state # "none" => claims[r].files # {}
    /\ \A r \in Run : claims[r].state = "none" => claims[r] = NoClaim

\* No file is leased to two runs: claim() takes every file of its set or none,
\* and a steal closes each lease it overlaps in the same transaction.
HeldDisjoint ==
    \A r, c \in Run :
        r # c /\ Held(r) /\ Held(c) => claims[r].files \cap claims[c].files = {}

\* A run id that was granted a lease has no wait row left, so the wait clock
\* of an earlier request can never time out a run that is already working.
NoWaitOnceGranted ==
    \A r \in Run : claims[r].state # "none" => waits[r] = NoWait

\* The audit rows a step adds; the rows that grant r a lease, and those that
\* close it.
Added == SubSeq(events', Len(events) + 1, Len(events'))
Grants(rows, r) ==
    {i \in DOMAIN rows : rows[i].kind = "lock_claim" /\ rows[i].run = r}
Closings(rows, r) ==
    {i \in DOMAIN rows : \/ rows[i].kind = "lock_release" /\ rows[i].run = r
                         \/ rows[i].kind = "lock_steal" /\ rows[i].other = r}

\* The audit log tells the story of the table: it only grows, and the rows a
\* transaction adds grant exactly the leases it grants and close exactly those
\* it closes, once each.  Replaying the log in id order gives the leases.
StepAudited ==
    /\ SubSeq(events', 1, Len(events)) = events
    /\ \A r \in Run :
          /\ Cardinality(Grants(Added, r)) = IF ~Held(r) /\ Held(r)' THEN 1 ELSE 0
          /\ Cardinality(Closings(Added, r)) = IF Held(r) /\ ~Held(r)' THEN 1 ELSE 0
AuditMatchesClaims == [][StepAudited]_vars

\* A lease leaves "held" early only through its own result or the inspector's
\* "dead": nobody steals or expires a lease before its deadline.
NoEarlyLoss ==
    \A r \in Run :
        (Held(r) /\ claims'[r].state \in {"stolen", "timeout"}) => Expired(r)
NeverLostEarly == [][NoEarlyLoss]_vars

\* A closed run id is fenced for good, and no row's owner, deadline or files
\* ever change: a late result cannot reopen, extend or widen a lease.
RowFrozen ==
    \A r \in Run : claims[r].state # "none" =>
        /\ claims'[r].deadline = claims[r].deadline
        /\ claims'[r].files = claims[r].files
        /\ claims'[r].owner = claims[r].owner
        /\ ~Held(r) => claims'[r].state = claims[r].state
Fenced == [][RowFrozen]_vars

\* A run told that it waited too long never gets the lease: the caller has to
\* come back with a fresh run id, whatever is released in the meantime.
WaitVerdict ==
    \A r \in Run : waits[r].timed_out =>
        /\ waits'[r] = waits[r]
        /\ ~(claims[r].state = "none" /\ claims'[r].state = "held")
TimeoutIsFinal == [][WaitVerdict]_vars

\* No lease outlives its worker for ever: every granted lease is closed.
EveryLeaseEnds == \A r \in Run : Held(r) ~> ~Held(r)

=============================================================================
