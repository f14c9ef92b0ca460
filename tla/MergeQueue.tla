----------------------------- MODULE MergeQueue ------------------------------
(***************************************************************************)
(* The store of src/companion/landing/queue.py: an append-only log of join *)
(* and leave rows, replayed into the queue by every call.                  *)
(*                                                                         *)
(* A call reads and appends under one exclusive flock, so it is one        *)
(* action.  A call may be cut off inside its append: the log then ends in  *)
(* a line without a newline, whole or not, and the caller learns nothing.  *)
(* A row holds the sha it is about and the entry it leaves behind, Absent  *)
(* for a leave; a line that replay skips is Unreadable.                    *)
(***************************************************************************)
EXTENDS MergePlan

CONSTANTS
    Sha,            \* commits, as numbers
    Candidates,     \* the candidates callers may bring
    Files,          \* the repository's files
    Masters,        \* master heads a caller may have read
    Time,           \* values of the clock; 0 is "no join time given"
    FeatureLists,   \* what queue_order() may read from the feature queue
    MaxRows         \* bound on the lines of the log

ASSUME ShaAssumption == Sha \subseteq Nat
ASSUME TimeAssumption == Time \subseteq Nat /\ 0 \in Time
ASSUME FeatureListsAssumption == FeatureLists \subseteq Seq(STRING)
ASSUME MaxRowsAssumption == MaxRows \in Nat

\* The dataclass Candidate.
CandidateType ==
    [sha : Sha, owner : STRING, area : STRING, feature : STRING,
     base : Masters, review_sha : Sha, review_head : Masters,
     verdict : STRING, files : SUBSET Files, joined_at : Time]

ASSUME CandidatesAssumption == Candidates \subseteq CandidateType

VARIABLES
    log,        \* the lines of merge-queue.jsonl
    torn,       \* the last line has no newline
    told        \* the entry of each sha its last returned call reported

vars == <<log, torn, told>>

Absent == [owner |-> "", sha |-> -1, joined_at |-> 0]
Unknown == [owner |-> "?", sha |-> -1, joined_at |-> 0]

\* A candidate as it is stored: join() fills in or keeps the join time.
Entries == {[c EXCEPT !.joined_at = t] : c \in Candidates, t \in Time}

ASSUME AbsentAssumption == \A e \in Entries : e # Absent /\ e # Unknown

Row == [sha : Sha, entry : Entries \cup {Absent}]
Unreadable == [sha |-> -1, entry |-> Absent]

-----------------------------------------------------------------------------
(* _replay(): the last readable row about a sha decides.                   *)

LastRows(lines, s) ==
    {i \in DOMAIN lines : /\ lines[i].sha = s
                          /\ \A j \in DOMAIN lines : j > i => lines[j].sha # s}

Replayed(lines, s) ==
    IF LastRows(lines, s) = {} THEN Absent
                               ELSE lines[CHOOSE i \in LastRows(lines, s) : TRUE].entry

Entry(s) == Replayed(log, s)

\* entries() and plan(): the queued candidates and their trains at a head.
Queued == {Entry(s) : s \in Sha} \ {Absent}

-----------------------------------------------------------------------------
(* _append(): a newline first when the log is torn, then the row.          *)

\* Mutant of Appended: the row is glued to a torn last line.
AppendedToTorn(row) ==
    IF torn THEN [log EXCEPT ![Len(log)] = Unreadable] ELSE Append(log, row)

Appended(row) == Append(log, row)

\* What a call cut off inside its append may leave: nothing, the newline only,
\* a part of the row, or all of it but the newline.
CutOff(row) ==
    \/ UNCHANGED <<log, torn>>
    \/ log' = log /\ torn' = FALSE
    \/ log' = Append(log, Unreadable) /\ torn' = TRUE
    \/ log' = Append(log, row) /\ torn' = TRUE

Completes(row) ==
    /\ Len(log) < MaxRows
    /\ log' = Appended(row)
    /\ torn' = FALSE
    /\ told' = [told EXCEPT ![row.sha] = row.entry]

Fails(row) ==
    /\ Len(log) < MaxRows
    /\ CutOff(row)
    /\ told' = [told EXCEPT ![row.sha] = Unknown]

Writes(row) == Completes(row) \/ Fails(row)

\* Mutant of OwnerMayJoin: nobody looks who owns the entry.
AnyoneMayJoin(c) == TRUE

\* One owner per sha.
OwnerMayJoin(c) == Entry(c.sha) = Absent \/ Entry(c.sha).owner = c.owner

\* Mutant of JoinTime: a refresh goes to the back of the queue.
JoinTimeOfRefresh(c, now) == IF c.joined_at # 0 THEN c.joined_at ELSE now

\* A refresh keeps its place; a new entry without a join time gets the clock's.
JoinTime(c, now) ==
    IF Entry(c.sha) # Absent THEN Entry(c.sha).joined_at
    ELSE IF c.joined_at # 0 THEN c.joined_at
    ELSE now

\* join(): the review is judged against the head the caller read, before the
\* lock is taken.
Join(c, head, now) ==
    /\ Eligible(c, head)
    /\ OwnerMayJoin(c)
    /\ Writes([sha |-> c.sha, entry |-> [c EXCEPT !.joined_at = JoinTime(c, now)]])

Leave(s) ==
    /\ Entry(s) # Absent
    /\ Writes([sha |-> s, entry |-> Absent])

Init ==
    /\ log = <<>>
    /\ torn = FALSE
    /\ told = [s \in Sha |-> Absent]

Next ==
    \/ \E c \in Candidates, head \in Masters, now \in Time \ {0} : Join(c, head, now)
    \/ \E s \in Sha : Leave(s)

Spec == Init /\ [][Next]_vars

-----------------------------------------------------------------------------

\* Every line is a row join() and leave() write or one that replay skips, and
\* a log that ends in a torn line is not empty.
TypeOK ==
    /\ log \in Seq(Row \cup {Unreadable})
    /\ torn \in BOOLEAN
    /\ torn => log # <<>>
    /\ told \in [Sha -> Entries \cup {Absent, Unknown}]

\* What join() or leave() reported is what every later replay reads, whatever
\* appends of other calls were cut off before or after it.
ReportedStays == \A s \in Sha : told[s] # Unknown => Entry(s) = told[s]

\* What plan() makes of the queue is layered, at every master head and for
\* every list of features it may be called with.
PlanIsLayered ==
    \A head \in Masters, features \in FeatureLists :
        IsLayered(Plan(Queued, head, features), Queued, head, features)

\* The log implements the owned queue: an entry is replaced by its owner only,
\* keeps its place, and goes away by a leave only.
Owned == INSTANCE OwnedQueue WITH queue <- [s \in Sha |-> Entry(s)]
QueueSpec == Owned!QueueSpec

=============================================================================
