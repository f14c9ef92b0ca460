---------------------------- MODULE MemoryErasure ----------------------------
(***************************************************************************)
(* How the text of a tenant's memory comes in and how it is erased:        *)
(* kyra_memory/inbox.py (agents append lines, merge() folds them in),      *)
(* purge.py (the copies of a row are scrubbed before it) and the erasure of*)
(* sqlite_backend.py (forget, expire, and the WAL truncate that a reader   *)
(* can hold up).  Two or more backend instances share the tenant's files.  *)
(*                                                                         *)
(* A row is named by the inbox line it came from; chains, ids and proposals*)
(* are MemoryStore's.  SQLite is external: BEGIN EXCLUSIVE is one lock, a  *)
(* commit of deletes leaves their text in the WAL and the old pages until a*)
(* clean truncate, and a truncate is busy while a reader or a writer is on.*)
(***************************************************************************)
EXTENDS Integers, Sequences, FiniteSets

CONSTANTS
    Instance,   \* backend instances, each one process
    None,       \* no instance
    Body,       \* the texts
    MaxLine,    \* bound: lines appended to the inbox
    MaxPurge,   \* bound: forgets and expires
    MaxExpire,  \* bound: expires among them
    MaxCrash,   \* bound: crashes
    MaxRead     \* bound: readers

ASSUME NoneAssumption == None \notin Instance
ASSUME LineAssumption == MaxLine \in Nat

Line == 1..MaxLine

VARIABLES
    inbox,      \* the texts of the lines, in order
    blanked,    \* the lines purge_copies() blanked
    offset,     \* of the last merged line, in the store's meta table
    stored,     \* the rows of the store
    made,       \* how often each line became a row
    copies,     \* rows whose text is in the vector index or in a hot file
    residue,    \* texts of deleted rows in the WAL or in old pages
    pending,    \* the purges saved as pending in meta
    mistaken,   \* a purge was dropped that was never looked at
    writer,     \* the instance inside BEGIN EXCLUSIVE
    reader,     \* whether a read transaction holds the WAL
    at, then,   \* where each instance is, and where its purge was called from
    flag,       \* its flag that a purge is pending
    ids, entry, \* the purge it is in: the rows, and what is saved of it
    found,      \* the pending purges it read before the last truncate
    gone,       \* lines waiting in the inbox when their text was forgotten
    purges, expires, crashes, reads

store == <<stored, made, offset, copies, residue, pending, mistaken>>
lines == <<inbox, blanked, gone>>
calls == <<then, ids, entry, found>>
counts == <<purges, expires, crashes, reads>>
erasureVars == <<store, lines, writer, reader, at, flag, calls, counts>>

NoEntry == [op |-> "none", row |-> {}, rows |-> 0, nr |-> 0]

ErasureInit ==
    /\ inbox = <<>> /\ blanked = {} /\ gone = {} /\ offset = 0
    /\ stored = {} /\ made = [n \in Line |-> 0] /\ copies = {}
    /\ residue = {} /\ pending = <<>> /\ mistaken = FALSE
    /\ writer = None /\ reader = FALSE
    /\ at = [i \in Instance |-> "closed"] /\ then = [i \in Instance |-> "idle"]
    /\ flag = [i \in Instance |-> FALSE]
    /\ ids = [i \in Instance |-> {}] /\ entry = [i \in Instance |-> NoEntry]
    /\ found = [i \in Instance |-> <<>>]
    /\ purges = 0 /\ expires = 0 /\ crashes = 0 /\ reads = 0

Goes(i, place) == at' = [at EXCEPT ![i] = place]

\* The texts of some lines.
Bodies(I) == {inbox[n] : n \in I}

-----------------------------------------------------------------------------
(* The inbox: append() takes no lock.                                      *)

Appends(b) ==
    /\ Len(inbox) < MaxLine
    /\ inbox' = Append(inbox, b)
    /\ UNCHANGED <<store, blanked, gone, writer, reader, at, flag, calls, counts>>

\* A merge is one transaction: the lines after the offset, and the offset.
Waiting == {n \in (offset + 1)..Len(inbox) : n \notin blanked}

Merges(i) ==
    /\ at[i] = "write" /\ writer = None
    /\ stored' = stored \cup Waiting
    /\ made' = [n \in Line |-> IF n \in Waiting THEN made[n] + 1 ELSE made[n]]
    /\ offset' = Len(inbox)
    /\ Goes(i, IF flag[i] /\ Waiting # {} THEN "finds" ELSE "idle")     \* _after_commit()
    /\ then' = [then EXCEPT ![i] = "idle"]
    /\ UNCHANGED <<lines, copies, residue, pending, mistaken, writer, reader, flag, ids, entry,
                   found, counts>>

\* Mutant of Refused: the offset is saved.
RefusedMovesOffset(i) ==
    /\ at[i] = "write" /\ writer = None
    /\ offset' = Len(inbox)
    /\ Goes(i, "idle")
    /\ UNCHANGED <<lines, stored, made, copies, residue, pending, mistaken, writer, reader, flag,
                   calls, counts>>

\* A refused batch rolls back whole.
Refused(i) ==
    /\ at[i] = "write" /\ writer = None
    /\ Goes(i, "idle")
    /\ UNCHANGED <<store, lines, writer, reader, flag, calls, counts>>

\* Any write finishes a blocked purge of its own instance first.
WriteBegins(i) ==
    /\ at[i] = "idle"
    /\ Goes(i, IF flag[i] THEN "finds" ELSE "write")
    /\ then' = [then EXCEPT ![i] = "write"]
    /\ UNCHANGED <<store, lines, writer, reader, flag, ids, entry, found, counts>>

\* Inside the transaction of a purge.
Erasing == {"vectors", "inbox", "deletes"}

\* Reindex and refresh_hot(), which must not run during an erasure.
CopiesRefreshed ==
    /\ \A i \in Instance : at[i] \notin Erasing
    /\ copies' = stored
    /\ UNCHANGED <<lines, stored, made, offset, residue, pending, mistaken, writer, reader, at,
                   flag, calls, counts>>

-----------------------------------------------------------------------------
(* forget() and expire(): read, then one transaction, then the truncate.   *)

\* nr tells the purges apart here; the store does not save it.
Purges(i, op, I) ==
    /\ at[i] = "idle"
    /\ purges < MaxPurge
    /\ purges' = purges + 1
    /\ Goes(i, "begins")
    /\ ids' = [ids EXCEPT ![i] = I]
    /\ entry' = [entry EXCEPT ![i] = [op |-> op, row |-> IF op = "forget" THEN I ELSE {},
                                      rows |-> Cardinality(I), nr |-> purges']]
    /\ then' = [then EXCEPT ![i] = "idle"]
    /\ UNCHANGED <<store, lines, writer, reader, flag, found, crashes, reads>>

Forget(i) == (\E n \in stored : Purges(i, "forget", {n})) /\ UNCHANGED expires

\* The oldest rows, and their number alone names the purge.
ExpireRows(i) ==
    /\ expires < MaxExpire
    /\ expires' = expires + 1
    /\ \E n \in 0..Len(inbox) : Purges(i, "expire", {m \in stored : m <= n})

Begins(i) ==
    /\ at[i] = "begins"
    /\ IF ids[i] = {} THEN Goes(i, "truncates") /\ UNCHANGED writer
                      ELSE writer = None /\ writer' = i /\ Goes(i, "vectors")
    /\ UNCHANGED <<store, lines, reader, flag, calls, counts>>

\* purge_copies(): the vector index (a reader of it fails the call, which rolls
\* back), then the lines the inboxes have now, then the hot files.
ScrubsVectors(i) ==
    /\ at[i] = "vectors"
    /\ \/ Goes(i, "inbox") /\ UNCHANGED writer
       \/ Goes(i, "idle") /\ writer' = None
    /\ UNCHANGED <<store, lines, reader, flag, calls, counts>>

Matching(i) == {n \in 1..Len(inbox) : inbox[n] \in Bodies(ids[i] \cap stored)}

\* Mutant of Scrubbed: only the merged lines are blanked.
ScrubbedMerged(i) == Matching(i) \cap 1..offset

Scrubbed(i) == Matching(i)

\* Mutant of Cleaned: the hot files are left as they are.
CleanedNone(i) == copies

Cleaned(i) == copies \ ids[i]

ScrubsInbox(i) ==
    /\ at[i] = "inbox"
    /\ blanked' = blanked \cup Scrubbed(i)
    /\ gone' = gone \cup (Matching(i) \cap Waiting)
    /\ copies' = Cleaned(i)
    /\ Goes(i, "deletes")
    /\ UNCHANGED <<inbox, stored, made, offset, residue, pending, mistaken, writer, reader, flag,
                   calls, counts>>

\* The rows go and the purge is saved as pending, in one commit.
Deletes(i) ==
    /\ at[i] = "deletes"
    /\ stored' = stored \ ids[i]
    /\ residue' = residue \cup Bodies(ids[i] \cap stored)
    /\ pending' = Append(pending, entry[i])
    /\ flag' = [flag EXCEPT ![i] = TRUE]
    /\ ids' = [ids EXCEPT ![i] = {}] /\ entry' = [entry EXCEPT ![i] = NoEntry]
    /\ writer' = None
    /\ Goes(i, "truncates")
    /\ UNCHANGED <<lines, made, offset, copies, mistaken, reader, then, found, counts>>

\* PRAGMA wal_checkpoint(TRUNCATE): clean, or busy at once.
Busy == reader \/ writer # None

\* The end of a call: its purge is finished, or stays pending and the call raises.
Ends(i, stillPending) ==
    /\ flag' = [flag EXCEPT ![i] = stillPending]
    /\ found' = [found EXCEPT ![i] = <<>>]
    /\ Goes(i, then[i])

Truncates(i) ==
    /\ at[i] = "truncates"
    /\ IF Busy THEN Ends(i, TRUE) /\ UNCHANGED residue
               ELSE Goes(i, "finds") /\ residue' = {} /\ UNCHANGED <<flag, found>>
    /\ UNCHANGED <<lines, stored, made, offset, copies, pending, mistaken, writer, reader, then,
                   ids, entry, counts>>

\* _finish_purge(): what is pending, one more truncate, and only then it is dropped.
Finds(i) ==
    /\ at[i] = "finds"
    /\ found' = [found EXCEPT ![i] = pending]
    /\ Goes(i, "checks")
    /\ UNCHANGED <<store, lines, writer, reader, flag, then, ids, entry, counts>>

Checks(i) ==
    /\ at[i] = "checks"
    /\ IF Busy THEN Ends(i, TRUE) /\ UNCHANGED residue
       ELSE /\ residue' = {}
            /\ IF found[i] = <<>> THEN Ends(i, FALSE)
                                  ELSE Goes(i, "clears") /\ UNCHANGED <<flag, found>>
    /\ UNCHANGED <<lines, stored, made, offset, copies, pending, mistaken, writer, reader, then,
                   ids, entry, counts>>

\* What meta says of the pending purges.
Saved(list) == [k \in DOMAIN list |-> <<list[k].op, list[k].row, list[k].rows>>]

\* Mutant of Unchanged: nobody looks.
UnchangedAlways(i) == TRUE

\* Another instance may have committed a purge since the truncate.
Unchanged(i) == Saved(pending) = Saved(found[i])

Clears(i) ==
    /\ at[i] = "clears"
    /\ IF writer = None /\ Unchanged(i)
       THEN /\ pending' = <<>>
            /\ mistaken' = (mistaken \/ (Saved(pending) = Saved(found[i]) /\ pending # found[i]))
            /\ Ends(i, FALSE)
       ELSE Ends(i, TRUE) /\ UNCHANGED <<pending, mistaken>>
    /\ UNCHANGED <<lines, stored, made, offset, copies, residue, writer, reader, then, ids, entry,
                   counts>>

-----------------------------------------------------------------------------
(* open_tenant(), a crash, and a reader of the store.                      *)

\* Mutant of Unsettled: a tenant is opened as if nothing was left.
UnsettledNever == FALSE

Unsettled == pending # <<>> \/ residue # {}

\* A saved purge or a WAL that is not empty is finished when the tenant is opened.
Opens(i) ==
    /\ at[i] = "closed"
    /\ \E wal \in BOOLEAN :
          /\ Goes(i, IF Unsettled \/ wal THEN "finds" ELSE "idle")
          /\ flag' = [flag EXCEPT ![i] = Unsettled \/ wal]
    /\ UNCHANGED <<store, lines, writer, reader, calls, counts>>

Crash(i) ==
    /\ crashes < MaxCrash
    /\ at[i] # "closed"
    /\ crashes' = crashes + 1
    /\ Goes(i, "closed")
    /\ flag' = [flag EXCEPT ![i] = FALSE] /\ then' = [then EXCEPT ![i] = "idle"]
    /\ ids' = [ids EXCEPT ![i] = {}] /\ entry' = [entry EXCEPT ![i] = NoEntry]
    /\ found' = [found EXCEPT ![i] = <<>>]
    /\ writer' = IF writer = i THEN None ELSE writer
    /\ UNCHANGED <<store, lines, reader, purges, expires, reads>>

ReaderOpens ==
    /\ ~reader /\ reads < MaxRead
    /\ reader' = TRUE /\ reads' = reads + 1
    /\ UNCHANGED <<store, lines, writer, at, flag, calls, purges, expires, crashes>>

ReaderCloses ==
    /\ reader
    /\ reader' = FALSE
    /\ UNCHANGED <<store, lines, writer, at, flag, calls, counts>>

Works(i) ==
    \/ Merges(i) \/ Refused(i) \/ Begins(i) \/ ScrubsVectors(i) \/ ScrubsInbox(i) \/ Deletes(i)
    \/ Truncates(i) \/ Finds(i) \/ Checks(i) \/ Clears(i)

ErasureNext ==
    \/ (\E b \in Body : Appends(b)) \/ CopiesRefreshed \/ ReaderOpens \/ ReaderCloses
    \/ \E i \in Instance :
          Works(i) \/ WriteBegins(i) \/ Forget(i) \/ ExpireRows(i) \/ Opens(i) \/ Crash(i)

ErasureSpec == ErasureInit /\ [][ErasureNext]_erasureVars

\* Readers close, a tenant that is closed is opened again, and writes go on.
Fairness ==
    /\ WF_erasureVars(ReaderCloses)
    /\ \A i \in Instance : WF_erasureVars(Works(i) \/ Opens(i)) /\ WF_erasureVars(WriteBegins(i))

FairErasureSpec == ErasureSpec /\ Fairness

-----------------------------------------------------------------------------
(* Properties.                                                             *)

\* Types, the offset within the inbox, rows from merged lines only, and the
\* exclusive transaction held by exactly the instance that is erasing.
ErasureTypeOK ==
    /\ inbox \in Seq(Body) /\ Len(inbox) <= MaxLine
    /\ offset \in 0..Len(inbox)
    /\ stored \subseteq 1..offset
    /\ gone \subseteq 1..Len(inbox) /\ blanked \subseteq 1..Len(inbox)
    /\ made \in [Line -> Nat]
    /\ writer \in Instance \cup {None}
    /\ \A i \in Instance : at[i] \in Erasing <=> writer = i

\* Every line of the inbox becomes a row exactly once, or was erased before it
\* could, with refused batches, crashes and two mergers.
LinesOnce ==
    \A n \in 1..Len(inbox) :
        n \notin gone => made[n] = IF n <= offset THEN 1 ELSE 0

\* A text that waited in the inbox when it was forgotten never comes back from it.
ForgottenStays == gone \cap stored = {}

\* No vector and no hot entry outlives its row, whatever a crash cut off.
CopiesBacked == copies \subseteq stored

\* While text of a deleted row is on disk, the store says so: a purge saved as
\* pending is cleared only after a clean truncate, and any instance finishes
\* it.  The one way out is a purge that looks in meta like another one.
PendingCoversResidue == residue # {} => pending # <<>> \/ mistaken

\* The text of every deleted row leaves the disk.
Erased == (residue # {}) ~> (residue = {})

=============================================================================
