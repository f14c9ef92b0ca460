----------------------------- MODULE OwnedQueue ------------------------------
(***************************************************************************)
(* What the merge queue promises, with no log and no crashes: each sha has *)
(* at most one entry; only its owner may replace the entry, which keeps    *)
(* its place; anyone may take the entry out.  MergeQueue implements it.    *)
(***************************************************************************)
CONSTANTS Sha, Entries, Absent

VARIABLE queue

QueueInit == queue = [s \in Sha |-> Absent]

Put(s, e) ==
    /\ queue[s] # Absent => /\ queue[s].owner = e.owner
                            /\ queue[s].joined_at = e.joined_at
    /\ queue' = [queue EXCEPT ![s] = e]

Take(s) ==
    /\ queue[s] # Absent
    /\ queue' = [queue EXCEPT ![s] = Absent]

\* A put is known by the entry it leaves behind.
QueueNext == \E s \in Sha : Take(s) \/ \E e \in {queue'[s]} \cap Entries : Put(s, e)

QueueSpec == QueueInit /\ [][QueueNext]_queue

=============================================================================
