---------------------------- MODULE MCMemoryStore ----------------------------
(***************************************************************************)
(* MemoryStore with one key: the three tables on a clock of three ticks,   *)
(* with chains of up to two facts, and chains of three on a shorter clock. *)
(***************************************************************************)
EXTENDS MemoryStore

Small == [pinned |-> 1, facts |-> 3, proposals |-> 1]

\* The third fact is handed out only where nothing was pinned and the clock is short.
Unused(t, i) == rows[t][i] = NoRow /\ i \notin purged[t]
Room == Unused("facts", 3) \/ (Unused("pinned", 1) /\ now < MaxNow)

=============================================================================
