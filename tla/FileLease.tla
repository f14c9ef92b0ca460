------------------------------ MODULE FileLease ------------------------------
(***************************************************************************)
(* What the file leases promise, with no clock, no rows and no audit: each *)
(* file has at most one holder, a run is granted its whole set at once,    *)
(* loses its whole set at once, and is never granted anything again.       *)
(* FileLocks implements this specification.                                *)
(***************************************************************************)
EXTENDS FiniteSets

CONSTANTS Run, File, Free

VARIABLES
    holder,     \* the run each file is leased to, or Free
    spent       \* the runs that were ever granted a lease

leaseVars == <<holder, spent>>

LeaseInit ==
    /\ holder = [f \in File |-> Free]
    /\ spent = {}

Dispossess(R) == [f \in File |-> IF holder[f] \in R THEN Free ELSE holder[f]]

Grant(r, F) ==
    LET victims == {holder[f] : f \in F} \ {Free}
    IN  /\ r \notin spent
        /\ F # {}
        /\ holder' = [f \in File |-> IF f \in F THEN r ELSE Dispossess(victims)[f]]
        /\ spent' = spent \cup {r}

Drop(R) ==
    /\ R \subseteq spent
    /\ holder' = Dispossess(R)
    /\ UNCHANGED spent

LeaseNext ==
    \/ \E r \in Run, F \in SUBSET File : Grant(r, F)
    \/ \E R \in SUBSET Run : Drop(R)

LeaseSpec == LeaseInit /\ [][LeaseNext]_leaseVars

=============================================================================
