------------------------------ MODULE MergePlan ------------------------------
(***************************************************************************)
(* The planning half of src/companion/landing/queue.py: who may join, the  *)
(* boarding order, and the trains plan() forms from the queued candidates. *)
(*                                                                         *)
(* A candidate is a record of its sha, owner, area, feature, base, the     *)
(* review (sha, head, verdict), its files and its join time.  Shas are     *)
(* numbers, so that they can be compared as the code compares strings.     *)
(***************************************************************************)
EXTENDS Integers, FiniteSets, Sequences, SequencesExt

CONSTANT Areas          \* AREAS of landing_queue.py, in boarding order

ASSUME AreasAssumption == Areas \in Seq(STRING)

Eligible(c, head) ==
    /\ c.area \in Range(Areas)
    /\ c.verdict = "PASS"
    /\ c.review_sha = c.sha
    /\ c.review_head = head

\* Built on the current head as well: the candidate may board.
Ready(c, head) == Eligible(c, head) /\ c.base = head

\* The place of a name in a list; a name that is not listed comes last.
Place(name, list) ==
    IF name \in Range(list) THEN CHOOSE i \in DOMAIN list : list[i] = name
                            ELSE Len(list) + 1

SortKey(c, features) ==
    <<Place(c.area, Areas), Place(c.feature, features), c.joined_at, c.sha>>

Precedes(c, d, features) ==
    LET k == SortKey(c, features)
        l == SortKey(d, features)
    IN  \E i \in 1..4 : k[i] < l[i] /\ \A j \in 1..(i - 1) : k[j] = l[j]

\* The i-th candidate of the order is the one that i - 1 others precede.
Order(C, features) ==
    [i \in 1..Cardinality(C) |->
        CHOOSE c \in C : Cardinality({d \in C : Precedes(d, c, features)}) = i - 1]

Overlap(c, d) == c.files \cap d.files # {}

Touches(train, c) == \E d \in train : Overlap(c, d)

-----------------------------------------------------------------------------
(* plan(): one pass over the boarding order.                               *)

NoPlan == [trains |-> <<>>, rebase |-> {}, rereview |-> {}, held |-> {}, blocked |-> {}]

\* The first train after the last one that touches the candidate's files.
Board(trains, c) ==
    LET taken == {i \in DOMAIN trains : Touches(trains[i], c)}
        start == 1 + (IF taken = {} THEN 0 ELSE CHOOSE i \in taken : \A j \in taken : j <= i)
    IN  IF start <= Len(trains) THEN [trains EXCEPT ![start] = @ \cup {c}]
                                ELSE Append(trains, {c})

\* Mutant of Hold: a held candidate does not block its own files.
HoldWithoutBlocking(p, list, c) == [p EXCEPT ![list] = @ \cup {c},
    !.blocked = IF list = "held" THEN @ ELSE @ \cup c.files]

\* A candidate that cannot board is listed and blocks its files.
Hold(p, list, c) == [p EXCEPT ![list] = @ \cup {c}, !.blocked = @ \cup c.files]

Consider(p, c, head) ==
    CASE ~Eligible(c, head)          -> Hold(p, "rereview", c)
      [] Eligible(c, head) /\ c.base # head -> Hold(p, "rebase", c)
      [] Ready(c, head) /\ c.files \cap p.blocked # {} -> Hold(p, "held", c)
      [] OTHER                       -> [p EXCEPT !.trains = Board(@, c)]

\* The plan after each candidate of an order.
Considered(order, head) ==
    LET after[n \in 0..Len(order)] ==
            IF n = 0 THEN NoPlan ELSE Consider(after[n - 1], order[n], head)
    IN  after

Plan(C, head, features) ==
    LET order == Order(C, features) IN Considered(order, head)[Len(order)]

-----------------------------------------------------------------------------
(* What a plan must be, said without the pass over the order.              *)

\* The higher-ranked candidates that share a file with c.
Ahead(c, C, features) == {d \in C : Precedes(d, c, features) /\ Overlap(c, d)}

\* Not ready, or behind work that is stuck.
Stuck(C, head, features) ==
    LET stuck[c \in C] == \/ ~Ready(c, head)
                          \/ \E d \in Ahead(c, C, features) : stuck[d]
    IN  stuck

\* The length of the longest chain of overlapping work that ends in c.
Wave(C, features) ==
    LET wave[c \in C] ==
            LET before == {wave[d] : d \in Ahead(c, C, features)}
            IN  1 + (IF before = {} THEN 0 ELSE CHOOSE n \in before : \A m \in before : m <= n)
    IN  wave

\* Every candidate is listed once: one that has to be reviewed or rebased as
\* such, a ready one behind stuck work as held, and every other one in the
\* train its longest chain of overlapping, higher-ranked work puts it in.
IsLayered(plan, C, head, features) ==
    LET stuck == Stuck(C, head, features)
        wave  == Wave(C, features)
        boards == {c \in C : ~stuck[c]}
    IN  /\ plan.rereview = {c \in C : ~Eligible(c, head)}
        /\ plan.rebase = {c \in C : Eligible(c, head) /\ c.base # head}
        /\ plan.held = {c \in C : Ready(c, head) /\ stuck[c]}
        /\ \A i \in DOMAIN plan.trains :
              /\ plan.trains[i] # {}
              /\ plan.trains[i] = {c \in boards : wave[c] = i}
        /\ UNION Range(plan.trains) = boards

=============================================================================
