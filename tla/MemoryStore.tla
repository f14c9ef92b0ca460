----------------------------- MODULE MemoryStore -----------------------------
(***************************************************************************)
(* The rows of src/kyra_memory/store.py: superseded instead of overwritten,*)
(* purged by sqlite_backend.py, with the proposals of accept() and of      *)
(* review.py.  Two tables stand for the five: pinned (written by the owner)*)
(* and facts.                                                              *)
(*                                                                         *)
(* A writer's call is one BEGIN EXCLUSIVE transaction, so it is one action;*)
(* a call that raises rolls back and changes nothing.  Two calls read      *)
(* before their transaction, and another process may write in between:     *)
(* forget() the chain it deletes, prune() the clock it stamps rows with.   *)
(* A row is its key, its two clock readings, its status and its links;     *)
(* 0 is NULL for a link or an end, NoKey for a key.                        *)
(***************************************************************************)
EXTENDS Integers, FiniteSets, FiniteSetsExt, Functions

CONSTANTS
    Key, NoKey,
    Ttl,            \* the retention of facts, in ticks
    Last,           \* bound: the last id each table hands out
    MaxNow          \* bound: the last tick of the clock

ASSUME KeyAssumption == NoKey \notin Key
ASSUME LastAssumption == Last \in [{"pinned", "facts", "proposals"} -> Nat]
ASSUME TimeAssumption == MaxNow \in Nat \ {0} /\ Ttl \in Nat \ {0}

Table == {"pinned", "facts"}
Id == 1..Max(Range(Last))

VARIABLES
    now,        \* the store's clock
    rows,       \* rows[t][id], NoRow when there is none
    proposals,  \* the table of proposals, by id
    hwm,        \* the highest purged id per table, in meta
    forgetting, \* a forget() that reads the chain of its row, to delete it
    pruning,    \* the time a prune() under way read, 0 when there is none
    purged      \* every id that was ever deleted, per table

vars == <<now, rows, proposals, hwm, forgetting, pruning, purged>>

NoRow == [key |-> NoKey, learned |-> 0, ended |-> 0, status |-> "none",
          supersedes |-> 0, superseded_by |-> 0]
NoProposal == [key |-> NoKey, learned |-> 0, state |-> "none", supersedes |-> 0,
               origin |-> "none", fact |-> 0]
NotForgetting == [table |-> "none", row |-> 0, next |-> 0, ids |-> {}]

Exists(t) == {i \in Id : rows[t][i] # NoRow}
Active(t) == {i \in Id : rows[t][i].status = "active"}
ActiveWith(t, k) == {i \in Active(t) : rows[t][i].key = k}
Proposed == {p \in Id : proposals[p].state = "proposed"}

\* The id of the next row: above every row, and above every purged one.
FreshId(present, top) == 1 + Max(present \cup {top, 0})

-----------------------------------------------------------------------------
(* add_in(), inside the transaction of add(), accept() and apply().        *)

\* Mutant of Replaces: the active row of the key is left as it is.
ReplacesNothing(t, key, sup) == IF sup # 0 THEN {sup} ELSE {}

\* The row a new one supersedes: the one the caller names, else the active
\* one with its key.  An empty set, or several to choose from.
Replaces(t, key, sup) ==
    IF sup # 0 THEN {sup} ELSE IF key # NoKey THEN ActiveWith(t, key) ELSE {}

\* The table t with row `new` added, in the place of `old` unless that is 0.
WithRow(t, new, old, key, learned) ==
    LET row == [key |-> IF old # 0 /\ key = NoKey THEN rows[t][old].key ELSE key,
                learned |-> learned, ended |-> 0, status |-> "active",
                supersedes |-> old, superseded_by |-> 0]
    IN  [i \in Id |-> CASE i = new -> row
                        [] i = old -> [rows[t][i] EXCEPT !.status = "superseded",
                                           !.superseded_by = new, !.ended = now]
                        [] OTHER   -> rows[t][i]]

\* Mutant of NextRow: the purged ids are not remembered.
NextRowAboveLast(t) == FreshId(Exists(t), 0)

NextRow(t) == FreshId(Exists(t), hwm[t])

AddIn(t, key, sup) ==
    LET old == Replaces(t, key, sup)
        new == NextRow(t)
    IN  /\ sup # 0 => sup \in Active(t)
        /\ new <= Last[t]
        /\ \E o \in IF old = {} THEN {0} ELSE old :
               rows' = [rows EXCEPT ![t] = WithRow(t, new, o, key, now)]

\* The rows a caller may name, and 0 for none.
Named(t) == {0} \cup Active(t)

Add(t, key, sup) ==
    /\ AddIn(t, key, sup)
    /\ UNCHANGED <<now, proposals, hwm, forgetting, pruning, purged>>

-----------------------------------------------------------------------------
(* Proposals: the merger and the reviews put them in, accept() and apply() *)
(* take them out.                                                          *)

NextProposal == FreshId({p \in Id : proposals[p] # NoProposal}, hwm["proposals"])

Proposes(key, sup, origin, fact) ==
    /\ NextProposal <= Last["proposals"]
    /\ proposals' = [proposals EXCEPT ![NextProposal] =
                        [key |-> key, learned |-> now, state |-> "proposed",
                         supersedes |-> sup, origin |-> origin, fact |-> fact]]
    /\ UNCHANGED <<now, rows, hwm, forgetting, pruning, purged>>

Propose(key, sup) == Proposes(key, sup, "agent", 0)

\* review(): a downgrade is proposed for a pinned row; its id is in the quote.
ProposeDowngrade(i) ==
    /\ i \in Active("pinned")
    /\ Proposes(NoKey, i, "memory-review", 0)

\* accept(): refused for a key the owner pinned; the row a proposal names is
\* superseded only while it is active.
Accept(p) ==
    LET it == proposals[p]
        named == IF it.supersedes \in Active("facts") THEN it.supersedes ELSE 0
    IN  /\ p \in Proposed
        /\ it.origin # "memory-review"
        /\ it.key # NoKey => ActiveWith("pinned", it.key) = {}
        /\ AddIn("facts", it.key, named)
        /\ proposals' = [proposals EXCEPT ![p].state = "accepted",
                                          ![p].fact = NextRow("facts")]
        /\ UNCHANGED <<now, hwm, forgetting, pruning, purged>>

\* apply(): the pinned row ends, a fact with its key and its clocks begins.
ApplyDowngrade(p) ==
    LET it == proposals[p]
        row == rows["pinned"][it.supersedes]
        new == NextRow("facts")
    IN  /\ p \in Proposed
        /\ it.origin = "memory-review"
        /\ it.supersedes \in Active("pinned")
        /\ new <= Last["facts"]
        /\ rows' = [pinned |-> [rows["pinned"] EXCEPT ![it.supersedes].status = "superseded",
                                                      ![it.supersedes].ended = now],
                    facts |-> WithRow("facts", new, 0, row.key, row.learned)]
        /\ proposals' = [proposals EXCEPT ![p].state = "accepted"]
        /\ UNCHANGED <<now, hwm, forgetting, pruning, purged>>

\* prune() reads the clock, then waits for the writer's turn.
PruneBegins ==
    /\ pruning = 0
    /\ pruning' = now
    /\ UNCHANGED <<now, rows, proposals, hwm, forgetting, purged>>

\* Mutant of Pruned: a row that is retired ends at the time it was learned.
PrunedEarly(row) == [row EXCEPT !.status = "pruned", !.ended = row.learned]

\* It ends a row at the time it read, which may be before the row was learned.
Pruned(row) == [row EXCEPT !.status = "pruned", !.ended = pruning]

\* Its transaction retires the facts that misled too often, whichever these
\* are; none when there is no such fact or the process died before it.
PruneCommits(I) ==
    /\ pruning # 0
    /\ I \subseteq Active("facts")
    /\ rows' = [rows EXCEPT !["facts"] = [i \in Id |->
                   IF i \in I THEN Pruned(@[i]) ELSE @[i]]]
    /\ pruning' = 0
    /\ UNCHANGED <<now, proposals, hwm, forgetting, purged>>

-----------------------------------------------------------------------------
(* Hard deletes: forget() and expire() of the backend.                     *)

\* Mutant of WithoutRows: the links to deleted rows are left behind.
WithoutRowsOnly(t, I) == [i \in Id |-> IF i \in I THEN NoRow ELSE rows[t][i]]

\* _hard_delete_in(): the rows go, and no row supersedes a deleted one.
WithoutRows(t, I) ==
    [i \in Id |-> IF i \in I THEN NoRow
                  ELSE IF rows[t][i].supersedes \in I
                       THEN [rows[t][i] EXCEPT !.supersedes = 0]
                  ELSE rows[t][i]]

\* The deletes of one transaction: rows I of t with the proposals they came
\* from, and the proposals P.
HardDelete(t, I, P) ==
    LET ofRows == IF t = "facts" THEN {p \in Id : proposals[p].fact \in I} ELSE {}
        known  == {p \in Id : proposals[p] # NoProposal}
        topRow == Max(I \cup {hwm[t]})
        topProposal == Max(P \cup {hwm["proposals"]} \cup (IF I = {} THEN {} ELSE known))
    IN  /\ rows' = [rows EXCEPT ![t] = WithoutRows(t, I)]
        /\ proposals' = [p \in Id |-> IF p \in P \cup ofRows THEN NoProposal ELSE proposals[p]]
        /\ hwm' = [hwm EXCEPT ![t] = topRow, !["proposals"] = topProposal]
        /\ purged' = [purged EXCEPT ![t] = @ \cup (I \cap Exists(t)),
                                    !["proposals"] = @ \cup P \cup ofRows]

\* Mutant of AfterRead: a chain with a row gone is an empty one.
AfterReadFindsNothing(f) ==
    LET row == rows[f.table][f.next]
    IN  IF row = NoRow THEN [f EXCEPT !.next = 0, !.ids = {}]
        ELSE IF f.ids = {} /\ row.supersedes # 0 THEN [f EXCEPT !.next = row.supersedes]
        ELSE [f EXCEPT !.next = row.superseded_by, !.ids = @ \cup {f.next}]

\* history() with one more row read: back until a row supersedes none, and from
\* that one forward.  A row that is gone by now makes it raise.
AfterRead(f) ==
    LET row == rows[f.table][f.next]
    IN  IF row = NoRow THEN NotForgetting
        ELSE IF f.ids = {} /\ row.supersedes # 0 THEN [f EXCEPT !.next = row.supersedes]
        ELSE [f EXCEPT !.next = row.superseded_by, !.ids = @ \cup {f.next}]

ForgetBegins(t, i) ==
    /\ forgetting = NotForgetting
    /\ i \in Exists(t)
    /\ forgetting' = AfterRead([table |-> t, row |-> i, next |-> i, ids |-> {}])
    /\ UNCHANGED <<now, rows, proposals, hwm, pruning, purged>>

ForgetReads ==
    /\ forgetting.next # 0
    /\ forgetting' = AfterRead(forgetting)
    /\ UNCHANGED <<now, rows, proposals, hwm, pruning, purged>>

ForgetDeletes ==
    /\ forgetting # NotForgetting
    /\ forgetting.next = 0
    /\ HardDelete(forgetting.table, forgetting.ids, {})
    /\ forgetting' = NotForgetting
    /\ UNCHANGED <<now, pruning>>

\* The process of forget() dies before its transaction.
ForgetDies ==
    /\ forgetting # NotForgetting
    /\ forgetting' = NotForgetting
    /\ UNCHANGED <<now, rows, proposals, hwm, pruning, purged>>

\* expire(): the facts and the waiting proposals older than the retention.
Expire ==
    LET old     == {i \in Exists("facts") : rows["facts"][i].learned <= now - Ttl}
        waiting == {p \in Proposed : proposals[p].learned <= now - Ttl}
    IN  /\ old \cup waiting # {}
        /\ HardDelete("facts", old, waiting)
        /\ UNCHANGED <<now, forgetting, pruning>>

Tick ==
    /\ now < MaxNow
    /\ now' = now + 1
    /\ UNCHANGED <<rows, proposals, hwm, forgetting, pruning, purged>>

Init ==
    /\ now = 1
    /\ rows = [t \in Table |-> [i \in Id |-> NoRow]]
    /\ proposals = [p \in Id |-> NoProposal]
    /\ hwm = [t \in Table \cup {"proposals"} |-> 0]
    /\ forgetting = NotForgetting
    /\ pruning = 0
    /\ purged = [t \in Table \cup {"proposals"} |-> {}]

Next ==
    \/ \E t \in Table, k \in Key \cup {NoKey} : \E s \in Named(t) : Add(t, k, s)
    \/ \E k \in Key \cup {NoKey} : \E s \in Named("facts") : Propose(k, s)
    \/ \E i \in Id : ProposeDowngrade(i)
    \/ \E p \in Id : Accept(p) \/ ApplyDowngrade(p)
    \/ PruneBegins
    \/ \E I \in SUBSET Id : PruneCommits(I)
    \/ \E t \in Table, i \in Id : ForgetBegins(t, i)
    \/ ForgetReads
    \/ ForgetDeletes
    \/ ForgetDies
    \/ Expire
    \/ Tick

Spec == Init /\ [][Next]_vars

-----------------------------------------------------------------------------

RowType ==
    [key : Key \cup {NoKey}, learned : 0..MaxNow, ended : 0..MaxNow,
     status : {"none", "active", "superseded", "pruned"},
     supersedes : Id \cup {0}, superseded_by : Id \cup {0}]

ProposalType ==
    [key : Key \cup {NoKey}, learned : 0..MaxNow, state : {"none", "proposed", "accepted"},
     supersedes : Id \cup {0}, origin : {"none", "agent", "memory-review"}, fact : Id \cup {0}]

\* Every row and proposal has its type; an id in use was not learned in the
\* future, and only a row that is not active has ended.
TypeOK ==
    /\ now \in 1..MaxNow
    /\ rows \in [Table -> [Id -> RowType]]
    /\ proposals \in [Id -> ProposalType]
    /\ hwm \in [Table \cup {"proposals"} -> Id \cup {0}]
    /\ forgetting \in [table : Table \cup {"none"}, row : Id \cup {0},
                      next : Id \cup {0}, ids : SUBSET Id]
    /\ pruning \in 0..now
    /\ purged \in [Table \cup {"proposals"} -> SUBSET Id]
    /\ \A t \in Table, i \in Id :
          /\ rows[t][i].learned <= now
          /\ rows[t][i].ended # 0 <=> rows[t][i].status \in {"superseded", "pruned"}

\* Chains have no loose ends, whatever forget() and expire() take out of them:
\* history() finds a row behind every link it follows, and the two links of a
\* pair agree.
ChainsWhole ==
    \A t \in Table, i \in Id :
        LET row == rows[t][i]
        IN  /\ row.superseded_by # 0 =>
                  /\ rows[t][row.superseded_by].supersedes = i
                  /\ row.status = "superseded"
            /\ row.supersedes # 0 => rows[t][row.supersedes].superseded_by = i

\* An id that was deleted never names another row: a retried forget(id) or
\* accept(id) can only find nothing.
PurgedIdsStayGone ==
    /\ \A t \in Table : purged[t] \cap Exists(t) = {}
    /\ \A p \in purged["proposals"] : proposals[p] = NoProposal

\* What forget() deletes has the row it was asked for, whatever was superseded,
\* pruned or expired while it read the chain from its other end.
ForgetFindsRow ==
    forgetting # NotForgetting /\ forgetting.next = 0 => forgetting.row \in forgetting.ids

\* A step that names the row it supersedes, and so may add a row beside the
\* active one of its key: add() and accept() with a row id, and a downgrade.
NamesRow ==
    \/ \E t \in Table, k \in Key \cup {NoKey}, s \in Id : Add(t, k, s)
    \/ \E p \in Id : /\ proposals[p].supersedes # 0
                    /\ (Accept(p) \/ ApplyDowngrade(p))

\* A key keeps one active row in a table: no interleaving of adds, accepted
\* proposals, prunes, expiry and forgets leaves two, but for the calls that
\* say which row they supersede.
OneActivePerKey ==
    [][\A t \in Table, k \in Key :
          /\ Cardinality(ActiveWith(t, k)) <= 1
          /\ Cardinality(ActiveWith(t, k)') > 1
          => NamesRow]_vars

\* as_of(): the rows the store believed at a time.
AsOf(t, when) ==
    {i \in Exists(t) : /\ rows[t][i].learned <= when
                       /\ \/ rows[t][i].ended = 0
                          \/ rows[t][i].ended > when}

\* The times that are over for every call: no call under way has read an
\* earlier clock.
Horizon == IF pruning = 0 THEN now ELSE pruning

\* What the store believed at a time that is over is never told differently
\* later: no belief is taken back but by erasure, and none is added but the
\* fact of a downgrade, which says at that time what a pinned row already said.
AsOfStable ==
    [][\A t \in Table, w \in 1..(Horizon - 1) :
          /\ AsOf(t, w) \subseteq AsOf(t, w)' \cup purged'[t]
          /\ AsOf(t, w)' \subseteq AsOf(t, w)
             \/ \E p \in Id : /\ ApplyDowngrade(p)
                             /\ proposals[p].supersedes \in AsOf("pinned", w)]_vars

=============================================================================
