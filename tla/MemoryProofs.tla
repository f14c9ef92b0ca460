----------------------------- MODULE MemoryProofs -----------------------------
(***************************************************************************)
(* Proofs about a tenant's memory, for any keys, ids and retention: the    *)
(* rows of the store and their chains; and, for any number of instances,   *)
(* lines, purges, crashes and readers, the inbox and the erasure of text.  *)
(***************************************************************************)
EXTENDS MemoryStore, MemoryErasure, FiniteSetTheorems, WellFoundedInduction, TLAPS

-----------------------------------------------------------------------------
(* MemoryStore: the inductive invariant.                                   *)

Kinds == {"pinned", "facts", "proposals"}

StatusKnown == \A t \in Table : \A i \in Exists(t) : rows[t][i].status # "none"

\* A row supersedes one that is older, by its id and by its clock.
LinksGoBack ==
    \A t \in Table, i \in Id :
        LET s == rows[t][i].supersedes
        IN  s # 0 => s < i /\ rows[t][s].learned <= rows[t][i].learned

MarkedPurged == \A t \in Kinds : \A i \in purged[t] : i <= hwm[t]

\* A set of rows that can be deleted: with a row it has the one that was superseded.
FromOldest(t, I) == \A i \in I : rows[t][i].supersedes \in I \cup {0}

\* A set of rows that has with a row the one it was superseded by.
LinksOn(t, S) == \A k \in S : rows[t][k].superseded_by \in S \cup {0}

Reading(f) == (f.ids \cup {f.next}) \ {0}

\* What a forget() has read of its chain: rows that are there or gone for ever, from
\* the oldest on, and the row it was asked for is one of them or still to come.
WellRead(f) ==
    /\ f.table \in Table
    /\ Reading(f) \subseteq Exists(f.table) \cup purged[f.table]
    /\ f.ids # {} => FromOldest(f.table, Reading(f))
    /\ f.next = 0 => f.row \in f.ids
    /\ f.next \in Exists(f.table) =>
          \A S \in SUBSET Id : f.next \in S /\ LinksOn(f.table, S) => f.row \in S \cup f.ids

WholeChain == forgetting # NotForgetting => WellRead(forgetting)

ForgetType == [table : Table \cup {"none"}, row : Id \cup {0}, next : Id \cup {0}, ids : SUBSET Id]

IInv ==
    /\ TypeOK /\ ChainsWhole /\ PurgedIdsStayGone
    /\ StatusKnown /\ LinksGoBack /\ MarkedPurged /\ WholeChain

-----------------------------------------------------------------------------
(* Numbers and ids.                                                        *)

\* A set of numbers has a least one.
LEMMA Least ==
  ASSUME NEW T \in SUBSET Nat, T # {}
  PROVE  \E n \in T : \A m \in T : n <= m
<1> DEFINE R == {ss \in Nat \X Nat : ss[1] < ss[2]}
<1>1. IsWellFoundedOn(R, Nat)
  BY NatLessThanWellFounded DEF OpToRel
<1>2. \E n \in T : \A m \in T : ~(<<m, n>> \in R)
  <2> HIDE DEF R
  <2> QED BY <1>1, WFMin
<1>3. ASSUME NEW n \in Nat, NEW m \in Nat, ~(<<m, n>> \in R) PROVE n <= m
  BY <1>3
<1> HIDE DEF R
<1> QED BY <1>2, <1>3

\* A bounded set of numbers has a greatest one.
LEMMA Greatest ==
  ASSUME NEW b \in Nat, NEW S \in SUBSET (0..b), S # {}
  PROVE  Max(S) \in S /\ \A x \in S : Max(S) >= x
<1> DEFINE T == {n \in Nat : \A x \in S : x <= n}
<1>1. PICK n \in T : \A m \in T : n <= m
  <2>1. b \in T
    OBVIOUS
  <2> QED BY <2>1, Least
<1>2. n \in S
  <2> SUFFICES ASSUME n \notin S PROVE FALSE
    OBVIOUS
  <2>1. \A x \in S : x < n
    OBVIOUS
  <2>0. n > 0
    <3>1. PICK x \in S : TRUE
      OBVIOUS
    <3>2. x \in Nat /\ n \in Nat /\ x < n
      BY <2>1
    <3> QED BY <3>2
  <2>2. n - 1 \in T
    BY <2>0, <2>1
  <2> QED BY <1>1, <2>2
<1>3. \A x \in S : n >= x
  OBVIOUS
<1> QED BY <1>2, <1>3 DEF Max

\* The ids are the numbers from 1 to the last one of any table.
LEMMA Ids ==
  /\ Max(Range(Last)) \in Nat
  /\ Id \in SUBSET Nat /\ 0 \notin Id
  /\ \A t \in Kinds : \A n \in Nat \ {0} : n <= Last[t] => n \in Id
<1> DEFINE b == Last["pinned"] + Last["facts"] + Last["proposals"]
<1>1. \A t \in Kinds : Last[t] \in Nat
  BY LastAssumption DEF Kinds
<1>2. b \in Nat
  BY <1>1 DEF Kinds
<1>3. Range(Last) = {Last[t] : t \in Kinds}
  BY LastAssumption DEF Range, Kinds
<1>4. \A t \in Kinds : Last[t] \in 0..b
  BY <1>1 DEF Kinds
<1> HIDE DEF b
<1>5. Range(Last) \in SUBSET (0..b) /\ Range(Last) # {}
  BY <1>3, <1>4 DEF Kinds
<1>6. Max(Range(Last)) \in Range(Last) /\ \A x \in Range(Last) : Max(Range(Last)) >= x
  BY <1>2, <1>5, Greatest
<1>7. Max(Range(Last)) \in Nat
  BY <1>2, <1>5, <1>6
<1>8. \A t \in Kinds : Last[t] <= Max(Range(Last))
  BY <1>1, <1>3, <1>6, <1>7
<1>9. \A t \in Kinds : \A n \in Nat \ {0} : n <= Last[t] => n \in 1..Max(Range(Last))
  BY <1>1, <1>7, <1>8
<1> QED BY <1>7, <1>9 DEF Id

\* Ids and NULL are numbers, and NULL is no id.
LEMMA IdsAreNumbers == Id \cup {0} \subseteq Nat /\ 0 \notin Id
BY Ids

\* The greatest of some ids and of a mark.
LEMMA TopId ==
  ASSUME NEW I \in SUBSET (Id \cup {0}), I # {}
  PROVE  Max(I) \in I /\ \A i \in I : i <= Max(I)
<1>1. I \in SUBSET (0..Max(Range(Last)))
  BY Ids DEF Id
<1>2. Max(I) \in I /\ \A x \in I : Max(I) >= x
  BY <1>1, Ids, Greatest
<1>3. I \subseteq Nat
  BY <1>1
<1> QED BY <1>2, <1>3

\* A fresh id is above every row and above every purged one.
LEMMA Fresh ==
  ASSUME NEW I \in SUBSET Id, NEW top \in Id \cup {0}
  PROVE  /\ FreshId(I, top) \in Nat \ {0} /\ FreshId(I, top) > top
         /\ \A i \in I : FreshId(I, top) > i
<1> DEFINE J == I \cup {top, 0}
<1>1. Max(J) \in J /\ \A i \in J : i <= Max(J)
  <2>1. J \in SUBSET (Id \cup {0}) /\ J # {}
    OBVIOUS
  <2> HIDE DEF J
  <2> QED BY <2>1, TopId
<1>2. J \subseteq Nat
  BY Ids
<1>3. FreshId(I, top) = 1 + Max(J)
  BY DEF FreshId
<1> QED BY <1>1, <1>2, <1>3

-----------------------------------------------------------------------------
(* What a step may do to a table.                                          *)

\* The table, its mark and its purged ids stay.
Keeps(t) == rows'[t] = rows[t] /\ hwm'[t] = hwm[t] /\ purged'[t] = purged[t]

\* Which row an add takes the place of when it names none.
Unnamed(t, key, old) ==
    IF key # NoKey /\ ActiveWith(t, key) # {} THEN old \in ActiveWith(t, key) ELSE old = 0

\* A pinned row that was learned then is made a fact.
Downgrades(learned) ==
    \E p \in Id : /\ ApplyDowngrade(p)
                  /\ learned = rows["pinned"][proposals[p].supersedes].learned

\* A row is added with a fresh id, as the last of an active one's chain or of none.
Grows(t) ==
    \E new \in Id, old \in Active(t) \cup {0}, key \in Key \cup {NoKey}, learned \in 0..now :
        /\ new > hwm[t] /\ \A i \in Exists(t) : i < new
        /\ learned = now \/ (old = 0 /\ Downgrades(learned))
        /\ NamesRow \/ Unnamed(t, key, old)
        /\ rows'[t] = WithRow(t, new, old, key, learned)
        /\ hwm'[t] = hwm[t] /\ purged'[t] = purged[t]

\* The times at which a row can end: now, or when a prune() under way began.
EndTimes == {now, pruning} \ {0}

\* Some active rows end.
Marks(t) ==
    \E I \in SUBSET Active(t), s \in {"superseded", "pruned"}, n \in EndTimes :
        /\ rows'[t] = [i \in Id |-> IF i \in I THEN [rows[t][i] EXCEPT !.status = s, !.ended = n]
                                             ELSE rows[t][i]]
        /\ hwm'[t] = hwm[t] /\ purged'[t] = purged[t]

\* Rows go, and the mark is above them.
Cuts(t) ==
    \E I \in SUBSET Id :
        /\ FromOldest(t, I)
        /\ rows'[t] = WithoutRows(t, I)
        /\ purged'[t] = purged[t] \cup (I \cap Exists(t))
        /\ hwm'[t] \in Id \cup {0} /\ hwm'[t] >= hwm[t]
        /\ \A i \in I : i <= hwm'[t]

TableStep(t) == Keeps(t) \/ Grows(t) \/ Marks(t) \/ Cuts(t)

\* The ids in use.
LEMMA Used ==
  ASSUME TypeOK, NEW t \in Table
  PROVE  /\ Exists(t) \in SUBSET Id /\ Active(t) \subseteq Exists(t)
         /\ hwm[t] \in Id \cup {0} /\ purged[t] \in SUBSET Id
         /\ \A k : ActiveWith(t, k) \subseteq Active(t)
         /\ \A i \in Id : rows[t][i] \in RowType
         /\ t \in Kinds
BY DEF TypeOK, Exists, Active, ActiveWith, NoRow, Table, Kinds

\* A table's next row.
LEMMA NextIsFresh ==
  ASSUME TypeOK, NEW t \in Table, NextRow(t) <= Last[t]
  PROVE  /\ NextRow(t) \in Id /\ NextRow(t) > hwm[t]
         /\ \A i \in Exists(t) : i < NextRow(t)
<1>1. /\ NextRow(t) \in Nat \ {0} /\ NextRow(t) > hwm[t]
      /\ \A i \in Exists(t) : NextRow(t) > i
  BY Used, Fresh DEF NextRow
<1>2. NextRow(t) \in Id
  BY <1>1, Used, Ids
<1> QED BY <1>1, <1>2, Used, Ids

\* add_in() adds a row to its table and leaves the other alone.
LEMMA AddInStep ==
  ASSUME TypeOK, NEW t \in Table, NEW key \in Key \cup {NoKey}, NEW sup,
         AddIn(t, key, sup), sup = 0 \/ NamesRow, UNCHANGED <<hwm, purged>>
  PROVE  \A u \in Table : TableStep(u)
<1> DEFINE olds == IF Replaces(t, key, sup) = {} THEN {0} ELSE Replaces(t, key, sup)
<1>1. PICK old \in olds : rows' = [rows EXCEPT ![t] = WithRow(t, NextRow(t), old, key, now)]
  BY DEF AddIn
<1>2. old \in Active(t) \cup {0} /\ (NamesRow \/ Unnamed(t, key, old))
  BY Used DEF Replaces, AddIn, Unnamed
<1>3. /\ NextRow(t) \in Id /\ NextRow(t) > hwm[t]
      /\ \A i \in Exists(t) : i < NextRow(t)
  BY NextIsFresh DEF AddIn
<1>4. now \in 0..now
  BY TimeAssumption DEF TypeOK
<1>5. Grows(t)
  BY <1>1, <1>2, <1>3, <1>4 DEF Grows, TypeOK
<1>6. ASSUME NEW u \in Table, u # t PROVE Keeps(u)
  BY <1>1, <1>6 DEF Keeps, TypeOK
<1> QED BY <1>5, <1>6 DEF TableStep

\* A hard delete cuts its table and leaves the other alone.
LEMMA DeleteStep ==
  ASSUME TypeOK, NEW t \in Table, NEW I \in SUBSET Id, FromOldest(t, I), NEW P,
         HardDelete(t, I, P)
  PROVE  \A u \in Table : TableStep(u)
<1>1. hwm'[t] = Max(I \cup {hwm[t]}) /\ rows'[t] = WithoutRows(t, I)
      /\ purged'[t] = purged[t] \cup (I \cap Exists(t))
  BY DEF HardDelete, TypeOK, Table
<1>2. I \cup {hwm[t]} \in SUBSET (Id \cup {0})
  BY Used
<1>3. hwm'[t] \in Id \cup {0} /\ hwm[t] <= hwm'[t] /\ \A i \in I : i <= hwm'[t]
  BY <1>1, <1>2, TopId
<1>4. hwm[t] \in Nat /\ hwm'[t] \in Nat
  <2>1. Id \cup {0} \subseteq Nat
    BY Ids
  <2>2. hwm[t] \in Id \cup {0}
    BY Used
  <2> QED BY <1>3, <2>1, <2>2
<1>5. Cuts(t)
  BY <1>1, <1>3, <1>4 DEF Cuts
<1>6. ASSUME NEW u \in Table, u # t PROVE Keeps(u)
  BY <1>6 DEF Keeps, HardDelete, TypeOK, Table
<1> QED BY <1>5, <1>6 DEF TableStep

\* The facts past their retention are whole chains from the oldest on.
LEMMA OldFactsGoBack ==
  ASSUME TypeOK, ChainsWhole, LinksGoBack
  PROVE  FromOldest("facts", {i \in Exists("facts") : rows["facts"][i].learned <= now - Ttl})
<1> DEFINE old == {i \in Exists("facts") : rows["facts"][i].learned <= now - Ttl}
<1>1. ASSUME NEW i \in old, rows["facts"][i].supersedes # 0
      PROVE  rows["facts"][i].supersedes \in old
  <2> DEFINE s == rows["facts"][i].supersedes
  <2>0. "facts" \in Table
    BY DEF Table
  <2>1. i \in Id /\ s \in Id /\ rows["facts"][s].superseded_by = i /\ i # 0
    <3>1. i \in Id /\ rows["facts"][i] \in RowType
      BY <2>0, Used
    <3>2. s \in Id \cup {0} /\ i # 0
      BY <3>1, Ids DEF RowType
    <3>3. rows["facts"][s].superseded_by = i
      BY <1>1, <2>0, <3>1 DEF ChainsWhole
    <3> QED BY <1>1, <3>1, <3>2, <3>3
  <2>2. s \in Exists("facts")
    BY <2>1 DEF Exists, NoRow
  <2>3. /\ rows["facts"][s].learned <= rows["facts"][i].learned
        /\ rows["facts"][s].learned \in Nat /\ rows["facts"][i].learned \in Nat
    BY <1>1, <2>0, <2>1, Used DEF LinksGoBack, RowType
  <2>4. now - Ttl \in Int
    BY TimeAssumption DEF TypeOK
  <2> QED BY <1>1, <2>2, <2>3, <2>4
<1> QED BY <1>1 DEF FromOldest

\* Each step of the store keeps a table, adds a row to it, ends some rows or deletes some.
LEMMA StepOfTables ==
  ASSUME IInv, [Next]_vars
  PROVE  \A t \in Table : TableStep(t)
<1> USE DEF IInv
<1>t. "pinned" \in Table /\ "facts" \in Table
  BY DEF Table
<1>1. ASSUME NEW t \in Table, NEW k \in Key \cup {NoKey}, NEW s \in Named(t), Add(t, k, s)
      PROVE  \A u \in Table : TableStep(u)
  <2>1. s = 0 \/ NamesRow
    BY <1>1, Used DEF Named, NamesRow
  <2> QED BY <1>1, <2>1, AddInStep DEF Add
<1>2. ASSUME UNCHANGED <<rows, hwm, purged>> PROVE \A t \in Table : TableStep(t)
  BY <1>2 DEF TableStep, Keeps
<1>3. ASSUME NEW p \in Id, Accept(p) PROVE \A t \in Table : TableStep(t)
  <2> DEFINE it == proposals[p]
             named == IF it.supersedes \in Active("facts") THEN it.supersedes ELSE 0
  <2>1. it.key \in Key \cup {NoKey}
    BY DEF TypeOK, ProposalType
  <2>2. named = 0 \/ NamesRow
    BY <1>3 DEF NamesRow
  <2>3. AddIn("facts", it.key, named) /\ UNCHANGED <<hwm, purged>>
    BY <1>3 DEF Accept
  <2> QED BY <1>t, <2>1, <2>2, <2>3, AddInStep
<1>4. ASSUME NEW p \in Id, ApplyDowngrade(p) PROVE \A t \in Table : TableStep(t)
  <2> DEFINE i == proposals[p].supersedes
             row == rows["pinned"][i]
  <2>0. i \in Active("pinned") /\ row \in RowType /\ i # 0
    BY <1>4, <1>t, Used, Ids DEF ApplyDowngrade
  <2>1. NamesRow
    BY <1>4, <2>0 DEF NamesRow
  <2>2. /\ NextRow("facts") \in Id /\ NextRow("facts") > hwm["facts"]
        /\ \A j \in Exists("facts") : j < NextRow("facts")
    BY <1>4, <1>t, NextIsFresh DEF ApplyDowngrade
  <2>3. row.key \in Key \cup {NoKey} /\ row.learned \in 0..now
    <3>1. row.learned <= now /\ i \in Id
      BY <1>t, <2>0, Used DEF TypeOK
    <3> QED BY <2>0, <3>1 DEF RowType, TypeOK
  <2>4. /\ rows'["facts"] = WithRow("facts", NextRow("facts"), 0, row.key, row.learned)
        /\ rows'["pinned"] = [rows["pinned"] EXCEPT ![i].status = "superseded", ![i].ended = now]
        /\ UNCHANGED <<hwm, purged>>
    BY <1>4 DEF ApplyDowngrade
  <2>5. Grows("facts")
    <3>1. Downgrades(row.learned)
      BY <1>4 DEF Downgrades
    <3> QED BY <2>1, <2>2, <2>3, <2>4, <3>1 DEF Grows
  <2>6. Marks("pinned")
    <3>1. rows["pinned"] \in [Id -> RowType] /\ {i} \in SUBSET Active("pinned") /\ i \in Id
      BY <1>t, <2>0, Used DEF TypeOK
    <3>2. rows'["pinned"] = [j \in Id |->
              IF j \in {i} THEN [rows["pinned"][j] EXCEPT !.status = "superseded", !.ended = now]
                           ELSE rows["pinned"][j]]
      BY <2>4, <3>1
    <3>3. now \in EndTimes
      BY DEF EndTimes, TypeOK
    <3>4. \E I \in SUBSET Active("pinned"), s \in {"superseded", "pruned"}, n \in EndTimes :
             /\ rows'["pinned"] = [j \in Id |->
                    IF j \in I THEN [rows["pinned"][j] EXCEPT !.status = s, !.ended = n]
                               ELSE rows["pinned"][j]]
             /\ hwm'["pinned"] = hwm["pinned"] /\ purged'["pinned"] = purged["pinned"]
      <4> USE <2>4, <3>1, <3>3
      <4> WITNESS {i} \in SUBSET Active("pinned"), "superseded" \in {"superseded", "pruned"},
                  now \in EndTimes
      <4> QED BY <3>2
    <3> QED BY <3>4 DEF Marks
  <2> QED BY <2>5, <2>6 DEF TableStep, Table
<1>5. ASSUME NEW I \in SUBSET Id, PruneCommits(I) PROVE \A t \in Table : TableStep(t)
  <2>1. /\ rows'["facts"] = [i \in Id |-> IF i \in I THEN Pruned(rows["facts"][i])
                                                    ELSE rows["facts"][i]]
        /\ rows'["pinned"] = rows["pinned"]
        /\ I \subseteq Active("facts") /\ UNCHANGED <<hwm, purged>>
    BY <1>5 DEF PruneCommits, TypeOK, Table
  <2>2. Marks("facts")
    <3>1. pruning \in EndTimes
      BY <1>5 DEF EndTimes, PruneCommits
    <3> QED BY <2>1, <3>1 DEF Marks, Pruned
  <2>3. Keeps("pinned")
    BY <2>1 DEF Keeps
  <2> QED BY <2>2, <2>3 DEF TableStep, Table
<1>6. CASE ForgetDeletes
  <2>1. forgetting.table \in Table /\ forgetting.ids \in SUBSET Id
    BY <1>6 DEF ForgetDeletes, WholeChain, WellRead, TypeOK
  <2>2. FromOldest(forgetting.table, forgetting.ids)
    <3>1. forgetting.ids # {} => Reading(forgetting) = forgetting.ids
      BY <1>6, <2>1, IdsAreNumbers DEF ForgetDeletes, Reading
    <3> QED BY <1>6, <3>1 DEF ForgetDeletes, WholeChain, WellRead, FromOldest
  <2> QED BY <1>6, <2>1, <2>2, DeleteStep DEF ForgetDeletes
<1>7. CASE Expire
  <2>1. {i \in Exists("facts") : rows["facts"][i].learned <= now - Ttl} \in SUBSET Id
    BY <1>t, Used
  <2> QED BY <1>7, <1>t, <2>1, OldFactsGoBack, DeleteStep DEF Expire
<1>8. CASE \/ ForgetDies \/ Tick \/ PruneBegins \/ UNCHANGED vars
           \/ \E i \in Id : ProposeDowngrade(i)
           \/ \E k \in Key \cup {NoKey} : \E s \in Named("facts") : Propose(k, s)
           \/ \E t \in Table, i \in Id : ForgetBegins(t, i)
           \/ ForgetReads
  BY <1>2, <1>8 DEF ForgetDies, Tick, PruneBegins, vars, ProposeDowngrade, Propose, Proposes, ForgetBegins,
                    ForgetReads
<1> QED BY <1>1, <1>3, <1>4, <1>5, <1>6, <1>7, <1>8 DEF Next

-----------------------------------------------------------------------------
(* What a table has after such a step.                                     *)

\* A row with another status and end is a row.
LEMMA EndedRows ==
  ASSUME NEW r \in RowType, NEW s \in {"superseded", "pruned"}, NEW n \in 0..MaxNow, NEW j \in Id
  PROVE  /\ [r EXCEPT !.status = s, !.ended = n] \in RowType
         /\ [r EXCEPT !.status = s, !.superseded_by = j, !.ended = n] \in RowType
BY DEF RowType

\* The rows after an add: the new one, the one in whose place it is, and the others.
Added(t, new, old, key, learned) ==
    /\ new \notin Exists(t) /\ new # old /\ rows[t][new] = NoRow
    /\ rows'[t][new] = [key |-> IF old # 0 /\ key = NoKey THEN rows[t][old].key ELSE key,
                        learned |-> learned, ended |-> 0, status |-> "active",
                        supersedes |-> old, superseded_by |-> 0]
    /\ old # 0 =>
          /\ old \in Active(t) /\ old < new
          /\ rows'[t][old] = [rows[t][old] EXCEPT !.status = "superseded",
                                                 !.superseded_by = new, !.ended = now]
    /\ \A i \in Id \ {new, old} : rows'[t][i] = rows[t][i]
    /\ rows'[t] \in [Id -> RowType]

\* What WithRow puts into the table.
LEMMA AddedRows ==
  ASSUME TypeOK, NEW t \in Table, NEW new \in Id, NEW old \in Active(t) \cup {0},
         NEW key \in Key \cup {NoKey}, NEW learned \in 0..now,
         \A i \in Exists(t) : i < new,
         rows'[t] = WithRow(t, new, old, key, learned)
  PROVE  Added(t, new, old, key, learned)
<1>1. new \notin Exists(t) /\ new \in Nat /\ new # 0
  BY Ids
<1>2. old # 0 => old \in Active(t) /\ old < new
  BY Used
<1>3. old \in Id \cup {0} /\ new # old
  BY <1>1, <1>2, Used
<1>4. rows[t][new] = NoRow
  BY <1>1 DEF Exists
<1>t. now \in 0..MaxNow /\ 0 \in 0..MaxNow /\ learned \in 0..MaxNow
  <2>1. now \in 1..MaxNow /\ MaxNow \in Nat
    BY TimeAssumption DEF TypeOK
  <2> QED BY <2>1
<1> DEFINE row == [key |-> IF old # 0 /\ key = NoKey THEN rows[t][old].key ELSE key,
                   learned |-> learned, ended |-> 0, status |-> "active",
                   supersedes |-> old, superseded_by |-> 0]
           over == [rows[t][old] EXCEPT !.status = "superseded",
                                        !.superseded_by = new, !.ended = now]
<1>5. rows'[t] = [i \in Id |-> CASE i = new -> row [] i = old -> over [] OTHER -> rows[t][i]]
  BY DEF WithRow
<1>6. row \in RowType
  <2>1. old # 0 => rows[t][old].key \in Key \cup {NoKey}
    <3>1. old # 0 => rows[t][old] \in RowType
      BY <1>3, Used
    <3> QED BY <3>1 DEF RowType
  <2> QED BY <1>3, <1>t, <2>1 DEF RowType
<1>7. old # 0 => over \in RowType
  BY <1>3, <1>t, Used, EndedRows
<1> HIDE DEF row, over
<1>8. /\ rows'[t][new] = row /\ (old # 0 => rows'[t][old] = over)
      /\ \A i \in Id \ {new, old} : rows'[t][i] = rows[t][i]
  BY <1>3, <1>5
<1>9. rows'[t] \in [Id -> RowType]
  <2>1. ASSUME NEW i \in Id PROVE rows'[t][i] \in RowType
    <3>1. CASE i = new
      BY <1>6, <1>8, <3>1
    <3>2. CASE i = old
      <4>1. old # 0
        BY <3>2, Ids
      <4> QED BY <1>7, <1>8, <3>2, <4>1
    <3>3. CASE i \notin {new, old}
      BY <1>8, <3>3, Used
    <3> QED BY <3>1, <3>2, <3>3
  <2> QED BY <1>5, <2>1
<1> QED BY <1>1, <1>2, <1>3, <1>4, <1>8, <1>9 DEF row, over, Added

\* A table that grows does so by such an add.
LEMMA GrownRows ==
  ASSUME TypeOK, NEW t \in Table, Grows(t)
  PROVE  \E new \in Id, old \in Active(t) \cup {0}, key \in Key \cup {NoKey}, learned \in 0..now :
            /\ Added(t, new, old, key, learned)
            /\ new > hwm[t]
            /\ learned = now \/ (old = 0 /\ Downgrades(learned))
            /\ NamesRow \/ Unnamed(t, key, old)
            /\ hwm'[t] = hwm[t] /\ purged'[t] = purged[t]
<1>1. PICK new \in Id, old \in Active(t) \cup {0}, key \in Key \cup {NoKey}, learned \in 0..now :
          /\ new > hwm[t] /\ \A i \in Exists(t) : i < new
          /\ learned = now \/ (old = 0 /\ Downgrades(learned))
          /\ NamesRow \/ Unnamed(t, key, old)
          /\ rows'[t] = WithRow(t, new, old, key, learned)
          /\ hwm'[t] = hwm[t] /\ purged'[t] = purged[t]
  BY DEF Grows
<1>2. Added(t, new, old, key, learned)
  BY <1>1, AddedRows
<1> QED BY <1>1, <1>2

\* The rows after some ended: only status and end of active rows change.
LEMMA MarkedRows ==
  ASSUME TypeOK, NEW t \in Table, Marks(t)
  PROVE  /\ rows'[t] \in [Id -> RowType]
         /\ \A i \in Id :
               \/ rows'[t][i] = rows[t][i]
               \/ /\ i \in Active(t)
                  /\ \E s \in {"superseded", "pruned"}, n \in EndTimes :
                        rows'[t][i] = [rows[t][i] EXCEPT !.status = s, !.ended = n]
<1>1. PICK I \in SUBSET Active(t), s \in {"superseded", "pruned"}, n \in EndTimes :
          rows'[t] = [i \in Id |-> IF i \in I THEN [rows[t][i] EXCEPT !.status = s, !.ended = n]
                                              ELSE rows[t][i]]
  BY DEF Marks
<1>2. ASSUME NEW i \in Id PROVE [rows[t][i] EXCEPT !.status = s, !.ended = n] \in RowType
  <2>1. n \in 0..MaxNow
    BY TimeAssumption DEF TypeOK, EndTimes
  <2> QED BY <2>1, Used, EndedRows
<1> QED BY <1>1, <1>2, Used

\* The rows after a delete: only a link to a deleted row changes.
LEMMA CutRows ==
  ASSUME TypeOK, NEW t \in Table, NEW I \in SUBSET Id, rows'[t] = WithoutRows(t, I)
  PROVE  /\ rows'[t] \in [Id -> RowType]
         /\ \A i \in I : rows'[t][i] = NoRow
         /\ \A i \in Id \ I :
               /\ rows[t][i].supersedes \in I => rows'[t][i] = [rows[t][i] EXCEPT !.supersedes = 0]
               /\ rows[t][i].supersedes \notin I => rows'[t][i] = rows[t][i]
<1>1. NoRow \in RowType
  BY TimeAssumption DEF NoRow, RowType
<1>2. ASSUME NEW i \in Id PROVE [rows[t][i] EXCEPT !.supersedes = 0] \in RowType
  <2>1. rows[t][i] \in RowType
    BY Used
  <2> QED BY <2>1 DEF RowType
<1> QED BY <1>1, <1>2, Used DEF WithoutRows

\* A table keeps its types.
TableType(t) ==
    /\ rows[t] \in [Id -> RowType] /\ hwm[t] \in Id \cup {0} /\ purged[t] \in SUBSET Id
    /\ \A i \in Id :
          /\ rows[t][i].learned <= now
          /\ rows[t][i].ended # 0 <=> rows[t][i].status \in {"superseded", "pruned"}
          /\ rows[t][i] # NoRow => rows[t][i].status # "none"

\* A row that ends, ends as superseded or pruned.
LEMMA EndedRow ==
  ASSUME TypeOK, NEW t \in Table, NEW i \in Id, NEW row \in RowType,
         NEW s \in {"superseded", "pruned"},
         row.learned = rows[t][i].learned, row.status = s, row.ended \in EndTimes
  PROVE  /\ row.learned <= now
         /\ row.ended # 0 <=> row.status \in {"superseded", "pruned"}
         /\ row.status # "none"
BY DEF TypeOK, EndTimes

\* Every step of a table keeps its types.
LEMMA TableTypeStep ==
  ASSUME TypeOK, StatusKnown, NEW t \in Table, TableStep(t), now' \in Nat, now <= now'
  PROVE  TableType(t)'
<1>0. /\ TableType(t) /\ now \in Nat /\ now # 0
      /\ \A i \in Id : rows[t][i].learned \in Nat
  BY Used DEF TypeOK, StatusKnown, TableType, Exists, RowType
<1>m. ASSUME NEW i \in Id, rows'[t][i] \in RowType,
             /\ rows'[t][i].learned <= now
             /\ rows'[t][i].ended # 0 <=> rows'[t][i].status \in {"superseded", "pruned"}
             /\ rows'[t][i] # NoRow => rows'[t][i].status # "none"
      PROVE  /\ rows'[t][i].learned <= now'
             /\ rows'[t][i].ended # 0 <=> rows'[t][i].status \in {"superseded", "pruned"}
             /\ rows'[t][i] # NoRow => rows'[t][i].status # "none"
  BY <1>0, <1>m DEF RowType
<1>1. CASE Keeps(t)
  BY <1>0, <1>1, <1>m DEF Keeps, TableType
<1>2. CASE Grows(t)
  <2>1. PICK new \in Id, old \in Active(t) \cup {0}, key \in Key \cup {NoKey}, learned \in 0..now :
          Added(t, new, old, key, learned) /\ hwm'[t] = hwm[t] /\ purged'[t] = purged[t]
    BY <1>2, GrownRows
  <2>2. /\ rows'[t] \in [Id -> RowType]
        /\ rows'[t][new].learned = learned /\ rows'[t][new].ended = 0
        /\ rows'[t][new].status = "active"
        /\ \A i \in Id \ {new, old} : rows'[t][i] = rows[t][i]
    BY <2>1 DEF Added
  <2>3. ASSUME NEW i \in Id
        PROVE  /\ rows'[t][i].learned <= now
               /\ rows'[t][i].ended # 0 <=> rows'[t][i].status \in {"superseded", "pruned"}
               /\ rows'[t][i] # NoRow => rows'[t][i].status # "none"
    <3>1. CASE i = new
      BY <2>2, <3>1
    <3>2. CASE i = old /\ i # new
      <4>1. old # 0
        BY <3>2, Ids
      <4>2. rows'[t][old] = [rows[t][old] EXCEPT !.status = "superseded",
                                 !.superseded_by = new, !.ended = now]
        BY <2>1, <4>1 DEF Added
      <4>3. /\ rows'[t][i].learned = rows[t][i].learned
            /\ rows'[t][i].status = "superseded" /\ rows'[t][i].ended \in EndTimes
        BY <3>2, <4>2, Used DEF RowType, EndTimes, TypeOK
      <4> QED BY <2>2, <4>3, EndedRow
    <3>3. CASE i \notin {new, old}
      BY <1>0, <2>2, <3>3 DEF TableType
    <3> QED BY <3>1, <3>2, <3>3
  <2> QED BY <1>0, <1>m, <2>1, <2>2, <2>3 DEF TableType
<1>3. CASE Marks(t)
  <2>1. ASSUME NEW i \in Id
        PROVE  /\ rows'[t][i].learned <= now
               /\ rows'[t][i].ended # 0 <=> rows'[t][i].status \in {"superseded", "pruned"}
               /\ rows'[t][i] # NoRow => rows'[t][i].status # "none"
    <3>1. CASE rows'[t][i] = rows[t][i]
      BY <1>0, <3>1 DEF TableType
    <3>2. ASSUME NEW s \in {"superseded", "pruned"}, NEW n \in EndTimes,
                 rows'[t][i] = [rows[t][i] EXCEPT !.status = s, !.ended = n]
          PROVE  /\ rows'[t][i].learned <= now
                 /\ rows'[t][i].ended # 0 <=> rows'[t][i].status \in {"superseded", "pruned"}
                 /\ rows'[t][i].status # "none"
      <4>1. /\ rows'[t][i].learned = rows[t][i].learned
            /\ rows'[t][i].status = s /\ rows'[t][i].ended = n
        BY <3>2, Used DEF RowType
      <4>2. rows'[t][i] \in RowType
        BY <1>3, MarkedRows
      <4> QED BY <4>1, <4>2, EndedRow
    <3>3. \/ rows'[t][i] = rows[t][i]
          \/ \E s \in {"superseded", "pruned"}, n \in EndTimes :
                rows'[t][i] = [rows[t][i] EXCEPT !.status = s, !.ended = n]
      BY <1>3, MarkedRows
    <3> QED BY <3>1, <3>2, <3>3
  <2> QED BY <1>0, <1>3, <1>m, <2>1, MarkedRows DEF TableType, Marks
<1>4. CASE Cuts(t)
  <2>1. PICK I \in SUBSET Id : /\ rows'[t] = WithoutRows(t, I)
                              /\ purged'[t] = purged[t] \cup (I \cap Exists(t))
                              /\ hwm'[t] \in Id \cup {0}
    BY <1>4 DEF Cuts
  <2>c. \A i \in Id \ I :
            /\ rows[t][i].supersedes \in I => rows'[t][i] = [rows[t][i] EXCEPT !.supersedes = 0]
            /\ rows[t][i].supersedes \notin I => rows'[t][i] = rows[t][i]
    BY <2>1, CutRows
  <2>2. ASSUME NEW i \in Id
        PROVE  /\ rows'[t][i].learned <= now
               /\ rows'[t][i].ended # 0 <=> rows'[t][i].status \in {"superseded", "pruned"}
               /\ rows'[t][i] # NoRow => rows'[t][i].status # "none"
    <3>1. CASE i \in I
      BY <1>0, <2>1, <3>1, CutRows DEF NoRow
    <3>2. CASE i \notin I /\ rows[t][i].supersedes \notin I
      <4>1. rows'[t][i] = rows[t][i]
        BY <2>c, <3>2
      <4> QED BY <1>0, <4>1 DEF TableType
    <3>3. CASE i \notin I /\ rows[t][i].supersedes \in I
      <4>1. rows'[t][i] = [rows[t][i] EXCEPT !.supersedes = 0]
        BY <2>c, <3>3
      <4>2. rows[t][i] # NoRow
        BY <3>3, Ids DEF NoRow
      <4> QED BY <1>0, <4>1, <4>2, Used DEF TableType, RowType
    <3> QED BY <3>1, <3>2, <3>3
  <2> QED BY <1>0, <1>m, <2>1, <2>2, CutRows, Used DEF TableType
<1> QED BY <1>1, <1>2, <1>3, <1>4 DEF TableStep

-----------------------------------------------------------------------------
(* The chains, the purged ids and what forget() read.                      *)

\* What ChainsWhole and LinksGoBack say of one row.
Linked(t, i) ==
    LET row == rows[t][i]
    IN  /\ row.superseded_by # 0 =>
              /\ rows[t][row.superseded_by].supersedes = i
              /\ row.status = "superseded"
        /\ row.supersedes # 0 =>
              /\ rows[t][row.supersedes].superseded_by = i
              /\ row.supersedes < i
              /\ rows[t][row.supersedes].learned <= row.learned

\* Links lead to rows.
LEMMA LinkEnds ==
  ASSUME TypeOK, NEW t \in Table, NEW i \in Id, Linked(t, i)
  PROVE  /\ i # 0 /\ i \in Nat
         /\ rows[t][i].superseded_by # 0 =>
               rows[t][i].superseded_by \in Id /\ rows[t][rows[t][i].superseded_by] # NoRow
         /\ rows[t][i].supersedes # 0 =>
               rows[t][i].supersedes \in Id /\ rows[t][rows[t][i].supersedes] # NoRow
<1>1. i # 0 /\ i \in Nat
  BY Ids
<1>2. rows[t][i].superseded_by \in Id \cup {0} /\ rows[t][i].supersedes \in Id \cup {0}
  <2>1. rows[t][i] \in RowType
    BY Used
  <2> QED BY <2>1 DEF RowType
<1> QED BY <1>1, <1>2 DEF Linked, NoRow

\* An added row ends its chain, whose last row was active.
LEMMA GrownLinks ==
  ASSUME TypeOK, NEW t \in Table, \A i \in Id : Linked(t, i), Grows(t), NEW i \in Id
  PROVE  Linked(t, i)'
<1>1. PICK new \in Id, old \in Active(t) \cup {0}, key \in Key \cup {NoKey}, learned \in 0..now :
          /\ Added(t, new, old, key, learned)
          /\ learned = now \/ old = 0
  BY GrownRows
<1>2. /\ rows'[t][new].superseded_by = 0 /\ rows'[t][new].supersedes = old
      /\ rows'[t][new].learned = learned /\ rows[t][new] = NoRow /\ new # old
      /\ \A j \in Id \ {new, old} : rows'[t][j] = rows[t][j]
  BY <1>1 DEF Added
<1>3. ASSUME old # 0
      PROVE  /\ old \in Id /\ old < new /\ rows[t][old].superseded_by = 0
             /\ rows'[t][old].superseded_by = new /\ rows'[t][old].status = "superseded"
             /\ rows'[t][old].supersedes = rows[t][old].supersedes
             /\ rows'[t][old].learned = rows[t][old].learned
             /\ rows[t][old].learned <= learned
  <2>1. old \in Id /\ rows[t][old].status = "active" /\ old < new
    BY <1>1, <1>3 DEF Active, Added
  <2>2. rows[t][old] \in RowType /\ rows[t][old].learned <= now
    BY <2>1, Used DEF TypeOK
  <2>3. rows'[t][old] = [rows[t][old] EXCEPT !.status = "superseded",
                                 !.superseded_by = new, !.ended = now]
    BY <1>1, <1>3 DEF Added
  <2>4. rows[t][old].superseded_by = 0
    BY <2>1 DEF Linked
  <2>5. learned = now
    BY <1>1, <1>3
  <2> QED BY <2>1, <2>2, <2>3, <2>4, <2>5 DEF RowType
<1>4. CASE i = new
  BY <1>2, <1>3, <1>4 DEF Linked
<1>5. CASE i = old
  <2> DEFINE s == rows[t][i].supersedes
  <2>1. i # 0 /\ old # 0
    BY <1>5, Ids
  <2>2. s # 0 => s \in Id \ {new, old}
    <3>1. s # 0 => /\ s \in Id /\ rows[t][s] # NoRow /\ s < i /\ i \in Nat
      BY LinkEnds DEF Linked
    <3> QED BY <1>2, <1>5, <3>1, Ids
  <2>3. s # 0 => rows'[t][s] = rows[t][s]
    BY <1>2, <2>2
  <2> QED BY <1>2, <1>3, <1>5, <2>1, <2>3 DEF Linked
<1>6. CASE i \notin {new, old}
  <2> DEFINE s == rows[t][i].supersedes
             n == rows[t][i].superseded_by
  <2>1. rows'[t][i] = rows[t][i]
    BY <1>2, <1>6
  <2>2. n # 0 => n \in Id /\ n # new
    BY <1>2, LinkEnds
  <2>3. n # 0 => rows'[t][n].supersedes = rows[t][n].supersedes
    BY <1>2, <1>3, <2>2, Ids
  <2>4. s # 0 => s \in Id \ {new, old}
    <3>1. s # 0 => s \in Id /\ s # new /\ rows[t][s].superseded_by = i /\ i # 0
      BY <1>2, LinkEnds DEF Linked
    <3> QED BY <1>3, <3>1
  <2>5. s # 0 => rows'[t][s] = rows[t][s]
    BY <1>2, <2>4
  <2> QED BY <2>1, <2>3, <2>5 DEF Linked
<1> QED BY <1>4, <1>5, <1>6

\* Rows that end keep their links, and an active one has no successor.
LEMMA MarkedLinks ==
  ASSUME TypeOK, NEW t \in Table, \A i \in Id : Linked(t, i), Marks(t), NEW i \in Id
  PROVE  Linked(t, i)'
<1>1. ASSUME NEW j \in Id
      PROVE  /\ rows'[t][j].supersedes = rows[t][j].supersedes
             /\ rows'[t][j].superseded_by = rows[t][j].superseded_by
             /\ rows'[t][j].learned = rows[t][j].learned
             /\ rows[t][j].superseded_by # 0 => rows'[t][j].status = rows[t][j].status
  <2>1. CASE rows'[t][j] = rows[t][j]
    BY <2>1
  <2>2. ASSUME j \in Active(t), NEW s \in {"superseded", "pruned"}, NEW n \in EndTimes,
               rows'[t][j] = [rows[t][j] EXCEPT !.status = s, !.ended = n]
        PROVE  /\ rows'[t][j].supersedes = rows[t][j].supersedes
               /\ rows'[t][j].superseded_by = rows[t][j].superseded_by
               /\ rows'[t][j].learned = rows[t][j].learned
               /\ rows[t][j].superseded_by = 0
    <3>1. rows[t][j] \in RowType /\ rows[t][j].status = "active"
      BY <2>2, Used DEF Active
    <3>2. rows[t][j].superseded_by = 0
      BY <3>1 DEF Linked
    <3> QED BY <2>2, <3>1, <3>2 DEF RowType
  <2>3. \/ rows'[t][j] = rows[t][j]
        \/ /\ j \in Active(t)
           /\ \E s \in {"superseded", "pruned"}, n \in EndTimes :
                 rows'[t][j] = [rows[t][j] EXCEPT !.status = s, !.ended = n]
    BY MarkedRows
  <2>4. CASE rows'[t][j] # rows[t][j]
    BY <2>2, <2>3, <2>4
  <2> QED BY <2>1, <2>4
<1>2. Linked(t, i)
  OBVIOUS
<1> QED BY <1>1, <1>2, LinkEnds DEF Linked

\* A deleted row takes its past along, and what superseded it forgets it.
LEMMA CutLinks ==
  ASSUME TypeOK, NEW t \in Table, \A i \in Id : Linked(t, i), Cuts(t), NEW i \in Id
  PROVE  Linked(t, i)'
<1>1. PICK I \in SUBSET Id : FromOldest(t, I) /\ rows'[t] = WithoutRows(t, I)
  BY DEF Cuts
<1>2. /\ \A j \in I : rows'[t][j] = NoRow
      /\ \A j \in Id \ I :
            /\ rows[t][j].supersedes \in I => rows'[t][j] = [rows[t][j] EXCEPT !.supersedes = 0]
            /\ rows[t][j].supersedes \notin I => rows'[t][j] = rows[t][j]
  BY <1>1, CutRows
<1>3. ASSUME NEW j \in Id \ I
      PROVE  /\ rows'[t][j].superseded_by = rows[t][j].superseded_by
             /\ rows'[t][j].status = rows[t][j].status
             /\ rows'[t][j].learned = rows[t][j].learned
             /\ rows'[t][j].supersedes \in {0, rows[t][j].supersedes}
             /\ rows[t][j].supersedes \in I => rows'[t][j].supersedes = 0
             /\ rows[t][j].supersedes \notin I => rows'[t][j] = rows[t][j]
  <2>1. rows[t][j] \in RowType
    BY Used
  <2> QED BY <1>2, <2>1 DEF RowType
<1>4. CASE i \in I
  <2>1. rows'[t][i] = NoRow
    BY <1>2, <1>4
  <2> QED BY <2>1 DEF Linked, NoRow
<1>5. CASE i \notin I
  <2> DEFINE s == rows[t][i].supersedes
             n == rows[t][i].superseded_by
  <2>1. n # 0 => n \in Id \ I
    <3>1. n # 0 => n \in Id /\ rows[t][n].supersedes = i /\ i # 0
      BY LinkEnds DEF Linked
    <3> QED BY <1>1, <1>5, <3>1 DEF FromOldest
  <2>2. n # 0 => rows'[t][n].supersedes = i /\ rows'[t][i].status = "superseded"
    <3>1. n # 0 => rows[t][n].supersedes = i /\ rows[t][i].status = "superseded"
      BY DEF Linked
    <3> QED BY <1>3, <1>5, <2>1, <3>1
  <2>3. s # 0 /\ s \notin I => s \in Id \ I
    BY LinkEnds
  <2>4. s # 0 /\ s \notin I =>
            /\ rows'[t][s].superseded_by = i /\ s < i
            /\ rows'[t][s].learned <= rows'[t][i].learned
    <3>1. s # 0 => /\ rows[t][s].superseded_by = i /\ s < i
                   /\ rows[t][s].learned <= rows[t][i].learned
      BY DEF Linked
    <3> QED BY <1>3, <1>5, <2>3, <3>1
  <2>5. rows'[t][i].superseded_by = n
    BY <1>3, <1>5
  <2>6. CASE s \in I
    <3>1. rows'[t][i].supersedes = 0
      BY <1>3, <1>5, <2>6
    <3> QED BY <2>2, <2>5, <3>1 DEF Linked
  <2>7. CASE s \notin I
    <3>1. rows'[t][i].supersedes = s
      BY <1>3, <1>5, <2>7
    <3> HIDE DEF s, n
    <3> QED BY <2>2, <2>4, <2>5, <2>7, <3>1 DEF Linked
  <2> QED BY <2>6, <2>7
<1> QED BY <1>4, <1>5

\* Chains stay whole.
LEMMA LinksStep ==
  ASSUME IInv, [Next]_vars
  PROVE  ChainsWhole' /\ LinksGoBack'
<1>1. ASSUME NEW t \in Table PROVE \A i \in Id : Linked(t, i)
  BY DEF IInv, ChainsWhole, LinksGoBack, Linked
<1>2. ASSUME NEW t \in Table, NEW i \in Id PROVE Linked(t, i)'
  <2>1. CASE Keeps(t)
    BY <1>1, <2>1 DEF Keeps, Linked
  <2> QED BY <1>1, <2>1, GrownLinks, MarkedLinks, CutLinks, StepOfTables DEF TableStep, IInv
<1> QED BY <1>2 DEF ChainsWhole, LinksGoBack, Linked

\* Which ids a step takes into use and which it gives up.
LEMMA IdsStep ==
  ASSUME TypeOK, StatusKnown, NEW t \in Table, TableStep(t)
  PROVE  /\ purged[t] \subseteq purged'[t] /\ hwm[t] <= hwm'[t]
         /\ \A i \in purged'[t] \ purged[t] : i \in Exists(t) \ Exists(t)' /\ i <= hwm'[t]
         /\ Exists(t) \ Exists(t)' \subseteq purged'[t]
         /\ \A i \in Exists(t)' \ Exists(t) : i > hwm[t]
         /\ \A i \in Id : i \in Exists(t) \/ i <= hwm[t] =>
               rows'[t][i].supersedes \in {0, rows[t][i].supersedes}
<1>0. hwm[t] \in Nat /\ hwm'[t] \in Nat /\ Id \subseteq Nat
  <2>1. Id \cup {0} \subseteq Nat
    BY Ids
  <2>2. hwm[t] \in Id \cup {0}
    BY Used
  <2>3. hwm'[t] \in Id \cup {0}
    BY <2>2 DEF TableStep, Keeps, Grows, Marks, Cuts
  <2> QED BY <2>1, <2>2, <2>3
<1>e. \A i : i \in Exists(t)' <=> i \in Id /\ rows'[t][i] # NoRow
  BY DEF Exists
<1>f. \A i : i \in Exists(t) <=> i \in Id /\ rows[t][i] # NoRow
  BY DEF Exists
<1>1. CASE Keeps(t)
  BY <1>0, <1>1, <1>e, <1>f DEF Keeps
<1>2. CASE Grows(t)
  <2>1. PICK new \in Id, old \in Active(t) \cup {0}, key \in Key \cup {NoKey}, learned \in 0..now :
          /\ Added(t, new, old, key, learned) /\ new > hwm[t]
          /\ hwm'[t] = hwm[t] /\ purged'[t] = purged[t]
    BY <1>2, GrownRows
  <2>2. /\ new \notin Exists(t) /\ new \in Nat
        /\ \A i \in Id \ {new, old} : rows'[t][i] = rows[t][i]
    BY <1>0, <2>1 DEF Added
  <2>3. old # 0 => /\ old \in Exists(t) /\ rows'[t][old].status = "superseded"
                   /\ rows'[t][old].supersedes = rows[t][old].supersedes
    <3> HAVE old # 0
    <3>1. old \in Exists(t) /\ rows[t][old] \in RowType
      BY Used
    <3>2. rows'[t][old] = [rows[t][old] EXCEPT !.status = "superseded",
                                   !.superseded_by = new, !.ended = now]
      BY <2>1 DEF Added
    <3> QED BY <3>1, <3>2 DEF RowType
  <2>4. \A i \in Exists(t) : i \in Exists(t)'
    <3> SUFFICES ASSUME NEW i \in Exists(t) PROVE rows'[t][i] # NoRow
      BY <1>e, <1>f
    <3>1. CASE i = old
      <4>1. rows'[t][i].status = "superseded"
        BY <1>f, <2>3, <3>1, Ids
      <4> QED BY <4>1 DEF NoRow
    <3>2. CASE i # old
      BY <1>f, <2>2, <3>2
    <3> QED BY <3>1, <3>2
  <2>5. \A i \in Exists(t)' \ Exists(t) : i = new
    BY <1>e, <1>f, <2>2, <2>3, Ids
  <2>6. ASSUME NEW i \in Id, i \in Exists(t) \/ i <= hwm[t]
        PROVE  rows'[t][i].supersedes \in {0, rows[t][i].supersedes}
    <3>1. i # new
      BY <1>0, <2>1, <2>2, <2>6
    <3>2. i = old => old # 0
      BY Ids
    <3> QED BY <2>2, <2>3, <3>1, <3>2
  <2> QED BY <1>0, <2>1, <2>4, <2>5, <2>6
<1>3. CASE Marks(t)
  <2>1. ASSUME NEW i \in Id
        PROVE  /\ i \in Exists(t)' <=> i \in Exists(t)
               /\ rows'[t][i].supersedes = rows[t][i].supersedes
    <3>1. CASE rows'[t][i] = rows[t][i]
      BY <1>e, <1>f, <3>1
    <3>2. CASE rows'[t][i] # rows[t][i]
      <4>0. /\ i \in Active(t)
            /\ \E s \in {"superseded", "pruned"}, n \in EndTimes :
                  rows'[t][i] = [rows[t][i] EXCEPT !.status = s, !.ended = n]
        BY <1>3, <3>2, MarkedRows
      <4>1. PICK s \in {"superseded", "pruned"}, n \in EndTimes :
                i \in Active(t) /\ rows'[t][i] = [rows[t][i] EXCEPT !.status = s, !.ended = n]
        BY <4>0
      <4>2. rows[t][i] \in RowType /\ i \in Exists(t)
        BY <4>1, Used
      <4>3. rows'[t][i].status = s /\ rows'[t][i].supersedes = rows[t][i].supersedes
        BY <4>1, <4>2 DEF RowType
      <4>4. rows'[t][i] # NoRow
        BY <4>3 DEF NoRow
      <4> QED BY <1>e, <4>2, <4>3, <4>4
    <3> QED BY <3>1, <3>2
  <2>2. hwm'[t] = hwm[t] /\ purged'[t] = purged[t]
    BY <1>3 DEF Marks
  <2>3. Exists(t)' = Exists(t)
    BY <1>e, <1>f, <2>1
  <2> QED BY <1>0, <2>1, <2>2, <2>3
<1>4. CASE Cuts(t)
  <2>1. PICK I \in SUBSET Id : /\ rows'[t] = WithoutRows(t, I)
                              /\ purged'[t] = purged[t] \cup (I \cap Exists(t))
                              /\ hwm'[t] >= hwm[t]
                              /\ \A i \in I : i <= hwm'[t]
    BY <1>4 DEF Cuts
  <2>2. /\ \A i \in I : rows'[t][i] = NoRow
        /\ \A i \in Id \ I :
              /\ rows[t][i].supersedes \in I => rows'[t][i] = [rows[t][i] EXCEPT !.supersedes = 0]
              /\ rows[t][i].supersedes \notin I => rows'[t][i] = rows[t][i]
    BY <2>1, CutRows
  <2>3. ASSUME NEW i \in Id \ I
        PROVE  /\ i \in Exists(t)' <=> i \in Exists(t)
               /\ rows'[t][i].supersedes \in {0, rows[t][i].supersedes}
    <3>1. CASE rows[t][i].supersedes \notin I
      BY <1>e, <1>f, <2>2, <3>1
    <3>2. CASE rows[t][i].supersedes \in I
      <4>1. rows[t][i] \in RowType /\ rows[t][i] # NoRow
        BY <3>2, Used, Ids DEF NoRow
      <4>2. rows[t][i].status # "none"
        BY <1>f, <4>1 DEF StatusKnown
      <4>3. rows'[t][i].status = rows[t][i].status /\ rows'[t][i].supersedes = 0
        BY <2>2, <3>2, <4>1 DEF RowType
      <4>4. rows'[t][i] # NoRow
        BY <4>2, <4>3 DEF NoRow
      <4> QED BY <1>e, <1>f, <4>1, <4>3, <4>4
    <3> QED BY <3>1, <3>2
  <2>4. \A i \in I : i \notin Exists(t)' /\ rows'[t][i].supersedes = 0
    BY <1>e, <2>2 DEF NoRow
  <2> QED BY <1>0, <1>e, <1>f, <2>1, <2>3, <2>4
<1> QED BY <1>1, <1>2, <1>3, <1>4 DEF TableStep

\* A table's purged ids, all of them below its mark, name no row.
Gone(t) == purged[t] \cap Exists(t) = {} /\ \A i \in purged[t] : i <= hwm[t]

\* Every step of a table keeps its purged ids away and below its mark.
LEMMA GoneStep ==
  ASSUME TypeOK, StatusKnown, NEW t \in Table, TableStep(t), Gone(t), hwm'[t] \in Id \cup {0}
  PROVE  Gone(t)'
<1>1. hwm[t] \in Nat /\ hwm'[t] \in Nat /\ purged[t] \subseteq Nat
  <2>1. Id \cup {0} \subseteq Nat
    BY Ids
  <2> QED BY <2>1, Used
<1>2. \A i \in purged[t] : i <= hwm'[t]
  BY <1>1, IdsStep DEF Gone
<1>3. \A i \in purged[t] : i \notin Exists(t)'
  BY <1>1, IdsStep DEF Gone
<1> QED BY <1>2, <1>3, IdsStep DEF Gone

\* What a forget() read stays a set of rows that are there, or gone, with what they superseded.
LEMMA ChainStays ==
  ASSUME TypeOK, StatusKnown, NEW t \in Table, TableStep(t), Gone(t), NEW I \in SUBSET Id,
         I \subseteq Exists(t) \cup purged[t], FromOldest(t, I)
  PROVE  /\ I \subseteq Exists(t)' \cup purged'[t]
         /\ \A i \in I : rows'[t][i].supersedes \in I \cup {0}
<1>1. I \subseteq Exists(t)' \cup purged'[t]
  BY IdsStep
<1>2. ASSUME NEW i \in I PROVE rows'[t][i].supersedes \in I \cup {0}
  <2>1. i \in Exists(t) \/ i <= hwm[t]
    BY DEF Gone
  <2>2. rows[t][i].supersedes \in I \cup {0}
    BY DEF FromOldest
  <2> QED BY <2>1, <2>2, IdsStep
<1> QED BY <1>1, <1>2

\* Rows linked on after a step were so before it, but for those it deleted.
LEMMA LinkedBefore ==
  ASSUME TypeOK, ChainsWhole, NEW t \in Table, TableStep(t), NEW S \in SUBSET Id, LinksOn(t, S)',
         NEW n \in S, n \in Exists(t)'
  PROVE  \E T \in SUBSET S : n \in T /\ LinksOn(t, T)
<1>0. \A k \in S : rows'[t][k].superseded_by \in S \cup {0}
  BY DEF LinksOn
<1>r. \A k \in S : rows[t][k] \in RowType
  BY Used
<1>1. ASSUME \A k \in S : rows[t][k].superseded_by \in {0, rows'[t][k].superseded_by}
      PROVE  LinksOn(t, S)
  BY <1>0, <1>1 DEF LinksOn
<1>2. CASE Keeps(t)
  BY <1>1, <1>2 DEF Keeps
<1>3. CASE Grows(t)
  <2>1. PICK new \in Id, old \in Active(t) \cup {0}, key \in Key \cup {NoKey}, learned \in 0..now :
            Added(t, new, old, key, learned)
    BY <1>3, GrownRows
  <2>2. rows[t][new].superseded_by = 0
    BY <2>1 DEF Added, NoRow
  <2>3. old # 0 => rows[t][old].superseded_by = 0
    <3>1. old # 0 => old \in Id /\ rows[t][old].status = "active"
      BY DEF Active
    <3> QED BY <3>1, <1>r, Used DEF ChainsWhole
  <2>4. ASSUME NEW k \in S
        PROVE  rows[t][k].superseded_by \in {0, rows'[t][k].superseded_by}
    <3>1. k = old => old # 0
      BY Ids
    <3>2. k \notin {new, old} => rows'[t][k] = rows[t][k]
      BY <2>1 DEF Added
    <3> QED BY <2>2, <2>3, <3>1, <3>2
  <2> QED BY <1>1, <2>4
<1>4. CASE Marks(t)
  <2>1. ASSUME NEW k \in S PROVE rows'[t][k].superseded_by = rows[t][k].superseded_by
    <3>1. \/ rows'[t][k] = rows[t][k]
          \/ \E s \in {"superseded", "pruned"}, e \in EndTimes :
                rows'[t][k] = [rows[t][k] EXCEPT !.status = s, !.ended = e]
      BY <1>4, MarkedRows
    <3> QED BY <1>r, <3>1 DEF RowType
  <2> QED BY <1>1, <2>1
<1>5. CASE Cuts(t)
  <2>1. PICK I \in SUBSET Id : FromOldest(t, I) /\ rows'[t] = WithoutRows(t, I)
    BY <1>5 DEF Cuts
  <2>2. /\ \A j \in I : rows'[t][j] = NoRow
        /\ \A j \in Id \ I :
              \/ rows'[t][j] = [rows[t][j] EXCEPT !.supersedes = 0]
              \/ rows'[t][j] = rows[t][j]
    BY <2>1, CutRows
  <2>3. n \in S \ I
    BY <2>2 DEF Exists
  <2>4. ASSUME NEW k \in S \ I PROVE rows[t][k].superseded_by \in (S \ I) \cup {0}
    <3> DEFINE l == rows[t][k].superseded_by
    <3>1. rows'[t][k].superseded_by = l
      BY <1>r, <2>2 DEF RowType
    <3>2. l \in S \cup {0}
      BY <1>0, <3>1
    <3>3. CASE l \in I
      <4>1. l # 0 /\ k # 0
        BY <3>3, Ids
      <4>2. rows[t][l].supersedes = k
        BY <4>1 DEF ChainsWhole
      <4>3. k \in I \cup {0}
        BY <2>1, <3>3, <4>2 DEF FromOldest
      <4> QED BY <4>1, <4>3
    <3> QED BY <3>2, <3>3
  <2>5. LinksOn(t, S \ I)
    BY <2>4 DEF LinksOn
  <2> QED BY <2>3, <2>5
<1> QED BY <1>2, <1>3, <1>4, <1>5 DEF TableStep

\* What a forget() has read stays well read, whatever another process does.
LEMMA ReadStays ==
  ASSUME TypeOK, StatusKnown, ChainsWhole, NEW f \in ForgetType, WellRead(f),
         TableStep(f.table), Gone(f.table), Gone(f.table)'
  PROVE  WellRead(f)'
<1> DEFINE t == f.table
           R == Reading(f)
<1>1. t \in Table /\ R \in SUBSET Id /\ R \subseteq Exists(t) \cup purged[t]
  BY DEF WellRead, ForgetType, Reading
<1>2. R \subseteq Exists(t)' \cup purged'[t]
  BY <1>1, IdsStep
<1>3. f.ids # {} => FromOldest(t, R)'
  <2>1. f.ids # {} => FromOldest(t, R)
    BY DEF WellRead
  <2> HIDE DEF t, R
  <2>2. f.ids # {} => \A i \in R : rows'[t][i].supersedes \in R \cup {0}
    BY <1>1, <2>1, ChainStays DEF t
  <2> QED BY <2>2 DEF FromOldest
<1>4. ASSUME f.next \in Exists(t)', NEW S \in SUBSET Id, f.next \in S, LinksOn(t, S)'
      PROVE  f.row \in S \cup f.ids
  <2>1. f.next \in Exists(t)
    <3>1. f.next # 0
      BY <1>4, Ids
    <3>2. f.next \in R
      BY <3>1 DEF Reading
    <3> QED BY <1>1, <1>4, <3>2, IdsStep DEF Gone
  <2>2. PICK T \in SUBSET S : f.next \in T /\ LinksOn(t, T)
    BY <1>1, <1>4, LinkedBefore
  <2>3. T \in SUBSET Id
    OBVIOUS
  <2> QED BY <2>1, <2>2, <2>3 DEF WellRead
<1> QED BY <1>1, <1>2, <1>3, <1>4 DEF WellRead, Reading

\* history() reads one more row: it raises, or what it has read is well read.
LEMMA ReadOn ==
  ASSUME TypeOK, ChainsWhole, NEW f \in ForgetType, WellRead(f), f.next # 0
  PROVE  \/ AfterRead(f) = NotForgetting
         \/ AfterRead(f) \in ForgetType /\ WellRead(AfterRead(f))
<1> DEFINE t == f.table
           n == f.next
           s == rows[t][n].supersedes
           l == rows[t][n].superseded_by
<1> SUFFICES ASSUME rows[t][n] # NoRow PROVE AfterRead(f) \in ForgetType /\ WellRead(AfterRead(f))
  BY DEF AfterRead
<1>1. /\ t \in Table /\ n \in Id /\ n \in Exists(t) /\ f.row \in Id \cup {0}
      /\ f.ids \in SUBSET Id /\ f.ids \subseteq Exists(t) \cup purged[t] /\ 0 \notin Id
  BY IdsAreNumbers DEF WellRead, ForgetType, Exists, Reading
<1>2. rows[t][n] \in RowType /\ s \in Id \cup {0} /\ l \in Id \cup {0}
  BY <1>1 DEF TypeOK, RowType
<1>3. s # 0 => s \in Exists(t) /\ rows[t][s].superseded_by = n
  <2>1. s # 0 => rows[t][s].superseded_by = n
    BY <1>1 DEF ChainsWhole
  <2> QED BY <1>1, <1>2, <2>1 DEF Exists, NoRow
<1>4. l # 0 => l \in Exists(t) /\ rows[t][l].supersedes = n
  <2>1. l # 0 => rows[t][l].supersedes = n
    BY <1>1 DEF ChainsWhole
  <2> QED BY <1>1, <1>2, <2>1 DEF Exists, NoRow
<1>5. ASSUME NEW S \in SUBSET Id, n \in S, LinksOn(t, S) PROVE f.row \in S \cup f.ids
  BY <1>1, <1>5 DEF WellRead
<1>6. CASE f.ids = {} /\ s # 0
  <2> DEFINE g == [table |-> t, row |-> f.row, next |-> s, ids |-> {}]
  <2>1. AfterRead(f) = g
    BY <1>6 DEF AfterRead, ForgetType
  <2>2. g \in ForgetType
    BY <1>1, <1>2 DEF ForgetType
  <2>3. ASSUME NEW S \in SUBSET Id, s \in S, LinksOn(t, S) PROVE f.row \in S
    <3>1. n \in S
      BY <1>1, <1>3, <1>6, <2>3 DEF LinksOn
    <3> QED BY <1>5, <1>6, <2>3, <3>1
  <2>4. WellRead(g)
    BY <1>1, <1>3, <1>6, <2>3 DEF WellRead, Reading
  <2> QED BY <2>1, <2>2, <2>4
<1>7. CASE ~(f.ids = {} /\ s # 0)
  <2> DEFINE J == f.ids \cup {n}
             g == [table |-> t, row |-> f.row, next |-> l, ids |-> J]
  <2>1. AfterRead(f) = g
    BY <1>7 DEF AfterRead, ForgetType
  <2>2. g \in ForgetType
    BY <1>1, <1>2 DEF ForgetType
  <2>3. Reading(g) = J \cup ({l} \ {0}) /\ Reading(g) \subseteq Exists(t) \cup purged[t]
    BY <1>1, <1>4 DEF Reading
  <2>4. FromOldest(t, J)
    <3>1. CASE f.ids = {}
      BY <1>7, <3>1 DEF FromOldest
    <3>2. CASE f.ids # {}
      <4>1. Reading(f) = J
        BY <1>1 DEF Reading
      <4> QED BY <3>2, <4>1 DEF WellRead
    <3> QED BY <3>1, <3>2
  <2>5. FromOldest(t, Reading(g))
    BY <1>4, <2>3, <2>4 DEF FromOldest
  <2>6. ASSUME NEW S \in SUBSET Id, l \in S \/ l = 0, LinksOn(t, S) PROVE f.row \in S \cup J
    <3>1. LinksOn(t, S \cup {n})
      BY <2>6 DEF LinksOn
    <3> QED BY <1>1, <1>5, <3>1
  <2>7. l = 0 => f.row \in J
    <3>1. l = 0 => LinksOn(t, {})
      BY DEF LinksOn
    <3> QED BY <2>6, <3>1
  <2>8. /\ g.table = t /\ g.row = f.row /\ g.next = l /\ g.ids = J
    OBVIOUS
  <2> HIDE DEF J, g
  <2>9. WellRead(g)
    BY <1>1, <2>3, <2>5, <2>6, <2>7, <2>8 DEF WellRead
  <2> QED BY <2>1, <2>2, <2>9
<1> QED BY <1>6, <1>7

\* The first row: history() begins at the one forget() was asked for.
LEMMA FirstRead ==
  ASSUME TypeOK, NEW t \in Table, NEW i \in Exists(t)
  PROVE  LET f == [table |-> t, row |-> i, next |-> i, ids |-> {}]
         IN  f \in ForgetType /\ WellRead(f) /\ f.next # 0
<1> DEFINE f == [table |-> t, row |-> i, next |-> i, ids |-> {}]
<1>1. i \in Id /\ i # 0
  BY IdsAreNumbers DEF Exists
<1>2. f \in ForgetType
  BY <1>1 DEF ForgetType
<1>3. WellRead(f)
  BY <1>1 DEF WellRead, Reading
<1> QED BY <1>1, <1>2, <1>3

-----------------------------------------------------------------------------
(* The table of proposals.                                                 *)

\* Its types, and its purged ids name no proposal.
ProposalsOK ==
    /\ proposals \in [Id -> ProposalType]
    /\ hwm["proposals"] \in Id \cup {0} /\ purged["proposals"] \in SUBSET Id
    /\ \A p \in purged["proposals"] : proposals[p] = NoProposal /\ p <= hwm["proposals"]

\* A proposal gets an id that no purged one had.
LEMMA ProposesStep ==
  ASSUME TypeOK, ProposalsOK, NEW key \in Key \cup {NoKey}, NEW sup \in Id \cup {0},
         NEW origin \in {"agent", "memory-review"}, Proposes(key, sup, origin, 0)
  PROVE  ProposalsOK'
<1> DEFINE known == {p \in Id : proposals[p] # NoProposal}
<1>1. NextProposal \in Nat \ {0} /\ NextProposal > hwm["proposals"]
  BY Fresh DEF NextProposal, ProposalsOK
<1>2. NextProposal \in Id
  BY <1>1, Ids DEF Proposes, Kinds
<1>3. now \in 0..MaxNow /\ 0 \in Id \cup {0}
  BY TimeAssumption DEF TypeOK
<1>4. [key |-> key, learned |-> now, state |-> "proposed",
       supersedes |-> sup, origin |-> origin, fact |-> 0] \in ProposalType
  BY <1>3 DEF ProposalType
<1>5. proposals' \in [Id -> ProposalType]
  BY <1>4 DEF Proposes, ProposalsOK
<1>6. ASSUME NEW p \in purged["proposals"] PROVE p # NextProposal
  <2>1. p <= hwm["proposals"] /\ p \in Id /\ hwm["proposals"] \in Id \cup {0}
    BY DEF ProposalsOK
  <2>2. p \in Nat /\ hwm["proposals"] \in Nat
    BY <2>1, IdsAreNumbers
  <2> QED BY <1>1, <2>1, <2>2
<1>7. \A p \in purged["proposals"] : proposals'[p] = proposals[p]
  BY <1>2, <1>6 DEF Proposes, ProposalsOK
<1> QED BY <1>5, <1>7 DEF Proposes, ProposalsOK

\* Accepting changes the proposal, not which ids are in use.
LEMMA AcceptStep ==
  ASSUME TypeOK, ProposalsOK, NEW p \in Id, Accept(p) \/ ApplyDowngrade(p)
  PROVE  ProposalsOK'
<1>1. p \in Proposed /\ proposals[p].state = "proposed" /\ proposals[p] \in ProposalType
  BY DEF Accept, ApplyDowngrade, Proposed, ProposalsOK
<1>2. proposals[p] # NoProposal
  BY <1>1 DEF NoProposal
<1>3. p \notin purged["proposals"]
  BY <1>2 DEF ProposalsOK
<1>4. \A q \in Id \ {p} : proposals'[q] = proposals[q]
  BY DEF Accept, ApplyDowngrade, ProposalsOK
<1>5. proposals' \in [Id -> ProposalType]
  <2>1. CASE ApplyDowngrade(p)
    <3>1. [proposals[p] EXCEPT !.state = "accepted"] \in ProposalType
      BY <1>1 DEF ProposalType
    <3>2. proposals' = [proposals EXCEPT ![p] = [proposals[p] EXCEPT !.state = "accepted"]]
      BY <2>1 DEF ApplyDowngrade
    <3> QED BY <3>1, <3>2 DEF ProposalsOK
  <2>2. CASE Accept(p)
    <3> DEFINE n == NextRow("facts")
    <3>1. n \in Id
      BY <2>2, NextIsFresh DEF Accept, AddIn, Table
    <3>2. proposals' = [proposals EXCEPT ![p] =
                           [proposals[p] EXCEPT !.state = "accepted", !.fact = n]]
      BY <2>2 DEF Accept
    <3> HIDE DEF n
    <3>3. [proposals[p] EXCEPT !.state = "accepted", !.fact = n] \in ProposalType
      BY <1>1, <3>1 DEF ProposalType
    <3> QED BY <3>2, <3>3 DEF ProposalsOK
  <2> QED BY <2>1, <2>2
<1>6. UNCHANGED <<hwm, purged>>
  BY DEF Accept, ApplyDowngrade
<1> QED BY <1>3, <1>4, <1>5, <1>6 DEF ProposalsOK

\* A hard delete raises the mark above the proposals it takes.
LEMMA DeleteProposals ==
  ASSUME TypeOK, ProposalsOK, NEW t \in Table, NEW I \in SUBSET Id, NEW P \in SUBSET Proposed,
         HardDelete(t, I, P)
  PROVE  ProposalsOK'
<1> DEFINE ofRows == IF t = "facts" THEN {p \in Id : proposals[p].fact \in I} ELSE {}
           known == {p \in Id : proposals[p] # NoProposal}
           tops == P \cup {hwm["proposals"]} \cup (IF I = {} THEN {} ELSE known)
<1>1. /\ proposals' = [p \in Id |-> IF p \in P \cup ofRows THEN NoProposal ELSE proposals[p]]
      /\ hwm'["proposals"] = Max(tops)
      /\ purged'["proposals"] = purged["proposals"] \cup P \cup ofRows
  BY DEF HardDelete, TypeOK, Table
<1>2. P \subseteq Id /\ ofRows \subseteq known /\ known \subseteq Id /\ (I = {} => ofRows = {})
  <2>1. ASSUME NEW p \in Id, proposals[p].fact \in I PROVE proposals[p] # NoProposal
    BY <2>1, IdsAreNumbers DEF NoProposal
  <2>2. P \subseteq Id
    BY DEF Proposed
  <2> QED BY <2>1, <2>2
<1> HIDE DEF ofRows, known
<1>3. tops \in SUBSET (Id \cup {0}) /\ tops # {}
  BY <1>2 DEF ProposalsOK
<1>4. Max(tops) \in tops /\ \A i \in tops : i <= Max(tops)
  <2> HIDE DEF tops
  <2> QED BY <1>3, TopId
<1>5. hwm'["proposals"] \in Id \cup {0} /\ hwm["proposals"] <= hwm'["proposals"]
      /\ \A p \in P \cup ofRows : p <= hwm'["proposals"]
  <2> HIDE DEF tops
  <2>1. hwm["proposals"] \in tops /\ P \subseteq tops /\ ofRows \subseteq tops
    BY <1>2 DEF tops
  <2> QED BY <1>1, <1>3, <1>4, <2>1
<1>6. ASSUME NEW p \in purged["proposals"] PROVE p <= hwm'["proposals"]
  <2>1. /\ p <= hwm["proposals"] /\ hwm["proposals"] <= hwm'["proposals"]
        /\ p \in Id \cup {0} /\ hwm["proposals"] \in Id \cup {0}
        /\ hwm'["proposals"] \in Id \cup {0}
    BY <1>5 DEF ProposalsOK
  <2>2. Id \cup {0} \subseteq Nat
    BY Ids
  <2> QED BY <2>1, <2>2
<1>7. NoProposal \in ProposalType
  BY TimeAssumption DEF NoProposal, ProposalType
<1> HIDE DEF tops
<1> QED BY <1>1, <1>2, <1>5, <1>6, <1>7 DEF ProposalsOK

-----------------------------------------------------------------------------
(* The inductive invariant holds at the start and after every step.        *)

\* The proposals, and what is in force beside the tables.
LEMMA OthersStep ==
  ASSUME IInv, [Next]_vars
  PROVE  /\ ProposalsOK' /\ now' \in 1..MaxNow /\ now <= now'
         /\ rows' = [t \in Table |-> rows'[t]]
         /\ pruning' \in 0..now'
         /\ hwm' = [k \in Table \cup {"proposals"} |-> hwm'[k]]
         /\ purged' = [k \in Table \cup {"proposals"} |-> purged'[k]]
         /\ \/ forgetting' \in {forgetting, NotForgetting}
            \/ /\ UNCHANGED <<rows, hwm, purged>>
               /\ \E f \in ForgetType : /\ WellRead(f) /\ f.next # 0
                                        /\ forgetting' = AfterRead(f)
<1>1. ProposalsOK /\ TypeOK /\ now \in 1..MaxNow /\ MaxNow \in Nat /\ now <= now
  BY TimeAssumption DEF IInv, TypeOK, ProposalsOK, PurgedIdsStayGone, MarkedPurged, Kinds
<1>2. ProposalsOK'
  <2>1. ASSUME UNCHANGED <<proposals, hwm, purged>> PROVE ProposalsOK'
    BY <1>1, <2>1 DEF ProposalsOK
  <2>2. ASSUME NEW k \in Key \cup {NoKey}, NEW s \in Named("facts"), Propose(k, s)
        PROVE  ProposalsOK'
    <3>1. s \in Id \cup {0}
      BY DEF Named, Active
    <3> QED BY <1>1, <2>2, <3>1, ProposesStep DEF Propose
  <2>3. ASSUME NEW i \in Id, ProposeDowngrade(i) PROVE ProposalsOK'
    BY <1>1, <2>3, ProposesStep DEF ProposeDowngrade
  <2>4. ASSUME NEW p \in Id, Accept(p) \/ ApplyDowngrade(p) PROVE ProposalsOK'
    BY <1>1, <2>4, AcceptStep
  <2>5. CASE ForgetDeletes
    <3>1. forgetting.table \in Table /\ forgetting.ids \in SUBSET Id
      BY <2>5 DEF ForgetDeletes, IInv, WholeChain, WellRead, TypeOK
    <3> QED BY <1>1, <2>5, <3>1, DeleteProposals DEF ForgetDeletes
  <2>6. CASE Expire
    <3>1. {i \in Exists("facts") : rows["facts"][i].learned <= now - Ttl} \in SUBSET Id
      BY DEF Exists
    <3>2. "facts" \in Table
      BY DEF Table
    <3> QED BY <1>1, <2>6, <3>1, <3>2, DeleteProposals DEF Expire
  <2>7. CASE \/ ForgetDies \/ Tick \/ UNCHANGED vars
             \/ \E t \in Table, i \in Id : ForgetBegins(t, i)
             \/ ForgetReads
             \/ \E t \in Table, k \in Key \cup {NoKey} : \E s \in Named(t) : Add(t, k, s)
             \/ PruneBegins \/ \E I \in SUBSET Id : PruneCommits(I)
    BY <2>1, <2>7 DEF ForgetDies, Tick, vars, ForgetBegins, ForgetReads, Add, PruneBegins,
                      PruneCommits
  <2> QED BY <2>2, <2>3, <2>4, <2>5, <2>6, <2>7 DEF Next
<1>3. now' \in 1..MaxNow /\ now <= now'
  <2>1. CASE Tick
    BY <1>1, <2>1 DEF Tick
  <2>2. CASE ~Tick
    <3>1. now' = now
      <4>1. CASE \E t \in Table, k \in Key \cup {NoKey} : \E s \in Named(t) : Add(t, k, s)
        BY <4>1 DEF Add
      <4>2. CASE \E k \in Key \cup {NoKey} : \E s \in Named("facts") : Propose(k, s)
        BY <4>2 DEF Propose, Proposes
      <4>3. CASE \E p \in Id : Accept(p) \/ ApplyDowngrade(p)
        BY <4>3 DEF Accept, ApplyDowngrade
      <4>4. CASE \/ \E i \in Id : ProposeDowngrade(i)
                 \/ PruneBegins \/ \E I \in SUBSET Id : PruneCommits(I)
                 \/ \E t \in Table, i \in Id : ForgetBegins(t, i)
                 \/ ForgetReads \/ ForgetDeletes \/ ForgetDies \/ Expire \/ UNCHANGED vars
        BY <4>4 DEF ProposeDowngrade, Proposes, PruneBegins, PruneCommits, ForgetBegins, ForgetReads, ForgetDeletes,
                    ForgetDies, Expire, vars
      <4> QED BY <2>2, <4>1, <4>2, <4>3, <4>4 DEF Next
    <3> QED BY <1>1, <3>1
  <2> QED BY <2>1, <2>2
<1>7. pruning' \in 0..now'
  <2>1. pruning' \in {pruning, now, 0}
    BY DEF Next, vars, Add, Propose, ProposeDowngrade, Proposes, Accept, ApplyDowngrade,
           PruneBegins, PruneCommits, ForgetBegins, ForgetReads, ForgetDeletes, ForgetDies,
           Expire, Tick
  <2> QED BY <1>1, <1>3, <2>1 DEF TypeOK
<1>4. rows' = [t \in Table |-> rows'[t]]
  BY <1>1 DEF TypeOK, Table, Next, vars, Add, AddIn, Propose, ProposeDowngrade, Proposes, Accept,
              ApplyDowngrade, PruneBegins, PruneCommits, ForgetBegins, ForgetReads, ForgetDeletes, ForgetDies, Expire,
              HardDelete, Tick
<1>5. /\ hwm' = [k \in Table \cup {"proposals"} |-> hwm'[k]]
      /\ purged' = [k \in Table \cup {"proposals"} |-> purged'[k]]
  <2>1. ASSUME NEW t, NEW I, NEW P, HardDelete(t, I, P)
        PROVE  /\ hwm' = [k \in Table \cup {"proposals"} |-> hwm'[k]]
               /\ purged' = [k \in Table \cup {"proposals"} |-> purged'[k]]
    BY <1>1, <2>1 DEF TypeOK, HardDelete
  <2>2. CASE ForgetDeletes \/ Expire
    BY <2>1, <2>2 DEF ForgetDeletes, Expire
  <2>3. CASE ~(ForgetDeletes \/ Expire)
    <3>1. UNCHANGED <<hwm, purged>>
      BY <2>3 DEF Next, vars, Add, Propose, ProposeDowngrade, Proposes, Accept, ApplyDowngrade,
                  PruneBegins, PruneCommits, ForgetBegins, ForgetReads, ForgetDies, Tick
    <3> QED BY <1>1, <3>1 DEF TypeOK
  <2> QED BY <2>2, <2>3
<1>6. \/ forgetting' \in {forgetting, NotForgetting}
      \/ /\ UNCHANGED <<rows, hwm, purged>>
         /\ \E f \in ForgetType : WellRead(f) /\ f.next # 0 /\ forgetting' = AfterRead(f)
  <2>1. ASSUME NEW t \in Table, NEW i \in Id, ForgetBegins(t, i)
        PROVE  /\ UNCHANGED <<rows, hwm, purged>>
               /\ \E f \in ForgetType : WellRead(f) /\ f.next # 0 /\ forgetting' = AfterRead(f)
    <3> DEFINE f == [table |-> t, row |-> i, next |-> i, ids |-> {}]
    <3>1. f \in ForgetType /\ WellRead(f) /\ f.next # 0
      BY <1>1, <2>1, FirstRead DEF ForgetBegins
    <3>2. forgetting' = AfterRead(f)
      BY <2>1 DEF ForgetBegins
    <3> HIDE DEF f
    <3> QED BY <2>1, <3>1, <3>2 DEF ForgetBegins
  <2>2. CASE ForgetReads
    <3>1. forgetting \in ForgetType /\ WellRead(forgetting)
      BY <2>2 DEF ForgetReads, IInv, TypeOK, WholeChain, ForgetType, NotForgetting
    <3> QED BY <2>2, <3>1 DEF ForgetReads
  <2>3. CASE ~(ForgetReads \/ \E t \in Table, i \in Id : ForgetBegins(t, i))
    BY <2>3 DEF Next, vars, Add, Propose, ProposeDowngrade, Proposes, Accept, ApplyDowngrade, PruneBegins,
                PruneCommits,
                ForgetDeletes, ForgetDies, Expire, HardDelete, Tick
  <2> QED BY <2>1, <2>2, <2>3
<1> QED BY <1>2, <1>3, <1>4, <1>5, <1>6, <1>7

\* No forget() under way is of its type.
LEMMA EmptyType == NotForgetting \in ForgetType
BY DEF NotForgetting, ForgetType

\* The invariant holds of an empty store.
LEMMA EmptyStore == Init => IInv
<1> SUFFICES ASSUME Init PROVE IInv
  OBVIOUS
<1>1. NoRow \in RowType /\ NoProposal \in ProposalType /\ NotForgetting \in ForgetType
  BY TimeAssumption DEF NoRow, RowType, NoProposal, ProposalType, NotForgetting, ForgetType
<1>2. TypeOK
  BY <1>1, TimeAssumption DEF ForgetType, Init, TypeOK, NoRow
<1>3. ChainsWhole /\ LinksGoBack
  BY DEF Init, ChainsWhole, LinksGoBack, NoRow
<1>4. PurgedIdsStayGone /\ StatusKnown /\ MarkedPurged /\ WholeChain
  BY DEF Init, PurgedIdsStayGone, StatusKnown, MarkedPurged, WholeChain, Exists, Kinds, Table
<1> QED BY <1>2, <1>3, <1>4 DEF IInv

\* The inductive invariant.
THEOREM StoreSound == Spec => []IInv
<1>1. IInv /\ [Next]_vars => IInv'
  <2> SUFFICES ASSUME IInv, [Next]_vars PROVE IInv'
    OBVIOUS
  <2>0. /\ TypeOK /\ StatusKnown /\ now' \in 1..MaxNow /\ now <= now' /\ now' \in Nat
        /\ \A t \in Table : TableStep(t)
    BY OthersStep, StepOfTables, TimeAssumption DEF IInv
  <2>1. \A t \in Table : TableType(t)'
    BY <2>0, TableTypeStep
  <2>2. \A t \in Table : Gone(t) /\ Gone(t)'
    <3>1. \A t \in Table : Gone(t)
      BY DEF IInv, PurgedIdsStayGone, MarkedPurged, Gone, Kinds, Table
    <3>2. \A t \in Table : hwm'[t] \in Id \cup {0}
      BY <2>1 DEF TableType
    <3> QED BY <2>0, <3>1, <3>2, GoneStep
  <2>3. PurgedIdsStayGone' /\ MarkedPurged' /\ StatusKnown'
    BY <2>1, <2>2, OthersStep
       DEF Gone, TableType, ProposalsOK, PurgedIdsStayGone, MarkedPurged, StatusKnown, Exists,
           Kinds, Table
  <2>4. ChainsWhole' /\ LinksGoBack'
    BY LinksStep
  <2>5. forgetting' \in ForgetType /\ WholeChain'
    <3>1. CASE forgetting' = forgetting
      <4>1. PICK f \in ForgetType : f = forgetting
        BY DEF IInv, TypeOK, ForgetType
      <4>2. SUFFICES ASSUME f # NotForgetting PROVE WellRead(f)'
        BY <3>1, <4>1 DEF WholeChain, NotForgetting
      <4>3. WellRead(f) /\ f.table \in Table
        BY <4>1, <4>2 DEF IInv, WholeChain, WellRead
      <4> QED BY <2>0, <2>2, <4>3, ReadStays DEF IInv
    <3>2. CASE forgetting' = NotForgetting
      BY <3>2, EmptyType DEF WholeChain, NotForgetting
    <3>3. ASSUME UNCHANGED <<rows, hwm, purged>>, NEW f \in ForgetType, WellRead(f), f.next # 0,
                 forgetting' = AfterRead(f)
          PROVE  forgetting' \in ForgetType /\ WholeChain'
      <4>1. PICK g \in ForgetType : /\ g = forgetting'
                                    /\ g = NotForgetting \/ WellRead(g)
        BY <3>3, ReadOn, EmptyType DEF IInv
      <4>2. ASSUME WellRead(g) PROVE WellRead(g)'
        BY <3>3, <4>2 DEF WellRead, Reading, FromOldest, LinksOn, Exists
      <4> QED BY <4>1, <4>2 DEF WholeChain, NotForgetting
    <3> QED BY <3>1, <3>2, <3>3, OthersStep
  <2>6. TypeOK'
    <3>1. rows' \in [Table -> [Id -> RowType]]
      BY <2>1, OthersStep DEF TableType
    <3>2. /\ hwm' \in [Table \cup {"proposals"} -> Id \cup {0}]
          /\ purged' \in [Table \cup {"proposals"} -> SUBSET Id]
      BY <2>1, OthersStep DEF TableType, ProposalsOK
    <3> QED BY <2>0, <2>1, <2>5, <3>1, <3>2, OthersStep
               DEF TypeOK, TableType, ProposalsOK, ForgetType
  <2> QED BY <2>3, <2>4, <2>5, <2>6 DEF IInv
<1> QED BY <1>1, EmptyStore, PTL DEF Spec

-----------------------------------------------------------------------------
(* One active row per key, and a past that stays.                          *)

\* Of a set of ids: at most one, by number and by members.
LEMMA AtMostOne ==
  ASSUME NEW S \in SUBSET Id
  PROVE  Cardinality(S) <= 1 <=> \A x \in S : \A y \in S : x = y
<1>1. IsFiniteSet(S) /\ Cardinality(S) \in Nat
  <2>1. IsFiniteSet(Id)
    BY Ids, FS_Interval DEF Id
  <2> QED BY <2>1, FS_Subset, FS_CardinalityType
<1>2. ASSUME Cardinality(S) <= 1 PROVE \A x \in S : \A y \in S : x = y
  <2>1. Cardinality(S) = 0 \/ Cardinality(S) = 1
    BY <1>1, <1>2
  <2> QED BY <1>1, <2>1, FS_EmptySet, FS_Singleton
<1>3. ASSUME \A x \in S : \A y \in S : x = y PROVE Cardinality(S) <= 1
  <2>1. CASE S = {}
    BY <2>1, FS_EmptySet
  <2>2. CASE S # {}
    <3>1. PICK x \in S : S = {x}
      BY <1>3, <2>2
    <3>2. Cardinality({x}) = 1
      BY FS_Singleton
    <3> QED BY <3>1, <3>2
  <2> QED BY <2>1, <2>2
<1> QED BY <1>2, <1>3

\* A row that ends keeps its time of learning.
LEMMA MarkedFields ==
  ASSUME TypeOK, NEW t \in Table, Marks(t), NEW i \in Id
  PROVE  /\ rows'[t][i] \in RowType
         /\ \/ rows'[t][i] = rows[t][i]
            \/ /\ i \in Active(t) /\ rows'[t][i].learned = rows[t][i].learned
               /\ rows'[t][i].status \in {"superseded", "pruned"} /\ rows'[t][i].ended \in EndTimes
<1>1. rows[t][i] \in RowType
  BY Used
<1>2. ASSUME NEW s \in {"superseded", "pruned"}, NEW n \in EndTimes,
             rows'[t][i] = [rows[t][i] EXCEPT !.status = s, !.ended = n]
      PROVE  /\ rows'[t][i].learned = rows[t][i].learned
             /\ rows'[t][i].status = s /\ rows'[t][i].ended = n
  BY <1>1, <1>2 DEF RowType
<1>3. rows'[t] \in [Id -> RowType]
      /\ (rows'[t][i] = rows[t][i]
          \/ (i \in Active(t) /\ \E s \in {"superseded", "pruned"}, n \in EndTimes :
                 rows'[t][i] = [rows[t][i] EXCEPT !.status = s, !.ended = n]))
  BY MarkedRows
<1> QED BY <1>2, <1>3

\* A row that is not deleted keeps all but its links.
LEMMA CutFields ==
  ASSUME TypeOK, NEW t \in Table, NEW I \in SUBSET Id, rows'[t] = WithoutRows(t, I),
         NEW i \in Id \ I
  PROVE  /\ rows'[t][i].key = rows[t][i].key /\ rows'[t][i].status = rows[t][i].status
         /\ rows'[t][i].learned = rows[t][i].learned /\ rows'[t][i].ended = rows[t][i].ended
         /\ rows[t][i] = NoRow => rows'[t][i] = NoRow
<1>1. rows[t][i] \in RowType
  BY Used
<1>2. rows'[t][i] = rows[t][i] \/ rows'[t][i] = [rows[t][i] EXCEPT !.supersedes = 0]
  BY CutRows
<1>3. ASSUME rows[t][i] = NoRow PROVE rows'[t][i] = rows[t][i]
  <2>1. rows[t][i].supersedes \notin I
    BY <1>3, Ids DEF NoRow
  <2>2. rows'[t][i] = IF i \in I THEN NoRow
                      ELSE IF rows[t][i].supersedes \in I
                           THEN [rows[t][i] EXCEPT !.supersedes = 0]
                      ELSE rows[t][i]
    BY DEF WithoutRows
  <2> QED BY <2>1, <2>2
<1> QED BY <1>1, <1>2, <1>3 DEF RowType

\* A step that names no row leaves a key at most one active row if it had so before.
LEMMA ActiveStep ==
  ASSUME TypeOK, NEW t \in Table, TableStep(t), ~NamesRow, NEW k \in Key,
         \A x \in ActiveWith(t, k) : \A y \in ActiveWith(t, k) : x = y
  PROVE  \A x \in ActiveWith(t, k)' : \A y \in ActiveWith(t, k)' : x = y
<1>0. /\ ActiveWith(t, k) = {i \in Id : rows[t][i].status = "active" /\ rows[t][i].key = k}
      /\ ActiveWith(t, k)' = {i \in Id : rows'[t][i].status = "active" /\ rows'[t][i].key = k}
  BY DEF ActiveWith, Active
<1>s. ASSUME \A i \in Id : rows'[t][i].status = "active" /\ rows'[t][i].key = k
                           => rows[t][i].status = "active" /\ rows[t][i].key = k
      PROVE  \A x \in ActiveWith(t, k)' : \A y \in ActiveWith(t, k)' : x = y
  BY <1>0, <1>s
<1>1. CASE Keeps(t)
  BY <1>1, <1>s DEF Keeps
<1>2. CASE Grows(t)
  <2>1. PICK new \in Id, old \in Active(t) \cup {0}, key \in Key \cup {NoKey}, learned \in 0..now :
            Added(t, new, old, key, learned) /\ (NamesRow \/ Unnamed(t, key, old))
    BY <1>2, GrownRows
  <2>2. /\ \A i \in Id \ {new, old} : rows'[t][i] = rows[t][i]
        /\ old # 0 => rows'[t][old].status # "active"
    <3>1. old # 0 => old \in Id /\ rows[t][old] \in RowType
      BY Used DEF Active
    <3> QED BY <2>1, <3>1 DEF Added, RowType
  <2>3. old = 0 => old \notin Id
    BY Ids
  <2>4. CASE key = k
    <3>1. ActiveWith(t, k) \subseteq {old}
      BY <2>1, <2>4, KeyAssumption DEF Unnamed
    <3>2. \A i \in ActiveWith(t, k)' : i = new
      BY <1>0, <2>2, <2>3, <3>1
    <3> QED BY <3>2
  <2>5. CASE key # k
    <3>1. key = NoKey => old = 0
      BY <2>1 DEF Unnamed
    <3>2. rows'[t][new].key = key
      BY <2>1, <3>1 DEF Added
    <3>3. \A i \in ActiveWith(t, k)' : i # new /\ i # old /\ rows'[t][i] = rows[t][i]
      BY <1>0, <2>2, <2>3, <2>5, <3>2
    <3> QED BY <1>0, <1>s, <3>3
  <2> QED BY <2>4, <2>5
<1>3. CASE Marks(t)
  <2>1. ASSUME NEW i \in Id
        PROVE  rows'[t][i] = rows[t][i] \/ rows'[t][i].status \in {"superseded", "pruned"}
    BY <1>3, MarkedFields
  <2> QED BY <1>s, <2>1
<1>4. CASE Cuts(t)
  <2>1. PICK I \in SUBSET Id : rows'[t] = WithoutRows(t, I)
    BY <1>4 DEF Cuts
  <2>2. ASSUME NEW i \in Id, rows'[t][i].status = "active"
        PROVE  rows'[t][i].key = rows[t][i].key /\ rows[t][i].status = "active"
    <3>1. i \notin I
      BY <2>1, <2>2, CutRows DEF NoRow
    <3> QED BY <2>1, <2>2, <3>1, CutFields
  <2> QED BY <1>s, <2>2
<1> QED BY <1>1, <1>2, <1>3, <1>4 DEF TableStep

\* A downgrade of a pinned row that was believed at a time.
DowngradesBelieved(w) ==
    \E p \in Id : ApplyDowngrade(p) /\ proposals[p].supersedes \in AsOf("pinned", w)

\* A pinned row that is made a fact was believed since it was learned.
LEMMA DowngradedBefore ==
  ASSUME TypeOK, StatusKnown, NEW w \in Nat, NEW learned \in Nat, learned <= w, Downgrades(learned)
  PROVE  DowngradesBelieved(w)
<1>1. PICK p \in Id : ApplyDowngrade(p) /\ learned = rows["pinned"][proposals[p].supersedes].learned
  BY DEF Downgrades
<1> DEFINE i == proposals[p].supersedes
<1>2. i \in Active("pinned") /\ "pinned" \in Table
  BY <1>1 DEF ApplyDowngrade, Table
<1>3. i \in Exists("pinned") /\ rows["pinned"][i].ended = 0
  BY <1>2, Used DEF TypeOK, Active
<1>4. i \in AsOf("pinned", w)
  BY <1>1, <1>3 DEF AsOf
<1> QED BY <1>1, <1>4 DEF DowngradesBelieved

\* What a table says of a time that is over changes only by erasure, or by a
\* downgrade's fact.
LEMMA AsOfStep ==
  ASSUME TypeOK, StatusKnown, NEW t \in Table, TableStep(t), purged[t] \cap Exists(t) = {},
         NEW w \in 1..(Horizon - 1)
  PROVE  /\ AsOf(t, w) \subseteq AsOf(t, w)' \cup purged'[t]
         /\ AsOf(t, w)' \subseteq AsOf(t, w) \/ DowngradesBelieved(w)
<1> DEFINE Believed(r) == r # NoRow /\ r.learned <= w /\ (r.ended = 0 \/ r.ended > w)
<1>0. /\ AsOf(t, w) = {i \in Id : Believed(rows[t][i])}
      /\ AsOf(t, w)' = {i \in Id : Believed(rows'[t][i])}
      /\ AsOf(t, w) \cap purged[t] = {}
  BY DEF AsOf, Exists
<1>n. w < now /\ w \in Nat /\ now \in Nat /\ ~(now <= w) /\ \A n \in EndTimes : n > w
  <2>1. now \in Nat /\ pruning \in Nat /\ pruning <= now /\ now # 0 /\ w \in 1..(Horizon - 1)
    BY TimeAssumption DEF TypeOK
  <2>2. w \in Nat /\ w < Horizon /\ Horizon <= now /\ Horizon \in Nat
    BY <2>1 DEF Horizon
  <2>3. \A n \in EndTimes : n > w
    BY <2>1, <2>2 DEF EndTimes, Horizon
  <2>4. w < now /\ ~(now <= w)
    BY <2>1, <2>2
  <2> QED BY <2>1, <2>2, <2>3, <2>4
<1>s. ASSUME \A i \in Id : Believed(rows'[t][i]) <=> Believed(rows[t][i]),
             purged'[t] = purged[t]
      PROVE  AsOf(t, w)' = AsOf(t, w)
  <2> HIDE DEF Believed
  <2> QED BY <1>0, <1>s
\* A row that ends is believed at an earlier time as it was before.
<1>e. ASSUME NEW i \in Active(t), NEW r \in RowType, r.learned = rows[t][i].learned,
             r.status # "none", r.ended \in EndTimes
      PROVE  Believed(r) <=> Believed(rows[t][i])
  <2>1. r # NoRow /\ rows[t][i] # NoRow /\ rows[t][i].ended = 0
    BY <1>e DEF NoRow, Active, TypeOK
  <2>2. r.ended > w
    BY <1>e, <1>n
  <2> QED BY <1>e, <2>1, <2>2
<1>1. CASE Keeps(t)
  BY <1>1, <1>s DEF Keeps
<1>2. CASE Grows(t)
  <2>1. PICK new \in Id, old \in Active(t) \cup {0}, key \in Key \cup {NoKey}, learned \in 0..now :
            /\ Added(t, new, old, key, learned) /\ purged'[t] = purged[t]
            /\ learned = now \/ (old = 0 /\ Downgrades(learned))
    BY <1>2, GrownRows
  <2>2. ASSUME NEW i \in Id \ {new} PROVE Believed(rows'[t][i]) <=> Believed(rows[t][i])
    <3>1. CASE i = old
      <4>1. old # 0 /\ old \in Active(t) /\ rows[t][old] \in RowType
        BY <2>1, <3>1, Ids, Used DEF Added
      <4>2. rows'[t][old] = [rows[t][old] EXCEPT !.status = "superseded",
                                 !.superseded_by = new, !.ended = now]
        BY <2>1, <4>1 DEF Added
      <4>3. /\ rows'[t][old].learned = rows[t][old].learned
            /\ rows'[t][old].status = "superseded" /\ rows'[t][old].ended \in EndTimes
        BY <4>1, <4>2 DEF RowType, EndTimes, TypeOK
      <4>4. rows'[t][old] \in RowType
        BY <2>1, <3>1 DEF Added
      <4> HIDE DEF Believed
      <4> QED BY <1>e, <3>1, <4>1, <4>3, <4>4
    <3>2. CASE i # old
      BY <2>1, <3>2 DEF Added
    <3> QED BY <3>1, <3>2
  <2>3. /\ rows[t][new] = NoRow /\ rows'[t][new].learned = learned
    BY <2>1 DEF Added
  <2>4. CASE learned = now
    <3>1. ~Believed(rows'[t][new]) /\ ~Believed(rows[t][new])
      BY <1>n, <2>3, <2>4
    <3> HIDE DEF Believed
    <3> QED BY <1>s, <2>1, <2>2, <3>1
  <2>5. CASE learned # now
    <3>1. ~Believed(rows[t][new])
      BY <2>3
    <3>2. Believed(rows'[t][new]) => DowngradesBelieved(w)
      BY <1>n, <2>1, <2>3, <2>5, DowngradedBefore
    <3> HIDE DEF Believed
    <3> QED BY <1>0, <2>1, <2>2, <3>1, <3>2
  <2> QED BY <2>4, <2>5
<1>3. CASE Marks(t)
  <2>1. ASSUME NEW i \in Id PROVE Believed(rows'[t][i]) <=> Believed(rows[t][i])
    <3>1. CASE rows'[t][i] = rows[t][i]
      BY <3>1
    <3>2. CASE rows'[t][i] # rows[t][i]
      <4>1. /\ i \in Active(t) /\ rows'[t][i] \in RowType
            /\ rows'[t][i].learned = rows[t][i].learned
            /\ rows'[t][i].status # "none" /\ rows'[t][i].ended \in EndTimes
        BY <1>3, <3>2, MarkedFields
      <4> HIDE DEF Believed
      <4> QED BY <1>e, <4>1
    <3> QED BY <3>1, <3>2
  <2> QED BY <1>3, <1>s, <2>1 DEF Marks
<1>4. CASE Cuts(t)
  <2>1. PICK I \in SUBSET Id : /\ rows'[t] = WithoutRows(t, I)
                               /\ purged'[t] = purged[t] \cup (I \cap Exists(t))
    BY <1>4 DEF Cuts
  <2>2. ASSUME NEW i \in I PROVE ~Believed(rows'[t][i])
    BY <2>1, CutRows
  <2>3. ASSUME NEW i \in Id \ I PROVE Believed(rows'[t][i]) <=> Believed(rows[t][i])
    <3>2. /\ rows'[t][i].learned = rows[t][i].learned /\ rows'[t][i].ended = rows[t][i].ended
          /\ rows'[t][i].status = rows[t][i].status
      BY <2>1, CutFields
    <3>3. rows'[t][i] # NoRow <=> rows[t][i] # NoRow
      <4>1. CASE rows[t][i] = NoRow
        BY <2>1, <4>1, CutFields
      <4>2. CASE rows[t][i] # NoRow
        <5>1. rows[t][i].status # "none"
          BY <4>2 DEF StatusKnown, Exists
        <5> QED BY <3>2, <4>2, <5>1 DEF NoRow
      <4> QED BY <4>1, <4>2
    <3> QED BY <3>2, <3>3
  <2>4. AsOf(t, w) \cap Id \subseteq Exists(t)
    BY DEF AsOf
  <2> HIDE DEF Believed
  <2> QED BY <1>0, <2>1, <2>2, <2>3, <2>4
<1> QED BY <1>1, <1>2, <1>3, <1>4 DEF TableStep

-----------------------------------------------------------------------------

\* Rows, proposals and marks have their types; a row's end is set exactly when
\* it is superseded or pruned.
THEOREM StoreTypeCorrect == Spec => []TypeOK
<1>1. IInv => TypeOK
  BY DEF IInv
<1> QED BY StoreSound, <1>1, PTL

\* _hard_delete_in() clears the links to what it deletes, and deletes a row
\* never without the ones it superseded: no chain has a loose end.
THEOREM NoLooseEnds == Spec => []ChainsWhole
<1>1. IInv => ChainsWhole
  BY DEF IInv
<1> QED BY StoreSound, <1>1, PTL

\* The mark in meta keeps add() above every id that was purged.
THEOREM NeverNamedAgain == Spec => []PurgedIdsStayGone
<1>1. IInv => PurgedIdsStayGone
  BY DEF IInv
<1> QED BY StoreSound, <1>1, PTL

\* Deletes take a chain from its oldest row on, and history() raises on a row that is
\* gone: a forget() that comes to its transaction deletes the row it was asked for.
THEOREM ForgetErasesItsRow == Spec => []ForgetFindsRow
<1>1. IInv => ForgetFindsRow
  BY DEF IInv, WholeChain, WellRead, ForgetFindsRow
<1> QED BY StoreSound, <1>1, PTL

\* Only a call that names the row it supersedes can leave a key two active rows.
THEOREM KeysStayUnique == Spec => OneActivePerKey
<1>1. IInv /\ [Next]_vars =>
        [\A t \in Table, k \in Key :
            /\ Cardinality(ActiveWith(t, k)) <= 1
            /\ Cardinality(ActiveWith(t, k)') > 1
            => NamesRow]_vars
  <2> SUFFICES ASSUME IInv, [Next]_vars, NEW t \in Table, NEW k \in Key,
                      Cardinality(ActiveWith(t, k)) <= 1, ~NamesRow
               PROVE  ~(Cardinality(ActiveWith(t, k)') > 1)
    OBVIOUS
  <2>1. ActiveWith(t, k) \in SUBSET Id /\ ActiveWith(t, k)' \in SUBSET Id
    BY DEF ActiveWith, Active
  <2>2. \A x \in ActiveWith(t, k)' : \A y \in ActiveWith(t, k)' : x = y
    BY <2>1, StepOfTables, ActiveStep, AtMostOne DEF IInv
  <2> DEFINE S == ActiveWith(t, k)'
  <2>3. Cardinality(S) <= 1 /\ Cardinality(S) \in Nat
    <3>1. S \in SUBSET Id /\ \A x \in S : \A y \in S : x = y
      BY <2>1, <2>2
    <3> HIDE DEF S
    <3>2. IsFiniteSet(Id)
      BY Ids, FS_Interval DEF Id
    <3> QED BY <3>1, <3>2, AtMostOne, FS_Subset, FS_CardinalityType
  <2> QED BY <2>3
<1> QED BY StoreSound, <1>1, PTL DEF Spec, OneActivePerKey

\* Writers close and open validity with a clock they read no earlier than the
\* horizon: as_of() of a time before it gives what it gave, less what was erased,
\* and a downgrade's fact beside its pinned row.
THEOREM PastStays == Spec => AsOfStable
<1>1. IInv /\ [Next]_vars =>
        [\A t \in Table, w \in 1..(Horizon - 1) :
            /\ AsOf(t, w) \subseteq AsOf(t, w)' \cup purged'[t]
            /\ AsOf(t, w)' \subseteq AsOf(t, w)
               \/ \E p \in Id : /\ ApplyDowngrade(p)
                               /\ proposals[p].supersedes \in AsOf("pinned", w)]_vars
  BY StepOfTables, AsOfStep DEF IInv, PurgedIdsStayGone, DowngradesBelieved
<1> QED BY StoreSound, <1>1, PTL DEF Spec, AsOfStable

-----------------------------------------------------------------------------
(* MemoryErasure: the types and the invariant.                             *)

EntryType ==
    [op : {"none", "forget", "expire"}, row : SUBSET Line, rows : Nat, nr : Nat]

Places ==
    {"closed", "idle", "write", "begins", "truncates", "finds", "checks", "clears"} \cup Erasing

\* The types of the calls and of the purges saved as pending.
CallTypes ==
    /\ pending \in Seq(EntryType)
    /\ mistaken \in BOOLEAN
    /\ purges \in Nat
    /\ at \in [Instance -> Places] /\ then \in [Instance -> {"idle", "write"}]
    /\ flag \in [Instance -> BOOLEAN]
    /\ ids \in [Instance -> SUBSET Line]
    /\ entry \in [Instance -> EntryType]
    /\ found \in [Instance -> Seq(EntryType)]

Types == ErasureTypeOK /\ CallTypes

\* A line that was not merged is blank when its text was forgotten, and then
\* only; the other lines were made rows once if they are merged, else never.
LinesInv ==
    /\ \A n \in 1..Len(inbox) : n > offset => (n \in blanked <=> n \in gone)
    /\ \A n \in Line : n \notin gone => made[n] = IF n <= offset THEN 1 ELSE 0
    /\ gone \cap stored = {}

\* The copies of the rows an instance is about to delete are gone already.
CopiesInv ==
    /\ copies \subseteq stored
    /\ \A i \in Instance : at[i] = "deletes" => copies \cap ids[i] = {}

\* From its call to its commit a purge has a number nobody has read.
Purging == {"begins"} \cup Erasing

Numbered ==
    /\ \A k \in DOMAIN pending : pending[k].nr <= purges
    /\ \A i \in Instance : entry[i].nr <= purges
    /\ \A i \in Instance : \A k \in DOMAIN found[i] : found[i][k].nr <= purges

NumbersFresh ==
    \A i \in Instance : at[i] \in Purging =>
        /\ \A k \in DOMAIN pending : pending[k].nr # entry[i].nr
        /\ \A j \in Instance : \A k \in DOMAIN found[j] : found[j][k].nr # entry[i].nr
        /\ \A j \in Instance \ {i} : at[j] \in Purging => entry[j].nr # entry[i].nr

\* What an instance is about to drop is covered by its last truncate, unless
\* the pending purges are no longer the ones it read.
Covered ==
    /\ PendingCoversResidue
    /\ \A i \in Instance : at[i] = "clears" =>
          found[i] # <<>> /\ (pending = found[i] => residue = {})

\* The empty list of purges.
LEMMA EmptyList == <<>> \in Seq(EntryType) /\ DOMAIN <<>> = {}
  OBVIOUS

\* The record that stands for no purge.
LEMMA NoEntryTyped == NoEntry \in EntryType /\ NoEntry.nr = 0
<1>1. {} \in SUBSET Line
  OBVIOUS
<1> QED
  BY <1>1 DEF NoEntry, EntryType

\* The rows are lines of the inbox.
LEMMA RowsAreLines == ErasureTypeOK => stored \in SUBSET Line
  BY LineAssumption DEF ErasureTypeOK, Line

\* What a new purge saves: an entry with the next number.
LEMMA NewEntry ==
    ASSUME CallTypes, NEW op \in {"forget", "expire"}, NEW I \in SUBSET Line
    PROVE  LET e == [op |-> op, row |-> IF op = "forget" THEN I ELSE {},
                     rows |-> Cardinality(I), nr |-> purges + 1]
           IN  e \in EntryType /\ e.nr = purges + 1
<1>1. IsFiniteSet(Line)
  BY FS_Interval, LineAssumption DEF Line
<1>2. Cardinality(I) \in Nat
  BY <1>1, FS_Subset, FS_CardinalityType
<1>3. purges + 1 \in Nat
  BY DEF CallTypes
<1>4. (IF op = "forget" THEN I ELSE {}) \in SUBSET Line
  OBVIOUS
<1> QED
  BY <1>2, <1>3, <1>4 DEF EntryType

\* A new purge has the types and the next number.
LEMMA PurgeStarts ==
    ASSUME Types, NEW i \in Instance, NEW op \in {"forget", "expire"}, NEW I \in SUBSET Line,
           Purges(i, op, I)
    PROVE  CallTypes' /\ (Numbered => Numbered')
<1> DEFINE e == [op |-> op, row |-> IF op = "forget" THEN I ELSE {},
                 rows |-> Cardinality(I), nr |-> purges + 1]
<1>1. e \in EntryType /\ e.nr = purges + 1
  BY NewEntry DEF Types
<1>2. /\ purges' = purges + 1 /\ entry' = [entry EXCEPT ![i] = e]
      /\ at' = [at EXCEPT ![i] = "begins"] /\ then' = [then EXCEPT ![i] = "idle"]
      /\ ids' = [ids EXCEPT ![i] = I]
      /\ UNCHANGED <<pending, mistaken, flag, found>>
  BY DEF Purges, Goes, store
<1> HIDE DEF e
<1>3. CallTypes'
  BY <1>1, <1>2 DEF Types, CallTypes, Places, Erasing
<1>4. ASSUME Numbered PROVE Numbered'
  <2>1. \A x \in EntryType : x.nr \in Nat
    BY DEF EntryType
  <2>2. \A k \in DOMAIN pending : pending[k] \in EntryType
    BY DEF Types, CallTypes
  <2>3. \A j \in Instance : \A k \in DOMAIN found[j] : found[j][k] \in EntryType
    BY DEF Types, CallTypes
  <2>4. \A j \in Instance : entry[j] \in EntryType /\ entry'[j] \in EntryType
    BY <1>1, <1>2 DEF Types, CallTypes
  <2>5. \A n \in Nat : n <= purges => n <= purges'
    BY <1>2 DEF Types, CallTypes
  <2>6. \A k \in DOMAIN pending' : pending'[k].nr <= purges'
    BY <1>2, <1>4, <2>1, <2>2, <2>5 DEF Numbered
  <2>7. \A j \in Instance : \A k \in DOMAIN found'[j] : found'[j][k].nr <= purges'
    BY <1>2, <1>4, <2>1, <2>3, <2>5 DEF Numbered
  <2>8. \A j \in Instance : entry'[j].nr <= purges'
    <3> SUFFICES ASSUME NEW j \in Instance PROVE entry'[j].nr <= purges'
      OBVIOUS
    <3>1. CASE j = i
      BY <1>1, <1>2, <3>1 DEF Types, CallTypes
    <3>2. CASE j # i
      BY <1>2, <1>4, <2>1, <2>4, <2>5, <3>2 DEF Numbered, Types, CallTypes
    <3> QED
      BY <3>1, <3>2
  <2> QED
    BY <2>6, <2>7, <2>8 DEF Numbered
<1> QED
  BY <1>3, <1>4

\* A step that starts no purge and reads no purge keeps the numbers fresh.
LEMMA FreshKept ==
    ASSUME NumbersFresh, entry' = entry,
           \A j \in Instance : at'[j] \in Purging => at[j] \in Purging,
           \A k \in DOMAIN pending' : k \in DOMAIN pending /\ pending'[k] = pending[k],
           \A j \in Instance : \A k \in DOMAIN found'[j] :
               k \in DOMAIN found[j] /\ found'[j][k] = found[j][k]
    PROVE  NumbersFresh'
  BY DEF NumbersFresh, Purging, Erasing

\* A call that ends leaves no number behind.
LEMMA EndsFresh ==
    ASSUME CallTypes, NEW i \in Instance, NEW s \in BOOLEAN, Ends(i, s)
    PROVE  /\ \A j \in Instance : at'[j] \in Purging => at[j] \in Purging
           /\ \A j \in Instance : \A k \in DOMAIN found'[j] :
                 k \in DOMAIN found[j] /\ found'[j][k] = found[j][k]
<1>1. \A j \in Instance : j # i => at'[j] = at[j] /\ found'[j] = found[j]
  BY DEF Ends, Goes, CallTypes
<1>2. at'[i] \in {"idle", "write"} /\ found'[i] = <<>>
  BY DEF Ends, Goes, CallTypes
<1> QED
  BY <1>1, <1>2, EmptyList DEF Purging, Erasing

\* Every step keeps the types.
LEMMA ErasureTypeStep == Types /\ [ErasureNext]_erasureVars => ErasureTypeOK'
<1> SUFFICES ASSUME Types, [ErasureNext]_erasureVars PROVE ErasureTypeOK'
  OBVIOUS
<1>1. ASSUME NEW b \in Body, Appends(b)
      PROVE  ErasureTypeOK'
  BY <1>1, NoneAssumption, LineAssumption DEF Appends, Types, CallTypes, ErasureTypeOK, Erasing,
     store, lines, calls, counts
<1>2. ASSUME CopiesRefreshed
      PROVE  ErasureTypeOK'
  BY <1>2, NoneAssumption, LineAssumption DEF CopiesRefreshed, Types, CallTypes, ErasureTypeOK,
     Erasing, store, lines, calls, counts
<1>3. ASSUME ReaderOpens
      PROVE  ErasureTypeOK'
  BY <1>3, NoneAssumption, LineAssumption DEF ReaderOpens, Types, CallTypes, ErasureTypeOK, Erasing,
     store, lines, calls, counts
<1>4. ASSUME ReaderCloses
      PROVE  ErasureTypeOK'
  BY <1>4, NoneAssumption, LineAssumption DEF ReaderCloses, Types, CallTypes, ErasureTypeOK,
     Erasing, store, lines, calls, counts
<1>5. ASSUME NEW i \in Instance, Merges(i)
      PROVE  ErasureTypeOK'
  <2>1. Waiting \subseteq 1..Len(inbox) /\ Waiting \subseteq Line
    BY LineAssumption DEF Waiting, Types, ErasureTypeOK, Line
  <2>2. made' \in [Line -> Nat]
    BY <1>5, <2>1 DEF Merges, Types, ErasureTypeOK
  <2>3. stored' \subseteq 1..offset' /\ offset' \in 0..Len(inbox)
    BY <1>5, <2>1 DEF Merges, Types, ErasureTypeOK
  <2>4. \A j \in Instance : at'[j] \in Erasing <=> writer' = j
    BY <1>5, NoneAssumption DEF Merges, Goes, Types, CallTypes, ErasureTypeOK, Erasing
  <2> QED
    BY <1>5, <2>2, <2>3, <2>4 DEF Merges, Types, ErasureTypeOK, lines
<1>6. ASSUME NEW i \in Instance, Refused(i)
      PROVE  ErasureTypeOK'
  BY <1>6, NoneAssumption, LineAssumption DEF Refused, Goes, Types, CallTypes, ErasureTypeOK,
     Erasing, store, lines, calls, counts
<1>7. ASSUME NEW i \in Instance, Begins(i)
      PROVE  ErasureTypeOK'
  BY <1>7, NoneAssumption, LineAssumption DEF Begins, Goes, Types, CallTypes, ErasureTypeOK,
     Erasing, store, lines, calls, counts
<1>8. ASSUME NEW i \in Instance, ScrubsVectors(i)
      PROVE  ErasureTypeOK'
  BY <1>8, NoneAssumption, LineAssumption DEF ScrubsVectors, Goes, Types, CallTypes, ErasureTypeOK,
     Erasing, store, lines, calls, counts
<1>9. ASSUME NEW i \in Instance, ScrubsInbox(i)
      PROVE  ErasureTypeOK'
  BY <1>9, NoneAssumption, LineAssumption DEF ScrubsInbox, Goes, Scrubbed, Matching, Cleaned,
     Waiting, Types, CallTypes, ErasureTypeOK, Erasing, store, lines, calls, counts
<1>10. ASSUME NEW i \in Instance, Deletes(i)
      PROVE  ErasureTypeOK'
  BY <1>10, NoneAssumption, LineAssumption DEF Deletes, Goes, Types, CallTypes, ErasureTypeOK,
     Erasing, store, lines, calls, counts
<1>11. ASSUME NEW i \in Instance, Truncates(i)
      PROVE  ErasureTypeOK'
  BY <1>11, NoneAssumption, LineAssumption DEF Truncates, Ends, Goes, Types, CallTypes,
     ErasureTypeOK, Erasing, store, lines, calls, counts
<1>12. ASSUME NEW i \in Instance, Finds(i)
      PROVE  ErasureTypeOK'
  BY <1>12, NoneAssumption, LineAssumption DEF Finds, Goes, Types, CallTypes, ErasureTypeOK,
     Erasing, store, lines, calls, counts
<1>13. ASSUME NEW i \in Instance, Checks(i)
      PROVE  ErasureTypeOK'
  BY <1>13, NoneAssumption, LineAssumption DEF Checks, Ends, Goes, Types, CallTypes, ErasureTypeOK,
     Erasing, store, lines, calls, counts
<1>14. ASSUME NEW i \in Instance, Clears(i)
      PROVE  ErasureTypeOK'
  BY <1>14, NoneAssumption, LineAssumption DEF Clears, Ends, Goes, Unchanged, Types, CallTypes,
     ErasureTypeOK, Erasing, store, lines, calls, counts
<1>15. ASSUME NEW i \in Instance, WriteBegins(i)
      PROVE  ErasureTypeOK'
  BY <1>15, NoneAssumption, LineAssumption DEF WriteBegins, Goes, Types, CallTypes, ErasureTypeOK,
     Erasing, store, lines, calls, counts
<1>16. ASSUME NEW i \in Instance, Forget(i)
      PROVE  ErasureTypeOK'
  BY <1>16, NoneAssumption, LineAssumption DEF Forget, Purges, Goes, Types, CallTypes,
     ErasureTypeOK, Erasing, store, lines, calls, counts
<1>17. ASSUME NEW i \in Instance, ExpireRows(i)
      PROVE  ErasureTypeOK'
  BY <1>17, NoneAssumption, LineAssumption DEF ExpireRows, Purges, Goes, Types, CallTypes,
     ErasureTypeOK, Erasing, store, lines, calls, counts
<1>18. ASSUME NEW i \in Instance, Opens(i)
      PROVE  ErasureTypeOK'
  BY <1>18, NoneAssumption, LineAssumption DEF Opens, Goes, Types, CallTypes, ErasureTypeOK,
     Erasing, store, lines, calls, counts
<1>19. ASSUME NEW i \in Instance, Crash(i)
      PROVE  ErasureTypeOK'
  BY <1>19, NoneAssumption, LineAssumption DEF Crash, Goes, Types, CallTypes, ErasureTypeOK,
     Erasing, store, lines, calls, counts
<1>20. CASE UNCHANGED erasureVars
  BY <1>20 DEF erasureVars, store, lines, calls, counts, Types, CallTypes, ErasureTypeOK,
     Erasing, store, lines, calls, counts
<1> QED
  BY <1>1, <1>2, <1>3, <1>4, <1>5, <1>6, <1>7, <1>8, <1>9, <1>10, <1>11, <1>12, <1>13, <1>14,
     <1>15, <1>16, <1>17, <1>18, <1>19, <1>20 DEF ErasureNext, Works

\* Every step keeps the types of the calls.
LEMMA CallStep == Types /\ [ErasureNext]_erasureVars => CallTypes'
<1> SUFFICES ASSUME Types, [ErasureNext]_erasureVars PROVE CallTypes'
  OBVIOUS
<1>1. ASSUME NEW b \in Body, Appends(b)
      PROVE  CallTypes'
  BY <1>1, EmptyList, NoEntryTyped DEF Appends, Types, CallTypes, Places, Erasing, store, lines,
     calls, counts
<1>2. ASSUME CopiesRefreshed
      PROVE  CallTypes'
  BY <1>2, EmptyList, NoEntryTyped DEF CopiesRefreshed, Types, CallTypes, Places, Erasing,
     store, lines, calls, counts
<1>3. ASSUME ReaderOpens
      PROVE  CallTypes'
  BY <1>3, EmptyList, NoEntryTyped DEF ReaderOpens, Types, CallTypes, Places, Erasing, store,
     lines, calls, counts
<1>4. ASSUME ReaderCloses
      PROVE  CallTypes'
  BY <1>4, EmptyList, NoEntryTyped DEF ReaderCloses, Types, CallTypes, Places, Erasing, store,
     lines, calls, counts
<1>5. ASSUME NEW i \in Instance, Merges(i)
      PROVE  CallTypes'
  BY <1>5, EmptyList, NoEntryTyped DEF Merges, Goes, Waiting, Types, CallTypes, Places, Erasing,
     store, lines, calls, counts
<1>6. ASSUME NEW i \in Instance, Refused(i)
      PROVE  CallTypes'
  BY <1>6, EmptyList, NoEntryTyped DEF Refused, Goes, Types, CallTypes, Places, Erasing, store,
     lines, calls, counts
<1>7. ASSUME NEW i \in Instance, Begins(i)
      PROVE  CallTypes'
  BY <1>7, EmptyList, NoEntryTyped DEF Begins, Goes, Types, CallTypes, Places, Erasing, store,
     lines, calls, counts
<1>8. ASSUME NEW i \in Instance, ScrubsVectors(i)
      PROVE  CallTypes'
  BY <1>8, EmptyList, NoEntryTyped DEF ScrubsVectors, Goes, Types, CallTypes, Places, Erasing,
     store, lines, calls, counts
<1>9. ASSUME NEW i \in Instance, ScrubsInbox(i)
      PROVE  CallTypes'
  BY <1>9, EmptyList, NoEntryTyped DEF ScrubsInbox, Goes, Scrubbed, Matching, Cleaned, Waiting,
     Types, CallTypes, Places, Erasing, store, lines, calls, counts
<1>10. ASSUME NEW i \in Instance, Deletes(i)
      PROVE  CallTypes'
  BY <1>10, EmptyList, NoEntryTyped DEF Deletes, Goes, Types, CallTypes, Places, Erasing, store,
     lines, calls, counts
<1>11. ASSUME NEW i \in Instance, Truncates(i)
      PROVE  CallTypes'
  BY <1>11, EmptyList, NoEntryTyped DEF Truncates, Ends, Goes, Types, CallTypes, Places,
     Erasing, store, lines, calls, counts
<1>12. ASSUME NEW i \in Instance, Finds(i)
      PROVE  CallTypes'
  BY <1>12, EmptyList, NoEntryTyped DEF Finds, Goes, Types, CallTypes, Places, Erasing, store,
     lines, calls, counts
<1>13. ASSUME NEW i \in Instance, Checks(i)
      PROVE  CallTypes'
  BY <1>13, EmptyList, NoEntryTyped DEF Checks, Ends, Goes, Types, CallTypes, Places, Erasing,
     store, lines, calls, counts
<1>14. ASSUME NEW i \in Instance, Clears(i)
      PROVE  CallTypes'
  BY <1>14, EmptyList, NoEntryTyped DEF Clears, Ends, Goes, Unchanged, Types, CallTypes, Places,
     Erasing, store, lines, calls, counts
<1>15. ASSUME NEW i \in Instance, WriteBegins(i)
      PROVE  CallTypes'
  BY <1>15, EmptyList, NoEntryTyped DEF WriteBegins, Goes, Types, CallTypes, Places, Erasing,
     store, lines, calls, counts
<1>16. ASSUME NEW i \in Instance, Forget(i)
      PROVE  CallTypes'
  <2>1. PICK I \in SUBSET Line : Purges(i, "forget", I)
    BY <1>16, RowsAreLines DEF Forget, Types, Line
  <2> QED
    BY <2>1, PurgeStarts
<1>17. ASSUME NEW i \in Instance, ExpireRows(i)
      PROVE  CallTypes'
  <2>1. PICK I \in SUBSET Line : Purges(i, "expire", I)
    BY <1>17, RowsAreLines DEF ExpireRows, Types, Line
  <2> QED
    BY <2>1, PurgeStarts
<1>18. ASSUME NEW i \in Instance, Opens(i)
      PROVE  CallTypes'
  BY <1>18, EmptyList, NoEntryTyped DEF Opens, Goes, Types, CallTypes, Places, Erasing, store,
     lines, calls, counts
<1>19. ASSUME NEW i \in Instance, Crash(i)
      PROVE  CallTypes'
  BY <1>19, EmptyList, NoEntryTyped DEF Crash, Goes, Types, CallTypes, Places, Erasing, store,
     lines, calls, counts
<1>20. CASE UNCHANGED erasureVars
  BY <1>20 DEF erasureVars, store, lines, calls, counts, Types, CallTypes, Places, Erasing, store,
     lines, calls, counts
<1> QED
  BY <1>1, <1>2, <1>3, <1>4, <1>5, <1>6, <1>7, <1>8, <1>9, <1>10, <1>11, <1>12, <1>13, <1>14,
     <1>15, <1>16, <1>17, <1>18, <1>19, <1>20 DEF ErasureNext, Works

\* Every step keeps what is known of the lines.
LEMMA LinesStep == Types /\ LinesInv /\ [ErasureNext]_erasureVars => LinesInv'
<1> SUFFICES ASSUME Types, LinesInv, [ErasureNext]_erasureVars PROVE LinesInv'
  OBVIOUS
<1>1. ASSUME NEW b \in Body, Appends(b)
      PROVE  LinesInv'
  BY <1>1, LineAssumption DEF Appends, LinesInv, Types, ErasureTypeOK, Line, store, lines, calls,
     counts
<1>2. ASSUME CopiesRefreshed
      PROVE  LinesInv'
  BY <1>2, LineAssumption DEF CopiesRefreshed, LinesInv, Types, ErasureTypeOK, Line, store, lines,
     calls, counts
<1>3. ASSUME ReaderOpens
      PROVE  LinesInv'
  BY <1>3, LineAssumption DEF ReaderOpens, LinesInv, Types, ErasureTypeOK, Line, store, lines,
     calls, counts
<1>4. ASSUME ReaderCloses
      PROVE  LinesInv'
  BY <1>4, LineAssumption DEF ReaderCloses, LinesInv, Types, ErasureTypeOK, Line, store, lines,
     calls, counts
<1>5. ASSUME NEW i \in Instance, Merges(i)
      PROVE  LinesInv'
  <2>1. \A n \in Waiting : n > offset /\ n \in 1..Len(inbox) /\ n \notin blanked /\ n \notin
        gone
    BY DEF Waiting, LinesInv, Types, ErasureTypeOK
  <2>2. \A n \in 1..Len(inbox) : n > offset /\ n \notin gone => n \in Waiting
    BY DEF Waiting, LinesInv, Types, ErasureTypeOK
  <2>3. offset' = Len(inbox) /\ stored' = stored \cup Waiting /\ inbox' = inbox /\ gone' = gone
    BY <1>5 DEF Merges, lines
  <2>4. gone' \cap stored' = {}
    BY <2>1, <2>3 DEF LinesInv
  <2>5. ASSUME NEW n \in Line, n \notin gone
        PROVE  made'[n] = IF n <= Len(inbox) THEN 1 ELSE 0
    <3>1. made'[n] = IF n \in Waiting THEN made[n] + 1 ELSE made[n]
      BY <1>5 DEF Merges
    <3>2. made[n] = IF n <= offset THEN 1 ELSE 0
      BY <2>5 DEF LinesInv
    <3>3. n \in Nat /\ n >= 1 /\ offset \in Nat /\ Len(inbox) \in Nat /\ offset <= Len(inbox)
      BY LineAssumption DEF Line, Types, ErasureTypeOK
    <3>4. CASE n \in Waiting
      BY <3>1, <3>2, <3>3, <3>4, <2>1
    <3>5. CASE n \notin Waiting
      BY <3>1, <3>2, <3>3, <3>5, <2>2, <2>5
    <3> QED
      BY <3>4, <3>5
  <2> QED
    BY <2>3, <2>4, <2>5 DEF LinesInv, Types, ErasureTypeOK
<1>6. ASSUME NEW i \in Instance, Refused(i)
      PROVE  LinesInv'
  BY <1>6, LineAssumption DEF Refused, Goes, LinesInv, Types, ErasureTypeOK, Line, store, lines,
     calls, counts
<1>7. ASSUME NEW i \in Instance, Begins(i)
      PROVE  LinesInv'
  BY <1>7, LineAssumption DEF Begins, Goes, LinesInv, Types, ErasureTypeOK, Line, store, lines,
     calls, counts
<1>8. ASSUME NEW i \in Instance, ScrubsVectors(i)
      PROVE  LinesInv'
  BY <1>8, LineAssumption DEF ScrubsVectors, Goes, LinesInv, Types, ErasureTypeOK, Line, store,
     lines, calls, counts
<1>9. ASSUME NEW i \in Instance, ScrubsInbox(i)
      PROVE  LinesInv'
  <2>1. blanked' = blanked \cup Matching(i) /\ gone' = gone \cup (Matching(i) \cap Waiting)
    BY <1>9 DEF ScrubsInbox, Scrubbed
  <2>2. inbox' = inbox /\ offset' = offset /\ stored' = stored /\ made' = made
    BY <1>9 DEF ScrubsInbox
  <2>3. \A n \in 1..Len(inbox) : n > offset => (n \in Waiting <=> n \notin blanked)
    BY DEF Waiting, Types, ErasureTypeOK
  <2>4. Waiting \cap stored = {}
    BY DEF Waiting, Types, ErasureTypeOK
  <2>5. \A n \in 1..Len(inbox) : n > offset => (n \in blanked' <=> n \in gone')
    BY <2>1, <2>3 DEF LinesInv
  <2> QED
    BY <2>1, <2>2, <2>4, <2>5 DEF LinesInv
<1>10. ASSUME NEW i \in Instance, Deletes(i)
      PROVE  LinesInv'
  BY <1>10, LineAssumption DEF Deletes, Goes, LinesInv, Types, ErasureTypeOK, Line, store, lines,
     calls, counts
<1>11. ASSUME NEW i \in Instance, Truncates(i)
      PROVE  LinesInv'
  BY <1>11, LineAssumption DEF Truncates, Ends, Goes, LinesInv, Types, ErasureTypeOK, Line, store,
     lines, calls, counts
<1>12. ASSUME NEW i \in Instance, Finds(i)
      PROVE  LinesInv'
  BY <1>12, LineAssumption DEF Finds, Goes, LinesInv, Types, ErasureTypeOK, Line, store, lines,
     calls, counts
<1>13. ASSUME NEW i \in Instance, Checks(i)
      PROVE  LinesInv'
  BY <1>13, LineAssumption DEF Checks, Ends, Goes, LinesInv, Types, ErasureTypeOK, Line, store,
     lines, calls, counts
<1>14. ASSUME NEW i \in Instance, Clears(i)
      PROVE  LinesInv'
  BY <1>14, LineAssumption DEF Clears, Ends, Goes, Unchanged, LinesInv, Types, ErasureTypeOK, Line,
     store, lines, calls, counts
<1>15. ASSUME NEW i \in Instance, WriteBegins(i)
      PROVE  LinesInv'
  BY <1>15, LineAssumption DEF WriteBegins, Goes, LinesInv, Types, ErasureTypeOK, Line, store,
     lines, calls, counts
<1>16. ASSUME NEW i \in Instance, Forget(i)
      PROVE  LinesInv'
  BY <1>16, LineAssumption DEF Forget, Purges, Goes, LinesInv, Types, ErasureTypeOK, Line, store,
     lines, calls, counts
<1>17. ASSUME NEW i \in Instance, ExpireRows(i)
      PROVE  LinesInv'
  BY <1>17, LineAssumption DEF ExpireRows, Purges, Goes, LinesInv, Types, ErasureTypeOK, Line,
     store, lines, calls, counts
<1>18. ASSUME NEW i \in Instance, Opens(i)
      PROVE  LinesInv'
  BY <1>18, LineAssumption DEF Opens, Goes, LinesInv, Types, ErasureTypeOK, Line, store, lines,
     calls, counts
<1>19. ASSUME NEW i \in Instance, Crash(i)
      PROVE  LinesInv'
  BY <1>19, LineAssumption DEF Crash, Goes, LinesInv, Types, ErasureTypeOK, Line, store, lines,
     calls, counts
<1>20. CASE UNCHANGED erasureVars
  BY <1>20 DEF erasureVars, store, lines, calls, counts, LinesInv, Types, ErasureTypeOK, Line,
     store, lines, calls, counts
<1> QED
  BY <1>1, <1>2, <1>3, <1>4, <1>5, <1>6, <1>7, <1>8, <1>9, <1>10, <1>11, <1>12, <1>13, <1>14,
     <1>15, <1>16, <1>17, <1>18, <1>19, <1>20 DEF ErasureNext, Works

\* Every step keeps the copies backed.
LEMMA CopiesStep == Types /\ CopiesInv /\ [ErasureNext]_erasureVars => CopiesInv'
<1> SUFFICES ASSUME Types, CopiesInv, [ErasureNext]_erasureVars PROVE CopiesInv'
  OBVIOUS
<1>1. ASSUME NEW b \in Body, Appends(b)
      PROVE  CopiesInv'
  BY <1>1, NoneAssumption DEF Appends, CopiesInv, Types, CallTypes, ErasureTypeOK, Erasing, store,
     lines, calls, counts
<1>2. ASSUME CopiesRefreshed
      PROVE  CopiesInv'
  BY <1>2, NoneAssumption DEF CopiesRefreshed, CopiesInv, Types, CallTypes, ErasureTypeOK, Erasing,
     store, lines, calls, counts
<1>3. ASSUME ReaderOpens
      PROVE  CopiesInv'
  BY <1>3, NoneAssumption DEF ReaderOpens, CopiesInv, Types, CallTypes, ErasureTypeOK, Erasing,
     store, lines, calls, counts
<1>4. ASSUME ReaderCloses
      PROVE  CopiesInv'
  BY <1>4, NoneAssumption DEF ReaderCloses, CopiesInv, Types, CallTypes, ErasureTypeOK, Erasing,
     store, lines, calls, counts
<1>5. ASSUME NEW i \in Instance, Merges(i)
      PROVE  CopiesInv'
  BY <1>5, NoneAssumption DEF Merges, Goes, Waiting, CopiesInv, Types, CallTypes, ErasureTypeOK,
     Erasing, store, lines, calls, counts
<1>6. ASSUME NEW i \in Instance, Refused(i)
      PROVE  CopiesInv'
  BY <1>6, NoneAssumption DEF Refused, Goes, CopiesInv, Types, CallTypes, ErasureTypeOK, Erasing,
     store, lines, calls, counts
<1>7. ASSUME NEW i \in Instance, Begins(i)
      PROVE  CopiesInv'
  BY <1>7, NoneAssumption DEF Begins, Goes, CopiesInv, Types, CallTypes, ErasureTypeOK, Erasing,
     store, lines, calls, counts
<1>8. ASSUME NEW i \in Instance, ScrubsVectors(i)
      PROVE  CopiesInv'
  BY <1>8, NoneAssumption DEF ScrubsVectors, Goes, CopiesInv, Types, CallTypes, ErasureTypeOK,
     Erasing, store, lines, calls, counts
<1>9. ASSUME NEW i \in Instance, ScrubsInbox(i)
      PROVE  CopiesInv'
  BY <1>9, NoneAssumption DEF ScrubsInbox, Goes, Scrubbed, Matching, Cleaned, Waiting,
     CopiesInv, Types, CallTypes, ErasureTypeOK, Erasing, store, lines, calls, counts
<1>10. ASSUME NEW i \in Instance, Deletes(i)
      PROVE  CopiesInv'
  BY <1>10, NoneAssumption DEF Deletes, Goes, CopiesInv, Types, CallTypes, ErasureTypeOK, Erasing,
     store, lines, calls, counts
<1>11. ASSUME NEW i \in Instance, Truncates(i)
      PROVE  CopiesInv'
  BY <1>11, NoneAssumption DEF Truncates, Ends, Goes, CopiesInv, Types, CallTypes, ErasureTypeOK,
     Erasing, store, lines, calls, counts
<1>12. ASSUME NEW i \in Instance, Finds(i)
      PROVE  CopiesInv'
  BY <1>12, NoneAssumption DEF Finds, Goes, CopiesInv, Types, CallTypes, ErasureTypeOK, Erasing,
     store, lines, calls, counts
<1>13. ASSUME NEW i \in Instance, Checks(i)
      PROVE  CopiesInv'
  BY <1>13, NoneAssumption DEF Checks, Ends, Goes, CopiesInv, Types, CallTypes, ErasureTypeOK,
     Erasing, store, lines, calls, counts
<1>14. ASSUME NEW i \in Instance, Clears(i)
      PROVE  CopiesInv'
  BY <1>14, NoneAssumption DEF Clears, Ends, Goes, Unchanged, CopiesInv, Types, CallTypes,
     ErasureTypeOK, Erasing, store, lines, calls, counts
<1>15. ASSUME NEW i \in Instance, WriteBegins(i)
      PROVE  CopiesInv'
  BY <1>15, NoneAssumption DEF WriteBegins, Goes, CopiesInv, Types, CallTypes, ErasureTypeOK,
     Erasing, store, lines, calls, counts
<1>16. ASSUME NEW i \in Instance, Forget(i)
      PROVE  CopiesInv'
  BY <1>16, NoneAssumption DEF Forget, Purges, Goes, CopiesInv, Types, CallTypes, ErasureTypeOK,
     Erasing, store, lines, calls, counts
<1>17. ASSUME NEW i \in Instance, ExpireRows(i)
      PROVE  CopiesInv'
  BY <1>17, NoneAssumption DEF ExpireRows, Purges, Goes, CopiesInv, Types, CallTypes, ErasureTypeOK,
     Erasing, store, lines, calls, counts
<1>18. ASSUME NEW i \in Instance, Opens(i)
      PROVE  CopiesInv'
  BY <1>18, NoneAssumption DEF Opens, Goes, CopiesInv, Types, CallTypes, ErasureTypeOK, Erasing,
     store, lines, calls, counts
<1>19. ASSUME NEW i \in Instance, Crash(i)
      PROVE  CopiesInv'
  BY <1>19, NoneAssumption DEF Crash, Goes, CopiesInv, Types, CallTypes, ErasureTypeOK, Erasing,
     store, lines, calls, counts
<1>20. CASE UNCHANGED erasureVars
  BY <1>20 DEF erasureVars, store, lines, calls, counts, CopiesInv, Types, CallTypes,
     ErasureTypeOK, Erasing, store, lines, calls, counts
<1> QED
  BY <1>1, <1>2, <1>3, <1>4, <1>5, <1>6, <1>7, <1>8, <1>9, <1>10, <1>11, <1>12, <1>13, <1>14,
     <1>15, <1>16, <1>17, <1>18, <1>19, <1>20 DEF ErasureNext, Works

\* Every step keeps the numbers below the count.
LEMMA NumberedStep == Types /\ Numbered /\ [ErasureNext]_erasureVars => Numbered'
<1> SUFFICES ASSUME Types, Numbered, [ErasureNext]_erasureVars PROVE Numbered'
  OBVIOUS
<1>1. ASSUME NEW b \in Body, Appends(b)
      PROVE  Numbered'
  BY <1>1, EmptyList, NoEntryTyped DEF Appends, Numbered, Types, CallTypes, store, lines, calls,
     counts
<1>2. ASSUME CopiesRefreshed
      PROVE  Numbered'
  BY <1>2, EmptyList, NoEntryTyped DEF CopiesRefreshed, Numbered, Types, CallTypes, store,
     lines, calls, counts
<1>3. ASSUME ReaderOpens
      PROVE  Numbered'
  BY <1>3, EmptyList, NoEntryTyped DEF ReaderOpens, Numbered, Types, CallTypes, store, lines,
     calls, counts
<1>4. ASSUME ReaderCloses
      PROVE  Numbered'
  BY <1>4, EmptyList, NoEntryTyped DEF ReaderCloses, Numbered, Types, CallTypes, store, lines,
     calls, counts
<1>5. ASSUME NEW i \in Instance, Merges(i)
      PROVE  Numbered'
  BY <1>5, EmptyList, NoEntryTyped DEF Merges, Goes, Waiting, Numbered, Types, CallTypes, store,
     lines, calls, counts
<1>6. ASSUME NEW i \in Instance, Refused(i)
      PROVE  Numbered'
  BY <1>6, EmptyList, NoEntryTyped DEF Refused, Goes, Numbered, Types, CallTypes, store, lines,
     calls, counts
<1>7. ASSUME NEW i \in Instance, Begins(i)
      PROVE  Numbered'
  BY <1>7, EmptyList, NoEntryTyped DEF Begins, Goes, Numbered, Types, CallTypes, store, lines,
     calls, counts
<1>8. ASSUME NEW i \in Instance, ScrubsVectors(i)
      PROVE  Numbered'
  BY <1>8, EmptyList, NoEntryTyped DEF ScrubsVectors, Goes, Numbered, Types, CallTypes, store,
     lines, calls, counts
<1>9. ASSUME NEW i \in Instance, ScrubsInbox(i)
      PROVE  Numbered'
  BY <1>9, EmptyList, NoEntryTyped DEF ScrubsInbox, Goes, Scrubbed, Matching, Cleaned, Waiting,
     Numbered, Types, CallTypes, store, lines, calls, counts
<1>10. ASSUME NEW i \in Instance, Deletes(i)
      PROVE  Numbered'
  BY <1>10, EmptyList, NoEntryTyped DEF Deletes, Goes, Numbered, Types, CallTypes, store, lines,
     calls, counts
<1>11. ASSUME NEW i \in Instance, Truncates(i)
      PROVE  Numbered'
  BY <1>11, EmptyList, NoEntryTyped DEF Truncates, Ends, Goes, Numbered, Types, CallTypes,
     store, lines, calls, counts
<1>12. ASSUME NEW i \in Instance, Finds(i)
      PROVE  Numbered'
  BY <1>12, EmptyList, NoEntryTyped DEF Finds, Goes, Numbered, Types, CallTypes, store, lines,
     calls, counts
<1>13. ASSUME NEW i \in Instance, Checks(i)
      PROVE  Numbered'
  BY <1>13, EmptyList, NoEntryTyped DEF Checks, Ends, Goes, Numbered, Types, CallTypes, store,
     lines, calls, counts
<1>14. ASSUME NEW i \in Instance, Clears(i)
      PROVE  Numbered'
  BY <1>14, EmptyList, NoEntryTyped DEF Clears, Ends, Goes, Unchanged, Numbered, Types,
     CallTypes, store, lines, calls, counts
<1>15. ASSUME NEW i \in Instance, WriteBegins(i)
      PROVE  Numbered'
  BY <1>15, EmptyList, NoEntryTyped DEF WriteBegins, Goes, Numbered, Types, CallTypes, store,
     lines, calls, counts
<1>16. ASSUME NEW i \in Instance, Forget(i)
      PROVE  Numbered'
  <2>1. PICK I \in SUBSET Line : Purges(i, "forget", I)
    BY <1>16, RowsAreLines DEF Forget, Types, Line
  <2> QED
    BY <2>1, PurgeStarts
<1>17. ASSUME NEW i \in Instance, ExpireRows(i)
      PROVE  Numbered'
  <2>1. PICK I \in SUBSET Line : Purges(i, "expire", I)
    BY <1>17, RowsAreLines DEF ExpireRows, Types, Line
  <2> QED
    BY <2>1, PurgeStarts
<1>18. ASSUME NEW i \in Instance, Opens(i)
      PROVE  Numbered'
  BY <1>18, EmptyList, NoEntryTyped DEF Opens, Goes, Numbered, Types, CallTypes, store, lines,
     calls, counts
<1>19. ASSUME NEW i \in Instance, Crash(i)
      PROVE  Numbered'
  BY <1>19, EmptyList, NoEntryTyped DEF Crash, Goes, Numbered, Types, CallTypes, store, lines,
     calls, counts
<1>20. CASE UNCHANGED erasureVars
  BY <1>20 DEF erasureVars, store, lines, calls, counts, Numbered, Types, CallTypes, store, lines,
     calls, counts
<1> QED
  BY <1>1, <1>2, <1>3, <1>4, <1>5, <1>6, <1>7, <1>8, <1>9, <1>10, <1>11, <1>12, <1>13, <1>14,
     <1>15, <1>16, <1>17, <1>18, <1>19, <1>20 DEF ErasureNext, Works

\* Every step keeps the numbers of running purges fresh.
LEMMA FreshStep == Types /\ Numbered /\ NumbersFresh /\ [ErasureNext]_erasureVars => NumbersFresh'
<1> SUFFICES ASSUME Types, Numbered, NumbersFresh, [ErasureNext]_erasureVars PROVE NumbersFresh'
  OBVIOUS
<1>1. ASSUME NEW b \in Body, Appends(b)
      PROVE  NumbersFresh'
  BY <1>1, EmptyList DEF Appends, NumbersFresh, Numbered, Purging, Erasing, Types, CallTypes, store,
     lines, calls, counts
<1>2. ASSUME CopiesRefreshed
      PROVE  NumbersFresh'
  BY <1>2, EmptyList DEF CopiesRefreshed, NumbersFresh, Numbered, Purging, Erasing, Types,
     CallTypes, store, lines, calls, counts
<1>3. ASSUME ReaderOpens
      PROVE  NumbersFresh'
  BY <1>3, EmptyList DEF ReaderOpens, NumbersFresh, Numbered, Purging, Erasing, Types, CallTypes,
     store, lines, calls, counts
<1>4. ASSUME ReaderCloses
      PROVE  NumbersFresh'
  BY <1>4, EmptyList DEF ReaderCloses, NumbersFresh, Numbered, Purging, Erasing, Types, CallTypes,
     store, lines, calls, counts
<1>5. ASSUME NEW i \in Instance, Merges(i)
      PROVE  NumbersFresh'
  BY <1>5, EmptyList DEF Merges, Goes, Waiting, NumbersFresh, Numbered, Purging, Erasing, Types,
     CallTypes, store, lines, calls, counts
<1>6. ASSUME NEW i \in Instance, Refused(i)
      PROVE  NumbersFresh'
  BY <1>6, EmptyList DEF Refused, Goes, NumbersFresh, Numbered, Purging, Erasing, Types, CallTypes,
     store, lines, calls, counts
<1>7. ASSUME NEW i \in Instance, Begins(i)
      PROVE  NumbersFresh'
  BY <1>7, FreshKept DEF Begins, Goes, Purging, Erasing, Types, CallTypes, calls, store
<1>8. ASSUME NEW i \in Instance, ScrubsVectors(i)
      PROVE  NumbersFresh'
  BY <1>8, FreshKept DEF ScrubsVectors, Goes, Purging, Erasing, Types, CallTypes, calls, store
<1>9. ASSUME NEW i \in Instance, ScrubsInbox(i)
      PROVE  NumbersFresh'
  BY <1>9, EmptyList DEF ScrubsInbox, Goes, Scrubbed, Matching, Cleaned, Waiting, NumbersFresh,
     Numbered, Purging, Erasing, Types, CallTypes, store, lines, calls, counts
<1>10. ASSUME NEW i \in Instance, Deletes(i)
      PROVE  NumbersFresh'
  BY <1>10, EmptyList DEF Deletes, Goes, NumbersFresh, Numbered, Purging, Erasing, Types, CallTypes,
     store, lines, calls, counts
<1>11. ASSUME NEW i \in Instance, Truncates(i)
      PROVE  NumbersFresh'
  <2>1. entry' = entry
    BY <1>11 DEF Truncates, calls
  <2>2. \A k \in DOMAIN pending' : k \in DOMAIN pending /\ pending'[k] = pending[k]
    BY <1>11, EmptyList DEF Truncates
  <2>3. CASE \E s \in BOOLEAN : Ends(i, s)
    BY <2>1, <2>2, <2>3, EndsFresh, FreshKept DEF Types
  <2>4. CASE ~(\E s \in BOOLEAN : Ends(i, s))
    BY <1>11, <2>1, <2>2, <2>4, FreshKept DEF Truncates, Goes, Purging, Erasing, Types,
       CallTypes
  <2> QED
    BY <2>3, <2>4
<1>12. ASSUME NEW i \in Instance, Finds(i)
      PROVE  NumbersFresh'
  BY <1>12, EmptyList DEF Finds, Goes, NumbersFresh, Numbered, Purging, Erasing, Types, CallTypes,
     store, lines, calls, counts
<1>13. ASSUME NEW i \in Instance, Checks(i)
      PROVE  NumbersFresh'
  <2>1. entry' = entry
    BY <1>13 DEF Checks, calls
  <2>2. \A k \in DOMAIN pending' : k \in DOMAIN pending /\ pending'[k] = pending[k]
    BY <1>13, EmptyList DEF Checks
  <2>3. CASE \E s \in BOOLEAN : Ends(i, s)
    BY <2>1, <2>2, <2>3, EndsFresh, FreshKept DEF Types
  <2>4. CASE ~(\E s \in BOOLEAN : Ends(i, s))
    BY <1>13, <2>1, <2>2, <2>4, FreshKept DEF Checks, Goes, Purging, Erasing, Types, CallTypes
  <2> QED
    BY <2>3, <2>4
<1>14. ASSUME NEW i \in Instance, Clears(i)
      PROVE  NumbersFresh'
  <2>1. entry' = entry
    BY <1>14 DEF Clears, calls
  <2>2. \A k \in DOMAIN pending' : k \in DOMAIN pending /\ pending'[k] = pending[k]
    BY <1>14, EmptyList DEF Clears
  <2>3. CASE \E s \in BOOLEAN : Ends(i, s)
    BY <2>1, <2>2, <2>3, EndsFresh, FreshKept DEF Types
  <2>4. CASE ~(\E s \in BOOLEAN : Ends(i, s))
    BY <1>14, <2>1, <2>2, <2>4, FreshKept DEF Clears, Goes, Purging, Erasing, Types, CallTypes
  <2> QED
    BY <2>3, <2>4
<1>15. ASSUME NEW i \in Instance, WriteBegins(i)
      PROVE  NumbersFresh'
  BY <1>15, EmptyList DEF WriteBegins, Goes, NumbersFresh, Numbered, Purging, Erasing, Types,
     CallTypes, store, lines, calls, counts
<1>16. ASSUME NEW i \in Instance, Forget(i)
      PROVE  NumbersFresh'
  BY <1>16, EmptyList DEF Forget, Purges, Goes, NumbersFresh, Numbered, Purging, Erasing, Types,
     CallTypes, store, lines, calls, counts
<1>17. ASSUME NEW i \in Instance, ExpireRows(i)
      PROVE  NumbersFresh'
  BY <1>17, EmptyList DEF ExpireRows, Purges, Goes, NumbersFresh, Numbered, Purging, Erasing, Types,
     CallTypes, store, lines, calls, counts
<1>18. ASSUME NEW i \in Instance, Opens(i)
      PROVE  NumbersFresh'
  BY <1>18, EmptyList DEF Opens, Goes, NumbersFresh, Numbered, Purging, Erasing, Types, CallTypes,
     store, lines, calls, counts
<1>19. ASSUME NEW i \in Instance, Crash(i)
      PROVE  NumbersFresh'
  BY <1>19, EmptyList DEF Crash, Goes, NumbersFresh, Numbered, Purging, Erasing, Types, CallTypes,
     store, lines, calls, counts
<1>20. CASE UNCHANGED erasureVars
  BY <1>20 DEF erasureVars, store, lines, calls, counts, NumbersFresh, Numbered, Purging,
     Erasing, Types, CallTypes, store, lines, calls, counts
<1> QED
  BY <1>1, <1>2, <1>3, <1>4, <1>5, <1>6, <1>7, <1>8, <1>9, <1>10, <1>11, <1>12, <1>13, <1>14,
     <1>15, <1>16, <1>17, <1>18, <1>19, <1>20 DEF ErasureNext, Works

\* Every step keeps the residue covered.
LEMMA CoveredStep == Types /\ NumbersFresh /\ Covered /\ [ErasureNext]_erasureVars => Covered'
<1> SUFFICES ASSUME Types, NumbersFresh, Covered, [ErasureNext]_erasureVars PROVE Covered'
  OBVIOUS
<1>1. ASSUME NEW b \in Body, Appends(b)
      PROVE  Covered'
  BY <1>1 DEF Appends, Covered, PendingCoversResidue, NumbersFresh, Purging, Erasing, Types,
     CallTypes, store, lines, calls, counts
<1>2. ASSUME CopiesRefreshed
      PROVE  Covered'
  BY <1>2 DEF CopiesRefreshed, Covered, PendingCoversResidue, NumbersFresh, Purging, Erasing, Types,
     CallTypes, store, lines, calls, counts
<1>3. ASSUME ReaderOpens
      PROVE  Covered'
  BY <1>3 DEF ReaderOpens, Covered, PendingCoversResidue, NumbersFresh, Purging, Erasing, Types,
     CallTypes, store, lines, calls, counts
<1>4. ASSUME ReaderCloses
      PROVE  Covered'
  BY <1>4 DEF ReaderCloses, Covered, PendingCoversResidue, NumbersFresh, Purging, Erasing, Types,
     CallTypes, store, lines, calls, counts
<1>5. ASSUME NEW i \in Instance, Merges(i)
      PROVE  Covered'
  BY <1>5 DEF Merges, Goes, Waiting, Covered, PendingCoversResidue, NumbersFresh, Purging, Erasing,
     Types, CallTypes, store, lines, calls, counts
<1>6. ASSUME NEW i \in Instance, Refused(i)
      PROVE  Covered'
  BY <1>6 DEF Refused, Goes, Covered, PendingCoversResidue, NumbersFresh, Purging, Erasing, Types,
     CallTypes, store, lines, calls, counts
<1>7. ASSUME NEW i \in Instance, Begins(i)
      PROVE  Covered'
  BY <1>7 DEF Begins, Goes, Covered, PendingCoversResidue, NumbersFresh, Purging, Erasing, Types,
     CallTypes, store, lines, calls, counts
<1>8. ASSUME NEW i \in Instance, ScrubsVectors(i)
      PROVE  Covered'
  BY <1>8 DEF ScrubsVectors, Goes, Covered, PendingCoversResidue, NumbersFresh, Purging, Erasing,
     Types, CallTypes, store, lines, calls, counts
<1>9. ASSUME NEW i \in Instance, ScrubsInbox(i)
      PROVE  Covered'
  BY <1>9 DEF ScrubsInbox, Goes, Scrubbed, Matching, Cleaned, Waiting, Covered,
     PendingCoversResidue, NumbersFresh, Purging, Erasing, Types, CallTypes, store, lines, calls,
     counts
<1>10. ASSUME NEW i \in Instance, Deletes(i)
      PROVE  Covered'
  <2> DEFINE last == Len(pending) + 1
  <2>1. /\ pending \in Seq(EntryType) /\ entry[i] \in EntryType
        /\ pending' = Append(pending, entry[i])
    BY <1>10 DEF Deletes, Types, CallTypes
  <2>2. last \in DOMAIN pending' /\ pending'[last] = entry[i] /\ pending' # <<>>
    BY <2>1
  <2>3. ASSUME NEW j \in Instance, at'[j] = "clears"
        PROVE  found'[j] = found[j] /\ found[j] # <<>> /\ pending' # found[j]
    <3>1. at[j] = "clears" /\ found'[j] = found[j]
      BY <1>10, <2>3 DEF Deletes, Goes, Types, CallTypes
    <3>2. \A k \in DOMAIN found[j] : found[j][k].nr # entry[i].nr
      BY <1>10 DEF Deletes, NumbersFresh, Purging, Erasing
    <3> HIDE DEF last
    <3> QED BY <3>1, <3>2, <2>2 DEF Covered
  <2> QED BY <2>2, <2>3 DEF Covered, PendingCoversResidue
<1>11. ASSUME NEW i \in Instance, Truncates(i)
      PROVE  Covered'
  BY <1>11 DEF Truncates, Ends, Goes, Covered, PendingCoversResidue, NumbersFresh, Purging, Erasing,
     Types, CallTypes, store, lines, calls, counts
<1>12. ASSUME NEW i \in Instance, Finds(i)
      PROVE  Covered'
  BY <1>12 DEF Finds, Goes, Covered, PendingCoversResidue, NumbersFresh, Purging, Erasing, Types,
     CallTypes, store, lines, calls, counts
<1>13. ASSUME NEW i \in Instance, Checks(i)
      PROVE  Covered'
  BY <1>13 DEF Checks, Ends, Goes, Covered, PendingCoversResidue, NumbersFresh, Purging, Erasing,
     Types, CallTypes, store, lines, calls, counts
<1>14. ASSUME NEW i \in Instance, Clears(i)
      PROVE  Covered'
  BY <1>14 DEF Clears, Ends, Goes, Unchanged, Covered, PendingCoversResidue, NumbersFresh, Purging,
     Erasing, Types, CallTypes, store, lines, calls, counts
<1>15. ASSUME NEW i \in Instance, WriteBegins(i)
      PROVE  Covered'
  BY <1>15 DEF WriteBegins, Goes, Covered, PendingCoversResidue, NumbersFresh, Purging, Erasing,
     Types, CallTypes, store, lines, calls, counts
<1>16. ASSUME NEW i \in Instance, Forget(i)
      PROVE  Covered'
  BY <1>16 DEF Forget, Purges, Goes, Covered, PendingCoversResidue, NumbersFresh, Purging, Erasing,
     Types, CallTypes, store, lines, calls, counts
<1>17. ASSUME NEW i \in Instance, ExpireRows(i)
      PROVE  Covered'
  BY <1>17 DEF ExpireRows, Purges, Goes, Covered, PendingCoversResidue, NumbersFresh, Purging,
     Erasing, Types, CallTypes, store, lines, calls, counts
<1>18. ASSUME NEW i \in Instance, Opens(i)
      PROVE  Covered'
  BY <1>18 DEF Opens, Goes, Covered, PendingCoversResidue, NumbersFresh, Purging, Erasing, Types,
     CallTypes, store, lines, calls, counts
<1>19. ASSUME NEW i \in Instance, Crash(i)
      PROVE  Covered'
  BY <1>19 DEF Crash, Goes, Covered, PendingCoversResidue, NumbersFresh, Purging, Erasing, Types,
     CallTypes, store, lines, calls, counts
<1>20. CASE UNCHANGED erasureVars
  BY <1>20 DEF erasureVars, store, lines, calls, counts, Covered, PendingCoversResidue,
     NumbersFresh, Purging, Erasing, Types, CallTypes, store, lines, calls, counts
<1> QED
  BY <1>1, <1>2, <1>3, <1>4, <1>5, <1>6, <1>7, <1>8, <1>9, <1>10, <1>11, <1>12, <1>13, <1>14,
     <1>15, <1>16, <1>17, <1>18, <1>19, <1>20 DEF ErasureNext, Works

-----------------------------------------------------------------------------

\* The inductive invariant.
ErasureIInv == Types /\ LinesInv /\ CopiesInv /\ Numbered /\ NumbersFresh /\ Covered

\* The invariant holds of an empty inbox and store.
LEMMA EmptyErasure == ErasureInit => ErasureIInv
<1> SUFFICES ASSUME ErasureInit PROVE ErasureIInv
  OBVIOUS
<1>1. Types
  <2>1. ErasureTypeOK
    <3>1. inbox \in Seq(Body) /\ Len(inbox) = 0
      BY DEF ErasureInit
    <3>2. made \in [Line -> Nat]
      BY DEF ErasureInit
    <3>3. \A i \in Instance : at[i] \in Erasing <=> writer = i
      BY NoneAssumption DEF ErasureInit, Erasing
    <3>4. stored = {} /\ gone = {} /\ blanked = {} /\ offset = 0 /\ writer = None
      BY DEF ErasureInit
    <3> QED
      BY <3>1, <3>2, <3>3, <3>4, LineAssumption DEF ErasureTypeOK
  <2>2. CallTypes
    BY NoEntryTyped, EmptyList DEF ErasureInit, CallTypes, Places
  <2> QED
    BY <2>1, <2>2 DEF Types
<1>2. LinesInv
  BY LineAssumption DEF ErasureInit, LinesInv, Line
<1>3. CopiesInv /\ Covered
  BY DEF ErasureInit, CopiesInv, Covered, PendingCoversResidue
<1>4. Numbered /\ NumbersFresh
  BY NoEntryTyped, EmptyList DEF ErasureInit, Numbered, NumbersFresh, Purging, Erasing
<1> QED
  BY <1>1, <1>2, <1>3, <1>4 DEF ErasureIInv

\* Every step keeps the invariant of the erasure.
LEMMA ErasureSound == ErasureSpec => []ErasureIInv
<1>1. ErasureIInv /\ [ErasureNext]_erasureVars => ErasureIInv'
  BY ErasureTypeStep, CallStep, LinesStep, CopiesStep, NumberedStep, FreshStep, CoveredStep
     DEF ErasureIInv, Types
<1> QED
  BY EmptyErasure, <1>1, PTL DEF ErasureSpec

\* The exclusive transaction is held by exactly the instance that erases, and
\* rows come from merged lines only.
THEOREM ErasureTypeCorrect == ErasureSpec => []ErasureTypeOK
<1>1. ErasureIInv => ErasureTypeOK
  BY DEF ErasureIInv, Types
<1> QED
  BY ErasureSound, <1>1, PTL

\* merge() makes a row of every line once, or purge_copies() blanked it first.
THEOREM MergedOnce == ErasureSpec => []LinesOnce
<1>1. ErasureIInv => LinesOnce
  <2> SUFFICES ASSUME ErasureIInv PROVE LinesOnce
    OBVIOUS
  <2>1. 1..Len(inbox) \subseteq Line
    BY LineAssumption DEF ErasureIInv, Types, ErasureTypeOK, Line
  <2> QED
    BY <2>1 DEF ErasureIInv, LinesInv, LinesOnce
<1> QED
  BY ErasureSound, <1>1, PTL

\* A text forgotten while it waited in the inbox never becomes a row.
THEOREM NeverComesBack == ErasureSpec => []ForgottenStays
<1>1. ErasureIInv => ForgottenStays
  BY DEF ErasureIInv, LinesInv, ForgottenStays
<1> QED
  BY ErasureSound, <1>1, PTL

\* purge_copies() runs before its rows go: no copy outlives its row.
THEOREM NoCopyOutlives == ErasureSpec => []CopiesBacked
<1>1. ErasureIInv => CopiesBacked
  BY DEF ErasureIInv, CopiesInv, CopiesBacked
<1> QED
  BY ErasureSound, <1>1, PTL

\* Text of deleted rows on disk is announced by a pending purge, unless
\* _finish_purge() took one pending purge for another that looks the same.
THEOREM ResidueIsPending == ErasureSpec => []PendingCoversResidue
<1>1. ErasureIInv => PendingCoversResidue
  BY DEF ErasureIInv, Covered
<1> QED
  BY ErasureSound, <1>1, PTL

=============================================================================
