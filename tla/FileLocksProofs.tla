--------------------------- MODULE FileLocksProofs ---------------------------
(***************************************************************************)
(* Proofs about FileLocks, for every value of its constants: the tables    *)
(* are well formed, no file has two holders, no lease is lost before its   *)
(* deadline, a closed run id stays closed, and the whole module implements *)
(* the abstract FileLease.                                                 *)
(***************************************************************************)
EXTENDS FileLocks, FiniteSetTheorems, SequenceTheorems, TLAPS

\* SetToSeq enumerates a finite set: its elements are those of the set.
LEMMA SetToSeqType ==
    ASSUME NEW S, IsFiniteSet(S)
    PROVE  SetToSeq(S) \in Seq(S)
<1>1. PICK f : f \in Bijection(1 .. Cardinality(S), S)
  BY FS_CardinalityType DEF ExistsBijection
<1>2. Cardinality(S) \in Nat
  BY FS_CardinalityType
<1>3. f \in [1 .. Cardinality(S) -> S] /\ IsInjective(f)
  BY <1>1 DEF Bijection, Injection, IsInjective
<1>4. SetToSeq(S) \in [1 .. Cardinality(S) -> S]
  BY <1>3 DEF SetToSeq
<1>5. QED
  BY <1>2, <1>4, SeqDef

LEMMA StealEventsType ==
    ASSUME NEW r \in Run, NEW victims \in SUBSET Run
    PROVE  StealEvents(r, victims) \in Seq(Events)
<1>1. SetToSeq(victims) \in Seq(Run)
  BY SetToSeqType, FS_Subset, RunAssumption
<1> DEFINE order == SetToSeq(victims)
           e(i) == Event("lock_steal", r, order[i], "none")
<1>2. Len(order) \in Nat /\ \A i \in 1 .. Len(order) : order[i] \in Run
  BY <1>1
<1>3. \A i \in 1 .. Len(order) : e(i) \in Events
  BY <1>2 DEF Event, Events
<1> HIDE DEF e, order
<1>4. [i \in 1 .. Len(order) |-> e(i)] \in Seq(Events)
  BY <1>2, <1>3, IsASeq
<1>5. QED
  BY <1>4 DEF StealEvents, order, e

LEMMA ExpireEventsType ==
    ASSUME NEW R \in SUBSET Run
    PROVE  LET order == SetToSeq(R)
           IN  [i \in 1 .. Len(order) |->
                  Event("lock_release", order[i], order[i], "timeout")] \in Seq(Events)
<1>1. SetToSeq(R) \in Seq(Run)
  BY SetToSeqType, FS_Subset, RunAssumption
<1> DEFINE order == SetToSeq(R)
           e(i) == Event("lock_release", order[i], order[i], "timeout")
<1>2. Len(order) \in Nat /\ \A i \in 1 .. Len(order) : order[i] \in Run
  BY <1>1
<1>3. \A i \in 1 .. Len(order) : e(i) \in Events
  BY <1>2 DEF Event, Events, Reason
<1> HIDE DEF e, order
<1>4. [i \in 1 .. Len(order) |-> e(i)] \in Seq(Events)
  BY <1>2, <1>3, IsASeq
<1>5. QED
  BY <1>4 DEF order, e

LEMMA TypeInit == Init => TypeOK
  BY DEF Init, TypeOK, Rows, WaitRows, NoClaim, NoWait, RowState, Reason

LEMMA TypeNext == TypeOK /\ [Next]_vars => TypeOK'
<1> SUFFICES ASSUME TypeOK, [Next]_vars
             PROVE  TypeOK'
  OBVIOUS
<1> USE DEF TypeOK
<1>1. CASE Tick
  BY <1>1 DEF Tick
<1>2. CASE Expire
  <2>1. ExpiredClaims \in SUBSET Run
    BY DEF ExpiredClaims, Active
  <2>2. events' \in Seq(Events)
    BY <1>2, <2>1, ExpireEventsType, ConcatProperties DEF Expire
  <2>3. claims' \in [Run -> Rows]
    BY <1>2 DEF Expire, Rows, RowState, Reason
  <2>4. \A r \in Run : /\ claims'[r].state = "none" <=> claims[r].state = "none"
                       /\ claims'[r].state = "none" => claims'[r] = claims[r]
                       /\ claims'[r].files = claims[r].files
    BY <1>2 DEF Expire, Rows, RowState, Reason, ExpiredClaims, Active, Held
  <2>5. QED
    BY <1>2, <2>2, <2>3, <2>4 DEF Expire
<1>3. ASSUME NEW r \in Run, NEW d \in 1 .. MaxNow, ClaimTimesOut(r, d)
      PROVE  TypeOK'
  <2>1. Event("lock_wait_timeout", r, r, "none") \in Events
    BY DEF Event, Events
  <2>2. events' \in Seq(Events)
    BY <1>3, <2>1 DEF ClaimTimesOut
  <2>3. QED
    BY <1>3, <2>2 DEF ClaimTimesOut, WaitRows
<1>4. ASSUME NEW r \in Run, NEW d \in 1 .. MaxNow, NEW F \in (SUBSET File) \ {{}},
             NEW steal \in BOOLEAN, ClaimWaits(r, d, F, steal)
      PROVE  TypeOK'
  <2>1. Event("lock_wait", r, r, "none") \in Events
    BY DEF Event, Events
  <2>2. events' \in Seq(Events)
    BY <1>4, <2>1 DEF ClaimWaits
  <2>3. QED
    BY <1>4, <2>2 DEF ClaimWaits, WaitRows
<1>5. ASSUME NEW r \in Run, NEW d \in 1 .. MaxNow, NEW F \in (SUBSET File) \ {{}},
             NEW steal \in BOOLEAN, NEW o \in Owner, ClaimTakes(r, o, d, F, steal)
      PROVE  TypeOK'
  <2>1. Event("lock_claim", r, r, "none") \in Events
    BY DEF Event, Events
  <2>2. StealEvents(r, Conflicts(F)) \in Seq(Events)
    BY StealEventsType DEF Conflicts, Active
  <2>3. events' \in Seq(Events)
    BY <1>5, <2>1, <2>2, ConcatProperties DEF ClaimTakes
  <2>4. d \in Nat
    BY MaxNowAssumption
  <2>5. ClaimRow(o, d, F, "held") \in Rows
    BY <2>4 DEF ClaimRow, Rows, RowState
  <2>6. \A c \in Run : [claims[c] EXCEPT !.state = "stolen"] \in Rows
    BY DEF Rows, RowState
  <2>7. claims' \in [Run -> Rows]
    BY <1>5, <2>5, <2>6 DEF ClaimTakes
  <2>8. waits' \in [Run -> WaitRows] /\ now' \in Nat
    BY <1>5 DEF ClaimTakes, WaitRows, NoWait
  <2>9. \A c \in Run : /\ claims'[c].state # "none" => claims'[c].files # {}
                       /\ claims'[c].state = "none" => claims'[c] = NoClaim
    <3> TAKE c \in Run
    <3>1. CASE c = r
      BY <1>5, <3>1 DEF ClaimTakes, ClaimRow
    <3>2. CASE c # r /\ c \in Conflicts(F)
      BY <1>5, <3>2 DEF ClaimTakes, Conflicts, Active, Held, Rows
    <3>3. CASE c # r /\ c \notin Conflicts(F)
      BY <1>5, <3>3 DEF ClaimTakes
    <3>4. QED
      BY <3>1, <3>2, <3>3
  <2>10. QED
    BY <2>3, <2>7, <2>8, <2>9
<1>6. ASSUME NEW r \in Run, NEW o \in Owner, NEW reason \in Reason, Release(r, o, reason)
      PROVE  TypeOK'
  <2>1. Event("lock_release", r, r, reason) \in Events
    BY DEF Event, Events
  <2>2. events' \in Seq(Events)
    BY <1>6, <2>1 DEF Release
  <2>3. QED
    BY <1>6, <2>2 DEF Release, Rows, RowState, Held, Reason
<1>7. CASE UNCHANGED vars
  BY <1>7 DEF vars
<1>8. QED
  BY <1>1, <1>2, <1>3, <1>4, <1>5, <1>6, <1>7 DEF Next, Claim

\* The tables always hold rows of their schema, and a row exists exactly for
\* the runs that were granted a lease.
THEOREM TypeCorrect == Spec => []TypeOK
  BY TypeInit, TypeNext, PTL DEF Spec

-----------------------------------------------------------------------------
(* The audit log: the rows every transaction appends.                      *)

\* SetToSeq lists every element of a finite set once.
LEMMA SetToSeqOnce ==
    ASSUME NEW S, IsFiniteSet(S)
    PROVE  /\ SetToSeq(S) \in Seq(S)
           /\ \A x \in S : \E i \in 1 .. Len(SetToSeq(S)) :
                 {j \in 1 .. Len(SetToSeq(S)) : SetToSeq(S)[j] = x} = {i}
<1> DEFINE n == Cardinality(S)
           q == SetToSeq(S)
<1>1. n \in Nat
  BY FS_CardinalityType
<1>2. PICK f : f \in Bijection(1 .. n, S)
  BY FS_CardinalityType DEF ExistsBijection
<1>3. f \in [1 .. n -> S] /\ IsInjective(f)
  BY <1>2 DEF Bijection, Injection, IsInjective
<1>4. q \in [1 .. n -> S] /\ IsInjective(q)
  BY <1>3 DEF SetToSeq
<1>5. q \in Seq(S) /\ Len(q) = n
  BY <1>1, <1>4, SeqDef
<1>6. q \in Injection(1 .. n, S)
  BY <1>4 DEF Injection, IsInjective
<1>7. IsFiniteSet(1 .. n) /\ Cardinality(1 .. n) = n
  BY <1>1, FS_Interval
<1>8. q \in Surjection(1 .. n, S)
  BY <1>6, <1>7, FS_Injection
<1>9. \A x \in S : \E i \in 1 .. n : q[i] = x
  BY <1>8 DEF Surjection
<1> HIDE DEF q, n
<1>10. ASSUME NEW x \in S
       PROVE  \E i \in 1 .. n : {j \in 1 .. n : q[j] = x} = {i}
  <2>1. PICK i \in 1 .. n : q[i] = x
    BY <1>9
  <2>2. \A j \in 1 .. n : q[j] = x => j = i
    BY <1>4, <2>1 DEF IsInjective
  <2>3. QED
    BY <2>1, <2>2
<1>11. QED
  BY <1>5, <1>10 DEF q

\* A step that appends rows adds exactly these.
LEMMA AddedRows ==
    ASSUME TypeOK, NEW rows \in Seq(Events), events' = events \o rows
    PROVE  SubSeq(events', 1, Len(events)) = events /\ Added = rows
<1> DEFINE all == events \o rows
           n == Len(events)
           m == Len(rows)
<1>1. events \in Seq(Events) /\ n \in Nat /\ m \in Nat
  BY DEF TypeOK
<1>2. /\ all \in Seq(Events)
      /\ Len(all) = n + m
      /\ \A i \in 1 .. n + m : all[i] = IF i <= n THEN events[i] ELSE rows[i - n]
  BY <1>1, ConcatProperties
<1>3. \A i \in 1 .. n + m : all[i] \in Events
  BY <1>2
<1> HIDE DEF all, n, m
<1>4. SubSeq(all, 1, n) = events
  <2>1. \A i \in 1 .. n : all[i] \in Events
    BY <1>1, <1>3
  <2>2. /\ SubSeq(all, 1, n) \in Seq(Events)
        /\ Len(SubSeq(all, 1, n)) = n
        /\ \A i \in 1 .. n : SubSeq(all, 1, n)[i] = all[i]
    BY <1>1, <2>1, SubSeqProperties
  <2>3. \A i \in 1 .. n : all[i] = events[i]
    BY <1>1, <1>2
  <2>4. QED
    BY <1>1, <2>2, <2>3, SeqEqual DEF n
<1>5. SubSeq(all, n + 1, n + m) = rows
  <2>1. \A i \in n + 1 .. n + m : all[i] \in Events
    BY <1>1, <1>3
  <2>2. /\ SubSeq(all, n + 1, n + m) \in Seq(Events)
        /\ Len(SubSeq(all, n + 1, n + m)) = m
        /\ \A i \in 1 .. m : SubSeq(all, n + 1, n + m)[i] = all[n + i]
    BY <1>1, <2>1, SubSeqProperties
  <2>3. \A i \in 1 .. m : all[n + i] = rows[i]
    BY <1>1, <1>2
  <2>4. QED
    BY <1>1, <2>2, <2>3, SeqEqual DEF m
<1>6. QED
  BY <1>2, <1>4, <1>5 DEF Added, all, n

\* What has to be shown of the rows a handler appends.
LEMMA AuditedBy ==
    ASSUME TypeOK, NEW rows \in Seq(Events), events' = events \o rows,
           \A r \in Run :
              /\ Cardinality(Grants(rows, r)) = IF ~Held(r) /\ Held(r)' THEN 1 ELSE 0
              /\ Cardinality(Closings(rows, r)) = IF Held(r) /\ ~Held(r)' THEN 1 ELSE 0
    PROVE  StepAudited
BY AddedRows DEF StepAudited

\* The audit of a transaction that appends one row.
LEMMA OneRow ==
    ASSUME NEW e \in Events, NEW r \in Run
    PROVE  /\ <<e>> \in Seq(Events)
           /\ Cardinality(Grants(<<e>>, r)) =
                 IF e.kind = "lock_claim" /\ e.run = r THEN 1 ELSE 0
           /\ Cardinality(Closings(<<e>>, r)) =
                 IF (e.kind = "lock_release" /\ e.run = r) \/ (e.kind = "lock_steal" /\ e.other = r)
                 THEN 1 ELSE 0
<1>1. <<e>> \in Seq(Events) /\ DOMAIN <<e>> = {1} /\ <<e>>[1] = e
  OBVIOUS
<1>2. Grants(<<e>>, r) = IF e.kind = "lock_claim" /\ e.run = r THEN {1} ELSE {}
  BY <1>1 DEF Grants
<1>3. Closings(<<e>>, r) =
         IF (e.kind = "lock_release" /\ e.run = r) \/ (e.kind = "lock_steal" /\ e.other = r)
         THEN {1} ELSE {}
  BY <1>1 DEF Closings
<1>4. Cardinality({1}) = 1 /\ Cardinality({}) = 0
  BY FS_Singleton, FS_EmptySet
<1>5. QED
  BY <1>1, <1>2, <1>3, <1>4

LEMMA AuditWait ==
    ASSUME TypeOK, NEW r \in Run, NEW kind \in {"lock_wait", "lock_wait_timeout"},
           events' = Append(events, Event(kind, r, r, "none")), claims' = claims
    PROVE  StepAudited
<1> DEFINE e == Event(kind, r, r, "none")
<1>1. e \in Events /\ e.kind = kind
  BY DEF Event, Events
<1> HIDE DEF e
<1>2. events' = events \o <<e>>
  BY <1>1, AppendIsConcat DEF TypeOK, e
<1>3. \A c \in Run : Held(c)' <=> Held(c)
  BY DEF Held
<1>4. \A c \in Run : Cardinality(Grants(<<e>>, c)) = 0 /\ Cardinality(Closings(<<e>>, c)) = 0
  BY <1>1, OneRow
<1>5. QED
  BY <1>1, <1>2, <1>3, <1>4, OneRow, AuditedBy

LEMMA AuditRelease ==
    ASSUME TypeOK, NEW r \in Run, NEW o \in Owner, NEW reason \in Reason,
           Release(r, o, reason)
    PROVE  StepAudited
<1> DEFINE e == Event("lock_release", r, r, reason)
<1>1. e \in Events /\ e.kind = "lock_release" /\ e.run = r
  BY DEF Event, Events
<1> HIDE DEF e
<1>2. events' = events \o <<e>>
  BY <1>1, AppendIsConcat DEF TypeOK, e, Release
<1>3. Held(r) /\ ~Held(r)' /\ \A c \in Run \ {r} : Held(c)' <=> Held(c)
  BY DEF Release, Held, TypeOK, Rows, Reason
<1>4. \A c \in Run : /\ Cardinality(Grants(<<e>>, c)) = 0
                     /\ Cardinality(Closings(<<e>>, c)) = IF c = r THEN 1 ELSE 0
  BY <1>1, OneRow
<1>5. QED
  BY <1>1, <1>2, <1>3, <1>4, OneRow, AuditedBy

LEMMA AuditExpire ==
    ASSUME TypeOK, Expire
    PROVE  StepAudited
<1> DEFINE X == ExpiredClaims
           order == SetToSeq(X)
           n == Len(order)
           rows == [i \in 1 .. n |-> Event("lock_release", order[i], order[i], "timeout")]
<1>1. X \in SUBSET Run /\ IsFiniteSet(X)
  BY FS_Subset, RunAssumption DEF ExpiredClaims, Active
<1>2. /\ order \in Seq(X)
      /\ \A x \in X : \E i \in 1 .. n : {j \in 1 .. n : order[j] = x} = {i}
  BY <1>1, SetToSeqOnce
<1>3. rows \in Seq(Events)
  BY <1>1, ExpireEventsType
<1>4. events' = events \o rows
  BY DEF Expire
<1>5. \A c \in Run : /\ c \in X => Held(c) /\ ~Held(c)'
                     /\ c \notin X => (Held(c)' <=> Held(c))
  BY DEF Expire, ExpiredClaims, Active, Held, TypeOK, Rows
<1>6. /\ DOMAIN rows = 1 .. n
      /\ \A i \in 1 .. n : rows[i].kind = "lock_release" /\ rows[i].run = order[i]
  BY DEF Event
<1>7. \A i \in 1 .. n : order[i] \in X
  BY <1>2
<1> HIDE DEF rows, n, order, X
<1>8. \A c \in Run : Grants(rows, c) = {} /\ Closings(rows, c) = {j \in 1 .. n : order[j] = c}
  BY <1>6 DEF Grants, Closings
<1>9. \A c \in Run : c \notin X => Closings(rows, c) = {}
  BY <1>7, <1>8
<1>10. \A c \in Run : /\ Cardinality(Grants(rows, c)) = 0
                      /\ Cardinality(Closings(rows, c)) = IF c \in X THEN 1 ELSE 0
  <2> TAKE c \in Run
  <2>1. Cardinality({}) = 0
    BY FS_EmptySet
  <2>2. CASE c \in X
    <3>1. PICK i \in 1 .. n : {j \in 1 .. n : order[j] = c} = {i}
      BY <1>2, <2>2
    <3>2. Cardinality({i}) = 1
      BY FS_Singleton
    <3>3. QED
      BY <1>8, <2>1, <2>2, <3>1, <3>2
  <2>3. CASE c \notin X
    BY <1>8, <1>9, <2>1, <2>3
  <2>4. QED
    BY <2>2, <2>3
<1>11. QED
  BY <1>3, <1>4, <1>5, <1>10, AuditedBy

LEMMA AuditTakes ==
    ASSUME TypeOK, NEW r \in Run, NEW o \in Owner, NEW d \in 1 .. MaxNow,
           NEW F \in (SUBSET File) \ {{}}, NEW steal \in BOOLEAN,
           ClaimTakes(r, o, d, F, steal)
    PROVE  StepAudited
<1> DEFINE X == Conflicts(F)
           order == SetToSeq(X)
           n == Len(order)
           steals == StealEvents(r, X)
           e == Event("lock_claim", r, r, "none")
           rows == steals \o <<e>>
<1>1. X \in SUBSET Run /\ IsFiniteSet(X)
  BY FS_Subset, RunAssumption DEF Conflicts, Active
<1>2. /\ order \in Seq(X)
      /\ \A x \in X : \E i \in 1 .. n : {j \in 1 .. n : order[j] = x} = {i}
  BY <1>1, SetToSeqOnce
<1>3. \A i \in 1 .. n : order[i] \in X
  BY <1>2
<1>4. n \in Nat
  BY <1>2
<1>5. /\ steals = [i \in 1 .. n |-> Event("lock_steal", r, order[i], "none")]
      /\ steals \in Seq(Events) /\ Len(steals) = n
  BY <1>1, <1>4, StealEventsType DEF StealEvents
<1>6. e \in Events /\ e.kind = "lock_claim" /\ e.run = r
  BY DEF Event, Events
<1>7. \A i \in 1 .. n : steals[i].kind = "lock_steal" /\ steals[i].other = order[i]
  BY <1>5 DEF Event
<1>8. events \in Seq(Events) /\ events' = Append(events \o steals, e)
  BY DEF ClaimTakes, TypeOK
<1>9. /\ Held(r)' /\ ~Held(r) /\ r \notin X
      /\ \A c \in X : Held(c) /\ ~Held(c)'
      /\ \A c \in Run \ (X \cup {r}) : Held(c)' <=> Held(c)
  BY DEF ClaimTakes, MayAsk, NoClaim, ClaimRow, Conflicts, Active, Held, TypeOK, Rows
<1> HIDE DEF steals, n, order, X, e
<1>10. rows \in Seq(Events) /\ events' = events \o rows
  <2>1. <<e>> \in Seq(Events)
    BY <1>6
  <2>2. events' = (events \o steals) \o <<e>>
    BY <1>5, <1>6, <1>8, AppendIsConcat, ConcatProperties
  <2>3. QED
    <3>1. steals \in Seq(Events) /\ events \in Seq(Events)
      BY <1>5, <1>8
    <3>2. (events \o steals) \o <<e>> = events \o (steals \o <<e>>)
      BY <2>1, <3>1, ConcatAssociative
    <3>3. steals \o <<e>> \in Seq(Events)
      BY <2>1, <3>1, ConcatProperties
    <3>4. QED
      BY <2>2, <3>2, <3>3
<1>11. /\ DOMAIN rows = 1 .. n + 1
       /\ \A i \in 1 .. n : rows[i] = steals[i]
       /\ rows[n + 1] = e
  BY <1>4, <1>5, <1>6
<1> HIDE DEF rows
<1>12. \A c \in Run : Grants(rows, c) = IF c = r THEN {n + 1} ELSE {}
  BY <1>4, <1>6, <1>7, <1>11 DEF Grants
<1>13. \A c \in Run : Closings(rows, c) = {j \in 1 .. n : order[j] = c}
  BY <1>4, <1>6, <1>7, <1>11 DEF Closings
<1>14. \A c \in Run : Cardinality(Grants(rows, c)) = IF c = r THEN 1 ELSE 0
  BY <1>12, FS_Singleton, FS_EmptySet
<1>15. \A c \in Run : Cardinality(Closings(rows, c)) = IF c \in X THEN 1 ELSE 0
  <2> TAKE c \in Run
  <2>1. CASE c \in X
    <3>1. PICK i \in 1 .. n : {j \in 1 .. n : order[j] = c} = {i}
      BY <1>2, <2>1
    <3>2. Cardinality({i}) = 1
      BY FS_Singleton
    <3>3. QED
      BY <1>13, <2>1, <3>1, <3>2
  <2>2. CASE c \notin X
    <3>1. Closings(rows, c) = {}
      BY <1>3, <1>13, <2>2
    <3>2. QED
      BY <2>2, <3>1, FS_EmptySet
  <2>3. QED
    BY <2>1, <2>2
<1>16. QED
  BY <1>9, <1>10, <1>14, <1>15, AuditedBy

LEMMA AuditTick ==
    ASSUME TypeOK, UNCHANGED <<claims, events>>
    PROVE  StepAudited
<1>1. <<>> \in Seq(Events) /\ events' = events \o <<>>
  BY ConcatEmptySeq DEF TypeOK
<1>2. \A r \in Run : Grants(<<>>, r) = {} /\ Closings(<<>>, r) = {}
  BY DEF Grants, Closings
<1>3. Cardinality({}) = 0
  BY FS_EmptySet
<1>4. \A r \in Run : Held(r)' <=> Held(r)
  BY DEF Held
<1>5. QED
  BY <1>1, <1>2, <1>3, <1>4, AuditedBy

LEMMA StepIsAudited == TypeOK /\ [Next]_vars => StepAudited
<1> SUFFICES ASSUME TypeOK, [Next]_vars
             PROVE  StepAudited
  OBVIOUS
<1>1. CASE Tick \/ UNCHANGED vars
  BY <1>1, AuditTick DEF Tick, vars
<1>2. CASE Expire
  BY <1>2, AuditExpire
<1>3. ASSUME NEW r \in Run, NEW d \in 1 .. MaxNow,
             \/ ClaimTimesOut(r, d)
             \/ \E F \in (SUBSET File) \ {{}}, steal \in BOOLEAN : ClaimWaits(r, d, F, steal)
      PROVE  StepAudited
  BY <1>3, AuditWait DEF ClaimTimesOut, ClaimWaits
<1>4. ASSUME NEW r \in Run, NEW d \in 1 .. MaxNow, NEW F \in (SUBSET File) \ {{}},
             NEW steal \in BOOLEAN, NEW o \in Owner, ClaimTakes(r, o, d, F, steal)
      PROVE  StepAudited
  BY <1>4, AuditTakes
<1>5. ASSUME NEW r \in Run, NEW o \in Owner, NEW reason \in Reason, Release(r, o, reason)
      PROVE  StepAudited
  BY <1>5, AuditRelease
<1>6. QED
  BY <1>1, <1>2, <1>3, <1>4, <1>5 DEF Next, Claim

\* The log is append-only, and the rows of every transaction grant and close
\* exactly the leases it grants and closes, once each.
THEOREM AuditTold == Spec => AuditMatchesClaims
<1>1. TypeOK /\ [Next]_vars => [StepAudited]_vars
  BY StepIsAudited
<1>2. QED
  BY <1>1, TypeCorrect, PTL DEF Spec, AuditMatchesClaims

-----------------------------------------------------------------------------
(* Mutual exclusion.  The induction needs no strengthening beyond TypeOK:  *)
(* the one step that adds a held row closes every row it overlaps.         *)

LEMMA DisjointInit == Init => HeldDisjoint
  BY DEF Init, HeldDisjoint, Held, NoClaim

LEMMA DisjointNext == TypeOK /\ HeldDisjoint /\ [Next]_vars => HeldDisjoint'
<1> SUFFICES ASSUME TypeOK, HeldDisjoint, [Next]_vars,
                    NEW a \in Run, NEW b \in Run, a # b, Held(a)', Held(b)'
             PROVE  claims'[a].files \cap claims'[b].files = {}
  BY DEF HeldDisjoint
\* A step that grants nothing only closes rows: what is held was held, unchanged.
<1>1. ASSUME \A r \in Run : Held(r)' => claims'[r] = claims[r]
      PROVE  claims'[a].files \cap claims'[b].files = {}
  BY <1>1 DEF HeldDisjoint, Held
<1>2. CASE Tick \/ UNCHANGED vars
  BY <1>1, <1>2 DEF Tick, vars
<1>3. CASE Expire
  BY <1>1, <1>3 DEF Expire, Held, TypeOK, Rows
<1>4. ASSUME NEW r \in Run, NEW d \in 1 .. MaxNow,
             \/ ClaimTimesOut(r, d)
             \/ \E F \in (SUBSET File) \ {{}}, steal \in BOOLEAN : ClaimWaits(r, d, F, steal)
      PROVE  claims'[a].files \cap claims'[b].files = {}
  BY <1>1, <1>4 DEF ClaimTimesOut, ClaimWaits
<1>5. ASSUME NEW r \in Run, NEW d \in 1 .. MaxNow, NEW F \in (SUBSET File) \ {{}},
             NEW steal \in BOOLEAN, NEW o \in Owner, ClaimTakes(r, o, d, F, steal)
      PROVE  claims'[a].files \cap claims'[b].files = {}
  <2>1. claims'[r].files = F
    BY <1>5 DEF ClaimTakes, ClaimRow
  <2>2. \A c \in Run : c # r /\ Held(c)' => c \notin Conflicts(F) /\ claims'[c] = claims[c]
    BY <1>5 DEF ClaimTakes, Held, TypeOK, Rows
  <2>3. \A c \in Run : c # r /\ Held(c)' => claims'[c].files \cap F = {}
    BY <2>2 DEF Conflicts, Active, Held
  <2>4. QED
    BY <2>1, <2>2, <2>3 DEF HeldDisjoint, Held
<1>6. ASSUME NEW r \in Run, NEW o \in Owner, NEW reason \in Reason, Release(r, o, reason)
      PROVE  claims'[a].files \cap claims'[b].files = {}
  BY <1>1, <1>6 DEF Release, Held, TypeOK, Rows, Reason
<1>7. QED
  BY <1>2, <1>3, <1>4, <1>5, <1>6 DEF Next, Claim

\* No file is ever leased to two runs, whatever the runs, files, deadlines and
\* the order of claims, steals, results and expiries.
THEOREM LeasesDisjoint == Spec => []HeldDisjoint
<1>1. Init => TypeOK /\ HeldDisjoint
  BY TypeInit, DisjointInit
<1>2. TypeOK /\ HeldDisjoint /\ [Next]_vars => TypeOK' /\ HeldDisjoint'
  BY TypeNext, DisjointNext
<1>3. QED
  BY <1>1, <1>2, PTL DEF Spec

-----------------------------------------------------------------------------
(* Fencing and the deadline, as properties of every step.                  *)

\* A row never changes its owner, deadline or files, and once closed never
\* changes at all; a lease is stolen or expired only at its deadline.
LEMMA StepFenced == TypeOK /\ [Next]_vars => RowFrozen /\ NoEarlyLoss
<1> SUFFICES ASSUME TypeOK, [Next]_vars, NEW c \in Run, claims[c].state # "none"
             PROVE  /\ claims'[c].deadline = claims[c].deadline
                    /\ claims'[c].files = claims[c].files
                    /\ claims'[c].owner = claims[c].owner
                    /\ ~Held(c) => claims'[c].state = claims[c].state
                    /\ Held(c) /\ claims'[c].state \in {"stolen", "timeout"} => Expired(c)
  BY DEF RowFrozen, NoEarlyLoss, Held
<1>1. CASE claims' = claims
  BY <1>1 DEF Held
<1>2. CASE Expire
  BY <1>2 DEF Expire, ExpiredClaims, Active, Held, TypeOK, Rows
<1>3. ASSUME NEW r \in Run, NEW d \in 1 .. MaxNow, NEW F \in (SUBSET File) \ {{}},
             NEW steal \in BOOLEAN, NEW o \in Owner, ClaimTakes(r, o, d, F, steal)
      PROVE  /\ claims'[c].deadline = claims[c].deadline
             /\ claims'[c].files = claims[c].files
             /\ claims'[c].owner = claims[c].owner
             /\ ~Held(c) => claims'[c].state = claims[c].state
             /\ Held(c) /\ claims'[c].state \in {"stolen", "timeout"} => Expired(c)
  <2>1. c # r
    BY <1>3 DEF ClaimTakes, MayAsk, NoClaim
  <2>2. CASE c \in Conflicts(F)
    BY <1>3, <2>1, <2>2 DEF ClaimTakes, Conflicts, Active, Held, TypeOK, Rows, Blocked
  <2>3. CASE c \notin Conflicts(F)
    BY <1>3, <2>1, <2>3 DEF ClaimTakes, Held
  <2>4. QED
    BY <2>2, <2>3
<1>4. ASSUME NEW r \in Run, NEW o \in Owner, NEW reason \in Reason, Release(r, o, reason)
      PROVE  /\ claims'[c].deadline = claims[c].deadline
             /\ claims'[c].files = claims[c].files
             /\ claims'[c].owner = claims[c].owner
             /\ ~Held(c) => claims'[c].state = claims[c].state
             /\ Held(c) /\ claims'[c].state \in {"stolen", "timeout"} => Expired(c)
  BY <1>4 DEF Release, Held, TypeOK, Rows, Reason
<1>5. QED
  BY <1>1, <1>2, <1>3, <1>4
     DEF Next, Claim, Tick, ClaimTimesOut, ClaimWaits, vars

\* A closed run id is never leased again and no lease is extended or widened.
THEOREM RunIdsFenced == Spec => Fenced
<1>1. TypeOK /\ [Next]_vars => [RowFrozen]_vars
  BY StepFenced
<1>2. QED
  BY <1>1, TypeCorrect, PTL DEF Spec, Fenced

\* Nobody takes a lease away before its deadline but its own result or the
\* inspector that found its worker dead.
THEOREM DeadlineRespected == Spec => NeverLostEarly
<1>1. TypeOK /\ [Next]_vars => [NoEarlyLoss]_vars
  BY StepFenced
<1>2. QED
  BY <1>1, TypeCorrect, PTL DEF Spec, NeverLostEarly

-----------------------------------------------------------------------------
(* The wait rows.                                                          *)

LEMMA WaitNext == TypeOK /\ NoWaitOnceGranted /\ [Next]_vars => NoWaitOnceGranted'
<1> SUFFICES ASSUME TypeOK, NoWaitOnceGranted, [Next]_vars,
                    NEW c \in Run, claims'[c].state # "none"
             PROVE  waits'[c] = NoWait
  BY DEF NoWaitOnceGranted
<1>1. CASE UNCHANGED <<claims, waits>>
  BY <1>1 DEF NoWaitOnceGranted
<1>2. CASE Expire
  BY <1>2 DEF Expire, NoWaitOnceGranted, ExpiredClaims, Active, Held
<1>3. ASSUME NEW r \in Run, NEW d \in 1 .. MaxNow,
             \/ ClaimTimesOut(r, d)
             \/ \E F \in (SUBSET File) \ {{}}, steal \in BOOLEAN : ClaimWaits(r, d, F, steal)
      PROVE  waits'[c] = NoWait
  BY <1>3 DEF ClaimTimesOut, ClaimWaits, MayAsk, NoClaim, NoWaitOnceGranted, TypeOK
<1>4. ASSUME NEW r \in Run, NEW d \in 1 .. MaxNow, NEW F \in (SUBSET File) \ {{}},
             NEW steal \in BOOLEAN, NEW o \in Owner, ClaimTakes(r, o, d, F, steal)
      PROVE  waits'[c] = NoWait
  BY <1>4 DEF ClaimTakes, Conflicts, Active, Held, NoWaitOnceGranted, TypeOK
<1>5. ASSUME NEW r \in Run, NEW o \in Owner, NEW reason \in Reason, Release(r, o, reason)
      PROVE  waits'[c] = NoWait
  BY <1>5 DEF Release, Held, NoWaitOnceGranted, TypeOK
<1>6. QED
  BY <1>1, <1>2, <1>3, <1>4, <1>5 DEF Next, Claim, Tick, vars

\* A run that was granted a lease has no wait row, in every reachable state.
THEOREM GrantedNotWaiting == Spec => []NoWaitOnceGranted
<1>1. Init => NoWaitOnceGranted
  BY DEF Init, NoWaitOnceGranted, NoClaim
<1>2. QED
  BY <1>1, WaitNext, TypeCorrect, PTL DEF Spec

\* A timed-out request is never granted: the verdict on a run id is final.
THEOREM TimedOutStaysOut == Spec => TimeoutIsFinal
<1>1. TypeOK /\ NoWaitOnceGranted /\ [Next]_vars => [WaitVerdict]_vars
  <2> SUFFICES ASSUME TypeOK, NoWaitOnceGranted, [Next]_vars,
                      NEW c \in Run, waits[c].timed_out
               PROVE  /\ waits'[c] = waits[c]
                      /\ ~(claims[c].state = "none" /\ claims'[c].state = "held")
    BY DEF WaitVerdict
  <2>1. waits[c] # NoWait /\ claims[c].state = "none"
    BY DEF NoWait, NoWaitOnceGranted
  <2>2. CASE UNCHANGED <<claims, waits>>
    BY <2>1, <2>2
  <2>3. CASE Expire
    BY <2>1, <2>3 DEF Expire, ExpiredClaims, Active, Held, TypeOK
  <2>4. ASSUME NEW r \in Run, NEW d \in 1 .. MaxNow, Claim(r, d)
        PROVE  waits'[c] = waits[c] /\ claims'[c].state # "held"
    BY <2>1, <2>4 DEF Claim, ClaimTimesOut, ClaimWaits, ClaimTakes, WaitedTooLong,
                      Conflicts, Active, Held, TypeOK, Rows
  <2>5. ASSUME NEW r \in Run, NEW o \in Owner, NEW reason \in Reason, Release(r, o, reason)
        PROVE  waits'[c] = waits[c] /\ claims'[c].state # "held"
    BY <2>1, <2>5 DEF Release, Held, TypeOK
  <2>6. QED
    BY <2>2, <2>3, <2>4, <2>5 DEF Next, Tick, vars
<1>2. QED
  BY <1>1, TypeCorrect, GrantedNotWaiting, PTL DEF Spec, TimeoutIsFinal

-----------------------------------------------------------------------------
(* The refinement.  Under HeldDisjoint the holder of a file is the one run *)
(* whose held row names it, so each step of the tables is read off as a    *)
(* change of holders.                                                      *)

LEMMA HolderIs ==
    ASSUME TypeOK, HeldDisjoint, NEW f \in File
    PROVE  /\ \A r \in Run : Held(r) /\ f \in claims[r].files => LeaseHolder[f] = r
           /\ (\A r \in Run : ~(Held(r) /\ f \in claims[r].files)) => LeaseHolder[f] = Nobody
<1>1. \A r, c \in Active : f \in claims[r].files /\ f \in claims[c].files => r = c
  BY DEF Active, HeldDisjoint
<1>2. QED
  BY <1>1 DEF LeaseHolder, Active

LEMMA HolderIsPrimed ==
    ASSUME TypeOK', HeldDisjoint', NEW f \in File
    PROVE  /\ \A r \in Run : Held(r)' /\ f \in claims'[r].files => LeaseHolder'[f] = r
           /\ (\A r \in Run : ~(Held(r)' /\ f \in claims'[r].files)) => LeaseHolder'[f] = Nobody
<1>1. \A r, c \in Active' : f \in claims'[r].files /\ f \in claims'[c].files => r = c
  BY DEF Active, HeldDisjoint
<1>2. QED
  BY <1>1 DEF LeaseHolder, Active

LEMMA LeaseInitRefines == Init => Lease!LeaseInit
<1> SUFFICES ASSUME Init
             PROVE  LeaseHolder = [f \in File |-> Nobody] /\ Granted = {}
  BY DEF Lease!LeaseInit
<1>1. \A r \in Run : claims[r].state = "none"
  BY DEF Init, NoClaim
<1>2. QED
  BY <1>1 DEF LeaseHolder, Active, Held, Granted

\* Closing a set of held rows is one Drop of the abstract lease.
LEMMA ClosingDrops ==
    ASSUME TypeOK, TypeOK', HeldDisjoint, HeldDisjoint', NEW R \in SUBSET Active,
           \A r \in Run : claims'[r].files = claims[r].files,
           \A r \in Run : Held(r)' <=> Held(r) /\ r \notin R,
           \A r \in Run : claims'[r].state = "none" <=> claims[r].state = "none"
    PROVE  Lease!Drop(R)
<1>1. R \subseteq Granted /\ R \subseteq Run
  BY DEF Active, Held, Granted
<1>2. Granted' = Granted
  BY DEF Granted
<1>3. \A f \in File : LeaseHolder'[f] = IF LeaseHolder[f] \in R THEN Nobody ELSE LeaseHolder[f]
  <2> TAKE f \in File
  <2>1. CASE \E r \in Run : Held(r) /\ f \in claims[r].files
    <3>1. PICK r \in Run : Held(r) /\ f \in claims[r].files
      BY <2>1
    <3>2. LeaseHolder[f] = r
      BY <3>1, HolderIs
    <3>3. CASE r \in R
      <4>1. \A c \in Run : ~(Held(c)' /\ f \in claims'[c].files)
        BY <3>1, <3>3 DEF HeldDisjoint
      <4>2. QED
        BY <3>2, <3>3, <4>1, HolderIsPrimed
    <3>4. CASE r \notin R
      BY <3>1, <3>2, <3>4, HolderIsPrimed
    <3>5. QED
      BY <3>3, <3>4
  <2>2. CASE \A r \in Run : ~(Held(r) /\ f \in claims[r].files)
    BY <2>2, HolderIs, HolderIsPrimed, <1>1, NobodyAssumption
  <2>3. QED
    BY <2>1, <2>2
<1>4. LeaseHolder' = [f \in File |-> IF LeaseHolder[f] \in R THEN Nobody ELSE LeaseHolder[f]]
  BY <1>3 DEF LeaseHolder
<1>5. QED
  BY <1>1, <1>2, <1>4 DEF Lease!Drop, Lease!Dispossess

\* A granting claim is one Grant: the new run takes its set, and the runs it
\* stole from, which are the old holders of those files, lose everything.
LEMMA TakingGrants ==
    ASSUME TypeOK, TypeOK', HeldDisjoint, HeldDisjoint',
           NEW r \in Run, NEW d \in 1 .. MaxNow, NEW F \in (SUBSET File) \ {{}},
           NEW steal \in BOOLEAN, NEW o \in Owner, ClaimTakes(r, o, d, F, steal)
    PROVE  Lease!Grant(r, F)
<1> DEFINE victims == {LeaseHolder[f] : f \in F} \ {Nobody}
<1>1. claims[r].state = "none" /\ claims'[r] = ClaimRow(o, d, F, "held")
  BY DEF ClaimTakes, MayAsk, NoClaim
<1>2. \A c \in Run : c # r /\ c \in Conflicts(F) =>
         claims'[c].state = "stolen" /\ claims'[c].files = claims[c].files
  BY DEF ClaimTakes, TypeOK, Rows
<1>3. \A c \in Run : c # r /\ c \notin Conflicts(F) => claims'[c] = claims[c]
  BY DEF ClaimTakes
<1>4. r \notin Granted /\ Granted' = Granted \cup {r}
  BY <1>1, <1>2, <1>3 DEF Granted, Conflicts, Active, Held, ClaimRow
<1>5. r \notin Conflicts(F)
  BY <1>1 DEF Conflicts, Active, Held
<1>6. victims = Conflicts(F)
  <2>1. ASSUME NEW c \in Conflicts(F)
        PROVE  c \in victims
    <3>1. PICK f \in F : f \in claims[c].files
      BY DEF Conflicts
    <3>2. LeaseHolder[f] = c
      BY <3>1, HolderIs DEF Conflicts, Active
    <3>3. QED
      BY <3>1, <3>2, NobodyAssumption DEF Conflicts, Active
  <2>2. ASSUME NEW f \in F, LeaseHolder[f] # Nobody
        PROVE  LeaseHolder[f] \in Conflicts(F)
    <3>1. PICK c \in Run : Held(c) /\ f \in claims[c].files
      BY <2>2, HolderIs
    <3>2. LeaseHolder[f] = c
      BY <3>1, HolderIs
    <3>3. QED
      BY <3>1, <3>2 DEF Conflicts, Active
  <2>3. QED
    BY <2>1, <2>2
<1>7. \A f \in File : LeaseHolder'[f] = IF f \in F THEN r
                                        ELSE IF LeaseHolder[f] \in Conflicts(F) THEN Nobody
                                        ELSE LeaseHolder[f]
  <2> TAKE f \in File
  <2>1. CASE f \in F
    BY <1>1, <2>1, HolderIsPrimed DEF ClaimRow, Held
  <2>2. CASE f \notin F /\ \E c \in Run : Held(c) /\ f \in claims[c].files
    <3>1. PICK c \in Run : Held(c) /\ f \in claims[c].files
      BY <2>2
    <3>2. LeaseHolder[f] = c /\ c # r
      BY <1>1, <3>1, HolderIs DEF Held
    <3>3. CASE c \notin Conflicts(F)
      BY <1>3, <2>2, <3>1, <3>2, <3>3, HolderIsPrimed DEF Held
    <3>4. CASE c \in Conflicts(F)
      <4>1. \A b \in Run : ~(Held(b)' /\ f \in claims'[b].files)
        BY <1>1, <1>2, <1>3, <2>2, <3>1, <3>4 DEF HeldDisjoint, Held, ClaimRow
      <4>2. QED
        BY <2>2, <3>2, <3>4, <4>1, HolderIsPrimed
    <3>5. QED
      BY <3>3, <3>4
  <2>3. CASE f \notin F /\ \A c \in Run : ~(Held(c) /\ f \in claims[c].files)
    <3>1. LeaseHolder[f] = Nobody /\ Nobody \notin Conflicts(F)
      BY <2>3, HolderIs, NobodyAssumption DEF Conflicts, Active
    <3>2. \A b \in Run : ~(Held(b)' /\ f \in claims'[b].files)
      BY <1>1, <1>2, <1>3, <2>3 DEF Held, ClaimRow
    <3>3. QED
      BY <2>3, <3>1, <3>2, HolderIsPrimed
  <2>4. QED
    BY <2>1, <2>2, <2>3
<1>8. LeaseHolder' = [f \in File |-> IF f \in F THEN r
                                     ELSE IF LeaseHolder[f] \in Conflicts(F) THEN Nobody
                                     ELSE LeaseHolder[f]]
  BY <1>7 DEF LeaseHolder
<1>9. QED
  <2>1. Lease!Dispossess(victims) =
          [f \in File |-> IF LeaseHolder[f] \in Conflicts(F) THEN Nobody ELSE LeaseHolder[f]]
    BY <1>6 DEF Lease!Dispossess
  <2>2. LeaseHolder' = [f \in File |-> IF f \in F THEN r ELSE Lease!Dispossess(victims)[f]]
    BY <1>8, <2>1
  <2>3. QED
    BY <1>4, <2>2 DEF Lease!Grant

LEMMA StepRefines ==
    TypeOK /\ TypeOK' /\ HeldDisjoint /\ HeldDisjoint' /\ [Next]_vars
        => [Lease!LeaseNext]_(Lease!leaseVars)
<1> SUFFICES ASSUME TypeOK, TypeOK', HeldDisjoint, HeldDisjoint', [Next]_vars
             PROVE  Lease!LeaseNext \/ UNCHANGED Lease!leaseVars
  OBVIOUS
<1>1. CASE claims' = claims
  BY <1>1 DEF Lease!leaseVars, LeaseHolder, Granted, Active, Held
<1>2. CASE Expire
  <2>1. ExpiredClaims \in SUBSET Active
    BY DEF ExpiredClaims
  <2>2. /\ \A r \in Run : claims'[r].files = claims[r].files
        /\ \A r \in Run : Held(r)' <=> Held(r) /\ r \notin ExpiredClaims
        /\ \A r \in Run : claims'[r].state = "none" <=> claims[r].state = "none"
    BY <1>2 DEF Expire, ExpiredClaims, Active, Held, TypeOK, Rows
  <2>3. Lease!Drop(ExpiredClaims)
    BY <2>1, <2>2, ClosingDrops
  <2>4. QED
    BY <2>1, <2>3 DEF Lease!LeaseNext, Active
<1>3. ASSUME NEW r \in Run, NEW o \in Owner, NEW reason \in Reason, Release(r, o, reason)
      PROVE  Lease!LeaseNext
  <2>1. {r} \in SUBSET Active
    BY <1>3 DEF Release, Active
  <2>2. /\ \A c \in Run : claims'[c].files = claims[c].files
        /\ \A c \in Run : Held(c)' <=> Held(c) /\ c \notin {r}
        /\ \A c \in Run : claims'[c].state = "none" <=> claims[c].state = "none"
    BY <1>3 DEF Release, Held, TypeOK, Rows, Reason
  <2>3. Lease!Drop({r})
    BY <2>1, <2>2, ClosingDrops
  <2>4. QED
    BY <2>3 DEF Lease!LeaseNext
<1>4. ASSUME NEW r \in Run, NEW d \in 1 .. MaxNow, NEW F \in (SUBSET File) \ {{}},
             NEW steal \in BOOLEAN, NEW o \in Owner, ClaimTakes(r, o, d, F, steal)
      PROVE  Lease!LeaseNext
  BY <1>4, TakingGrants DEF Lease!LeaseNext
<1>5. QED
  BY <1>1, <1>2, <1>3, <1>4 DEF Next, Claim, Tick, ClaimTimesOut, ClaimWaits, vars

\* The tables implement the abstract lease: with all their rows, deadlines and
\* waits, what a caller can observe of who holds a file is FileLease.
THEOREM ImplementsLease == Spec => LeaseSpec
<1>1. Spec => [](TypeOK /\ HeldDisjoint)
  BY TypeCorrect, LeasesDisjoint, PTL
<1>2. QED
  BY <1>1, LeaseInitRefines, StepRefines, PTL DEF Spec, LeaseSpec, Lease!LeaseSpec

=============================================================================
