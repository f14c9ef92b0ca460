-------------------------- MODULE TrainTurnProofs --------------------------
(***************************************************************************)
(* Proofs about the landing trains: type correctness, and the safety       *)
(* properties of their landings, for any trains, areas and ranks.          *)
(***************************************************************************)
EXTENDS TrainTurn, TLAPS

\* Every step keeps the types.
LEMMA TypeStep == TypeOK /\ [Next]_vars => TypeOK'
<1> SUFFICES ASSUME TypeOK, [Next]_vars PROVE TypeOK'
  OBVIOUS
<1>1. ASSUME NEW t \in Train, Launch(t)
      PROVE  TypeOK'
  BY <1>1, TrainAssumption DEF Launch, Alive, Gone, Goes, TypeOK, Places
<1>2. ASSUME NEW t \in Train, AsksAfter(t)
      PROVE  TypeOK'
  BY <1>2, TrainAssumption DEF AsksAfter, At, Goes, TypeOK, Places
<1>3. ASSUME NEW t \in Train, AsksInVain(t)
      PROVE  TypeOK'
  BY <1>3, TrainAssumption DEF AsksInVain, At, Goes, Finishes, Recorded, TypeOK, Places
<1>4. ASSUME NEW t \in Train, AsksRank(t)
      PROVE  TypeOK'
  <2>1. CASE Higher(t) = {}
    <3>1. file[t].outcome \in {"none", "landed", "refused", "not_started"}
      BY DEF TypeOK
    <3>2. file' \in [Train -> [status : {"none", "waiting", "running", "done"},
                           outcome : {"none", "landed", "refused", "not_started"}]]
      BY <1>4, <2>1, <3>1, SMTT(30) DEF AsksRank, TypeOK
    <3> QED
      BY <1>4, <2>1, <3>2 DEF AsksRank, At, Goes, TypeOK, Places
  <2>2. CASE Higher(t) # {}
    BY <1>4, <2>2 DEF AsksRank, At, Goes, TypeOK, Places
  <2> QED
    BY <2>1, <2>2
<1>5. ASSUME NEW t \in Train, TimesOut(t)
      PROVE  TypeOK'
  BY <1>5, TrainAssumption DEF TimesOut, Goes, Finishes, Recorded, TypeOK, Places
<1>6. ASSUME NEW t \in Train, Builds(t)
      PROVE  TypeOK'
  BY <1>6, TrainAssumption DEF Builds, At, Goes, Merged, Onto, TypeOK, Places
<1>7. ASSUME NEW t \in Train, BuildFails(t)
      PROVE  TypeOK'
  BY <1>7, TrainAssumption DEF BuildFails, At, Goes, Finishes, Recorded, TypeOK, Places
<1>8. ASSUME NEW t \in Train, NEW a \in LockAreas(t), TakesLock(t, a)
      PROVE  TypeOK'
  BY <1>8, TrainAssumption DEF TakesLock, LockAreas, At, TypeOK, Places
<1>9. ASSUME NEW t \in Train, NEW a \in LockAreas(t), LockRefused(t, a)
      PROVE  TypeOK'
  BY <1>9, TrainAssumption DEF LockRefused, At, Goes, Finishes, Recorded, TypeOK, Places
<1>10. ASSUME NEW t \in Train, LandBegins(t)
      PROVE  TypeOK'
  BY <1>10, TrainAssumption, SMTT(30) DEF LandBegins, At, Goes, Onto, TypeOK, Places
<1>11. ASSUME NEW t \in Train, NEW result \in {"pass", "fail"}, Suite(t, result)
      PROVE  TypeOK'
  BY <1>11, TrainAssumption DEF Suite, At, Goes, Noted, Passes, TypeOK, Places
<1>12. ASSUME NEW t \in Train, LastLook(t)
      PROVE  TypeOK'
  BY <1>12, TrainAssumption DEF LastLook, At, Goes, TypeOK, Places
<1>13. ASSUME NEW t \in Train, NEW reported \in BOOLEAN, Pushes(t, reported)
      PROVE  TypeOK'
  BY <1>13, TrainAssumption DEF Pushes, At, Goes, Pushable, TypeOK, Places
<1>14. ASSUME NEW t \in Train, PushRefused(t)
      PROVE  TypeOK'
  BY <1>14, TrainAssumption DEF PushRefused, At, Goes, TypeOK, Places
<1>15. ASSUME NEW t \in Train, MergesMoved(t)
      PROVE  TypeOK'
  BY <1>15, TrainAssumption DEF MergesMoved, At, Goes, Merged, Onto, TypeOK, Places
<1>16. ASSUME NEW t \in Train, Refused(t)
      PROVE  TypeOK'
  BY <1>16, TrainAssumption DEF Refused, At, Goes, Finishes, Recorded, TypeOK, Places
<1>17. ASSUME NEW t \in Train, Landed(t)
      PROVE  TypeOK'
  BY <1>17, TrainAssumption DEF Landed, At, Goes, Finishes, Recorded, TypeOK, Places
<1>18. ASSUME NEW t \in Train, Stopped(t)
      PROVE  TypeOK'
  BY <1>18, TrainAssumption
     DEF Stopped, Goes, Finishes, Recorded, LeavesOrphan, Landing, TypeOK, Places
<1>19. ASSUME NEW t \in Train, Killed(t)
      PROVE  TypeOK'
  BY <1>19, TrainAssumption DEF Killed, Goes, LeavesOrphan, Landing, TypeOK, Places
<1>20. ASSUME NEW o \in orphans, NEW result \in {"pass", "fail"}, OrphanSuite(o, result)
      PROVE  TypeOK'
  BY <1>20, TrainAssumption DEF OrphanSuite, Then, Noted, Passes, TypeOK, Places
<1>21. ASSUME NEW o \in orphans, OrphanLooks(o)
      PROVE  TypeOK'
  BY <1>21, TrainAssumption DEF OrphanLooks, Then, TypeOK, Places
<1>22. ASSUME NEW o \in orphans, OrphanPushes(o)
      PROVE  TypeOK'
  BY <1>22, TrainAssumption DEF OrphanPushes, Pushable, TypeOK, Places
<1>23. CASE UNCHANGED vars
  BY <1>23 DEF vars, TypeOK, Places
<1> QED
  BY <1>1, <1>2, <1>3, <1>4, <1>5, <1>6, <1>7, <1>8, <1>9, <1>10, <1>11, <1>12, <1>13,
     <1>14, <1>15, <1>16, <1>17, <1>18, <1>19, <1>20, <1>21, <1>22, <1>23
     DEF Next, Turn, Work, Orphan

\* The state of every train, its orphans and the files has its type.
THEOREM TypeCorrect == Spec => []TypeOK
<1>1. Init => TypeOK
  BY TrainAssumption DEF Init, TypeOK, Places, NoFile, NoTree
<1> QED
  BY <1>1, TypeStep, PTL DEF Spec

\* The head of a train that has built contains the train.
HasOwn ==
    \A t \in Train :
        proc[t] \in {"locks", "suite", "looks", "pushes", "moved", "landed"} => t \in tree[t].head

\* Only a train that builds changes its head, and it adds itself.
LEMMA HasOwnStep == TypeOK /\ HasOwn /\ [Next]_vars => HasOwn'
<1> SUFFICES ASSUME TypeOK, HasOwn, [Next]_vars PROVE HasOwn'
  OBVIOUS
<1>1. ASSUME NEW t \in Train, Launch(t)
      PROVE  HasOwn'
  BY <1>1 DEF Launch, Alive, Gone, Goes, TypeOK, HasOwn
<1>2. ASSUME NEW t \in Train, AsksAfter(t)
      PROVE  HasOwn'
  BY <1>2 DEF AsksAfter, At, Goes, TypeOK, HasOwn
<1>3. ASSUME NEW t \in Train, AsksInVain(t)
      PROVE  HasOwn'
  BY <1>3 DEF AsksInVain, At, Goes, Finishes, Recorded, TypeOK, HasOwn
<1>4. ASSUME NEW t \in Train, AsksRank(t)
      PROVE  HasOwn'
  BY <1>4 DEF AsksRank, At, Goes, TypeOK, HasOwn
<1>5. ASSUME NEW t \in Train, TimesOut(t)
      PROVE  HasOwn'
  BY <1>5 DEF TimesOut, Waiting, Alive, Gone, Goes, Finishes, Recorded, TypeOK, HasOwn
<1>6. ASSUME NEW t \in Train, Builds(t)
      PROVE  HasOwn'
  BY <1>6 DEF Builds, At, Goes, Merged, Onto, TypeOK, HasOwn
<1>7. ASSUME NEW t \in Train, BuildFails(t)
      PROVE  HasOwn'
  BY <1>7 DEF BuildFails, At, Goes, Finishes, Recorded, TypeOK, HasOwn
<1>8. ASSUME NEW t \in Train, NEW a \in LockAreas(t), TakesLock(t, a)
      PROVE  HasOwn'
  BY <1>8 DEF TakesLock, At, HeldByOther, TypeOK, HasOwn
<1>9. ASSUME NEW t \in Train, NEW a \in LockAreas(t), LockRefused(t, a)
      PROVE  HasOwn'
  BY <1>9 DEF LockRefused, At, Goes, Finishes, Recorded, TypeOK, HasOwn
<1>10. ASSUME NEW t \in Train, LandBegins(t)
      PROVE  HasOwn'
  BY <1>10 DEF LandBegins, At, Goes, Onto, TypeOK, HasOwn
<1>11. ASSUME NEW t \in Train, NEW result \in {"pass", "fail"}, Suite(t, result)
      PROVE  HasOwn'
  BY <1>11 DEF Suite, At, Goes, Noted, Passes, TypeOK, HasOwn
<1>12. ASSUME NEW t \in Train, LastLook(t)
      PROVE  HasOwn'
  BY <1>12 DEF LastLook, At, Goes, TypeOK, HasOwn
<1>13. ASSUME NEW t \in Train, NEW reported \in BOOLEAN, Pushes(t, reported)
      PROVE  HasOwn'
  BY <1>13 DEF Pushes, At, Goes, Pushable, TypeOK, HasOwn
<1>14. ASSUME NEW t \in Train, PushRefused(t)
      PROVE  HasOwn'
  BY <1>14 DEF PushRefused, At, Goes, TypeOK, HasOwn
<1>15. ASSUME NEW t \in Train, MergesMoved(t)
      PROVE  HasOwn'
  BY <1>15 DEF MergesMoved, At, Goes, Merged, Onto, TypeOK, HasOwn
<1>16. ASSUME NEW t \in Train, Refused(t)
      PROVE  HasOwn'
  BY <1>16 DEF Refused, At, Goes, Finishes, Recorded, TypeOK, HasOwn
<1>17. ASSUME NEW t \in Train, Landed(t)
      PROVE  HasOwn'
  BY <1>17 DEF Landed, At, Goes, Finishes, Recorded, TypeOK, HasOwn
<1>18. ASSUME NEW t \in Train, Stopped(t)
      PROVE  HasOwn'
  BY <1>18 DEF Stopped, Goes, Finishes, Recorded, LeavesOrphan, Landing, TypeOK, HasOwn
<1>19. ASSUME NEW t \in Train, Killed(t)
      PROVE  HasOwn'
  BY <1>19 DEF Killed, Goes, LeavesOrphan, Landing, TypeOK, HasOwn
<1>20. ASSUME NEW o \in orphans, NEW result \in {"pass", "fail"}, OrphanSuite(o, result)
      PROVE  HasOwn'
  BY <1>20 DEF OrphanSuite, Then, Noted, Passes, TypeOK, HasOwn
<1>21. ASSUME NEW o \in orphans, OrphanLooks(o)
      PROVE  HasOwn'
  BY <1>21 DEF OrphanLooks, Then, TypeOK, HasOwn
<1>22. ASSUME NEW o \in orphans, OrphanPushes(o)
      PROVE  HasOwn'
  BY <1>22 DEF OrphanPushes, Pushable, TypeOK, HasOwn
<1>23. CASE UNCHANGED vars
  BY <1>23 DEF vars, TypeOK, HasOwn
<1> QED
  BY <1>1, <1>2, <1>3, <1>4, <1>5, <1>6, <1>7, <1>8, <1>9, <1>10, <1>11, <1>12, <1>13,
     <1>14, <1>15, <1>16, <1>17, <1>18, <1>19, <1>20, <1>21, <1>22, <1>23
     DEF Next, Turn, Work, Orphan

\* Whatever is about to be pushed has passed the tests of its change.
Passed ==
    /\ \A t \in Train :
          proc[t] \in {"looks", "pushes"} => Passes(tree[t].head, tree[t].base)
    /\ \A o \in orphans : o.place \in {"looks", "pushes"} => Passes(o.head, o.base)

\* No step pushes a head without the tests that passed on it.
LEMMA PassedStep == TypeOK /\ Passed /\ [Next]_vars => Passed'
<1> SUFFICES ASSUME TypeOK, Passed, [Next]_vars PROVE Passed'
  OBVIOUS
<1>1. ASSUME NEW t \in Train, Launch(t)
      PROVE  Passed'
  BY <1>1 DEF Launch, Alive, Gone, Goes, TypeOK, Passed, Passes
<1>2. ASSUME NEW t \in Train, AsksAfter(t)
      PROVE  Passed'
  BY <1>2 DEF AsksAfter, At, Goes, TypeOK, Passed, Passes
<1>3. ASSUME NEW t \in Train, AsksInVain(t)
      PROVE  Passed'
  BY <1>3 DEF AsksInVain, At, Goes, Finishes, Recorded, TypeOK, Passed, Passes
<1>4. ASSUME NEW t \in Train, AsksRank(t)
      PROVE  Passed'
  BY <1>4 DEF AsksRank, At, Goes, TypeOK, Passed, Passes
<1>5. ASSUME NEW t \in Train, TimesOut(t)
      PROVE  Passed'
  BY <1>5 DEF TimesOut, Waiting, Alive, Gone, Goes, Finishes, Recorded, TypeOK, Passed, Passes
<1>6. ASSUME NEW t \in Train, Builds(t)
      PROVE  Passed'
  BY <1>6 DEF Builds, At, Goes, Merged, Onto, TypeOK, Passed, Passes
<1>7. ASSUME NEW t \in Train, BuildFails(t)
      PROVE  Passed'
  BY <1>7 DEF BuildFails, At, Goes, Finishes, Recorded, TypeOK, Passed, Passes
<1>8. ASSUME NEW t \in Train, NEW a \in LockAreas(t), TakesLock(t, a)
      PROVE  Passed'
  BY <1>8 DEF TakesLock, At, HeldByOther, TypeOK, Passed, Passes
<1>9. ASSUME NEW t \in Train, NEW a \in LockAreas(t), LockRefused(t, a)
      PROVE  Passed'
  BY <1>9 DEF LockRefused, At, Goes, Finishes, Recorded, TypeOK, Passed, Passes
<1>10. ASSUME NEW t \in Train, LandBegins(t)
      PROVE  Passed'
  BY <1>10 DEF LandBegins, At, Goes, Onto, TypeOK, Passed, Passes
<1>11. ASSUME NEW t \in Train, NEW result \in {"pass", "fail"}, Suite(t, result)
      PROVE  Passed'
  BY <1>11 DEF Suite, At, Goes, Noted, TypeOK, Passed, Passes
<1>12. ASSUME NEW t \in Train, LastLook(t)
      PROVE  Passed'
  BY <1>12 DEF LastLook, At, Goes, TypeOK, Passed, Passes
<1>13. ASSUME NEW t \in Train, NEW reported \in BOOLEAN, Pushes(t, reported)
      PROVE  Passed'
  BY <1>13 DEF Pushes, At, Goes, Pushable, TypeOK, Passed, Passes
<1>14. ASSUME NEW t \in Train, PushRefused(t)
      PROVE  Passed'
  BY <1>14 DEF PushRefused, At, Goes, TypeOK, Passed, Passes
<1>15. ASSUME NEW t \in Train, MergesMoved(t)
      PROVE  Passed'
  BY <1>15 DEF MergesMoved, At, Goes, Merged, Onto, TypeOK, Passed, Passes
<1>16. ASSUME NEW t \in Train, Refused(t)
      PROVE  Passed'
  BY <1>16 DEF Refused, At, Goes, Finishes, Recorded, TypeOK, Passed, Passes
<1>17. ASSUME NEW t \in Train, Landed(t)
      PROVE  Passed'
  BY <1>17 DEF Landed, At, Goes, Finishes, Recorded, TypeOK, Passed, Passes
<1>18. ASSUME NEW t \in Train, Stopped(t)
      PROVE  Passed'
  BY <1>18 DEF Stopped, Goes, Finishes, Recorded, LeavesOrphan, Landing, TypeOK, Passed, Passes
<1>19. ASSUME NEW t \in Train, Killed(t)
      PROVE  Passed'
  BY <1>19 DEF Killed, Goes, LeavesOrphan, Landing, TypeOK, Passed, Passes
<1>20. ASSUME NEW o \in orphans, NEW result \in {"pass", "fail"}, OrphanSuite(o, result)
      PROVE  Passed'
  <2>1. UNCHANGED <<tree, proc>>
    BY <1>20 DEF OrphanSuite
  <2>2. ASSUME NEW q \in orphans', q.place \in {"looks", "pushes"}
        PROVE  Passes(q.head, q.base)
    <3>1. CASE q \in orphans
      BY <2>2, <3>1 DEF Passed
    <3>2. CASE q \notin orphans
      <4>1. q = Then(o, "looks") /\ result = "pass"
        BY <1>20, <2>2, <3>2 DEF OrphanSuite
      <4>2. Passes(o.head, o.base)
        BY <1>20, <4>1 DEF OrphanSuite
      <4> QED BY <4>1, <4>2 DEF Then
    <3> QED BY <3>1, <3>2
  <2> QED BY <2>1, <2>2 DEF Passed, Passes
<1>21. ASSUME NEW o \in orphans, OrphanLooks(o)
      PROVE  Passed'
  BY <1>21 DEF OrphanLooks, Then, TypeOK, Passed, Passes
<1>22. ASSUME NEW o \in orphans, OrphanPushes(o)
      PROVE  Passed'
  BY <1>22 DEF OrphanPushes, Pushable, TypeOK, Passed, Passes
<1>23. CASE UNCHANGED vars
  BY <1>23 DEF vars, TypeOK, Passed, Passes
<1> QED
  BY <1>1, <1>2, <1>3, <1>4, <1>5, <1>6, <1>7, <1>8, <1>9, <1>10, <1>11, <1>12, <1>13,
     <1>14, <1>15, <1>16, <1>17, <1>18, <1>19, <1>20, <1>21, <1>22, <1>23
     DEF Next, Turn, Work, Orphan

\* A train brings nothing but itself: what else its head has was on master before,
\* and while it lands all of that is in its base.
OneAhead ==
    /\ \A t \in Train : tree[t].head \subseteq master \cup {t} /\ tree[t].base \subseteq master
    /\ \A t \in Train : Landing(t) => tree[t].head \subseteq tree[t].base \cup {t}
    /\ \A o \in orphans :
          o.base \subseteq master /\ \E t \in Train : o.head \subseteq o.base \cup {t}

\* Heads are merged from master, and master only grows.
LEMMA OneAheadStep == TypeOK /\ OneAhead /\ [Next]_vars => OneAhead'
<1> SUFFICES ASSUME TypeOK, OneAhead, [Next]_vars PROVE OneAhead'
  OBVIOUS
<1>1. ASSUME NEW t \in Train, Launch(t)
      PROVE  OneAhead'
  BY <1>1 DEF Launch, Alive, Gone, Goes, TypeOK, OneAhead, Landing
<1>2. ASSUME NEW t \in Train, AsksAfter(t)
      PROVE  OneAhead'
  BY <1>2 DEF AsksAfter, At, Goes, TypeOK, OneAhead, Landing
<1>3. ASSUME NEW t \in Train, AsksInVain(t)
      PROVE  OneAhead'
  BY <1>3 DEF AsksInVain, At, Goes, Finishes, Recorded, TypeOK, OneAhead, Landing
<1>4. ASSUME NEW t \in Train, AsksRank(t)
      PROVE  OneAhead'
  <2>1. UNCHANGED <<master, tree, orphans>>
    BY <1>4 DEF AsksRank
  <2>2. ASSUME NEW u \in Train PROVE Landing(u)' => Landing(u)
    BY <1>4 DEF AsksRank, At, Goes, TypeOK, Landing
  <2> QED BY <2>1, <2>2 DEF OneAhead
<1>5. ASSUME NEW t \in Train, TimesOut(t)
      PROVE  OneAhead'
  BY <1>5 DEF TimesOut, Waiting, Alive, Gone, Goes, Finishes, Recorded, TypeOK, OneAhead, Landing
<1>6. ASSUME NEW t \in Train, Builds(t)
      PROVE  OneAhead'
  BY <1>6 DEF Builds, At, Goes, Merged, Onto, TypeOK, OneAhead, Landing
<1>7. ASSUME NEW t \in Train, BuildFails(t)
      PROVE  OneAhead'
  BY <1>7 DEF BuildFails, At, Goes, Finishes, Recorded, TypeOK, OneAhead, Landing
<1>8. ASSUME NEW t \in Train, NEW a \in LockAreas(t), TakesLock(t, a)
      PROVE  OneAhead'
  BY <1>8 DEF TakesLock, At, HeldByOther, TypeOK, OneAhead, Landing
<1>9. ASSUME NEW t \in Train, NEW a \in LockAreas(t), LockRefused(t, a)
      PROVE  OneAhead'
  BY <1>9 DEF LockRefused, At, Goes, Finishes, Recorded, TypeOK, OneAhead, Landing
<1>10. ASSUME NEW t \in Train, LandBegins(t)
      PROVE  OneAhead'
  BY <1>10 DEF LandBegins, At, Goes, Onto, TypeOK, OneAhead, Landing
<1>11. ASSUME NEW t \in Train, NEW result \in {"pass", "fail"}, Suite(t, result)
      PROVE  OneAhead'
  BY <1>11 DEF Suite, At, Goes, Noted, TypeOK, OneAhead, Landing
<1>12. ASSUME NEW t \in Train, LastLook(t)
      PROVE  OneAhead'
  BY <1>12 DEF LastLook, At, Goes, TypeOK, OneAhead, Landing
<1>13. ASSUME NEW t \in Train, NEW reported \in BOOLEAN, Pushes(t, reported)
      PROVE  OneAhead'
  BY <1>13 DEF Pushes, At, Goes, Pushable, TypeOK, OneAhead, Landing
<1>14. ASSUME NEW t \in Train, PushRefused(t)
      PROVE  OneAhead'
  BY <1>14 DEF PushRefused, At, Goes, TypeOK, OneAhead, Landing
<1>15. ASSUME NEW t \in Train, MergesMoved(t)
      PROVE  OneAhead'
  BY <1>15 DEF MergesMoved, At, Goes, Merged, Onto, TypeOK, OneAhead, Landing
<1>16. ASSUME NEW t \in Train, Refused(t)
      PROVE  OneAhead'
  BY <1>16 DEF Refused, At, Goes, Finishes, Recorded, TypeOK, OneAhead, Landing
<1>17. ASSUME NEW t \in Train, Landed(t)
      PROVE  OneAhead'
  BY <1>17 DEF Landed, At, Goes, Finishes, Recorded, TypeOK, OneAhead, Landing
<1>18. ASSUME NEW t \in Train, Stopped(t)
      PROVE  OneAhead'
  BY <1>18 DEF Stopped, Goes, Finishes, Recorded, LeavesOrphan, TypeOK, OneAhead, Landing
<1>19. ASSUME NEW t \in Train, Killed(t)
      PROVE  OneAhead'
  BY <1>19 DEF Killed, Goes, LeavesOrphan, TypeOK, OneAhead, Landing
<1>20. ASSUME NEW o \in orphans, NEW result \in {"pass", "fail"}, OrphanSuite(o, result)
      PROVE  OneAhead'
  BY <1>20 DEF OrphanSuite, Then, Noted, TypeOK, OneAhead, Landing
<1>21. ASSUME NEW o \in orphans, OrphanLooks(o)
      PROVE  OneAhead'
  BY <1>21 DEF OrphanLooks, Then, TypeOK, OneAhead, Landing
<1>22. ASSUME NEW o \in orphans, OrphanPushes(o)
      PROVE  OneAhead'
  BY <1>22 DEF OrphanPushes, Pushable, TypeOK, OneAhead, Landing
<1>23. CASE UNCHANGED vars
  BY <1>23 DEF vars, TypeOK, OneAhead, Landing
<1> QED
  BY <1>1, <1>2, <1>3, <1>4, <1>5, <1>6, <1>7, <1>8, <1>9, <1>10, <1>11, <1>12, <1>13,
     <1>14, <1>15, <1>16, <1>17, <1>18, <1>19, <1>20, <1>21, <1>22, <1>23
     DEF Next, Turn, Work, Orphan

\* A train that says it landed is on master.
InMaster ==
    \A t \in Train : proc[t] = "landed" \/ file[t].outcome = "landed" => t \in master

\* Landed is recorded after the push only, and no push takes it back.
LEMMA InMasterStep == TypeOK /\ HasOwn /\ InMaster /\ [Next]_vars => InMaster'
<1> SUFFICES ASSUME TypeOK, HasOwn, InMaster, [Next]_vars PROVE InMaster'
  OBVIOUS
<1>1. ASSUME NEW t \in Train, Launch(t)
      PROVE  InMaster'
  BY <1>1 DEF Launch, Alive, Gone, Goes, TypeOK, HasOwn, InMaster
<1>2. ASSUME NEW t \in Train, AsksAfter(t)
      PROVE  InMaster'
  BY <1>2 DEF AsksAfter, At, Goes, TypeOK, HasOwn, InMaster
<1>3. ASSUME NEW t \in Train, AsksInVain(t)
      PROVE  InMaster'
  BY <1>3 DEF AsksInVain, At, Goes, Finishes, Recorded, TypeOK, HasOwn, InMaster
<1>4. ASSUME NEW t \in Train, AsksRank(t)
      PROVE  InMaster'
  BY <1>4 DEF AsksRank, At, Goes, TypeOK, HasOwn, InMaster
<1>5. ASSUME NEW t \in Train, TimesOut(t)
      PROVE  InMaster'
  BY <1>5 DEF TimesOut, Waiting, Alive, Gone, Goes, Finishes, Recorded, TypeOK, HasOwn,
     InMaster
<1>6. ASSUME NEW t \in Train, Builds(t)
      PROVE  InMaster'
  BY <1>6 DEF Builds, At, Goes, Merged, Onto, TypeOK, HasOwn, InMaster
<1>7. ASSUME NEW t \in Train, BuildFails(t)
      PROVE  InMaster'
  BY <1>7 DEF BuildFails, At, Goes, Finishes, Recorded, TypeOK, HasOwn, InMaster
<1>8. ASSUME NEW t \in Train, NEW a \in LockAreas(t), TakesLock(t, a)
      PROVE  InMaster'
  BY <1>8 DEF TakesLock, At, HeldByOther, TypeOK, HasOwn, InMaster
<1>9. ASSUME NEW t \in Train, NEW a \in LockAreas(t), LockRefused(t, a)
      PROVE  InMaster'
  BY <1>9 DEF LockRefused, At, Goes, Finishes, Recorded, TypeOK, HasOwn, InMaster
<1>10. ASSUME NEW t \in Train, LandBegins(t)
      PROVE  InMaster'
  BY <1>10 DEF LandBegins, At, Goes, Onto, TypeOK, HasOwn, InMaster
<1>11. ASSUME NEW t \in Train, NEW result \in {"pass", "fail"}, Suite(t, result)
      PROVE  InMaster'
  BY <1>11 DEF Suite, At, Goes, Noted, Passes, TypeOK, HasOwn, InMaster
<1>12. ASSUME NEW t \in Train, LastLook(t)
      PROVE  InMaster'
  BY <1>12 DEF LastLook, At, Goes, TypeOK, HasOwn, InMaster
<1>13. ASSUME NEW t \in Train, NEW reported \in BOOLEAN, Pushes(t, reported)
      PROVE  InMaster'
  BY <1>13 DEF Pushes, At, Goes, Pushable, TypeOK, HasOwn, InMaster
<1>14. ASSUME NEW t \in Train, PushRefused(t)
      PROVE  InMaster'
  BY <1>14 DEF PushRefused, At, Goes, TypeOK, HasOwn, InMaster
<1>15. ASSUME NEW t \in Train, MergesMoved(t)
      PROVE  InMaster'
  BY <1>15 DEF MergesMoved, At, Goes, Merged, Onto, TypeOK, HasOwn, InMaster
<1>16. ASSUME NEW t \in Train, Refused(t)
      PROVE  InMaster'
  BY <1>16 DEF Refused, At, Goes, Finishes, Recorded, TypeOK, HasOwn, InMaster
<1>17. ASSUME NEW t \in Train, Landed(t)
      PROVE  InMaster'
  BY <1>17 DEF Landed, At, Goes, Finishes, Recorded, TypeOK, HasOwn, InMaster
<1>18. ASSUME NEW t \in Train, Stopped(t)
      PROVE  InMaster'
  BY <1>18 DEF Stopped, Goes, Finishes, Recorded, LeavesOrphan, Landing, TypeOK, HasOwn,
     InMaster
<1>19. ASSUME NEW t \in Train, Killed(t)
      PROVE  InMaster'
  BY <1>19 DEF Killed, Goes, LeavesOrphan, Landing, TypeOK, HasOwn, InMaster
<1>20. ASSUME NEW o \in orphans, NEW result \in {"pass", "fail"}, OrphanSuite(o, result)
      PROVE  InMaster'
  BY <1>20 DEF OrphanSuite, Then, Noted, Passes, TypeOK, HasOwn, InMaster
<1>21. ASSUME NEW o \in orphans, OrphanLooks(o)
      PROVE  InMaster'
  BY <1>21 DEF OrphanLooks, Then, TypeOK, HasOwn, InMaster
<1>22. ASSUME NEW o \in orphans, OrphanPushes(o)
      PROVE  InMaster'
  BY <1>22 DEF OrphanPushes, Pushable, TypeOK, HasOwn, InMaster
<1>23. CASE UNCHANGED vars
  BY <1>23 DEF vars, TypeOK, HasOwn, InMaster
<1> QED
  BY <1>1, <1>2, <1>3, <1>4, <1>5, <1>6, <1>7, <1>8, <1>9, <1>10, <1>11, <1>12, <1>13,
     <1>14, <1>15, <1>16, <1>17, <1>18, <1>19, <1>20, <1>21, <1>22, <1>23
     DEF Next, Turn, Work, Orphan

\* The locks of live trains are apart, and a landing train has all of its own.
LocksApart ==
    /\ \A t, u \in Train : t # u /\ Alive(t) /\ Alive(u) => locks[t] \cap locks[u] = {}
    /\ \A t \in Train : Landing(t) => locks[t] = LockAreas(t)

\* A lock is taken only when its holder is gone, and kept until the train ends.
LEMMA LocksApartStep == TypeOK /\ LocksApart /\ [Next]_vars => LocksApart'
<1> SUFFICES ASSUME TypeOK, LocksApart, [Next]_vars PROVE LocksApart'
  OBVIOUS
<1>1. ASSUME NEW t \in Train, Launch(t)
      PROVE  LocksApart'
  BY <1>1 DEF Launch, Goes, TypeOK, LocksApart, LockAreas, Alive, Gone, Landing
<1>2. ASSUME NEW t \in Train, AsksAfter(t)
      PROVE  LocksApart'
  BY <1>2 DEF AsksAfter, At, Goes, TypeOK, LocksApart, LockAreas, Alive, Gone, Landing
<1>3. ASSUME NEW t \in Train, AsksInVain(t)
      PROVE  LocksApart'
  BY <1>3 DEF AsksInVain, At, Goes, Finishes, Recorded, TypeOK, LocksApart, LockAreas, Alive, Gone,
     Landing
<1>4. ASSUME NEW t \in Train, AsksRank(t)
      PROVE  LocksApart'
  BY <1>4 DEF AsksRank, At, Goes, TypeOK, LocksApart, LockAreas, Alive, Gone, Landing
<1>5. ASSUME NEW t \in Train, TimesOut(t)
      PROVE  LocksApart'
  BY <1>5 DEF TimesOut, Waiting, Goes, Finishes, Recorded, TypeOK, LocksApart, LockAreas, Alive,
     Gone, Landing
<1>6. ASSUME NEW t \in Train, Builds(t)
      PROVE  LocksApart'
  BY <1>6 DEF Builds, At, Goes, Merged, Onto, TypeOK, LocksApart, LockAreas, Alive, Gone, Landing
<1>7. ASSUME NEW t \in Train, BuildFails(t)
      PROVE  LocksApart'
  BY <1>7 DEF BuildFails, At, Goes, Finishes, Recorded, TypeOK, LocksApart, LockAreas, Alive, Gone,
     Landing
<1>8. ASSUME NEW t \in Train, NEW a \in LockAreas(t), TakesLock(t, a)
      PROVE  LocksApart'
  BY <1>8 DEF TakesLock, At, HeldByOther, TypeOK, LocksApart, LockAreas, Alive, Gone, Landing
<1>9. ASSUME NEW t \in Train, NEW a \in LockAreas(t), LockRefused(t, a)
      PROVE  LocksApart'
  BY <1>9 DEF LockRefused, At, Goes, Finishes, Recorded, TypeOK, LocksApart, LockAreas, Alive, Gone,
     Landing
<1>10. ASSUME NEW t \in Train, LandBegins(t)
      PROVE  LocksApart'
  BY <1>10 DEF LandBegins, At, Goes, Onto, TypeOK, LocksApart, LockAreas, Alive, Gone, Landing
<1>11. ASSUME NEW t \in Train, NEW result \in {"pass", "fail"}, Suite(t, result)
      PROVE  LocksApart'
  BY <1>11 DEF Suite, At, Goes, Noted, Passes, TypeOK, LocksApart, LockAreas, Alive, Gone, Landing
<1>12. ASSUME NEW t \in Train, LastLook(t)
      PROVE  LocksApart'
  BY <1>12 DEF LastLook, At, Goes, TypeOK, LocksApart, LockAreas, Alive, Gone, Landing
<1>13. ASSUME NEW t \in Train, NEW reported \in BOOLEAN, Pushes(t, reported)
      PROVE  LocksApart'
  BY <1>13 DEF Pushes, At, Goes, Pushable, TypeOK, LocksApart, LockAreas, Alive, Gone, Landing
<1>14. ASSUME NEW t \in Train, PushRefused(t)
      PROVE  LocksApart'
  BY <1>14 DEF PushRefused, At, Goes, TypeOK, LocksApart, LockAreas, Alive, Gone, Landing
<1>15. ASSUME NEW t \in Train, MergesMoved(t)
      PROVE  LocksApart'
  BY <1>15 DEF MergesMoved, At, Goes, Merged, Onto, TypeOK, LocksApart, LockAreas, Alive, Gone, Landing
<1>16. ASSUME NEW t \in Train, Refused(t)
      PROVE  LocksApart'
  BY <1>16 DEF Refused, At, Goes, Finishes, Recorded, TypeOK, LocksApart, LockAreas, Alive, Gone,
     Landing
<1>17. ASSUME NEW t \in Train, Landed(t)
      PROVE  LocksApart'
  BY <1>17 DEF Landed, At, Goes, Finishes, Recorded, TypeOK, LocksApart, LockAreas, Alive, Gone,
     Landing
<1>18. ASSUME NEW t \in Train, Stopped(t)
      PROVE  LocksApart'
  BY <1>18 DEF Stopped, Goes, Finishes, Recorded, LeavesOrphan, TypeOK, LocksApart,
     LockAreas, Alive, Gone, Landing
<1>19. ASSUME NEW t \in Train, Killed(t)
      PROVE  LocksApart'
  BY <1>19 DEF Killed, Goes, LeavesOrphan, TypeOK, LocksApart, LockAreas, Alive, Gone, Landing
<1>20. ASSUME NEW o \in orphans, NEW result \in {"pass", "fail"}, OrphanSuite(o, result)
      PROVE  LocksApart'
  BY <1>20 DEF OrphanSuite, Then, Noted, Passes, TypeOK, LocksApart, LockAreas, Alive, Gone, Landing
<1>21. ASSUME NEW o \in orphans, OrphanLooks(o)
      PROVE  LocksApart'
  BY <1>21 DEF OrphanLooks, Then, TypeOK, LocksApart, LockAreas, Alive, Gone, Landing
<1>22. ASSUME NEW o \in orphans, OrphanPushes(o)
      PROVE  LocksApart'
  BY <1>22 DEF OrphanPushes, Pushable, TypeOK, LocksApart, LockAreas, Alive, Gone, Landing
<1>23. CASE UNCHANGED vars
  BY <1>23 DEF vars, TypeOK, LocksApart, LockAreas, Alive, Gone, Landing
<1> QED
  BY <1>1, <1>2, <1>3, <1>4, <1>5, <1>6, <1>7, <1>8, <1>9, <1>10, <1>11, <1>12, <1>13,
     <1>14, <1>15, <1>16, <1>17, <1>18, <1>19, <1>20, <1>21, <1>22, <1>23
     DEF Next, Turn, Work, Orphan

\* A train passes on to its ranks only when its chain has landed.
LEMMA ChainKeptStep == TypeOK /\ HasOwn /\ InMaster /\ ChainKept /\ [Next]_vars => ChainKept'
<1> SUFFICES ASSUME TypeOK, HasOwn, InMaster, ChainKept, [Next]_vars PROVE ChainKept'
  OBVIOUS
<1>1. ASSUME NEW t \in Train, Launch(t)
      PROVE  ChainKept'
  BY <1>1 DEF Launch, Goes, TypeOK, HasOwn, InMaster, ChainKept, Alive, Gone
<1>2. ASSUME NEW t \in Train, AsksAfter(t)
      PROVE  ChainKept'
  <2>1. After[t] # Nobody => After[t] \in master
    BY <1>2, TrainAssumption DEF AsksAfter, PrevOutcome, InMaster, TypeOK, Alive, Gone
  <2> QED
    BY <1>2, <2>1 DEF AsksAfter, At, Goes, TypeOK, ChainKept, Alive, Gone
<1>3. ASSUME NEW t \in Train, AsksInVain(t)
      PROVE  ChainKept'
  BY <1>3 DEF AsksInVain, At, Goes, Finishes, Recorded, TypeOK, HasOwn, InMaster,
     ChainKept, Alive, Gone
<1>4. ASSUME NEW t \in Train, AsksRank(t)
      PROVE  ChainKept'
  BY <1>4 DEF AsksRank, At, Goes, TypeOK, HasOwn, InMaster, ChainKept, Alive, Gone
<1>5. ASSUME NEW t \in Train, TimesOut(t)
      PROVE  ChainKept'
  BY <1>5 DEF TimesOut, Waiting, Goes, Finishes, Recorded, TypeOK, HasOwn, InMaster,
     ChainKept, Alive, Gone
<1>6. ASSUME NEW t \in Train, Builds(t)
      PROVE  ChainKept'
  BY <1>6 DEF Builds, At, Goes, Merged, Onto, TypeOK, HasOwn, InMaster, ChainKept, Alive,
     Gone
<1>7. ASSUME NEW t \in Train, BuildFails(t)
      PROVE  ChainKept'
  BY <1>7 DEF BuildFails, At, Goes, Finishes, Recorded, TypeOK, HasOwn, InMaster,
     ChainKept, Alive, Gone
<1>8. ASSUME NEW t \in Train, NEW a \in LockAreas(t), TakesLock(t, a)
      PROVE  ChainKept'
  BY <1>8 DEF TakesLock, At, HeldByOther, TypeOK, HasOwn, InMaster, ChainKept, Alive, Gone
<1>9. ASSUME NEW t \in Train, NEW a \in LockAreas(t), LockRefused(t, a)
      PROVE  ChainKept'
  BY <1>9 DEF LockRefused, At, Goes, Finishes, Recorded, TypeOK, HasOwn, InMaster,
     ChainKept, Alive, Gone
<1>10. ASSUME NEW t \in Train, LandBegins(t)
      PROVE  ChainKept'
  BY <1>10 DEF LandBegins, At, Goes, Onto, TypeOK, HasOwn, InMaster, ChainKept, Alive, Gone
<1>11. ASSUME NEW t \in Train, NEW result \in {"pass", "fail"}, Suite(t, result)
      PROVE  ChainKept'
  BY <1>11 DEF Suite, At, Goes, Noted, Passes, TypeOK, HasOwn, InMaster, ChainKept,
     Alive, Gone
<1>12. ASSUME NEW t \in Train, LastLook(t)
      PROVE  ChainKept'
  BY <1>12 DEF LastLook, At, Goes, TypeOK, HasOwn, InMaster, ChainKept, Alive, Gone
<1>13. ASSUME NEW t \in Train, NEW reported \in BOOLEAN, Pushes(t, reported)
      PROVE  ChainKept'
  BY <1>13 DEF Pushes, At, Goes, Pushable, TypeOK, HasOwn, InMaster, ChainKept, Alive, Gone
<1>14. ASSUME NEW t \in Train, PushRefused(t)
      PROVE  ChainKept'
  BY <1>14 DEF PushRefused, At, Goes, TypeOK, HasOwn, InMaster, ChainKept, Alive, Gone
<1>15. ASSUME NEW t \in Train, MergesMoved(t)
      PROVE  ChainKept'
  BY <1>15 DEF MergesMoved, At, Goes, Merged, Onto, TypeOK, HasOwn, InMaster, ChainKept,
     Alive, Gone
<1>16. ASSUME NEW t \in Train, Refused(t)
      PROVE  ChainKept'
  BY <1>16 DEF Refused, At, Goes, Finishes, Recorded, TypeOK, HasOwn, InMaster,
     ChainKept, Alive, Gone
<1>17. ASSUME NEW t \in Train, Landed(t)
      PROVE  ChainKept'
  BY <1>17 DEF Landed, At, Goes, Finishes, Recorded, TypeOK, HasOwn, InMaster, ChainKept,
     Alive, Gone
<1>18. ASSUME NEW t \in Train, Stopped(t)
      PROVE  ChainKept'
  BY <1>18 DEF Stopped, Goes, Finishes, Recorded, LeavesOrphan, Landing, TypeOK, HasOwn,
     InMaster, ChainKept, Alive, Gone
<1>19. ASSUME NEW t \in Train, Killed(t)
      PROVE  ChainKept'
  BY <1>19 DEF Killed, Goes, LeavesOrphan, Landing, TypeOK, HasOwn, InMaster, ChainKept,
     Alive, Gone
<1>20. ASSUME NEW o \in orphans, NEW result \in {"pass", "fail"}, OrphanSuite(o, result)
      PROVE  ChainKept'
  BY <1>20 DEF OrphanSuite, Then, Noted, Passes, TypeOK, HasOwn, InMaster, ChainKept,
     Alive, Gone
<1>21. ASSUME NEW o \in orphans, OrphanLooks(o)
      PROVE  ChainKept'
  BY <1>21 DEF OrphanLooks, Then, TypeOK, HasOwn, InMaster, ChainKept, Alive, Gone
<1>22. ASSUME NEW o \in orphans, OrphanPushes(o)
      PROVE  ChainKept'
  BY <1>22 DEF OrphanPushes, Pushable, TypeOK, HasOwn, InMaster, ChainKept, Alive, Gone
<1>23. CASE UNCHANGED vars
  BY <1>23 DEF vars, TypeOK, HasOwn, InMaster, ChainKept, Alive, Gone
<1> QED
  BY <1>1, <1>2, <1>3, <1>4, <1>5, <1>6, <1>7, <1>8, <1>9, <1>10, <1>11, <1>12, <1>13,
     <1>14, <1>15, <1>16, <1>17, <1>18, <1>19, <1>20, <1>21, <1>22, <1>23
     DEF Next, Turn, Work, Orphan

\* Only a push moves master.
LEMMA MasterMoves ==
  ASSUME [Next]_vars, master' # master
  PROVE  \/ \E t \in Train, reported \in BOOLEAN : Pushes(t, reported)
         \/ \E o \in orphans : OrphanPushes(o)
<1>1. ASSUME NEW t \in Train, Launch(t) \/ Turn(t) \/ TimesOut(t) \/ Stopped(t) \/ Killed(t)
      PROVE  FALSE
  BY <1>1 DEF Launch, Turn, AsksAfter, AsksInVain, AsksRank, TimesOut, Stopped, Killed
<1>2. ASSUME NEW t \in Train, Work(t)
      PROVE  \E reported \in BOOLEAN : Pushes(t, reported)
  BY <1>2 DEF Work, Builds, BuildFails, TakesLock, LockRefused, LandBegins, Suite,
     LastLook, PushRefused, MergesMoved, Refused, Landed
<1>3. ASSUME Orphan
      PROVE  \E o \in orphans : OrphanPushes(o)
  BY <1>3 DEF Orphan, OrphanSuite, OrphanLooks
<1>4. ~UNCHANGED vars
  BY DEF vars
<1> QED
  BY <1>1, <1>2, <1>3, <1>4 DEF Next

\* A push that git takes contains the master it moves.
LEMMA KeepsMaster == [Next]_vars => [master \subseteq master']_vars
<1> SUFFICES ASSUME [Next]_vars, master' # master PROVE master \subseteq master'
  OBVIOUS
<1> QED
  BY MasterMoves DEF Pushes, OrphanPushes, Pushable

\* A landing has tested its head against its base.  It moves master only if that is
\* still the base: otherwise what it brings is on master already.
LEMMA LandsTested ==
    TypeOK /\ Passed /\ OneAhead /\ [Next]_vars
      => [master' # master => Passes(master', master)]_vars
<1> SUFFICES ASSUME TypeOK, Passed, OneAhead, [Next]_vars, master' # master
             PROVE  Passes(master', master)
  OBVIOUS
<1>1. ASSUME NEW head \in SUBSET Train, NEW base \in SUBSET Train, NEW t \in Train,
             head \subseteq base \cup {t}, base \subseteq master, Pushable(head), master # head
      PROVE  base = master
  BY <1>1 DEF Pushable
<1>2. ASSUME NEW t \in Train, NEW reported \in BOOLEAN, Pushes(t, reported)
      PROVE  Passes(master', master)
  <2>1. tree[t].head \in SUBSET Train /\ tree[t].base \in SUBSET Train
    BY DEF TypeOK
  <2>2. Pushable(tree[t].head) /\ master # tree[t].head /\ Landing(t)
    BY <1>2 DEF Pushes, At, Landing
  <2>3. tree[t].head \subseteq tree[t].base \cup {t} /\ tree[t].base \subseteq master
    BY <2>2 DEF OneAhead
  <2>4. tree[t].base = master
    BY <1>1, <2>1, <2>2, <2>3
  <2> QED
    BY <1>2, <2>4 DEF Pushes, At, Passed
<1>3. ASSUME NEW o \in orphans, OrphanPushes(o)
      PROVE  Passes(master', master)
  <2>1. o.head \in SUBSET Train /\ o.base \in SUBSET Train
    BY DEF TypeOK
  <2>2. Pushable(o.head) /\ master' = o.head
    BY <1>3 DEF OrphanPushes
  <2>3. o.base = master
    BY <1>1, <2>1, <2>2 DEF OneAhead
  <2> QED
    BY <1>3, <2>2, <2>3 DEF OrphanPushes, Passed
<1> QED
  BY <1>2, <1>3, MasterMoves

\* What the safety of the landings rests on.
Safe == HasOwn /\ Passed /\ OneAhead /\ InMaster /\ LocksApart /\ ChainKept

LEMMA SafeHolds == Spec => []Safe
<1>1. Init => Safe
  BY TrainAssumption
     DEF Init, Safe, HasOwn, Passed, InMaster, LocksApart, ChainKept, OneAhead,
     NoFile, NoTree, Alive, Gone, Landing
<1>2. TypeOK /\ Safe /\ [Next]_vars => Safe'
  BY HasOwnStep, PassedStep, OneAheadStep, InMasterStep, LocksApartStep, ChainKeptStep DEF Safe
<1> QED
  BY <1>1, <1>2, TypeCorrect, PTL DEF Spec

\* However the landings interleave, and whoever is stopped, killed or resumed, each
\* move of master was tested as the move it is, from the master it replaces.
THEOREM LandsAsTested == Spec => LandedAsTested
<1>1. TypeOK /\ Safe /\ [Next]_vars => [master' # master => Passes(master', master)]_vars
  BY LandsTested DEF Safe
<1> QED
  BY <1>1, TypeCorrect, SafeHolds, PTL DEF Spec, LandedAsTested

\* Where the selected tests see every change that turns a good commit bad, master is
\* never bad: trains that are good alone and bad together never both land.
THEOREM GoodStaysGood ==
  ASSUME NEW Bad, {} \notin Bad,
         \A base, head \in SUBSET Train :
             base \notin Bad /\ head \in Bad => <<base, head>> \in Fails
  PROVE  Spec => [](master \notin Bad)
<1> DEFINE Good == master \notin Bad
<1>1. Init => Good
  BY DEF Init
<1>2. TypeOK /\ TypeOK' /\ Safe /\ Good /\ [Next]_vars => Good'
  <2> SUFFICES ASSUME TypeOK, TypeOK', Safe, master \notin Bad, [Next]_vars, master' # master
               PROVE  master' \notin Bad
    OBVIOUS
  <2>1. Passes(master', master)
    BY LandsTested DEF Safe, vars
  <2> QED
    BY <2>1 DEF Passes, TypeOK
<1> HIDE DEF Good
<1>3. Spec => []Good
  BY <1>1, <1>2, TypeCorrect, SafeHolds, PTL DEF Spec
<1> QED
  BY <1>3 DEF Good

\* A chained train builds on the landing it was chained behind.
THEOREM ChainIsKept == Spec => []ChainKept
<1>1. Safe => ChainKept
  BY DEF Safe
<1> QED
  BY <1>1, SafeHolds, PTL

\* Trains of one area land one after the other, but for a web train beside another.
THEOREM OneAtATime == Spec => []OneTrainPerArea
<1>1. Safe => OneTrainPerArea
  BY DEF Safe, LocksApart, LockAreas, OneTrainPerArea, Landing, Alive, Gone
<1> QED
  BY <1>1, SafeHolds, PTL

\* Master only moves forward.
THEOREM NothingIsLost == Spec => NothingLost
<1> QED
  BY KeepsMaster, PTL DEF Spec, NothingLost

=============================================================================
