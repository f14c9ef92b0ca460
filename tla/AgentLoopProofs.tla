--------------------------- MODULE AgentLoopProofs ---------------------------
(***************************************************************************)
(* AgentLoop keeps one worker on a node: proofs for chains of any length,  *)
(* any number of tiers, attempts, deadlines, kills and closes.             *)
(***************************************************************************)
EXTENDS AgentLoop, FiniteSetTheorems, WellFoundedInduction, TLAPS

\* Where a node worker is before and while it has a courier to mind.
Unsent == {"boot", "render", "prep", "send", "sending"}
AtWork == Unsent \cup {"unsure", "receipt", "watch"}

\* Run r will have no courier from now on: it had one that is gone, its worker
\* is past the send, or it was dispatched and its worker is never launched.
Over(r) ==
    \/ courier[r] = "gone"
    \/ courier[r] = "none" /\ proc[r] \in {"end", "gone"}
    \/ /\ proc[r] = "none" /\ run[r].state \notin {"none", "queued"}
       /\ ~(visit.at = "launch" /\ visit.of = r)

\* Run r's courier has written, and nobody takes the file away.
Served(r) == output[r] # "none" /\ proc[r] \in {"end", "gone"}

\* The chain has no gaps, and who works on a run, works on a minted one.  A run
\* that was dispatched is never queued again, by no copy that is written back.
Chain ==
    /\ \E n \in Run : Minted = 1 .. n
    /\ visit.at # "idle" => visit.of \in Minted
    /\ \A r \in Run : /\ proc[r] # "none" => run[r].state \notin {"none", "queued"}
                      /\ Held(r) => r \in Minted
                      /\ draft[r].state # "queued"
                      /\ proc[r] = "render" => draft[r].state # "none"

\* What a worker has done when it is where it is.
Sends ==
    \A r \in Run :
        /\ proc[r] \in Unsent \cup {"none"} => courier[r] = "none"
        /\ sent[r] \in {"none", "logged"} => courier[r] = "none"
        /\ proc[r] = "none" => sent[r] = "none" /\ output[r] = "none"

\* What a visit knows of the node besides the records it loaded.
Visits ==
    /\ visit.at \in {"tick", "mint", "claim", "dispatch", "launch"} => ~Followed(visit.of)
    /\ visit.at \in {"claim", "dispatch", "launch"} => proc[visit.of] = "none"
    /\ visit.at \in {"claim", "dispatch"} =>
          run[visit.of].state = "queued" /\ NextTier(run[visit.of]) # 0
    /\ visit.at = "launch" => run[visit.of].state # "queued"
    /\ visit.at = "tick" /\ visit.rec.state = "queued" => run[visit.of] = visit.rec
    /\ visit.at = "mint" => NextTier(visit.rec) # 0
    /\ visit.at = "mark" => visit.rec.state = "timeout"
    /\ visit.at \in {"mint", "claim"} => \A r \in Run : ~Held(r)
    /\ visit.expired => Expired(visit.of)
    /\ visit.at \in {"mark", "requeue"} /\ visit.proof => Over(visit.of)

\* What a record says of its run, however old the copy: a launch failure and a
\* close with proof are final, and so is a result.
Fits(r, rec) ==
    /\ rec.why = "launch" \/ rec.closed = "proof" => Over(r)
    /\ rec.state \in {"result", "verify_pass", "verify_fail", "fixback"} => Served(r)

Copies ==
    /\ \A r \in Run : Fits(r, run[r]) /\ Fits(r, draft[r]) /\ Fits(r, visit.older[r])
    /\ Fits(visit.of, visit.rec)

\* Run r has a courier that may edit the files, or a worker that may start one.
Dangerous(r) ==
    /\ ~Expired(r) /\ courier[r] # "gone"
    /\ proc[r] \in AtWork \/ (courier[r] = "running" /\ output[r] = "none")

OneHeld == \A r, s \in Run : Held(r) /\ Held(s) => r = s

Leases ==
    HasFiles => /\ \A r \in Run : Dangerous(r) => Held(r)
                /\ visit.at \in {"dispatch", "launch"} => Held(visit.of)
                /\ \A r \in Run : proc[r] \in Unsent /\ ~Expired(r) => ~Followed(r)

IInv == TypeOK /\ Chain /\ Sends /\ Visits /\ Copies /\ OneHeld /\ Leases

-----------------------------------------------------------------------------
(* Numbers of runs and tiers.                                              *)

LEMMA MinInSet ==
  ASSUME NEW S \in SUBSET Nat, S # {}
  PROVE  Min(S) \in S
<1> DEFINE R == OpToRel(<, Nat)
<1>1. IsWellFoundedOn(R, Nat)
  BY NatLessThanWellFounded
<1> HIDE DEF R
<1>2. PICK x \in S : \A y \in S : ~(<<y, x>> \in R)
  BY <1>1, WFMin
<1>3. ASSUME NEW y \in S PROVE x <= y
  <2>1. x \in Nat /\ y \in Nat /\ ~(<<y, x>> \in R)
    BY <1>2
  <2>2. ~(y < x)
    BY <2>1 DEF R, OpToRel
  <2> QED BY <2>1, <2>2
<1> QED BY <1>3 DEF Min

\* A next tier is one of the tiers, unless there is none.
LEMMA NextTierIsTier ==
  ASSUME NEW rec, NextTier(rec) # 0
  PROVE  NextTier(rec) \in Tier
<1> DEFINE open == {t \in Tier : t >= rec.tier /\ rec.attempts[t] < AttemptsPerTier}
<1>1. open # {} /\ NextTier(rec) = Min(open)
  BY DEF NextTier
<1>2. open \in SUBSET Nat
  BY BoundsAssumption DEF Tier
<1> QED BY <1>1, <1>2, MinInSet

\* In a chain without gaps the newest run is the last, and the next number is
\* the next run.
LEMMA ChainEnds ==
  ASSUME NEW n \in Run, Minted = 1 .. n
  PROVE  /\ Latest = n /\ Fresh = n + 1
         /\ \A r \in Run : Followed(r) <=> r < n
<1>0. n \in Nat \ {0} /\ \A r \in Run : r \in Nat \ {0}
  BY BoundsAssumption DEF Run
<1>1. Latest = n
  <2>1. n \in 1 .. n /\ \A x \in 1 .. n : n >= x
    BY <1>0
  <2>2. \A x \in 1 .. n : (\A y \in 1 .. n : x >= y) => x = n
    BY <1>0
  <2> QED BY <2>1, <2>2 DEF Latest, Max
<1>2. Fresh = n + 1
  BY <1>0, FS_Interval DEF Fresh
<1>3. \A r \in Run : Followed(r) <=> r < n
  BY <1>0 DEF Followed
<1> QED BY <1>1, <1>2, <1>3

-----------------------------------------------------------------------------
(* Records.                                                                *)

LEMMA RecordsMove ==
  ASSUME NEW rec \in Records,
         NEW s \in {"result", "started", "verify_pass", "verify_fail", "fixback", "escalated",
                    "timeout"},
         NEW why \in {"other", "launch", "invalid", "crash", "dead"}
  PROVE  Moved(rec, s, why) \in Records
  BY DEF Moved, Records

LEMMA RecordsDispatch ==
  ASSUME NEW rec \in Records, NEW t \in Tier
  PROVE  Dispatched(rec, t) \in Records /\ Dispatched(rec, t).state = "dispatched"
<1>1. [rec.attempts EXCEPT ![t] = @ + 1] \in [Tier -> Nat]
  BY DEF Records
<1>2. Dispatched(rec, t) =
        [rec EXCEPT !.state = "dispatched", !.why = "other", !.tier = t,
                    !.attempts = [rec.attempts EXCEPT ![t] = @ + 1], !.ledger = FALSE]
  BY DEF Dispatched, Records
<1> QED BY <1>1, <1>2 DEF Records

LEMMA RecordsFollow ==
  ASSUME NEW rec \in Records, NextTier(rec) # 0
  PROVE  /\ Successor(rec) \in Records /\ Successor(rec).state = "queued"
         /\ Successor(rec).why = "other" /\ Successor(rec).closed = "no"
         /\ NextTier(Successor(rec)) # 0
<1>1. NextTier(rec) \in Tier
  BY NextTierIsTier
<1>2. /\ Successor(rec) \in Records /\ Successor(rec).state = "queued"
      /\ Successor(rec).why = "other" /\ Successor(rec).closed = "no"
      /\ Successor(rec).tier = NextTier(rec) /\ Successor(rec).attempts = rec.attempts
  BY <1>1 DEF Successor, Records
<1> DEFINE open == {t \in Tier : t >= rec.tier /\ rec.attempts[t] < AttemptsPerTier}
           left == {t \in Tier : t >= NextTier(rec) /\ rec.attempts[t] < AttemptsPerTier}
<1>3. NextTier(rec) \in left
  <2>1. open # {} /\ NextTier(rec) = Min(open)
    BY DEF NextTier
  <2>2. open \in SUBSET Nat
    BY BoundsAssumption DEF Tier
  <2>3. Min(open) \in open
    BY <2>1, <2>2, MinInSet
  <2> QED BY <1>1, <2>1, <2>3 DEF Tier
<1>4. NextTier(Successor(rec)) = Min(left)
  BY <1>2, <1>3 DEF NextTier
<1>5. Min(left) \in left
  <2>1. left \in SUBSET Nat
    BY BoundsAssumption DEF Tier
  <2> QED BY <1>3, <2>1, MinInSet
<1>6. Min(left) # 0
  BY <1>5 DEF Tier
<1> QED BY <1>2, <1>4, <1>6

LEMMA NoRunTyped == NoRun \in Records /\ NoVisit.rec = NoRun /\ NoRun.state = "none"
                    /\ NoRun.why = "other" /\ NoRun.closed = "no"
<1>1. 1 \in Tier /\ 1 \in Run
  BY BoundsAssumption DEF Tier, Run
<1> QED BY <1>1 DEF NoRun, Records, NoVisit

\* A worker's transition: the record it wants, an escalation, or nothing.
LEMMA WorkerMove ==
  ASSUME TypeOK, NEW r \in Run, NEW rec, NEW next, WorkerMoves(r, rec, next)
  PROVE  /\ \A s \in Run \ {r} : run'[s] = run[s] /\ proc'[s] = proc[s]
         /\ \/ run' = run /\ proc' = [proc EXCEPT ![r] = "gone"]
            \/ /\ run' = [run EXCEPT ![r] = rec] /\ proc' = [proc EXCEPT ![r] = next]
               /\ CanMove(run[r].state, rec.state)
            \/ /\ run' = [run EXCEPT ![r] = Moved(run[r], "escalated", "crash")]
               /\ proc' = [proc EXCEPT ![r] = "end"]
               /\ CanMove(run[r].state, "escalated")
<1> DEFINE crash == Moved(run[r], "escalated", "crash")
<1>1. crash.state = "escalated"
  BY DEF Moved, TypeOK, Records
<1>2. CASE CanMove(run[r].state, rec.state)
  BY <1>2 DEF WorkerMoves, TypeOK
<1>3. CASE ~CanMove(run[r].state, rec.state)
  <2>1. CASE CanMove(run[r].state, "escalated")
    BY <1>1, <1>3, <2>1 DEF WorkerMoves, TypeOK
  <2>2. CASE ~CanMove(run[r].state, "escalated")
    BY <1>1, <1>3, <2>2 DEF WorkerMoves, TypeOK
  <2> QED BY <2>1, <2>2
<1> QED BY <1>2, <1>3

\* Where a node worker can be.
Phase == {"none", "boot", "render", "prep", "send", "sending", "unsure", "receipt",
          "watch", "end", "gone"}

LEMMA MoveTyped ==
  ASSUME TypeOK, NEW r \in Run, NEW rec \in Records, NEW next \in Phase,
         WorkerMoves(r, rec, next)
  PROVE  run' \in [Run -> Records] /\ proc' \in [Run -> Phase]
<1>1. Moved(run[r], "escalated", "crash") \in Records
  BY RecordsMove DEF TypeOK
<1>2. run \in [Run -> Records] /\ proc \in [Run -> Phase]
  BY DEF TypeOK, Phase
<1> QED BY <1>1, <1>2, WorkerMove DEF Phase

-----------------------------------------------------------------------------
(* Every step keeps the types.                                             *)

LEMMA CloseTyped ==
  ASSUME TypeOK, NEW R, Close(R)
  PROVE  /\ lease' \in [Run -> {"none", "held", "closed"}]
         /\ \A r \in Run : lease'[r] = IF r \in R /\ Held(r) THEN "closed" ELSE lease[r]
  BY DEF Close, TypeOK

LEMMA TypeTick == IInv /\ LoopTick => TypeOK'
<1> SUFFICES ASSUME IInv, LoopTick PROVE TypeOK'
  OBVIOUS
<1>0. TypeOK /\ Chain /\ Visits
  BY DEF IInv
<1>1. PICK n \in Run : /\ Minted = 1 .. n /\ Latest = n /\ Fresh = n + 1
  BY <1>0, ChainEnds DEF Chain
<1>2. /\ NoRun \in Records
      /\ NoVisit.rec = NoRun
  BY NoRunTyped
<1> DEFINE VisitType == [at: {"idle", "tick", "mint", "claim", "dispatch", "launch",
                              "inspect", "mark", "requeue"},
                         of: Run, rec: Records, older: [Run -> Records],
                         proof: BOOLEAN, expired: BOOLEAN]
<1>3. NoVisit \in VisitType /\ visit \in VisitType
  <2>1. 1 \in Run
    BY BoundsAssumption DEF Run
  <2> QED BY <1>0, <1>2, <2>1 DEF NoVisit, TypeOK
<1>4. CASE TickBegins
  <2>1. lease' \in [Run -> {"none", "held", "closed"}]
    BY <1>0, <1>4, CloseTyped DEF TickBegins
  <2>2. visit' \in VisitType
    BY <1>0, <1>1, <1>2, <1>3, <1>4 DEF TickBegins, TypeOK
  <2> QED BY <1>0, <1>4, <2>1, <2>2 DEF TickBegins, TypeOK
<1>5. CASE TickPasses
  <2>1. lease' \in [Run -> {"none", "held", "closed"}]
    BY <1>0, <1>5, CloseTyped DEF TickPasses
  <2> QED BY <1>0, <1>3, <1>5, <2>1 DEF TickPasses, Ends, TypeOK
<1>6. CASE TickMarksSilent
  BY <1>0, <1>6 DEF TickMarksSilent, TypeOK
<1>7. CASE TickTimesOut
  <2>1. Moved(run[visit.of], "timeout", "other") \in Records
    BY <1>0, RecordsMove DEF TypeOK
  <2>2. CASE CanMove(run[visit.of].state, "timeout")
    <3>1. lease' \in [Run -> {"none", "held", "closed"}]
      BY <1>0, <1>7, <2>2, CloseTyped DEF TickTimesOut
    <3>2. run' \in [Run -> Records] /\ visit' \in VisitType
      BY <1>0, <1>3, <1>7, <2>1, <2>2 DEF TickTimesOut, TypeOK
    <3> QED BY <1>0, <1>7, <3>1, <3>2 DEF TickTimesOut, TypeOK
  <2>3. CASE ~CanMove(run[visit.of].state, "timeout")
    BY <1>0, <1>3, <1>7, <2>3 DEF TickTimesOut, Ends, TypeOK
  <2> QED BY <2>2, <2>3
<1>8. CASE TickFollowsUp
  <2>1. lease' \in [Run -> {"none", "held", "closed"}]
    BY <1>0, <1>8, CloseTyped DEF TickFollowsUp
  <2>2. PICK s \in {"fixback", "escalated"} :
          /\ run' = [run EXCEPT ![visit.of] = Moved(run[visit.of], s, "other")]
          /\ visit' \in {NoVisit, [visit EXCEPT !.rec = Moved(run[visit.of], s, "other")]}
    BY <1>8 DEF TickFollowsUp, Ends
  <2>3. Moved(run[visit.of], s, "other") \in Records
    BY <1>0, RecordsMove DEF TypeOK
  <2>4. run' \in [Run -> Records] /\ visit' \in VisitType
    BY <1>0, <1>3, <2>2, <2>3 DEF TypeOK
  <2> QED BY <1>0, <1>8, <2>1, <2>4 DEF TickFollowsUp, TypeOK
<1>9. CASE TickExhausted
  <2>1. Moved(run[visit.of], "escalated", "other") \in Records
    BY <1>0, RecordsMove DEF TypeOK
  <2>2. run' \in [Run -> Records]
    BY <1>0, <1>9, <2>1 DEF TickExhausted, TypeOK
  <2> QED BY <1>0, <1>3, <1>9, <2>2 DEF TickExhausted, Ends, TypeOK
<1>10. CASE TickFreesLeases
  <2>1. PICK dead : Close(dead)
    BY <1>10 DEF TickFreesLeases
  <2>2. lease' \in [Run -> {"none", "held", "closed"}]
    BY <1>0, <2>1, CloseTyped
  <2>3. visit' \in VisitType
    BY <1>3, <1>10 DEF TickFreesLeases, Ends, Goes, Starts
  <2> QED BY <1>0, <1>10, <2>2, <2>3 DEF TickFreesLeases, TypeOK
<1>11. CASE TickMints
  <2>1. Successor(visit.rec) \in Records
    BY <1>0, <1>11, RecordsFollow DEF TickMints, TypeOK, Visits
  <2> QED BY <1>0, <1>3, <1>11, <2>1 DEF TickMints, Starts, TypeOK
<1>12. CASE TickClaims
  <2>1. Moved(run[visit.of], "escalated", "other") \in Records
    BY <1>0, RecordsMove DEF TypeOK
  <2>2. run' \in [Run -> Records] /\ lease' \in [Run -> {"none", "held", "closed"}]
    BY <1>0, <1>12, <2>1 DEF TickClaims, TypeOK
  <2> QED BY <1>0, <1>3, <1>12, <2>2 DEF TickClaims, Ends, Goes, TypeOK
<1>13. CASE TickDispatches
  <2>1. NextTier(run[visit.of]) \in Tier
    BY <1>0, <1>13, NextTierIsTier DEF TickDispatches, Visits
  <2>2. Dispatched(run[visit.of], NextTier(run[visit.of])) \in Records
    BY <1>0, <2>1, RecordsDispatch DEF TypeOK
  <2>3. run' \in [Run -> Records]
    BY <1>0, <1>13, <2>2 DEF TickDispatches, TypeOK
  <2> QED BY <1>0, <1>3, <1>13, <2>3 DEF TickDispatches, Ends, Goes, TypeOK
<1>14. CASE TickLaunches
  <2>1. Moved(run[visit.of], "timeout", "launch") \in Records
    BY <1>0, RecordsMove DEF TypeOK
  <2>2. run' \in [Run -> Records] /\ proc' \in [Run -> Phase]
    BY <1>0, <1>14, <2>1 DEF TickLaunches, TypeOK, Phase
  <2> QED BY <1>0, <1>3, <1>14, <2>2 DEF TickLaunches, Ends, TypeOK, Phase
<1> QED BY <1>4, <1>5, <1>6, <1>7, <1>8, <1>9, <1>10, <1>11, <1>12, <1>13, <1>14 DEF LoopTick

LEMMA TypeInspect == IInv /\ (Inspect \/ VisitKilled) => TypeOK'
<1> SUFFICES ASSUME IInv, Inspect \/ VisitKilled PROVE TypeOK'
  OBVIOUS
<1>0. TypeOK /\ Chain /\ Visits
  BY DEF IInv
<1>1. PICK n \in Run : /\ Minted = 1 .. n /\ Latest = n /\ Fresh = n + 1
  BY <1>0, ChainEnds DEF Chain
<1> DEFINE VisitType == [at: {"idle", "tick", "mint", "claim", "dispatch", "launch",
                              "inspect", "mark", "requeue"},
                         of: Run, rec: Records, older: [Run -> Records],
                         proof: BOOLEAN, expired: BOOLEAN]
<1>2. NoVisit \in VisitType /\ visit \in VisitType
  <2>1. 1 \in Run
    BY BoundsAssumption DEF Run
  <2> QED BY <1>0, <2>1, NoRunTyped DEF NoVisit, TypeOK
<1>3. CASE InspectBegins
  <2>1. visit' \in VisitType
    <3>1. Expired(Latest) \in BOOLEAN
      BY DEF Expired
    <3> QED BY <1>0, <1>1, <1>2, <1>3, <3>1 DEF InspectBegins, TypeOK
  <2> QED BY <1>0, <1>3, <2>1 DEF InspectBegins, TypeOK
<1>4. CASE InspectCloses
  <2>1. Moved(run[visit.of], "timeout", "dead") \in Records
    BY <1>0, RecordsMove DEF TypeOK
  <2>2. ProofDead(visit.of, visit.rec) \in BOOLEAN
    BY DEF ProofDead, PidKnown, SeenAlive, SilentLaunch
  <2>3. run' \in [Run -> Records] /\ visit' \in VisitType
    <3>1. CASE CanMove(run[visit.of].state, "timeout")
      <4> DEFINE rec == Moved(run[visit.of], "timeout", "dead")
                 dead == ProofDead(visit.of, visit.rec)
      <4>1. /\ run' = [run EXCEPT ![visit.of] = rec]
            /\ visit' = [visit EXCEPT !.at = "mark", !.rec = rec, !.proof = dead]
        BY <1>4, <3>1 DEF InspectCloses
      <4>2. rec \in Records /\ dead \in BOOLEAN
        BY <2>1, <2>2
      <4> HIDE DEF rec, dead
      <4> QED BY <1>0, <1>2, <4>1, <4>2 DEF TypeOK
    <3>2. CASE ~CanMove(run[visit.of].state, "timeout")
      BY <1>0, <1>2, <1>4, <3>2 DEF InspectCloses, Ends, TypeOK
    <3> QED BY <3>1, <3>2
  <2> QED BY <1>0, <1>4, <2>3 DEF InspectCloses, TypeOK
<1>5. CASE InspectTakesUp
  <2>1. (ProofDead(visit.of, visit.rec) \/ visit.rec.closed = "proof") \in BOOLEAN
    OBVIOUS
  <2>2. visit' \in VisitType
    BY <1>2, <1>5, <2>1 DEF InspectTakesUp
  <2> QED BY <1>0, <1>5, <2>2 DEF InspectTakesUp, TypeOK
<1>6. CASE InspectMarks
  <2>1. [visit.rec EXCEPT !.closed = IF visit.proof THEN "proof" ELSE "noproof"] \in Records
    BY <1>0 DEF TypeOK, Records
  <2>2. run' \in [Run -> Records] /\ visit' \in VisitType
    BY <1>0, <1>2, <1>6, <2>1 DEF InspectMarks, TypeOK
  <2> QED BY <1>0, <1>6, <2>2 DEF InspectMarks, TypeOK
<1>7. CASE InspectMints
  <2>1. Successor(visit.rec) \in Records
    BY <1>0, <1>7, RecordsFollow DEF InspectMints, TypeOK
  <2>2. lease' \in [Run -> {"none", "held", "closed"}]
    BY <1>0, <1>7, CloseTyped DEF InspectMints
  <2> QED BY <1>0, <1>2, <1>7, <2>1, <2>2 DEF InspectMints, Ends, TypeOK
<1>8. CASE InspectGivesUp
  <2>1. Moved(run[visit.of], "escalated", "other") \in Records
    BY <1>0, RecordsMove DEF TypeOK
  <2>2. lease' \in [Run -> {"none", "held", "closed"}]
    BY <1>0, <1>8, CloseTyped DEF InspectGivesUp
  <2>3. run' \in [Run -> Records]
    BY <1>0, <1>8, <2>1 DEF InspectGivesUp, TypeOK
  <2> QED BY <1>0, <1>2, <1>8, <2>2, <2>3 DEF InspectGivesUp, Ends, TypeOK
<1>9. CASE InspectPasses
  BY <1>0, <1>2, <1>9 DEF InspectPasses, Ends, TypeOK
<1>10. CASE VisitKilled
  BY <1>0, <1>2, <1>10, BoundsAssumption DEF VisitKilled, Fault, Ends, TypeOK
<1> QED BY <1>3, <1>4, <1>5, <1>6, <1>7, <1>8, <1>9, <1>10 DEF Inspect

LEMMA TypeWorker ==
  ASSUME IInv, NEW r \in Run, Worker(r)
  PROVE  TypeOK'
<1>0. TypeOK /\ run[r] \in Records /\ r \in Run
  BY DEF IInv, TypeOK
<1>1. ASSUME NEW s \in {"result", "started", "escalated", "timeout"},
             NEW why \in {"other", "launch", "invalid", "crash", "dead"},
             NEW next \in Phase, WorkerMoves(r, Moved(run[r], s, why), next)
      PROVE  run' \in [Run -> Records] /\ proc' \in [Run -> Phase]
  <2>1. Moved(run[r], s, why) \in Records
    BY <1>0, RecordsMove
  <2> QED BY <1>0, <1>1, <2>1, MoveTyped
<1>2. CASE WorkerBoots(r)
  <2>1. proc' \in [Run -> Phase]
    BY <1>0, <1>2 DEF WorkerBoots, TypeOK, Phase
  <2>2. draft' \in [Run -> Records]
    BY <1>0, <1>2 DEF WorkerBoots, TypeOK
  <2> QED BY <1>0, <1>2, <2>1, <2>2 DEF WorkerBoots, TypeOK, Phase
<1>3. CASE WorkerRenders(r)
  BY <1>0, <1>3, NoRunTyped DEF WorkerRenders, TypeOK
<1>4. CASE WorkerDispatches(r)
  <2>1. run' \in [Run -> Records] /\ proc' \in [Run -> Phase]
    <3>1. CASE \E s \in {"escalated", "timeout"} : WorkerMoves(r, Moved(run[r], s, "other"), "end")
      BY <1>1, <3>1 DEF Phase
    <3>2. CASE proc' = [proc EXCEPT ![r] = "send"] /\ UNCHANGED run
      BY <1>0, <3>2 DEF TypeOK, Phase
    <3>3. CASE WorkerMoves(r, Dispatched(run[r], run[r].tier), "send")
      <4>1. Dispatched(run[r], run[r].tier) \in Records
        BY <1>0, RecordsDispatch DEF Records
      <4> QED BY <1>0, <3>3, <4>1, MoveTyped DEF Phase
    <3> QED BY <1>4, <3>1, <3>2, <3>3 DEF WorkerDispatches
  <2> QED BY <1>0, <1>4, <2>1 DEF WorkerDispatches, TypeOK, Phase
<1>5. CASE WorkerLogs(r)
  BY <1>0, <1>5 DEF WorkerLogs, TypeOK
<1>6. CASE WorkerRefused(r)
  <2>1. run' \in [Run -> Records] /\ proc' \in [Run -> Phase]
    BY <1>1, <1>6 DEF WorkerRefused, Phase
  <2> QED BY <1>0, <1>6, <2>1 DEF WorkerRefused, TypeOK, Phase
<1>7. CASE WorkerSends(r)
  <2>1. proc' \in [Run -> Phase] /\ sent' \in [Run -> {"none", "logged", "pid", "nopid"}]
    BY <1>0, <1>7 DEF WorkerSends, TypeOK, Phase
  <2> QED BY <1>0, <1>7, <2>1 DEF WorkerSends, TypeOK, Phase
<1>8. CASE WorkerUnsure(r)
  <2>1. run' \in [Run -> Records] /\ proc' \in [Run -> Phase]
    BY <1>1, <1>8 DEF WorkerUnsure, Phase
  <2> QED BY <1>0, <1>8, <2>1 DEF WorkerUnsure, TypeOK, Phase
<1>9. CASE WorkerStarted(r)
  <2>1. Moved(run[r], "started", "other") \in Records
    BY <1>0, RecordsMove
  <2>2. [Moved(run[r], "started", "other") EXCEPT !.ledger = TRUE] \in Records
    BY <2>1 DEF Records
  <2>3. run' \in [Run -> Records] /\ proc' \in [Run -> Phase]
    BY <1>0, <1>9, <2>2, MoveTyped DEF WorkerStarted, Phase
  <2> QED BY <1>0, <1>9, <2>3 DEF WorkerStarted, TypeOK, Phase
<1>10. CASE WorkerTakesResult(r)
  <2>1. run' \in [Run -> Records] /\ proc' \in [Run -> Phase]
    BY <1>1, <1>10 DEF WorkerTakesResult, Phase
  <2> QED BY <1>0, <1>10, <2>1 DEF WorkerTakesResult, TypeOK, Phase
<1>11. CASE WorkerRejectsResult(r)
  <2>1. run' \in [Run -> Records] /\ proc' \in [Run -> Phase]
    BY <1>1, <1>11 DEF WorkerRejectsResult, Phase
  <2> QED BY <1>0, <1>11, <2>1 DEF WorkerRejectsResult, TypeOK, Phase
<1>12. CASE WorkerSeesExit(r)
  <2>1. run' \in [Run -> Records] /\ proc' \in [Run -> Phase]
    <3>1. CASE UNCHANGED <<run, proc>>
      BY <1>0, <3>1 DEF TypeOK, Phase
    <3> QED BY <1>1, <1>12, <3>1 DEF WorkerSeesExit, Phase
  <2>2. output' \in [Run -> {"none", "written", "failed"}]
    BY <1>0, <1>12 DEF WorkerSeesExit, TypeOK
  <2> QED BY <1>0, <1>12, <2>1, <2>2 DEF WorkerSeesExit, TypeOK, Phase
<1>13. CASE WorkerDeadline(r)
  <2>1. run' \in [Run -> Records] /\ proc' \in [Run -> Phase]
    BY <1>1, <1>13 DEF WorkerDeadline, Phase
  <2> QED BY <1>0, <1>13, <2>1 DEF WorkerDeadline, TypeOK, Phase
<1>14. CASE WorkerEnds(r)
  <2>1. lease' \in [Run -> {"none", "held", "closed"}]
    BY <1>0, <1>14, CloseTyped DEF WorkerEnds
  <2> QED BY <1>0, <1>14, <2>1 DEF WorkerEnds, TypeOK
<1>15. CASE WorkerKilled(r)
  BY <1>0, <1>15, NoRunTyped, BoundsAssumption DEF WorkerKilled, Fault, TypeOK
<1> QED BY <1>2, <1>3, <1>4, <1>5, <1>6, <1>7, <1>8, <1>9, <1>10, <1>11, <1>12, <1>13,
           <1>14, <1>15 DEF Worker

LEMMA TypeOthers ==
  ASSUME IInv, NEW r \in Run,
         \/ WatchdogCloses(r) \/ CourierWrites(r) \/ CourierExits(r) \/ Verifies(r)
         \/ DeadlinePasses
  PROVE  TypeOK'
<1>0. TypeOK /\ run[r] \in Records /\ Chain
  BY DEF IInv, TypeOK
<1>1. CASE WatchdogCloses(r)
  <2>1. Moved(run[r], "timeout", "other") \in Records
    BY <1>0, RecordsMove
  <2> QED BY <1>0, <1>1, <2>1, BoundsAssumption DEF WatchdogCloses, Fault, TypeOK
<1>2. CASE CourierWrites(r)
  BY <1>0, <1>2 DEF CourierWrites, TypeOK
<1>3. CASE CourierExits(r)
  BY <1>0, <1>3 DEF CourierExits, TypeOK
<1>4. CASE Verifies(r)
  <2>1. \A s \in {"verify_pass", "verify_fail"} : Moved(run[r], s, "other") \in Records
    BY <1>0, RecordsMove
  <2> QED BY <1>0, <1>4, <2>1 DEF Verifies, TypeOK
<1>5. CASE DeadlinePasses
  <2>1. late + 1 \in 0 .. MaxRuns
    BY <1>0, <1>5, BoundsAssumption DEF DeadlinePasses, Minted, Run
  <2> QED BY <1>0, <1>5, <2>1 DEF DeadlinePasses, TypeOK
<1> QED BY <1>1, <1>2, <1>3, <1>4, <1>5

-----------------------------------------------------------------------------
(* What any step may do to a run: nothing goes back.                       *)

\* A minted run stays minted and a dispatched one is not queued again.
StateForward(r) ==
    /\ run[r].state # "none" => run'[r].state # "none"
    /\ run[r].state \notin {"none", "queued"} => run'[r].state # "queued"
    /\ run[r].state = "none" => run'[r].state = "none" \/ r = Fresh

\* A worker goes from the launch to its send to its end.
ProcForward(r) ==
    \/ proc'[r] = proc[r]
    \/ proc[r] = "none" /\ proc'[r] = "boot" /\ visit.at = "launch" /\ visit.of = r
    \/ /\ proc[r] \in AtWork \cup {"end"} /\ proc'[r] # "none"
       /\ proc'[r] \in AtWork => proc[r] \in AtWork
       /\ proc'[r] \in Unsent => proc[r] \in Unsent

\* One send starts one courier, and only a worker that watches discards a file.
CourierForward(r) ==
    /\ \/ courier'[r] = courier[r]
       \/ courier[r] = "running" /\ courier'[r] = "gone"
       \/ /\ proc[r] = "sending" /\ proc'[r] \in {"receipt", "unsure"}
          /\ courier'[r] = "running" /\ sent'[r] \in {"pid", "nopid"}
    /\ sent'[r] = sent[r] \/ proc[r] \in {"send", "sending"}
    /\ output'[r] = output[r] \/ proc[r] = "watch"
         \/ (courier[r] = "running" /\ output'[r] = "written")

\* A worker's draft is what it found when it booted.
DraftForward(r) ==
    \/ draft'[r] = draft[r] /\ (proc'[r] = "render" => proc[r] = "render")
    \/ draft'[r] = NoRun /\ proc'[r] # "render"
    \/ proc[r] = "boot" /\ draft'[r] = run[r]

Forward ==
    /\ \A r \in Run : /\ StateForward(r) /\ ProcForward(r)
                      /\ CourierForward(r) /\ DraftForward(r)
                      /\ Expired(r) => Expired(r)'
    /\ visit'.at = "launch" => visit.at \in {"dispatch", "launch"} /\ visit'.of = visit.of
    /\ visit'.at = "dispatch" => /\ visit'.of = visit.of
                                 /\ visit.at # "dispatch" /\ HasFiles
                                       => lease'[visit.of] = "held"

\* A visit writes records of states a run can be in, or mints the next run.
LEMMA VisitWrites ==
  ASSUME IInv, LoopTick \/ Inspect \/ VisitKilled
  PROVE  \A r \in Run : StateForward(r)
<1>0. /\ TypeOK /\ Chain /\ Visits
      /\ visit.of \in Run /\ visit.rec \in Records /\ run[visit.of] \in Records
  BY DEF IInv, TypeOK
<1>1. PICK n \in Run : Minted = 1 .. n /\ Fresh = n + 1
  BY <1>0, ChainEnds DEF Chain
<1>2. ASSUME NEW rec, run' = [run EXCEPT ![visit.of] = rec],
             rec.state \notin {"none", "queued"}, visit.at # "idle"
      PROVE  \A r \in Run : StateForward(r)
  <2>1. run[visit.of].state # "none"
    BY <1>0, <1>2 DEF Chain, Minted
  <2> QED BY <1>0, <1>2, <2>1 DEF StateForward, TypeOK
<1>3. ASSUME run' = [run EXCEPT ![Fresh] = Successor(visit.rec)], NextTier(visit.rec) # 0,
             Fresh \in Run
      PROVE  \A r \in Run : StateForward(r)
  <2>1. run[Fresh].state = "none"
    <3>1. Fresh \notin Minted
      BY <1>1, BoundsAssumption DEF Run
    <3> QED BY <1>3, <3>1 DEF Minted
  <2>2. Successor(visit.rec).state = "queued"
    BY <1>0, <1>3, RecordsFollow
  <2> QED BY <1>0, <1>3, <2>1, <2>2 DEF StateForward, TypeOK
<1>4. ASSUME NEW rec \in Records, NEW s, NEW why PROVE Moved(rec, s, why).state = s
  BY DEF Moved, Records
<1>5. CASE UNCHANGED run
  BY <1>5 DEF StateForward
<1>6. CASE TickMarksSilent
  BY <1>2, <1>6 DEF TickMarksSilent, Working
<1>7. CASE TickTimesOut \/ TickFollowsUp \/ TickExhausted \/ TickClaims \/ TickLaunches
             \/ InspectCloses \/ InspectGivesUp
  <2>1. \/ UNCHANGED run
        \/ /\ visit.at # "idle"
           /\ \E s \in {"timeout", "fixback", "escalated"},
                 why \in {"other", "launch", "dead"} :
                 run' = [run EXCEPT ![visit.of] = Moved(run[visit.of], s, why)]
    BY <1>7 DEF TickTimesOut, TickFollowsUp, TickExhausted, TickClaims, TickLaunches,
                InspectCloses, InspectGivesUp
  <2>2. ASSUME NEW s \in {"timeout", "fixback", "escalated"}, NEW why,
               run' = [run EXCEPT ![visit.of] = Moved(run[visit.of], s, why)],
               visit.at # "idle"
        PROVE  \A r \in Run : StateForward(r)
    <3>1. Moved(run[visit.of], s, why).state \notin {"none", "queued"}
      BY <1>0, <1>4
    <3> QED BY <1>2, <2>2, <3>1
  <2> QED BY <1>5, <2>1, <2>2
<1>8. CASE TickDispatches
  <2>1. NextTier(run[visit.of]) \in Tier
    BY <1>0, <1>8, NextTierIsTier DEF TickDispatches, Visits
  <2> QED BY <1>0, <1>2, <1>5, <1>8, <2>1, RecordsDispatch DEF TickDispatches
<1>9. CASE InspectMarks
  <2>1. [visit.rec EXCEPT !.closed = IF visit.proof THEN "proof" ELSE "noproof"].state = "timeout"
    BY <1>0, <1>9 DEF InspectMarks, Visits, Records
  <2> QED BY <1>2, <1>9, <2>1 DEF InspectMarks
<1>10. CASE TickMints
  BY <1>0, <1>3, <1>10 DEF TickMints, Visits
<1>11. CASE InspectMints
  BY <1>3, <1>11 DEF InspectMints
<1>12. CASE TickBegins \/ TickPasses \/ TickFreesLeases \/ InspectBegins \/ InspectTakesUp
              \/ InspectPasses \/ VisitKilled
  BY <1>5, <1>12 DEF TickBegins, TickPasses, TickFreesLeases, InspectBegins, InspectTakesUp,
                     InspectPasses, VisitKilled
<1> QED BY <1>6, <1>7, <1>8, <1>9, <1>10, <1>11, <1>12 DEF LoopTick, Inspect

LEMMA VisitForward ==
  ASSUME IInv, LoopTick \/ Inspect \/ VisitKilled
  PROVE  Forward
<1>0. TypeOK
  BY DEF IInv
<1>1. UNCHANGED <<late, draft, sent, courier, output>>
  BY DEF LoopTick, TickBegins, TickPasses, TickMarksSilent, TickTimesOut, TickFollowsUp,
         TickExhausted, TickFreesLeases, TickMints, TickClaims, TickDispatches, TickLaunches,
         Inspect, InspectBegins, InspectCloses, InspectTakesUp, InspectMarks, InspectMints,
         InspectGivesUp, InspectPasses, VisitKilled
<1>2. \/ UNCHANGED proc
      \/ /\ TickLaunches /\ proc' = [proc EXCEPT ![visit.of] = "boot"]
  BY DEF LoopTick, TickBegins, TickPasses, TickMarksSilent, TickTimesOut, TickFollowsUp,
         TickExhausted, TickFreesLeases, TickMints, TickClaims, TickDispatches, TickLaunches,
         Inspect, InspectBegins, InspectCloses, InspectTakesUp, InspectMarks, InspectMints,
         InspectGivesUp, InspectPasses, VisitKilled
<1>3. \A r \in Run : ProcForward(r) /\ proc'[r] \in {proc[r], "boot"}
  <2>1. CASE UNCHANGED proc
    BY <2>1 DEF ProcForward
  <2>2. CASE TickLaunches /\ proc' = [proc EXCEPT ![visit.of] = "boot"]
    <3>1. proc[visit.of] = "none" /\ visit.at = "launch" /\ visit.of \in Run
      BY <2>2 DEF TickLaunches, IInv, Visits, TypeOK
    <3> QED BY <1>0, <2>2, <3>1 DEF ProcForward, TypeOK
  <2> QED BY <1>2, <2>1, <2>2
<1>4. \A r \in Run : CourierForward(r) /\ DraftForward(r) /\ (Expired(r) => Expired(r)')
  BY <1>1, <1>3 DEF CourierForward, DraftForward, Expired
<1>5. /\ visit'.at = "launch" => visit.at \in {"dispatch", "launch"} /\ visit'.of = visit.of
      /\ visit'.at = "dispatch" => /\ visit'.of = visit.of
                                   /\ visit.at # "dispatch" /\ HasFiles
                                         => lease'[visit.of] = "held"
  <2>1. /\ Ends => visit'.at = "idle"
        /\ \A r : Starts("claim", r) => visit'.at = "claim"
    <3>1. ASSUME NEW r, Starts("claim", r) PROVE visit'.at = "claim"
      BY <3>1 DEF NoVisit, Starts
    <3> QED BY <3>1 DEF NoVisit, Ends
  <2>2. \A at : Goes(at) => visit'.at = at /\ visit'.of = visit.of
    BY <1>0 DEF TypeOK, Goes
  <2>3. CASE TickBegins \/ TickMarksSilent \/ InspectBegins
    BY <2>3 DEF TickBegins, TickMarksSilent, InspectBegins, NoVisit
  <2>4. CASE TickPasses \/ TickExhausted \/ TickMints \/ TickLaunches \/ VisitKilled
               \/ InspectMints \/ InspectGivesUp \/ InspectPasses
    <3>1. Ends \/ \E r : Starts("claim", r)
      BY <2>4 DEF TickPasses, TickExhausted, TickMints, TickLaunches, VisitKilled,
         InspectMints, InspectGivesUp, InspectPasses
    <3> QED BY <2>1, <3>1
  <2>5. CASE TickFreesLeases
    <3>1. Ends \/ Starts("claim", visit.of) \/ Goes("mint")
      BY <2>5 DEF TickFreesLeases
    <3> QED BY <2>1, <2>2, <3>1
  <2>6. CASE TickClaims \/ TickDispatches
    <3>1. visit.at \in {"claim", "dispatch"} /\ (Ends \/ Goes("dispatch") \/ Goes("launch"))
      BY <2>6 DEF TickClaims, TickDispatches
    <3>2. CASE TickClaims
      <4>1. Ends \/ (Goes("dispatch") /\ (HasFiles => lease' = [lease EXCEPT ![visit.of] = "held"]))
        BY <3>2 DEF TickClaims
      <4> QED BY <1>0, <2>1, <2>2, <4>1 DEF TypeOK
    <3>3. CASE TickDispatches
      <4>1. visit.at = "dispatch" /\ (Ends \/ Goes("launch"))
        BY <3>3 DEF TickDispatches
      <4> QED BY <2>1, <2>2, <4>1
    <3> QED BY <2>6, <3>2, <3>3
  <2>7. CASE TickTimesOut \/ TickFollowsUp
    BY <1>0, <2>1, <2>7 DEF TickTimesOut, TickFollowsUp, TypeOK
  <2>8. CASE InspectCloses
    <3>1. \/ Ends
          \/ \E rec, dead : visit' = [visit EXCEPT !.at = "mark", !.rec = rec, !.proof = dead]
      BY <2>8 DEF InspectCloses
    <3>2. CASE Ends
      BY <2>1, <3>2
    <3>3. ASSUME NEW rec, NEW dead,
                 visit' = [visit EXCEPT !.at = "mark", !.rec = rec, !.proof = dead]
          PROVE  visit'.at = "mark"
      BY <1>0, <3>3 DEF TypeOK
    <3> QED BY <3>1, <3>2, <3>3
  <2>9. CASE InspectTakesUp
    <3>1. \E at \in {"mark", "requeue"} : \E dead : visit' = [visit EXCEPT !.at = at, !.proof = dead]
      BY <2>9 DEF InspectTakesUp
    <3> QED BY <1>0, <3>1 DEF TypeOK
  <2>10. CASE InspectMarks
    BY <1>0, <2>10 DEF InspectMarks, TypeOK
  <2> QED BY <2>3, <2>4, <2>5, <2>6, <2>7, <2>8, <2>9, <2>10 DEF LoopTick, Inspect
<1> QED BY <1>3, <1>4, <1>5, VisitWrites DEF Forward

\* A worker's transition of a run that was dispatched, and where it leaves it.
LEMMA MoveForward ==
  ASSUME TypeOK, Chain, NEW r \in Run, proc[r] # "none", NEW rec, NEW next,
         WorkerMoves(r, rec, next)
  PROVE  /\ \A s \in Run \ {r} : run'[s] = run[s] /\ proc'[s] = proc[s]
         /\ run'[r].state \notin {"none", "queued"}
         /\ proc'[r] \in {next, "end", "gone"}
<1>1. run[r] \in Records /\ run[r].state \notin {"none", "queued"}
  BY DEF TypeOK, Chain
<1>2. Moved(run[r], "escalated", "crash").state = "escalated"
  BY <1>1 DEF Moved, Records
<1>3. \A from, to : CanMove(from, to) => to \notin {"none", "queued"}
  BY DEF CanMove
<1>4. run \in [Run -> Records] /\ proc \in [Run -> Phase]
  BY DEF TypeOK, Phase
<1> QED BY <1>1, <1>2, <1>3, <1>4, WorkerMove

LEMMA WorkerForward ==
  ASSUME IInv, NEW r \in Run, Worker(r)
  PROVE  Forward
<1>0. /\ TypeOK /\ Chain
      /\ run \in [Run -> Records] /\ proc \in [Run -> Phase] /\ draft \in [Run -> Records]
  BY DEF IInv, TypeOK, Phase
<1>1. UNCHANGED <<late, visit>> /\ proc[r] \notin {"none", "gone"}
  BY DEF Worker, WorkerBoots, WorkerRenders, WorkerDispatches, WorkerLogs, WorkerRefused,
         WorkerSends, WorkerUnsure, WorkerStarted, WorkerTakesResult, WorkerRejectsResult,
         WorkerSeesExit, WorkerDeadline, WorkerEnds, WorkerKilled
<1>2. run[r].state \notin {"none", "queued"} /\ proc[r] \in AtWork \cup {"end"}
  BY <1>0, <1>1 DEF Chain, Phase, AtWork, Unsent
\* Nothing else is touched, and the run is somewhere behind where it was.
<1> DEFINE Ahead == /\ \A s \in Run \ {r} : run'[s] = run[s] /\ proc'[s] = proc[s]
                    /\ run'[r].state \notin {"none", "queued"}
                    /\ proc'[r] # "none"
                    /\ proc'[r] \in AtWork => proc[r] \in AtWork
                    /\ proc'[r] \in Unsent => proc[r] \in Unsent
           Others == \A s \in Run \ {r} : /\ courier'[s] = courier[s] /\ sent'[s] = sent[s]
                                          /\ output'[s] = output[s] /\ draft'[s] = draft[s]
<1>3. ASSUME NEW rec, NEW next, WorkerMoves(r, rec, next),
             next \in AtWork => proc[r] \in AtWork,
             next \in Unsent => proc[r] \in Unsent,
             next # "none"
      PROVE  Ahead /\ proc'[r] \in {next, "end", "gone"}
  BY <1>0, <1>1, <1>3, MoveForward DEF AtWork, Unsent
<1>4. Ahead
  <2>1. CASE WorkerBoots(r)
    BY <1>0, <1>2, <2>1 DEF WorkerBoots, AtWork, Unsent
  <2>2. CASE WorkerRenders(r)
    <3>1. draft[r].state \notin {"none", "queued"}
      BY <1>0, <2>2 DEF WorkerRenders, Chain
    <3> QED BY <1>0, <2>2, <3>1 DEF WorkerRenders, AtWork, Unsent
  <2>3. CASE WorkerDispatches(r)
    <3>1. \/ \E s : WorkerMoves(r, Moved(run[r], s, "other"), "end")
          \/ WorkerMoves(r, Dispatched(run[r], run[r].tier), "send")
          \/ proc' = [proc EXCEPT ![r] = "send"] /\ UNCHANGED run
      BY <2>3 DEF WorkerDispatches
    <3>2. proc[r] = "prep"
      BY <2>3 DEF WorkerDispatches
    <3>3. CASE proc' = [proc EXCEPT ![r] = "send"] /\ UNCHANGED run
      BY <1>0, <1>2, <3>2, <3>3 DEF AtWork, Unsent
    <3> QED BY <1>3, <3>1, <3>2, <3>3 DEF AtWork, Unsent
  <2>4. CASE WorkerLogs(r) \/ WorkerSends(r)
    BY <1>0, <1>2, <2>4 DEF WorkerLogs, WorkerSends, AtWork, Unsent
  <2>5. CASE WorkerRefused(r) \/ WorkerUnsure(r) \/ WorkerRejectsResult(r) \/ WorkerDeadline(r)
    <3>1. \E rec : WorkerMoves(r, rec, "end")
      BY <2>5 DEF WorkerRefused, WorkerUnsure, WorkerRejectsResult, WorkerDeadline
    <3> QED BY <1>3, <3>1 DEF AtWork, Unsent
  <2>6. CASE WorkerStarted(r)
    BY <1>3, <2>6 DEF WorkerStarted, AtWork, Unsent
  <2>7. CASE WorkerTakesResult(r)
    BY <1>3, <2>7 DEF WorkerTakesResult, AtWork, Unsent
  <2>8. CASE WorkerSeesExit(r)
    <3>1. CASE UNCHANGED <<run, proc>>
      BY <1>1, <1>2, <3>1
    <3> QED BY <1>3, <2>8, <3>1 DEF WorkerSeesExit, AtWork, Unsent
  <2>9. CASE WorkerEnds(r) \/ WorkerKilled(r)
    BY <1>0, <1>2, <2>9 DEF WorkerEnds, WorkerKilled, AtWork, Unsent
  <2> QED BY <2>1, <2>2, <2>3, <2>4, <2>5, <2>6, <2>7, <2>8, <2>9 DEF Worker
<1>5. Others
  BY <1>0 DEF TypeOK, Worker, WorkerBoots, WorkerRenders, WorkerDispatches, WorkerLogs,
         WorkerRefused, WorkerSends, WorkerUnsure, WorkerStarted, WorkerTakesResult,
         WorkerRejectsResult, WorkerSeesExit, WorkerDeadline, WorkerEnds, WorkerKilled
<1>6. CourierForward(r)
  <2>1. CASE WorkerLogs(r)
    BY <1>0, <2>1 DEF WorkerLogs, CourierForward, TypeOK
  <2>2. CASE WorkerSends(r)
    BY <1>0, <2>2 DEF WorkerSends, CourierForward, TypeOK
  <2>3. CASE WorkerRejectsResult(r)
    BY <1>0, <2>3 DEF WorkerRejectsResult, CourierForward, TypeOK
  <2>4. CASE WorkerSeesExit(r)
    BY <1>0, <2>4 DEF WorkerSeesExit, CourierForward, TypeOK
  <2>5. CASE UNCHANGED <<sent, courier, output>>
    BY <2>5 DEF CourierForward
  <2> QED BY <2>1, <2>2, <2>3, <2>4, <2>5 DEF Worker, WorkerBoots, WorkerRenders,
         WorkerDispatches, WorkerRefused, WorkerUnsure, WorkerStarted, WorkerTakesResult,
         WorkerDeadline, WorkerEnds, WorkerKilled
<1>7. DraftForward(r)
  <2>1. CASE WorkerBoots(r)
    BY <1>0, <2>1 DEF WorkerBoots, DraftForward, TypeOK
  <2>2. CASE WorkerRenders(r) \/ WorkerKilled(r)
    BY <1>0, <2>2 DEF WorkerRenders, WorkerKilled, DraftForward, TypeOK
  <2>3. CASE UNCHANGED draft /\ ~WorkerBoots(r)
    <3>1. proc'[r] # "render"
      <4>1. \A rec, next : WorkerMoves(r, rec, next) => proc'[r] \in {next, "end", "gone"}
        BY <1>0, <1>1, MoveForward
      <4> QED BY <1>0, <2>3, <4>1 DEF Worker, WorkerRenders,
         WorkerDispatches, WorkerLogs, WorkerRefused, WorkerSends, WorkerUnsure, WorkerStarted,
         WorkerTakesResult, WorkerRejectsResult, WorkerSeesExit, WorkerDeadline, WorkerEnds,
         WorkerKilled
    <3> QED BY <2>3, <3>1 DEF DraftForward
  <2> QED BY <2>1, <2>2, <2>3 DEF Worker, WorkerDispatches, WorkerLogs,
         WorkerRefused, WorkerSends, WorkerUnsure, WorkerStarted, WorkerTakesResult,
         WorkerRejectsResult, WorkerSeesExit, WorkerDeadline, WorkerEnds
<1>8. \A s \in Run : StateForward(s) /\ ProcForward(s)
  BY <1>2, <1>4 DEF StateForward, ProcForward
<1>9. \A s \in Run : CourierForward(s) /\ DraftForward(s) /\ (Expired(s) => Expired(s)')
  BY <1>1, <1>4, <1>5, <1>6, <1>7 DEF CourierForward, DraftForward, Expired
<1> QED BY <1>1, <1>8, <1>9 DEF Forward

LEMMA OthersForward ==
  ASSUME IInv, NEW r \in Run,
         \/ WatchdogCloses(r) \/ CourierWrites(r) \/ CourierExits(r) \/ Verifies(r)
         \/ DeadlinePasses
  PROVE  Forward
<1>0. TypeOK /\ run[r] \in Records
  BY DEF IInv, TypeOK
<1>1. UNCHANGED <<visit, proc, draft, sent>>
  BY DEF WatchdogCloses, CourierWrites, CourierExits, Verifies, DeadlinePasses
<1>2. \A s \in Run : ProcForward(s) /\ DraftForward(s)
  BY <1>1 DEF ProcForward, DraftForward
<1>3. \A s \in Run : StateForward(s)
  <2>1. CASE WatchdogCloses(r) \/ Verifies(r)
    <3>1. \E s, why : /\ s \in {"timeout", "verify_pass", "verify_fail"}
                      /\ run' = [run EXCEPT ![r] = Moved(run[r], s, why)]
      BY <2>1 DEF WatchdogCloses, Verifies
    <3>2. \A s, why : Moved(run[r], s, why).state = s
      BY <1>0 DEF Moved, Records
    <3>3. run[r].state # "none"
      BY <2>1 DEF WatchdogCloses, Verifies, Working
    <3> QED BY <1>0, <3>1, <3>2, <3>3 DEF StateForward, TypeOK
  <2>2. CASE UNCHANGED run
    BY <2>2 DEF StateForward
  <2> QED BY <2>1, <2>2 DEF CourierWrites, CourierExits, DeadlinePasses
<1>4. \A s \in Run : CourierForward(s)
  BY <1>0, <1>1 DEF CourierForward, WatchdogCloses, CourierWrites, CourierExits, Verifies,
                    DeadlinePasses, TypeOK
<1>5. \A s \in Run : Expired(s) => Expired(s)'
  <2>1. late' = late \/ late' = late + 1
    BY DEF WatchdogCloses, CourierWrites, CourierExits, Verifies, DeadlinePasses
  <2> QED BY <1>0, <2>1, BoundsAssumption DEF Expired, Run, TypeOK
<1> QED BY <1>1, <1>2, <1>3, <1>4, <1>5 DEF Forward

\* Every step takes every run forward.
LEMMA StepForward == IInv /\ Next => Forward
  BY VisitForward, WorkerForward, OthersForward, BoundsAssumption DEF Next, Run

LEMMA TypeStep == IInv /\ Next => TypeOK'
  BY TypeTick, TypeInspect, TypeWorker, TypeOthers, BoundsAssumption DEF Next, Run

-----------------------------------------------------------------------------
(* What holds of a run from then on.                                       *)

LEMMA OverStays ==
  ASSUME IInv, Forward, TypeOK', NEW r \in Run, Over(r)
  PROVE  Over(r)'
<1>0. /\ StateForward(r) /\ ProcForward(r) /\ CourierForward(r)
      /\ proc'[r] \in Phase /\ Sends /\ Visits
  BY DEF Forward, TypeOK, Phase, IInv
<1>1. CASE courier[r] = "gone"
  BY <1>0, <1>1 DEF CourierForward, Sends, Over, Unsent
<1>2. CASE courier[r] = "none" /\ proc[r] \in {"end", "gone"}
  <2>1. proc'[r] \in {"end", "gone"}
    BY <1>0, <1>2 DEF ProcForward, Phase, AtWork, Unsent
  <2>2. courier'[r] = "none"
    BY <1>0, <1>2 DEF CourierForward
  <2> QED BY <2>1, <2>2 DEF Over
<1>3. CASE /\ proc[r] = "none" /\ run[r].state \notin {"none", "queued"}
           /\ ~(visit.at = "launch" /\ visit.of = r)
  <2>1. proc'[r] = "none"
    BY <1>0, <1>3 DEF ProcForward, AtWork, Unsent
  <2>2. run'[r].state \notin {"none", "queued"}
    BY <1>0, <1>3 DEF StateForward
  <2>3. ~(visit'.at = "launch" /\ visit'.of = r)
    BY <1>0, <1>3 DEF Forward, Visits
  <2> QED BY <2>1, <2>2, <2>3 DEF Over
<1> QED BY <1>1, <1>2, <1>3 DEF Over

LEMMA ServedStays ==
  ASSUME IInv, Forward, TypeOK', NEW r \in Run, Served(r)
  PROVE  Served(r)'
<1>0. ProcForward(r) /\ CourierForward(r) /\ proc'[r] \in Phase
  BY DEF Forward, TypeOK, Phase
<1>1. proc'[r] \in {"end", "gone"}
  BY <1>0 DEF Served, ProcForward, Phase, AtWork, Unsent
<1>2. output'[r] # "none"
  BY <1>0 DEF Served, CourierForward
<1> QED BY <1>1, <1>2 DEF Served

\* What is over, and what fits, after the step.
OverThen(r) ==
    \/ courier'[r] = "gone"
    \/ courier'[r] = "none" /\ proc'[r] \in {"end", "gone"}
    \/ /\ proc'[r] = "none" /\ run'[r].state \notin {"none", "queued"}
       /\ ~(visit'.at = "launch" /\ visit'.of = r)

FitsThen(r, rec) ==
    /\ rec.why = "launch" \/ rec.closed = "proof" => OverThen(r)
    /\ rec.state \in {"result", "verify_pass", "verify_fail", "fixback"}
          => output'[r] # "none" /\ proc'[r] \in {"end", "gone"}

LEMMA FitsStays ==
  ASSUME IInv, Forward, TypeOK', NEW r \in Run
  PROVE  \A rec : Fits(r, rec) => FitsThen(r, rec)
  BY OverStays, ServedStays DEF Fits, FitsThen, Over, OverThen, Served

\* Proof of death is proof: of a courier that is gone, or never will be.
LEMMA ProofIsOver ==
  ASSUME IInv, NEW r \in Run, NEW rec, Fits(r, rec),
         ProofDead(r, rec) \/ ProvenDead(r, rec) \/ rec.closed = "proof"
  PROVE  Over(r)
<1>0. Sends
  BY DEF IInv
<1>1. ProofDead(r, rec) => Over(r)
  BY <1>0 DEF ProofDead, SilentLaunch, Fits, Over, Sends
<1>2. ProvenDead(r, rec) => Over(r)
  BY <1>1 DEF ProvenDead, Fits
<1> QED BY <1>1, <1>2 DEF Fits

LEMMA OverIsHarmless ==
  ASSUME IInv, NEW r \in Run, Over(r) \/ Served(r)
  PROVE  ~Dangerous(r)
<1>0. Sends
  BY DEF IInv
<1> QED BY <1>0 DEF Over, Served, Dangerous, Sends, AtWork, Unsent

\* A run becomes dangerous when it is launched, in time.
LEMMA DangerComes ==
  ASSUME IInv, Forward, NEW r \in Run, Dangerous(r)'
  PROVE  Dangerous(r) \/ (visit.at = "launch" /\ visit.of = r)
<1>0. /\ ProcForward(r) /\ CourierForward(r) /\ (Expired(r) => Expired(r)') /\ Sends
  BY DEF Forward, IInv
<1>1. ~Expired(r) /\ courier[r] # "gone"
  BY <1>0 DEF Dangerous, CourierForward, Sends, Unsent
<1>2. CASE proc'[r] \in AtWork
  BY <1>0, <1>1, <1>2 DEF ProcForward, Dangerous
<1>3. CASE courier'[r] = "running" /\ output'[r] = "none"
  BY <1>0, <1>1, <1>3 DEF CourierForward, Dangerous, AtWork, Unsent
<1> QED BY <1>2, <1>3 DEF Dangerous

LEMMA SendsStep ==
  ASSUME IInv, Forward
  PROVE  Sends'
<1>0. Sends
  BY DEF IInv
<1> SUFFICES ASSUME NEW r \in Run
             PROVE  /\ proc'[r] \in Unsent \cup {"none"} => courier'[r] = "none"
                    /\ sent'[r] \in {"none", "logged"} => courier'[r] = "none"
                    /\ proc'[r] = "none" => sent'[r] = "none" /\ output'[r] = "none"
  BY DEF Sends
<1>1. ProcForward(r) /\ CourierForward(r)
  BY DEF Forward
<1> QED BY <1>0, <1>1 DEF Sends, ProcForward, CourierForward, AtWork, Unsent

-----------------------------------------------------------------------------
(* The chain and its leases.                                               *)

\* Whether the step mints a run, the chain stays without gaps.
LEMMA ChainGrows ==
  ASSUME IInv, Forward
  PROVE  /\ Minted \subseteq Minted'
         /\ \E n \in Run : Minted' = 1 .. n
<1>0. PICK n \in Run : Minted = 1 .. n /\ Fresh = n + 1
  BY ChainEnds DEF IInv, Chain
<1>1. Minted \subseteq Minted' /\ Minted' \subseteq Minted \cup {Fresh}
  BY DEF Forward, StateForward, Minted
<1>2. CASE Fresh \in Minted'
  <2>1. Fresh \in Run
    BY <1>2 DEF Minted
  <2>2. Minted' = 1 .. Fresh
    <3>1. Minted' = Minted \cup {n + 1}
      BY <1>0, <1>1, <1>2
    <3>2. n \in Nat /\ (1 .. n) \cup {n + 1} = 1 .. (n + 1)
      BY BoundsAssumption DEF Run
    <3> QED BY <1>0, <3>1, <3>2
  <2> QED BY <1>1, <2>1, <2>2
<1>3. CASE Fresh \notin Minted'
  <2>1. Minted' = Minted
    BY <1>1, <1>3
  <2> QED BY <1>0, <2>1
<1> QED BY <1>2, <1>3

\* Only the two mints make a run; every other write is of a minted one.
LEMMA SameChain ==
  ASSUME IInv, Next, Forward, ~TickMints, ~InspectMints
  PROVE  Minted' = Minted
<1>0. TypeOK /\ Chain
  BY DEF IInv
<1>1. UNCHANGED run \/ \E r \in Minted : \E rec : run' = [run EXCEPT ![r] = rec]
  <2>1. CASE LoopTick \/ Inspect \/ VisitKilled
    <3>1. \/ UNCHANGED run
          \/ visit.at # "idle" /\ \E rec : run' = [run EXCEPT ![visit.of] = rec]
      BY <2>1 DEF LoopTick, TickBegins, TickPasses, TickMarksSilent, TickTimesOut, TickFollowsUp,
         TickExhausted, TickFreesLeases, TickClaims, TickDispatches, TickLaunches,
         Inspect, InspectBegins, InspectCloses, InspectTakesUp, InspectMarks,
         InspectGivesUp, InspectPasses, VisitKilled
    <3> QED BY <1>0, <3>1 DEF Chain
  <2>2. ASSUME NEW r \in Run, Worker(r)
        PROVE  UNCHANGED run \/ \E s \in Minted : \E rec : run' = [run EXCEPT ![s] = rec]
    <3>1. proc[r] # "none"
      BY <2>2 DEF Worker, WorkerBoots, WorkerRenders, WorkerDispatches, WorkerLogs,
         WorkerRefused, WorkerSends, WorkerUnsure, WorkerStarted, WorkerTakesResult,
         WorkerRejectsResult, WorkerSeesExit, WorkerDeadline, WorkerEnds, WorkerKilled
    <3>2. r \in Minted
      BY <1>0, <3>1 DEF Chain, Minted
    <3>3. \A rec, next : WorkerMoves(r, rec, next) =>
              UNCHANGED run \/ \E s \in Minted : \E new : run' = [run EXCEPT ![s] = new]
      BY <3>2 DEF WorkerMoves
    <3> QED BY <2>2, <3>2, <3>3 DEF Worker, WorkerBoots, WorkerRenders, WorkerDispatches,
         WorkerLogs, WorkerRefused, WorkerSends, WorkerUnsure, WorkerStarted,
         WorkerTakesResult, WorkerRejectsResult, WorkerSeesExit, WorkerDeadline, WorkerEnds,
         WorkerKilled
  <2>3. ASSUME NEW r \in Run, WatchdogCloses(r) \/ Verifies(r)
        PROVE  \E s \in Minted : \E rec : run' = [run EXCEPT ![s] = rec]
    BY <2>3 DEF WatchdogCloses, Verifies, Working, Minted
  <2> QED BY <2>1, <2>2, <2>3 DEF Next, CourierWrites, CourierExits, DeadlinePasses
<1>2. CASE UNCHANGED run
  BY <1>2 DEF Minted
<1>3. ASSUME NEW r \in Minted, NEW rec, run' = [run EXCEPT ![r] = rec]
      PROVE  Minted' = Minted
  <2>1. Minted' \subseteq Minted
    BY <1>0, <1>3 DEF Minted, TypeOK
  <2> QED BY <2>1, ChainGrows
<1> QED BY <1>1, <1>2, <1>3

\* Run r has a successor after the step.
FollowedThen(r) == \E s \in Minted' : s > r

LEMMA IdleVisits ==
  ASSUME Ends
  PROVE  Visits' /\ visit'.at = "idle"
<1>1. visit'.at = "idle" /\ visit'.expired = FALSE
  BY DEF Ends, NoVisit
<1> QED BY <1>1 DEF Visits, Followed, FollowedThen

LEMMA VisitsTick ==
  ASSUME IInv, LoopTick, Forward, TypeOK'
  PROVE  Visits' /\ (visit'.at # "idle" => visit'.of \in Minted')
<1>0. /\ TypeOK /\ Chain /\ Visits
      /\ visit.of \in Run /\ visit.rec \in Records /\ run[visit.of] \in Records
  BY DEF IInv, TypeOK
<1>1. PICK n \in Run : /\ Minted = 1 .. n /\ Latest = n /\ Fresh = n + 1
                       /\ \A r \in Run : Followed(r) <=> r < n
  BY <1>0, ChainEnds DEF Chain
<1>2. n \in Nat \ {0} /\ \A r \in Run : r \in Nat
  BY BoundsAssumption DEF Run
<1>3. UNCHANGED late
  BY DEF LoopTick, TickBegins, TickPasses, TickMarksSilent, TickTimesOut, TickFollowsUp,
         TickExhausted, TickFreesLeases, TickMints, TickClaims, TickDispatches, TickLaunches
<1>4. Minted \subseteq Minted' /\ (~TickMints => Minted' = Minted)
  <2>1. ~TickMints => Minted' = Minted
    <3>1. InspectMints => UNCHANGED proc /\ visit.at = "requeue"
      BY DEF InspectMints
    <3>2. visit.at # "requeue"
      BY DEF LoopTick, TickBegins, TickPasses, TickMarksSilent, TickTimesOut, TickFollowsUp,
         TickExhausted, TickFreesLeases, TickMints, TickClaims, TickDispatches, TickLaunches
    <3> QED BY <3>1, <3>2, SameChain DEF Next
  <2> QED BY <2>1, ChainGrows
<1>5. CASE TickBegins
  <2>1. /\ visit'.at = "tick" /\ visit'.of = n /\ visit'.rec = run[n]
        /\ visit'.proof = FALSE /\ visit'.expired = FALSE /\ UNCHANGED run
    BY <1>1, <1>5 DEF TickBegins, NoVisit
  <2>2. ~FollowedThen(n) /\ n \in Minted'
    BY <1>1, <1>2, <2>1 DEF FollowedThen, Minted
  <2> QED BY <2>1, <2>2 DEF Visits, Followed, FollowedThen
<1>6. CASE Ends
  BY <1>6, IdleVisits
<1>7. ASSUME visit.at = "tick", ~TickMints, UNCHANGED <<visit>> \/ 
             \E rec : rec.state # "queued" /\ visit' = [visit EXCEPT !.rec = rec],
             visit.rec.state # "queued" \/ UNCHANGED run
      PROVE  Visits' /\ visit'.of \in Minted'
  <2>1. /\ visit'.at = "tick" /\ visit'.of = visit.of /\ visit'.expired = visit.expired
        /\ visit'.rec = visit.rec \/ visit'.rec.state # "queued"
    BY <1>0, <1>7 DEF TypeOK
  <2>2. ~FollowedThen(visit'.of) /\ visit'.of \in Minted'
    BY <1>0, <1>4, <1>7, <2>1 DEF Visits, Chain, Followed, FollowedThen
  <2> QED BY <1>0, <1>3, <1>7, <2>1, <2>2 DEF Visits, Expired, Followed, FollowedThen
<1>8. CASE TickMarksSilent
  BY <1>7, <1>8 DEF TickMarksSilent, TickMints, Working
<1>9. CASE TickTimesOut \/ TickFollowsUp
  <2>1. Moved(run[visit.of], "timeout", "other").state = "timeout"
        /\ Moved(run[visit.of], "fixback", "other").state = "fixback"
    BY <1>0 DEF Moved, Records
  <2>2. CASE TickTimesOut /\ ~Ends
    <3>1. /\ visit.at = "tick"
          /\ visit' = [visit EXCEPT !.rec = Moved(run[visit.of], "timeout", "other")]
      BY <2>2 DEF TickTimesOut
    <3>2. visit.rec.state # "queued" \/ visit'.rec.state # "queued"
      BY <1>0, <2>1, <3>1 DEF TypeOK
    <3>3. /\ visit'.at = "tick" /\ visit'.of = visit.of /\ visit'.expired = visit.expired
          /\ visit'.rec.state # "queued"
      BY <1>0, <2>1, <3>1 DEF TypeOK
    <3>4. ~FollowedThen(visit'.of) /\ visit'.of \in Minted'
      BY <1>0, <1>4, <2>2, <3>3 DEF Visits, Chain, Followed, FollowedThen, TickMints, TickTimesOut
    <3> QED BY <1>0, <1>3, <3>1, <3>3, <3>4 DEF Visits, Expired, Followed, FollowedThen
  <2>3. CASE TickFollowsUp /\ ~Ends
    <3>1. /\ visit.at = "tick" /\ visit.rec.state = "verify_fail"
          /\ visit' = [visit EXCEPT !.rec = Moved(run[visit.of], "fixback", "other")]
      BY <2>3 DEF TickFollowsUp
    <3> QED BY <1>7, <2>1, <2>3, <3>1 DEF TickFollowsUp, TickMints
  <2> QED BY <1>6, <1>9, <2>2, <2>3
<1>10. CASE TickFreesLeases
  <2>0. UNCHANGED <<run, proc>> /\ Minted' = Minted /\ visit.at = "tick" /\ NextTier(visit.rec) # 0
    BY <1>4, <1>10 DEF TickFreesLeases, TickMints
  <2>1. ~FollowedThen(visit.of) /\ visit.of \in Minted'
    BY <1>0, <2>0 DEF Visits, Chain, Followed, FollowedThen
  <2>2. ~Ends => \A r \in Run : ~Held(r)'
    <3>1. ~Ends => \E dead : /\ lease' = [r \in Run |-> IF r \in dead /\ Held(r) THEN "closed" ELSE lease[r]]
                             /\ \A r \in Minted \ dead : ~Held(r)
      BY <1>10 DEF TickFreesLeases, Close
    <3> QED BY <1>0, <3>1 DEF Chain, Held
  <2>3. CASE Starts("claim", visit.of) /\ ~Ends /\ visit.rec.state = "queued"
    <3>1. run[visit.of] = visit.rec /\ proc[visit.of] = "none"
      BY <1>0, <2>0, <2>3 DEF Visits, Chain
    <3>2. visit'.at = "claim" /\ visit'.of = visit.of /\ visit'.expired = FALSE
      BY <2>3 DEF Starts, NoVisit
    <3> QED BY <2>0, <2>1, <2>2, <2>3, <3>1, <3>2 DEF Visits, Followed, FollowedThen
  <2>4. CASE Goes("mint") /\ ~Ends
    <3>1. visit'.at = "mint" /\ visit'.of = visit.of /\ visit'.expired = visit.expired
          /\ visit'.rec = visit.rec
      BY <1>0, <2>4 DEF Goes, TypeOK
    <3> QED BY <1>0, <1>3, <2>0, <2>1, <2>2, <2>4, <3>1 DEF Visits, Expired, Followed, FollowedThen
  <2>5. Ends \/ (Starts("claim", visit.of) /\ visit.rec.state = "queued") \/ Goes("mint")
    BY <1>10 DEF TickFreesLeases
  <2> QED BY <1>6, <2>3, <2>4, <2>5
<1>11. CASE TickMints
  <2>0. /\ visit.at = "mint" /\ Fresh \in Run /\ NextTier(visit.rec) # 0
        /\ run' = [run EXCEPT ![Fresh] = Successor(visit.rec)] /\ UNCHANGED <<lease, proc>>
        /\ visit'.at = "claim" /\ visit'.of = Fresh /\ visit'.expired = FALSE
    BY <1>0, <1>11 DEF TickMints, Starts, NoVisit, Visits
  <2>1. run'[Fresh] = Successor(visit.rec) /\ run'[Fresh].state = "queued"
        /\ NextTier(run'[Fresh]) # 0
    BY <1>0, <2>0, RecordsFollow DEF TypeOK
  <2>2. Fresh \in Minted' /\ ~FollowedThen(Fresh)
    <3>1. Minted' \subseteq Minted \cup {Fresh}
      BY <1>0, <2>0 DEF Minted, TypeOK
    <3>2. \A s \in Minted' : ~(s > Fresh)
      BY <1>1, <1>2, <3>1
    <3> QED BY <2>0, <2>1, <3>2 DEF Minted, FollowedThen
  <2>3. proc[Fresh] = "none"
    <3>1. Fresh \notin Minted
      BY <1>1, <1>2
    <3> QED BY <1>0, <2>0, <3>1 DEF Chain, Minted
  <2>4. \A r \in Run : ~Held(r)'
    BY <1>0, <2>0 DEF Visits, Held
  <2> QED BY <2>0, <2>1, <2>2, <2>3, <2>4 DEF Visits, Followed, FollowedThen
<1>12. CASE TickClaims /\ ~Ends
  <2>0. visit.at = "claim" /\ Goes("dispatch") /\ UNCHANGED <<run, proc>> /\ Minted' = Minted
    BY <1>4, <1>12 DEF TickClaims, TickMints
  <2>1. visit'.at = "dispatch" /\ visit'.of = visit.of /\ visit'.expired = visit.expired
    BY <1>0, <2>0 DEF Goes, TypeOK
  <2>2. ~FollowedThen(visit.of) /\ visit.of \in Minted'
    BY <1>0, <2>0 DEF Visits, Chain, Followed, FollowedThen
  <2> QED BY <1>0, <1>3, <2>0, <2>1, <2>2 DEF Visits, Expired, Followed, FollowedThen
<1>13. CASE TickDispatches /\ ~Ends
  <2>0. /\ visit.at = "dispatch" /\ Goes("launch") /\ UNCHANGED proc /\ Minted' = Minted
        /\ run' = [run EXCEPT ![visit.of] = Dispatched(run[visit.of], NextTier(run[visit.of]))]
    BY <1>4, <1>13 DEF TickDispatches, TickMints
  <2>1. visit'.at = "launch" /\ visit'.of = visit.of /\ visit'.expired = visit.expired
    BY <1>0, <2>0 DEF Goes, TypeOK
  <2>2. ~FollowedThen(visit.of) /\ visit.of \in Minted'
    BY <1>0, <2>0 DEF Visits, Chain, Followed, FollowedThen
  <2>3. run'[visit.of].state = "dispatched"
    BY <1>0, <2>0, NextTierIsTier, RecordsDispatch DEF Visits, TypeOK
  <2> QED BY <1>0, <1>3, <2>0, <2>1, <2>2, <2>3 DEF Visits, Expired, Followed, FollowedThen
<1> QED BY <1>5, <1>6, <1>8, <1>9, <1>10, <1>11, <1>12, <1>13
        DEF LoopTick, TickPasses, TickExhausted, TickLaunches

LEMMA VisitsInspect ==
  ASSUME IInv, Inspect \/ VisitKilled, Forward, TypeOK'
  PROVE  Visits' /\ (visit'.at # "idle" => visit'.of \in Minted')
<1>0. /\ TypeOK /\ Chain /\ Visits /\ Copies
      /\ visit.of \in Run /\ visit.rec \in Records /\ run[visit.of] \in Records
  BY DEF IInv, TypeOK
<1>1. PICK n \in Run : Minted = 1 .. n /\ Latest = n
  BY <1>0, ChainEnds DEF Chain
<1>2. UNCHANGED late /\ Minted \subseteq Minted'
  BY ChainGrows DEF Inspect, InspectBegins, InspectCloses, InspectTakesUp, InspectMarks,
         InspectMints, InspectGivesUp, InspectPasses, VisitKilled
\* Proof found now is still proof after the step.
<1>3. ProofDead(visit.of, visit.rec) \/ visit.rec.closed = "proof" => Over(visit.of)
  BY <1>0, ProofIsOver DEF Copies
<1>4. \A r \in Run : Over(r) => Over(r)'
  BY OverStays
<1>5. ASSUME NEW at \in {"mark", "requeue"}, visit.at # "idle",
             visit'.at = at, visit'.of = visit.of, visit'.expired = visit.expired,
             visit'.proof => Over(visit.of),
             at = "mark" => visit'.rec.state = "timeout"
      PROVE  Visits' /\ visit'.of \in Minted'
  <2>1. visit'.of \in Minted'
    BY <1>0, <1>2, <1>5 DEF Chain
  <2>2. visit'.proof => Over(visit.of)'
    BY <1>0, <1>4, <1>5
  <2> QED BY <1>0, <1>2, <1>5, <2>1, <2>2 DEF Visits, Expired
<1>6. CASE Ends
  BY <1>6, IdleVisits
<1>7. CASE InspectBegins
  <2>1. /\ visit'.at = "inspect" /\ visit'.of = n /\ visit'.expired = Expired(n)
        /\ UNCHANGED run
    BY <1>1, <1>7 DEF InspectBegins, NoVisit
  <2>2. n \in Minted'
    BY <1>1, <1>2, BoundsAssumption DEF Run
  <2> QED BY <1>2, <2>1, <2>2 DEF Visits, Expired
<1>8. CASE InspectCloses /\ ~Ends
  <2> DEFINE dead == ProofDead(visit.of, visit.rec)
             rec == Moved(run[visit.of], "timeout", "dead")
  <2>1. /\ visit.at = "inspect"
        /\ visit' = [visit EXCEPT !.at = "mark", !.rec = rec, !.proof = dead]
    BY <1>8 DEF InspectCloses
  <2>2. rec.state = "timeout"
    BY <1>0 DEF Moved, Records
  <2> HIDE DEF dead, rec
  <2>3. /\ visit'.at = "mark" /\ visit'.of = visit.of /\ visit'.expired = visit.expired
        /\ visit'.proof = dead /\ visit'.rec = rec
    BY <1>0, <2>1 DEF TypeOK
  <2>4. visit'.proof => Over(visit.of)
    BY <1>3, <2>3 DEF dead
  <2> QED BY <1>5, <2>1, <2>2, <2>3, <2>4
<1>9. CASE InspectTakesUp
  <2> DEFINE dead == ProofDead(visit.of, visit.rec) \/ visit.rec.closed = "proof"
  <2>1. PICK at \in {"mark", "requeue"} :
          /\ visit.at = "inspect"
          /\ at = "mark" => visit.rec.state = "timeout"
          /\ visit' = [visit EXCEPT !.at = at, !.proof = dead]
    BY <1>9 DEF InspectTakesUp
  <2> HIDE DEF dead
  <2>2. /\ visit'.at = at /\ visit'.of = visit.of /\ visit'.expired = visit.expired
        /\ visit'.proof = dead /\ visit'.rec = visit.rec
    BY <1>0, <2>1 DEF TypeOK
  <2>3. visit'.proof => Over(visit.of)
    BY <1>3, <2>2 DEF dead
  <2> QED BY <1>5, <2>1, <2>2, <2>3
<1>10. CASE InspectMarks
  <2>1. /\ visit.at = "mark" /\ visit'.at = "requeue" /\ visit'.of = visit.of
        /\ visit'.expired = visit.expired /\ visit'.proof = visit.proof
    BY <1>0, <1>10 DEF InspectMarks, TypeOK
  <2> QED BY <1>0, <1>5, <2>1 DEF Visits
<1> QED BY <1>6, <1>7, <1>8, <1>9, <1>10
        DEF Inspect, InspectMints, InspectGivesUp, InspectPasses, VisitKilled

\* What runs beside a visit leaves alone what the visit relies on: the chain,
\* and the queued run.
Beside ==
    /\ visit' = visit /\ Minted' = Minted
    /\ \A r \in Run : /\ run[r].state = "queued" => run'[r] = run[r]
                      /\ proc[r] = "none" => proc'[r] = "none"
                      /\ Held(r)' => Held(r)

LEMMA WorkerIsBeside ==
  ASSUME IInv, Forward, NEW r \in Run, Worker(r)
  PROVE  Beside /\ proc[r] # "none"
<1>0. TypeOK /\ Chain
  BY DEF IInv
<1>1. visit' = visit /\ proc[r] # "none"
  BY DEF Worker, WorkerBoots, WorkerRenders, WorkerDispatches, WorkerLogs,
         WorkerRefused, WorkerSends, WorkerUnsure, WorkerStarted, WorkerTakesResult,
         WorkerRejectsResult, WorkerSeesExit, WorkerDeadline, WorkerEnds, WorkerKilled
<1>2. Minted' = Minted
  <2>1. Minted' \subseteq Minted
    <3>1. \A s \in Run \ {r} : run'[s] = run[s]
      <4>1. \A rec, next : WorkerMoves(r, rec, next) => \A s \in Run \ {r} : run'[s] = run[s]
        BY <1>0, <1>1, MoveForward
      <4> QED BY <1>0, <4>1 DEF TypeOK, Worker, WorkerBoots, WorkerRenders, WorkerDispatches,
         WorkerLogs, WorkerRefused, WorkerSends, WorkerUnsure, WorkerStarted,
         WorkerTakesResult, WorkerRejectsResult, WorkerSeesExit, WorkerDeadline, WorkerEnds,
         WorkerKilled
    <3> QED BY <1>0, <1>1, <3>1 DEF Minted, Chain
  <2> QED BY <2>1, ChainGrows
<1>3. \A s \in Run \ {r} : run'[s] = run[s] /\ proc'[s] = proc[s]
  <2>1. \A rec, next : WorkerMoves(r, rec, next) =>
            \A s \in Run \ {r} : run'[s] = run[s] /\ proc'[s] = proc[s]
    BY <1>0, <1>1, MoveForward
  <2> QED BY <1>0, <2>1 DEF TypeOK, Worker, WorkerBoots, WorkerRenders, WorkerDispatches,
         WorkerLogs, WorkerRefused, WorkerSends, WorkerUnsure, WorkerStarted,
         WorkerTakesResult, WorkerRejectsResult, WorkerSeesExit, WorkerDeadline, WorkerEnds,
         WorkerKilled
<1>4. \A s \in Run : Held(s)' => Held(s)
  BY <1>0 DEF TypeOK, Held, Close, Worker, WorkerBoots, WorkerRenders, WorkerDispatches,
         WorkerLogs, WorkerRefused, WorkerSends, WorkerUnsure, WorkerStarted,
         WorkerTakesResult, WorkerRejectsResult, WorkerSeesExit, WorkerDeadline, WorkerEnds,
         WorkerKilled
<1>5. run[r].state # "queued"
  BY <1>0, <1>1 DEF Chain
<1> QED BY <1>1, <1>2, <1>3, <1>4, <1>5 DEF Beside

LEMMA OthersAreBeside ==
  ASSUME IInv, Forward, NEW r \in Run,
         \/ WatchdogCloses(r) \/ CourierWrites(r) \/ CourierExits(r) \/ Verifies(r)
         \/ DeadlinePasses
  PROVE  Beside /\ UNCHANGED <<proc, lease>>
<1>0. TypeOK
  BY DEF IInv
<1>1. UNCHANGED <<visit, proc, lease>>
  BY DEF WatchdogCloses, CourierWrites, CourierExits, Verifies, DeadlinePasses
<1>2. /\ \A s \in Run : run'[s] = run[s] \/ s = r
      /\ run'[r] = run[r] \/ run[r].state \notin {"none", "queued"}
  BY <1>0 DEF WatchdogCloses, CourierWrites, CourierExits, Verifies, DeadlinePasses, Working,
              TypeOK
<1>3. Minted' = Minted
  <2>1. Minted' \subseteq Minted
    BY <1>2 DEF Minted
  <2> QED BY <2>1, ChainGrows
<1> QED BY <1>1, <1>2, <1>3 DEF Beside, Held

LEMMA VisitsBeside ==
  ASSUME IInv, Forward, TypeOK', Beside
  PROVE  Visits' /\ (visit'.at # "idle" => visit'.of \in Minted')
<1>0. TypeOK /\ Chain /\ Visits /\ visit.of \in Run /\ visit' = visit
  BY DEF IInv, TypeOK, Beside
<1>1. Minted' = Minted /\ (FollowedThen(visit.of) <=> Followed(visit.of))
  BY DEF Beside, Followed, FollowedThen
<1>2. visit.at \in {"claim", "dispatch", "launch"} => proc'[visit.of] = "none"
  BY <1>0 DEF Visits, Beside
<1>3. run[visit.of].state = "queued" => run'[visit.of] = run[visit.of]
  BY <1>0 DEF Beside
<1>4. visit.at = "launch" => run'[visit.of].state # "queued"
  BY <1>0 DEF Visits, Forward, StateForward, Chain, Minted
<1>5. visit.expired => Expired(visit.of)'
  BY <1>0 DEF Visits, Forward
<1>6. visit.at \in {"mark", "requeue"} /\ visit.proof => Over(visit.of)'
  BY <1>0, OverStays DEF Visits
<1>7. (\A r \in Run : ~Held(r)) => (\A r \in Run : ~Held(r)')
  BY DEF Beside
<1>8. visit.at # "idle" => visit'.of \in Minted'
  BY <1>0, <1>1 DEF Chain
<1> QED BY <1>0, <1>1, <1>2, <1>3, <1>4, <1>5, <1>6, <1>7, <1>8
        DEF Visits, Followed, FollowedThen

LEMMA VisitsStep ==
  ASSUME IInv, Next, Forward, TypeOK'
  PROVE  Visits' /\ (visit'.at # "idle" => visit'.of \in Minted')
<1>1. 1 \in Run
  BY BoundsAssumption DEF Run
<1> QED BY <1>1, VisitsTick, VisitsInspect, WorkerIsBeside, OthersAreBeside, VisitsBeside
        DEF Next

\* Only the claim of a run takes its lease.
LEMMA LeaseComes ==
  ASSUME IInv, Next, Forward, NEW r \in Run, Held(r)', ~Held(r)
  PROVE  /\ TickClaims /\ r = visit.of /\ visit'.at = "dispatch" /\ visit'.of = visit.of
         /\ \A s \in Run : ~Held(s)
<1>0. TypeOK /\ Visits /\ visit.of \in Run
  BY DEF IInv, TypeOK
<1>1. LoopTick
  <2>1. ~(Inspect \/ VisitKilled)
    BY <1>0 DEF Inspect, InspectBegins, InspectCloses, InspectTakesUp, InspectMarks,
         InspectMints, InspectGivesUp, InspectPasses, VisitKilled, Close, Held, TypeOK
  <2>2. ~Beside
    BY DEF Beside
  <2>3. 1 \in Run
    BY BoundsAssumption DEF Run
  <2> QED BY <2>1, <2>2, <2>3, WorkerIsBeside, OthersAreBeside DEF Next
<1>2. TickClaims
  BY <1>0, <1>1 DEF LoopTick, TickBegins, TickPasses, TickMarksSilent, TickTimesOut,
         TickFollowsUp, TickExhausted, TickFreesLeases, TickMints, TickDispatches,
         TickLaunches, Close, Held, TypeOK
<1>3. /\ visit.at = "claim" /\ Goes("dispatch")
      /\ lease' = [lease EXCEPT ![visit.of] = "held"]
  BY <1>2 DEF TickClaims, Held
<1> QED BY <1>0, <1>2, <1>3 DEF Visits, Held, Goes, TypeOK

LEMMA ChainStep ==
  ASSUME IInv, Next, Forward, TypeOK'
  PROVE  Chain'
<1>0. TypeOK /\ Chain /\ Visits
  BY DEF IInv
<1>1. \E n \in Run : Minted' = 1 .. n
  BY ChainGrows
<1>2. visit'.at # "idle" => visit'.of \in Minted'
  BY VisitsStep
<1>3. ASSUME NEW r \in Run
      PROVE  /\ proc'[r] # "none" => run'[r].state \notin {"none", "queued"}
             /\ Held(r)' => r \in Minted'
             /\ draft'[r].state # "queued"
             /\ proc'[r] = "render" => draft'[r].state # "none"
  <2>1. StateForward(r) /\ ProcForward(r) /\ DraftForward(r)
    BY DEF Forward
  <2>2. proc'[r] # "none" => run'[r].state \notin {"none", "queued"}
    <3>1. proc'[r] # "none" => run[r].state \notin {"none", "queued"}
      <4>1. CASE proc[r] # "none"
        BY <1>0, <4>1 DEF Chain
      <4>2. CASE proc[r] = "none"
        BY <1>0, <2>1, <4>2 DEF ProcForward, AtWork, Unsent, Visits, Chain, Minted
      <4> QED BY <4>1, <4>2
    <3> QED BY <2>1, <3>1 DEF StateForward
  <2>3. Held(r)' => r \in Minted'
    BY <1>0, <1>2, ChainGrows, LeaseComes DEF Chain
  <2>4. NoRun.state = "none"
    BY NoRunTyped
  <2> QED BY <1>0, <2>1, <2>2, <2>3, <2>4 DEF DraftForward, Chain
<1> QED BY <1>1, <1>2, <1>3 DEF Chain

LEMMA OneHeldStep ==
  ASSUME IInv, Next, Forward
  PROVE  OneHeld'
<1>0. OneHeld
  BY DEF IInv
<1>1. ASSUME NEW r \in Run, NEW s \in Run, Held(r)', Held(s)'
      PROVE  r = s
  <2>1. CASE Held(r) /\ Held(s)
    BY <1>0, <2>1 DEF OneHeld
  <2>2. CASE ~Held(r) \/ ~Held(s)
    BY <1>1, <2>2, LeaseComes
  <2> QED BY <2>1, <2>2
<1> QED BY <1>1 DEF OneHeld

\* A lease is given back only by a run that is expired, served or over, so by
\* none that is dangerous, and never by the run a tick is about to launch.
LEMMA LeaseGoes ==
  ASSUME IInv, Next, Forward, NEW r \in Run, Held(r), ~Held(r)'
  PROVE  ~Dangerous(r) /\ ~(visit.at \in {"dispatch", "launch"} /\ visit.of = r)
<1>0. TypeOK /\ Sends /\ Visits /\ Copies /\ visit.of \in Run
  BY DEF IInv, TypeOK
<1>1. Expired(r) => ~Dangerous(r)
  BY DEF Dangerous
<1>2. visit.rec.state \in {"result", "verify_pass", "verify_fail", "fixback"}
        => ~Dangerous(visit.of)
  BY <1>0, OverIsHarmless DEF Copies, Fits
<1>3. CASE TickBegins
  BY <1>0, <1>1, <1>3 DEF TickBegins, Close, Held
<1>4. CASE TickPasses
  BY <1>0, <1>1, <1>2, <1>4 DEF TickPasses, Close, Held
<1>5. CASE TickTimesOut
  BY <1>0, <1>1, <1>5 DEF TickTimesOut, Close, Held
<1>6. CASE TickFollowsUp
  BY <1>0, <1>2, <1>6 DEF TickFollowsUp, Close, Held
<1>7. CASE TickFreesLeases
  <2> DEFINE record(s) == IF s = visit.of THEN visit.rec ELSE visit.older[s]
  <2>1. /\ visit.at = "tick"
        /\ ProvenDead(r, record(r)) \/ (visit.rec.state = "fixback" /\ r = visit.of)
    BY <1>0, <1>7 DEF TickFreesLeases, Close, Held
  <2>2. Fits(r, record(r))
    BY <1>0 DEF Copies
  <2>3. ProvenDead(r, record(r)) => ~Dangerous(r)
    BY <2>2, ProofIsOver, OverIsHarmless
  <2> QED BY <1>2, <2>1, <2>3
<1>8. CASE InspectMints \/ InspectGivesUp
  <2>1. r = visit.of /\ visit.at = "requeue" /\ (visit.expired \/ visit.proof)
    BY <1>0, <1>8 DEF InspectMints, InspectGivesUp, Close, Held, MayFree
  <2>2. Expired(r) \/ Over(r)
    BY <1>0, <2>1 DEF Visits
  <2> QED BY <1>1, <2>1, <2>2, OverIsHarmless
<1>9. CASE TickMarksSilent \/ TickExhausted \/ TickMints \/ TickClaims \/ TickDispatches
             \/ TickLaunches \/ InspectBegins \/ InspectCloses \/ InspectTakesUp
             \/ InspectMarks \/ InspectPasses \/ VisitKilled
  BY <1>0, <1>9 DEF TickMarksSilent, TickExhausted, TickMints, TickClaims, TickDispatches,
         TickLaunches, InspectBegins, InspectCloses, InspectTakesUp, InspectMarks,
         InspectPasses, VisitKilled, Held, TypeOK
<1>10. ASSUME NEW s \in Run, Worker(s)
       PROVE  ~Dangerous(r) /\ ~(visit.at \in {"dispatch", "launch"} /\ visit.of = r)
  <2>1. WorkerEnds(s)
    BY <1>10 DEF Held, Worker, WorkerBoots, WorkerRenders, WorkerDispatches, WorkerLogs,
         WorkerRefused, WorkerSends, WorkerUnsure, WorkerStarted, WorkerTakesResult,
         WorkerRejectsResult, WorkerSeesExit, WorkerDeadline, WorkerKilled
  <2>2. r = s /\ WorkerGone(r) /\ proc[r] = "end"
    BY <2>1 DEF WorkerEnds, Close, Held
  <2>3. courier[r] \in {"none", "gone"}
    BY <1>0, <2>2 DEF WorkerGone, Sends
  <2> QED BY <1>0, <2>2, <2>3 DEF Dangerous, AtWork, Unsent, Visits
<1> QED BY <1>3, <1>4, <1>5, <1>6, <1>7, <1>8, <1>9, <1>10, OthersAreBeside
        DEF Next, LoopTick, Inspect, Held, WatchdogCloses, CourierWrites, CourierExits,
            Verifies, DeadlinePasses

-----------------------------------------------------------------------------
(* What is written about a run fits it, however old the copy.              *)

Settled == {"result", "verify_pass", "verify_fail", "fixback"}

\* The records the handlers build from the one on disk.
LEMMA NewRecordsFit ==
  ASSUME IInv, NEW r \in Run
  PROVE  /\ \A s, why : s \notin Settled /\ why # "launch" => Fits(r, Moved(run[r], s, why))
         /\ \A t \in Tier : Fits(r, Dispatched(run[r], t))
         /\ Fits(r, NoRun)
<1>0. run[r] \in Records /\ Fits(r, run[r])
  BY DEF IInv, TypeOK, Copies
<1>1. \A s, why : /\ Moved(run[r], s, why).state = s /\ Moved(run[r], s, why).why = why
                  /\ Moved(run[r], s, why).closed = run[r].closed
  BY <1>0 DEF Moved, Records
<1>2. \A t \in Tier : /\ Dispatched(run[r], t).state = "dispatched"
                      /\ Dispatched(run[r], t).why = "other"
                      /\ Dispatched(run[r], t).closed = run[r].closed
  BY <1>0 DEF Dispatched, Records
<1> QED BY <1>0, <1>1, <1>2, NoRunTyped DEF Fits, Settled

LEMMA RunsFitVisit ==
  ASSUME IInv, LoopTick \/ Inspect \/ VisitKilled, Forward, TypeOK'
  PROVE  \A r \in Run : FitsThen(r, run'[r])
<1>0. /\ TypeOK /\ Chain /\ Visits /\ Copies
      /\ visit.of \in Run /\ visit.rec \in Records /\ run[visit.of] \in Records
  BY DEF IInv, TypeOK
<1> DEFINE r == visit.of
<1>1. \A s \in Run : \A rec : Fits(s, rec) => FitsThen(s, rec)
  BY FitsStays
<1>2. ASSUME NEW rec, FitsThen(r, rec), run' = [run EXCEPT ![r] = rec]
      PROVE  \A s \in Run : FitsThen(s, run'[s])
  BY <1>0, <1>1, <1>2 DEF Copies, TypeOK
<1>3. ASSUME NextTier(visit.rec) # 0, run' = [run EXCEPT ![Fresh] = Successor(visit.rec)]
      PROVE  \A s \in Run : FitsThen(s, run'[s])
  <2>1. \A s : FitsThen(s, Successor(visit.rec))
    BY <1>0, <1>3, RecordsFollow DEF FitsThen
  <2> QED BY <1>0, <1>1, <1>3, <2>1 DEF Copies, TypeOK
<1>4. CASE UNCHANGED run
  BY <1>0, <1>1, <1>4 DEF Copies
<1>5. CASE TickMarksSilent
  BY <1>0, <1>1, <1>2, <1>5 DEF TickMarksSilent, Copies
<1>6. CASE TickTimesOut \/ TickExhausted \/ TickClaims \/ InspectCloses \/ InspectGivesUp
  <2>1. \/ UNCHANGED run
        \/ \E s \in {"timeout", "escalated"}, why \in {"other", "dead"} :
              run' = [run EXCEPT ![r] = Moved(run[r], s, why)]
    BY <1>6 DEF TickTimesOut, TickExhausted, TickClaims, InspectCloses, InspectGivesUp
  <2>2. ASSUME NEW s \in {"timeout", "escalated"}, NEW why \in {"other", "dead"},
               run' = [run EXCEPT ![r] = Moved(run[r], s, why)]
        PROVE  \A q \in Run : FitsThen(q, run'[q])
    <3>1. Fits(r, Moved(run[r], s, why))
      BY <1>0, NewRecordsFit DEF Settled
    <3> QED BY <1>0, <1>1, <1>2, <2>2, <3>1
  <2> QED BY <1>4, <2>1, <2>2
<1>7. CASE TickFollowsUp
  <2>1. PICK s \in {"fixback", "escalated"} : run' = [run EXCEPT ![r] = Moved(run[r], s, "other")]
    BY <1>7 DEF TickFollowsUp
  <2>2. Served(r)
    BY <1>0, <1>7 DEF TickFollowsUp, Copies, Fits
  <2>3. Fits(r, Moved(run[r], s, "other"))
    BY <1>0, <2>2 DEF Fits, Moved, Records, Copies
  <2> QED BY <1>0, <1>1, <1>2, <2>1, <2>3
<1>8. CASE TickDispatches
  <2>1. CASE run' = [run EXCEPT ![r] = Dispatched(run[r], NextTier(run[r]))]
    <3>1. NextTier(run[r]) \in Tier
      BY <1>0, <1>8, NextTierIsTier DEF TickDispatches, Visits
    <3> QED BY <1>0, <1>1, <1>2, <2>1, <3>1, NewRecordsFit
  <2> QED BY <1>4, <1>8, <2>1 DEF TickDispatches
<1>9. CASE TickLaunches
  <2>1. CASE /\ run' = [run EXCEPT ![r] = Moved(run[r], "timeout", "launch")]
             /\ UNCHANGED proc
    <3>1. run'[r].state = "timeout" /\ proc'[r] = "none" /\ visit'.at = "idle"
      BY <1>0, <1>9, <2>1 DEF TickLaunches, Visits, Moved, Records, TypeOK, Ends, NoVisit
    <3>2. OverThen(r)
      BY <3>1 DEF OverThen
    <3>3. Moved(run[r], "timeout", "launch").state = "timeout"
      BY <1>0 DEF Moved, Records
    <3> QED BY <1>2, <2>1, <3>2, <3>3 DEF FitsThen
  <2> QED BY <1>4, <1>9, <2>1 DEF TickLaunches
<1>10. CASE InspectMarks
  <2> DEFINE rec == [visit.rec EXCEPT !.closed = IF visit.proof THEN "proof" ELSE "noproof"]
  <2>1. visit.proof => Over(r)
    BY <1>0, <1>10 DEF InspectMarks, Visits
  <2>2. Fits(r, rec)
    BY <1>0, <2>1 DEF Fits, Copies, Records
  <2> QED BY <1>0, <1>1, <1>2, <1>10, <2>2 DEF InspectMarks
<1>11. CASE TickMints
  BY <1>0, <1>3, <1>11 DEF TickMints, Visits
<1>12. CASE InspectMints
  BY <1>3, <1>12 DEF InspectMints
<1>13. CASE TickBegins \/ TickPasses \/ TickFreesLeases \/ InspectBegins \/ InspectTakesUp
              \/ InspectPasses \/ VisitKilled
  BY <1>4, <1>13 DEF TickBegins, TickPasses, TickFreesLeases, InspectBegins, InspectTakesUp,
                     InspectPasses, VisitKilled
<1> QED BY <1>5, <1>6, <1>7, <1>8, <1>9, <1>10, <1>11, <1>12, <1>13 DEF LoopTick, Inspect

\* The records a visit loaded or built.
LEMMA LoadedFits ==
  ASSUME IInv, LoopTick \/ Inspect \/ VisitKilled, Forward, TypeOK'
  PROVE  FitsThen(visit'.of, visit'.rec) /\ \A r \in Run : FitsThen(r, visit'.older[r])
<1>0. /\ TypeOK /\ Chain /\ Visits /\ Copies
      /\ visit.of \in Run /\ visit.rec \in Records /\ run[visit.of] \in Records
  BY DEF IInv, TypeOK
<1>1. \A s \in Run : \A rec : Fits(s, rec) => FitsThen(s, rec)
  BY FitsStays
<1>2. \A s : FitsThen(s, NoRun)
  BY NoRunTyped DEF FitsThen
<1>3. \A s \in Run : FitsThen(s, run'[s])
  BY RunsFitVisit
<1>4. NoVisit.rec = NoRun /\ \A s \in Run : NoVisit.older[s] = NoRun
  BY DEF NoVisit
<1>5. FitsThen(visit.of, visit.rec) /\ \A s \in Run : FitsThen(s, visit.older[s])
  BY <1>0, <1>1 DEF Copies
\* The visit goes on with what it has, or with the record it has just written.
<1>6. ASSUME visit'.of = visit.of, visit'.older = visit.older,
             visit'.rec = visit.rec \/ visit'.rec = run'[visit.of]
      PROVE  FitsThen(visit'.of, visit'.rec) /\ \A r \in Run : FitsThen(r, visit'.older[r])
  BY <1>0, <1>3, <1>5, <1>6
<1>7. ASSUME visit'.older = NoVisit.older, visit'.rec = NoRun
      PROVE  FitsThen(visit'.of, visit'.rec) /\ \A r \in Run : FitsThen(r, visit'.older[r])
  BY <1>2, <1>4, <1>7
<1>8. CASE Ends
  BY <1>4, <1>7, <1>8 DEF Ends
<1>9. ASSUME NEW at, NEW r, Starts(at, r)
      PROVE  FitsThen(visit'.of, visit'.rec) /\ \A q \in Run : FitsThen(q, visit'.older[q])
  <2>1. visit'.older = NoVisit.older /\ visit'.rec = NoRun
    BY <1>9 DEF Starts, NoVisit
  <2> QED BY <1>7, <2>1
<1>10. ASSUME NEW at, Goes(at)
       PROVE  FitsThen(visit'.of, visit'.rec) /\ \A q \in Run : FitsThen(q, visit'.older[q])
  <2>1. visit'.of = visit.of /\ visit'.older = visit.older /\ visit'.rec = visit.rec
    BY <1>0, <1>10 DEF Goes, TypeOK
  <2> QED BY <1>6, <2>1
<1>11. CASE TickBegins \/ InspectBegins
  <2>1. Latest \in Run
    BY <1>0, ChainEnds DEF Chain
  <2>2. /\ visit'.of = Latest /\ visit'.rec = run'[Latest]
        /\ visit'.older \in {NoVisit.older, [run EXCEPT ![Latest] = NoRun]}
    BY <1>11 DEF TickBegins, InspectBegins, NoVisit
  <2>3. \A s \in Run : [run EXCEPT ![Latest] = NoRun][s] \in {run[s], NoRun}
    BY <1>0, <2>1 DEF TypeOK
  <2>4. \A s \in Run : FitsThen(s, run[s])
    BY <1>0, <1>1 DEF Copies
  <2> QED BY <1>2, <1>3, <1>4, <2>1, <2>2, <2>3, <2>4
<1>12. CASE TickMarksSilent
  BY <1>6, <1>12 DEF TickMarksSilent
<1>13. CASE TickTimesOut \/ TickFollowsUp \/ InspectCloses \/ InspectMarks
  <2>1. \A rec : visit' = [visit EXCEPT !.rec = rec] =>
               visit'.of = visit.of /\ visit'.older = visit.older /\ visit'.rec = rec
    BY <1>0 DEF TypeOK
  <2>2. \A rec : run' = [run EXCEPT ![visit.of] = rec] => run'[visit.of] = rec
    BY <1>0 DEF TypeOK
  <2>3. CASE TickTimesOut \/ TickFollowsUp
    <3>1. Ends \/ \E rec : /\ visit' = [visit EXCEPT !.rec = rec]
                          /\ run' = [run EXCEPT ![visit.of] = rec]
      BY <2>3 DEF TickTimesOut, TickFollowsUp
    <3> QED BY <1>6, <1>8, <2>1, <2>2, <3>1
  <2>4. CASE InspectCloses
    <3>1. Ends \/ \E rec, dead :
             /\ visit' = [visit EXCEPT !.at = "mark", !.rec = rec, !.proof = dead]
             /\ run' = [run EXCEPT ![visit.of] = rec]
      BY <2>4 DEF InspectCloses
    <3>2. ASSUME NEW rec, NEW dead, run' = [run EXCEPT ![visit.of] = rec],
                 visit' = [visit EXCEPT !.at = "mark", !.rec = rec, !.proof = dead]
          PROVE  visit'.of = visit.of /\ visit'.older = visit.older /\ visit'.rec = run'[visit.of]
      BY <1>0, <2>2, <3>2 DEF TypeOK
    <3> QED BY <1>6, <1>8, <3>1, <3>2
  <2>5. CASE InspectMarks
    BY <1>0, <1>6, <2>2, <2>5 DEF InspectMarks, TypeOK
  <2> QED BY <1>13, <2>3, <2>4, <2>5
<1>14. CASE InspectTakesUp
  <2>1. visit'.of = visit.of /\ visit'.older = visit.older /\ visit'.rec = visit.rec
    BY <1>0, <1>14 DEF InspectTakesUp, TypeOK
  <2> QED BY <1>6, <2>1
<1>15. CASE TickPasses \/ TickExhausted \/ TickFreesLeases \/ TickMints \/ TickClaims
              \/ TickDispatches \/ TickLaunches \/ InspectMints \/ InspectGivesUp
              \/ InspectPasses \/ VisitKilled
  <2>1. Ends \/ (\E at : Goes(at)) \/ (\E at, r : Starts(at, r))
    BY <1>15 DEF TickPasses, TickExhausted, TickFreesLeases, TickMints, TickClaims,
       TickDispatches, TickLaunches, InspectMints, InspectGivesUp, InspectPasses, VisitKilled
  <2> QED BY <1>8, <1>9, <1>10, <2>1
<1> QED BY <1>11, <1>12, <1>13, <1>14, <1>15 DEF LoopTick, Inspect

LEMMA MoveFits ==
  ASSUME IInv, Forward, TypeOK', NEW r \in Run, proc[r] # "none", NEW rec, NEW next,
         WorkerMoves(r, rec, next), proc'[r] = next => FitsThen(r, rec)
  PROVE  \A s \in Run : FitsThen(s, run'[s])
<1>0. TypeOK /\ Copies
  BY DEF IInv
<1>1. \A s \in Run : \A new : Fits(s, new) => FitsThen(s, new)
  BY FitsStays
<1>2. FitsThen(r, Moved(run[r], "escalated", "crash"))
  BY <1>1, NewRecordsFit DEF Settled
<1>3. \A s \in Run : FitsThen(s, run[s])
  BY <1>0, <1>1 DEF Copies
<1>4. FitsThen(r, run'[r])
  <2>1. CASE run' = run
    BY <1>3, <2>1
  <2>2. CASE run' = [run EXCEPT ![r] = rec] /\ proc' = [proc EXCEPT ![r] = next]
    BY <1>0, <2>2 DEF TypeOK
  <2>3. CASE run' = [run EXCEPT ![r] = Moved(run[r], "escalated", "crash")]
    BY <1>0, <1>2, <2>3 DEF TypeOK
  <2> QED BY <1>0, <2>1, <2>2, <2>3, WorkerMove
<1>5. \A s \in Run \ {r} : run'[s] = run[s]
  BY <1>0, WorkerMove
<1> QED BY <1>3, <1>4, <1>5

LEMMA RunsFitWorker ==
  ASSUME IInv, NEW r \in Run, Worker(r), Forward, TypeOK'
  PROVE  \A s \in Run : FitsThen(s, run'[s])
<1>0. TypeOK /\ Chain /\ Copies /\ run[r] \in Records /\ proc[r] # "none"
  BY WorkerIsBeside DEF IInv, TypeOK
<1>1. \A s \in Run : \A rec : Fits(s, rec) => FitsThen(s, rec)
  BY FitsStays
<1>2. ASSUME NEW rec, NEW next, WorkerMoves(r, rec, next), Fits(r, rec)
      PROVE  \A s \in Run : FitsThen(s, run'[s])
  BY <1>0, <1>1, <1>2, MoveFits
<1>3. ASSUME NEW s \in {"timeout", "escalated"}, NEW why \in {"other", "crash", "invalid"},
             NEW next, WorkerMoves(r, Moved(run[r], s, why), next)
      PROVE  \A q \in Run : FitsThen(q, run'[q])
  <2>1. Fits(r, Moved(run[r], s, why))
    BY NewRecordsFit DEF Settled
  <2> QED BY <1>2, <1>3, <2>1
<1>4. ASSUME NEW next, WorkerMoves(r, Moved(run[r], "timeout", "launch"), next),
             courier[r] = "gone"
      PROVE  \A q \in Run : FitsThen(q, run'[q])
  <2>1. Over(r)
    BY <1>4 DEF Over
  <2>2. Moved(run[r], "timeout", "launch").state = "timeout"
    BY <1>0 DEF Moved, Records
  <2>3. Fits(r, Moved(run[r], "timeout", "launch"))
    BY <2>1, <2>2 DEF Fits
  <2> QED BY <1>2, <1>4, <2>3
<1>5. CASE UNCHANGED run
  BY <1>0, <1>1, <1>5 DEF Copies
<1>6. CASE WorkerRenders(r)
  BY <1>0, <1>1, <1>6 DEF WorkerRenders, Copies, TypeOK
<1>7. CASE WorkerDispatches(r)
  <2>1. \/ \E s \in {"timeout", "escalated"} : WorkerMoves(r, Moved(run[r], s, "other"), "end")
        \/ WorkerMoves(r, Dispatched(run[r], run[r].tier), "send")
        \/ UNCHANGED run
    BY <1>7 DEF WorkerDispatches
  <2>2. Fits(r, Dispatched(run[r], run[r].tier))
    BY <1>0, NewRecordsFit DEF Records
  <2> QED BY <1>2, <1>3, <1>5, <2>1, <2>2
<1>8. CASE WorkerRefused(r) \/ WorkerUnsure(r) \/ WorkerDeadline(r)
  BY <1>3, <1>8 DEF WorkerRefused, WorkerUnsure, WorkerDeadline
<1>9. CASE WorkerStarted(r)
  <2> DEFINE rec == [Moved(run[r], "started", "other") EXCEPT !.ledger = TRUE]
  <2>1. Fits(r, Moved(run[r], "started", "other"))
    BY NewRecordsFit DEF Settled
  <2>2. Fits(r, rec)
    BY <1>0, <2>1 DEF Fits, Moved, Records
  <2> QED BY <1>2, <1>9, <2>2 DEF WorkerStarted
<1>10. CASE WorkerTakesResult(r)
  <2> DEFINE rec == Moved(run[r], "result", "other")
  <2>1. WorkerMoves(r, rec, "gone") /\ output'[r] # "none"
    BY <1>0, <1>10 DEF WorkerTakesResult
  <2>2. rec.why = "other" /\ rec.closed = run[r].closed
    BY <1>0 DEF Moved, Records
  <2>3. FitsThen(r, run[r])
    BY <1>0, <1>1 DEF Copies
  <2>4. proc'[r] = "gone" => FitsThen(r, rec)
    BY <2>1, <2>2, <2>3 DEF FitsThen
  <2> QED BY <1>0, <2>1, <2>4, MoveFits
<1>11. CASE WorkerRejectsResult(r)
  BY <1>3, <1>4, <1>11 DEF WorkerRejectsResult
<1>12. CASE WorkerSeesExit(r)
  BY <1>4, <1>5, <1>12 DEF WorkerSeesExit
<1> QED BY <1>5, <1>6, <1>7, <1>8, <1>9, <1>10, <1>11, <1>12
        DEF Worker, WorkerBoots, WorkerLogs, WorkerSends, WorkerEnds, WorkerKilled

LEMMA CopiesStep ==
  ASSUME IInv, Next, Forward, TypeOK'
  PROVE  Copies'
<1>0. TypeOK /\ Chain /\ Copies /\ visit.of \in Run
  BY DEF IInv, TypeOK
<1>1. \A s \in Run : \A rec : Fits(s, rec) => FitsThen(s, rec)
  BY FitsStays
<1>2. \A s \in Run : FitsThen(s, run'[s])
  <2>1. ASSUME NEW r \in Run, WatchdogCloses(r) PROVE \A s \in Run : FitsThen(s, run'[s])
    <3>1. Fits(r, Moved(run[r], "timeout", "other"))
      BY NewRecordsFit DEF Settled
    <3> QED BY <1>0, <1>1, <2>1, <3>1 DEF WatchdogCloses, Copies, TypeOK
  <2>2. ASSUME NEW r \in Run, Verifies(r) PROVE \A s \in Run : FitsThen(s, run'[s])
    <3>1. PICK v \in {"verify_pass", "verify_fail"} :
            run' = [run EXCEPT ![r] = Moved(run[r], v, "other")]
      BY <2>2 DEF Verifies
    <3>2. run[r] \in Records /\ Fits(r, run[r]) /\ run[r].state = "result"
      BY <1>0, <2>2 DEF Verifies, Copies, TypeOK
    <3>3. Fits(r, Moved(run[r], v, "other"))
      BY <3>2 DEF Fits, Moved, Records
    <3> QED BY <1>0, <1>1, <3>1, <3>3 DEF Copies, TypeOK
  <2>3. CASE UNCHANGED run
    BY <1>0, <1>1, <2>3 DEF Copies
  <2> QED BY <2>1, <2>2, <2>3, RunsFitVisit, RunsFitWorker
          DEF Next, CourierWrites, CourierExits, DeadlinePasses
<1>3. \A s \in Run : FitsThen(s, draft'[s])
  <2>1. \A s \in Run : DraftForward(s)
    BY DEF Forward
  <2>2. \A s \in Run : Fits(s, NoRun) /\ Fits(s, run[s]) /\ Fits(s, draft[s])
    BY <1>0, NewRecordsFit DEF Copies
  <2> QED BY <1>1, <2>1, <2>2 DEF DraftForward
<1>4. FitsThen(visit'.of, visit'.rec) /\ \A s \in Run : FitsThen(s, visit'.older[s])
  <2>1. CASE visit' = visit
    BY <1>0, <1>1, <2>1 DEF Copies
  <2>2. 1 \in Run
    BY BoundsAssumption DEF Run
  <2> QED BY <2>1, <2>2, LoadedFits, WorkerIsBeside, OthersAreBeside DEF Next, Beside
<1> QED BY <1>2, <1>3, <1>4 DEF Copies, Fits, FitsThen, Over, OverThen, Served

-----------------------------------------------------------------------------
(* Leases and what they guard.                                             *)

LEMMA LeasesStep ==
  ASSUME IInv, Next, Forward, TypeOK', HasFiles
  PROVE  Leases'
<1>0. TypeOK /\ Chain /\ Sends /\ Visits /\ Leases /\ visit.of \in Run
  BY DEF IInv, TypeOK
<1>1. ASSUME NEW r \in Run, Dangerous(r)' PROVE Held(r)'
  <2>1. Dangerous(r) \/ (visit.at = "launch" /\ visit.of = r)
    BY <1>1, DangerComes
  <2>2. Held(r)
    BY <1>0, <2>1 DEF Leases
  <2> QED BY <2>1, <2>2, LeaseGoes
<1>2. visit'.at \in {"dispatch", "launch"} => lease'[visit'.of] = "held"
  <2>1. CASE visit.at \in {"dispatch", "launch"} /\ visit'.of = visit.of
    <3>1. PICK r \in Run : r = visit.of
      BY <1>0
    <3>2. Held(r)
      BY <1>0, <2>1, <3>1 DEF Leases
    <3>3. Held(r)'
      BY <2>1, <3>1, <3>2, LeaseGoes
    <3> QED BY <2>1, <3>1, <3>3 DEF Held
  <2>2. CASE visit'.at = "dispatch" /\ visit.at # "dispatch"
    BY <2>2 DEF Forward
  <2> QED BY <2>1, <2>2 DEF Forward
\* A run is minted when no lease is held, or when its predecessor's, the only
\* one a starting worker can have, may be freed.
<1>3. ASSUME NEW r \in Run, proc'[r] \in Unsent, ~Expired(r)'
      PROVE  ~FollowedThen(r)
  <2>1. PICK n \in Run : Minted = 1 .. n /\ \A s \in Run : Followed(s) <=> s < n
    BY <1>0, ChainEnds DEF Chain
  <2>2. ~Expired(r) /\ (proc[r] \in Unsent \/ (visit.at = "launch" /\ visit.of = r))
    BY <1>3 DEF Forward, ProcForward
  <2>3. ~Followed(r)
    BY <1>0, <2>2 DEF Leases, Visits
  <2>4. CASE TickMints \/ InspectMints
    <3>1. proc[r] \in Unsent
      BY <2>2, <2>4 DEF TickMints, InspectMints
    <3>2. Dangerous(r) /\ courier[r] = "none"
      BY <1>0, <2>2, <3>1 DEF Dangerous, Sends, AtWork
    <3>3. Held(r) /\ ~Over(r)
      BY <1>0, <3>2, OverIsHarmless DEF Leases
    <3>4. InspectMints
      BY <1>0, <2>4, <3>3 DEF TickMints, Visits
    <3>5. visit.of = r
      <4>1. r \in Minted
        BY <1>0, <3>3 DEF Chain
      <4>2. ~Followed(visit.of) /\ visit.of \in Minted
        BY <1>0, <3>4 DEF InspectMints, Chain
      <4> QED BY <1>0, <2>1, <2>3, <4>1, <4>2, BoundsAssumption DEF Run
    <3>6. visit.expired \/ visit.proof
      BY <3>3, <3>4, <3>5 DEF InspectMints, MayFree
    <3> QED BY <1>0, <2>2, <3>3, <3>4, <3>5, <3>6 DEF InspectMints, Visits
  <2>5. CASE ~TickMints /\ ~InspectMints
    <3>1. Minted' = Minted
      BY <2>5, SameChain
    <3> QED BY <2>3, <3>1 DEF Followed, FollowedThen
  <2> QED BY <2>4, <2>5
<1> QED BY <1>1, <1>2, <1>3 DEF Leases, Held, Followed, FollowedThen

-----------------------------------------------------------------------------
(* The invariant, and what follows from it.                                *)

LEMMA InitInv == Init => IInv
<1> SUFFICES ASSUME Init PROVE IInv
  OBVIOUS
<1>0. 1 \in Run /\ 1 \in Nat /\ NoRun \in Records /\ NoRun.state = "none"
  BY NoRunTyped, BoundsAssumption DEF Run
<1>1. /\ run[1] \in Records /\ run[1].state = "queued"
      /\ run[1].why = "other" /\ run[1].closed = "no"
      /\ \A r \in Run \ {1} : run[r] = NoRun
  BY <1>0 DEF Init, NoRun, Records
<1>2. visit = NoVisit /\ visit.at = "idle" /\ visit.expired = FALSE /\ visit.rec = NoRun
      /\ \A r \in Run : visit.older[r] = NoRun
  BY DEF Init, NoVisit
<1>3. TypeOK
  <2>1. run \in [Run -> Records] /\ draft \in [Run -> Records]
    BY <1>0, <1>1 DEF Init
  <2>2. visit.older \in [Run -> Records] /\ visit.of \in Run
    BY <1>0 DEF Init, NoVisit
  <2> QED BY <1>0, <2>1, <2>2, BoundsAssumption DEF Init, NoVisit, TypeOK
<1>4. Chain
  <2>1. Minted = 1 .. 1
    BY <1>0, <1>1 DEF Minted
  <2> QED BY <1>0, <1>2, <2>1 DEF Chain, Init, Held
<1>5. Sends /\ OneHeld /\ Leases
  BY <1>2 DEF Sends, OneHeld, Leases, Init, Held, Dangerous, AtWork, Unsent
<1>6. Visits
  BY <1>2 DEF Visits
<1>7. \A r : Fits(r, NoRun)
  BY NoRunTyped DEF Fits
<1>8. Copies
  <2>1. Fits(1, run[1])
    BY <1>1 DEF Fits
  <2> QED BY <1>1, <1>2, <1>7, <2>1 DEF Copies, Init
<1> QED BY <1>3, <1>4, <1>5, <1>6, <1>8 DEF IInv

LEMMA StepInv == IInv /\ [Next]_vars => IInv'
<1> SUFFICES ASSUME IInv, [Next]_vars PROVE IInv'
  OBVIOUS
<1>1. CASE Next
  <2>1. TypeOK' /\ Forward
    BY <1>1, TypeStep, StepForward
  <2>2. Chain' /\ Sends' /\ Visits' /\ Copies' /\ OneHeld'
    BY <1>1, <2>1, ChainStep, SendsStep, VisitsStep, CopiesStep, OneHeldStep
  <2>3. Leases'
    <3>1. CASE HasFiles
      BY <1>1, <2>1, <3>1, LeasesStep
    <3>2. CASE ~HasFiles
      BY <3>2 DEF Leases
    <3> QED BY <3>1, <3>2
  <2> QED BY <2>1, <2>2, <2>3 DEF IInv
<1>2. CASE UNCHANGED vars
  BY <1>2 DEF vars, IInv, TypeOK, Chain, Sends, Visits, Copies, OneHeld, Leases, Fits, Over,
         Served, Dangerous, Held, Expired, Followed, Minted
<1> QED BY <1>1, <1>2

\* Whatever runs beside whatever, a visit's knowledge, the leases and the copies
\* of the records stay consistent.
THEOREM Invariant == Spec => []IInv
  BY InitInv, StepInv, PTL DEF Spec

\* Every record, copy, process and lease stays of the kind the code gives it.
THEOREM TypeCorrect == Spec => []TypeOK
<1>1. IInv => TypeOK
  BY DEF IInv
<1> QED BY <1>1, Invariant, PTL

\* A courier that may still edit the node's files, inside its run's deadline,
\* has the lease on them: no close, requeue, end of an attempt or killed visit
\* ever frees the files of a worker that is still there.
THEOREM CourierGuarded == Spec => []LeaseGuardsCourier
<1>1. IInv => LeaseGuardsCourier
  BY DEF IInv, LeaseGuardsCourier, Leases, Busy, Dangerous
<1> QED BY <1>1, Invariant, PTL

\* The node has one live worker inside its deadline at most, if it has files to
\* own: it is the lease that keeps the second one out.
THEOREM OneWorker == HasFiles => (Spec => []OneLiveWorker)
<1> SUFFICES ASSUME HasFiles PROVE Spec => []OneLiveWorker
  OBVIOUS
<1>1. IInv => OneLiveWorker
  BY DEF IInv, OneLiveWorker, OneHeld, Leases, Busy, Dangerous
<1> QED BY <1>1, Invariant, PTL

\* No courier is started for a run that was followed by another while its worker
\* was on its way, unless its deadline has passed meanwhile.
THEOREM NothingBehind == HasFiles => (Spec => NoStartBehindSuccessor)
<1> SUFFICES ASSUME HasFiles PROVE Spec => NoStartBehindSuccessor
  OBVIOUS
<1>1. IInv /\ [Next]_vars =>
        [\A r \in Run : courier[r] = "none" /\ courier'[r] # "none"
                           => Expired(r) \/ ~Followed(r)]_vars
  <2> SUFFICES ASSUME IInv, Next, NEW r \in Run, courier[r] = "none", courier'[r] # "none"
               PROVE  Expired(r) \/ ~Followed(r)
    BY DEF vars
  <2>1. CourierForward(r) /\ Leases
    BY StepForward DEF Forward, IInv
  <2> QED BY <2>1 DEF CourierForward, Leases, Unsent
<1> QED BY <1>1, Invariant, PTL DEF Spec, NoStartBehindSuccessor
=============================================================================
