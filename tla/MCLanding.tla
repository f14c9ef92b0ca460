------------------------------ MODULE MCLanding ------------------------------
EXTENDS Landing, TLC

\* The owner leaves the queue alone, or pushes and holds it once.
Quiet == {[p |-> "poison", g |-> "good"], [p |-> "branchonly", g |-> "good"],
          [p |-> "bad", g |-> "refused"]}
Busy == {[p |-> "poison", g |-> "refused"], [p |-> "refused", g |-> "good"]}

\* The owner's push turns master red, and one line turns it green on which the other failed.
Shared == {[p |-> "good", g |-> "good"]}

MCWork == Quiet \cup Busy \cup Shared
MCMaxCommit == [w \in MCWork |-> IF w \in Quiet THEN 4 ELSE IF w \in Busy THEN 2 ELSE 3]
MCMaxPush == [w \in MCWork |-> IF w \in Quiet THEN 0 ELSE 1]
MCRank == "fix" :> 0 @@ "revert" :> 1 @@ "p" :> 2 @@ "g" :> 3
=============================================================================
