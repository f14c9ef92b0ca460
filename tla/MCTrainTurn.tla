---------------------------- MODULE MCTrainTurn ----------------------------
EXTENDS TrainTurn, TLC
CONSTANTS a, b, c

MCAreas == a :> {"loop"} @@ b :> {"loop", "web"} @@ c :> {"docs", "loop"}
MCAreaRank == [x \in {"docs", "loop", "web"} |-> IF x = "docs" THEN 1 ELSE IF x = "loop" THEN 2 ELSE 3]
MCRank == a :> 1 @@ b :> 2 @@ c :> 3
MCAfter == a :> c @@ b :> Nobody @@ c :> Nobody
\* a and b break each other, and each selects the test that sees it.  b and c break
\* each other too, but only b selects the test: c on top of b passes.
MCFails == {L \in (SUBSET Train) \X (SUBSET Train) :
                \/ ({a, b} \subseteq L[2] /\ {a, b} \cap (L[2] \ L[1]) # {})
                \/ ({b, c} \subseteq L[2] /\ b \in L[2] \ L[1])}
=============================================================================
