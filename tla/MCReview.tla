------------------------------ MODULE MCReview ------------------------------
EXTENDS Review

Names == {"src/a", "src/b", "c"}
Directory == [f \in Names |-> IF f = "c" THEN "" ELSE "src"]
First == CHOOSE s \in Slots : TRUE
Placings == {[s \in Slots |-> "r1"], [s \in Slots |-> IF s = First THEN "r1" ELSE "r2"]}
=============================================================================
