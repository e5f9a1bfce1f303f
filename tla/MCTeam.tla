---- MODULE MCTeam ----
EXTENDS Team, TLC
CONSTANTS t1, t2, w1
Deps == [t \in Tasks |-> IF t = t2 THEN {t1} \cap Tasks ELSE {}]
Planned == [Starter EXCEPT !.workers = {w1}, !.card = [t \in Tasks |-> NewCard(w1)]]
Cheap == {"plan", "accept", "init", "task", "member", "crash"}
Prices == [c \in Commands |-> IF c \in Cheap THEN 1 ELSE 2]
MCTeams == {NoTeam, Planned}
Symm == Permutations(Slots) \cup Permutations(Operators)
====
