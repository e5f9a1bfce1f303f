---- MODULE MCTeamStorage ----
EXTENDS TeamStorage, TLC
Symm == Permutations(Procs) \cup Permutations(Edits)
====
