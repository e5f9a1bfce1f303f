---- MODULE MCWorkspace ----
EXTENDS Workspace, TLC
Symm == Permutations(Slots) \cup Permutations(Sessions)
====
