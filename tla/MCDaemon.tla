------------------------------ MODULE MCDaemon ------------------------------
EXTENDS Daemon, TLC
Symm == Permutations(Daemons) \cup Permutations(Clients)
=============================================================================
