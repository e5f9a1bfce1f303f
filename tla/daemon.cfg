SPECIFICATION FairSpec
CONSTANTS
    d1 = d1
    d2 = d2
    c1 = c1
    None = None
    Daemons = {d1, d2}
    Clients = {c1}
    MaxTries = 1
    Faults = {"stop", "crash"}
INVARIANTS
    OneDaemon
    Undisturbed
    RanOnce
PROPERTIES
    ClientsEnd
    ShutdownWorks
