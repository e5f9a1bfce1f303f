SPECIFICATION FairSpec
CONSTANTS
    Actors = {cli, tui}
    Mutators = {cli}
    Slots = {s1}
    Sessions = {x1}
    Tasks = {t1}
    Modes = {"pty", "oneshot", "dry"}
    Faults = {"edit", "git"}
    cli = cli
    tui = tui
    s1 = s1
    x1 = x1
    t1 = t1
INVARIANTS TypeOK ActiveOnBranch
PROPERTIES CommandsEnd EndNoticed ImplementsWatchedTables
