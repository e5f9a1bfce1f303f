SPECIFICATION Spec
CONSTANTS
    Actors = {cli}
    Mutators = {cli}
    Slots = {s1}
    Sessions = {x1, x2}
    Tasks = {t1}
    Modes = {"pty"}
    Faults = {"crash", "lose"}
    cli = cli
    s1 = s1
    x1 = x1
    x2 = x2
    t1 = t1
SYMMETRY Symm
INVARIANTS OneWriter SessionHoldsSlot AgentTracked OneLiveWriter NoOrphans
PROPERTIES NoWorkLost ImplementsTables
