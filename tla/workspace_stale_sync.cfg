SPECIFICATION Spec
CONSTANTS
    Actors = {cli, tui}
    Mutators = {cli}
    Slots = {s1}
    Sessions = {x1, x2}
    Tasks = {t1}
    Modes = {"pty"}
    Faults = {}
    cli = cli
    tui = tui
    s1 = s1
    x1 = x1
    x2 = x2
    t1 = t1
SYMMETRY Symm
INVARIANTS OneLiveWriter
