SPECIFICATION Spec
CONSTANTS
    Actors = {cli, tui}
    Mutators = {cli, tui}
    Slots = {s1}
    Sessions = {x1}
    Tasks = {t1, t2}
    Modes = {}
    Faults = {}
    cli = cli
    tui = tui
    s1 = s1
    x1 = x1
    t1 = t1
    t2 = t2
SYMMETRY Symm
PROPERTIES NoDoubleGrant
