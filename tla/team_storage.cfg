SPECIFICATION Spec
CONSTANTS
    p1 = p1
    p2 = p2
    p3 = p3
    e1 = e1
    e2 = e2
    Procs = {p1, p2, p3}
    Edits = {e1, e2}
SYMMETRY Symm
INVARIANTS Exclusive
PROPERTIES Atomic
