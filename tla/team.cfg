SPECIFICATION Spec
CONSTANTS
    Tasks = {t1, t2}
    Workers = {w1}
    Lead = l1
    Plans = {p1}
    Slots = {s1, s2}
    MaxSessions = 2
    DependsOn <- Deps
    None = None
    Teams <- MCTeams
    Operators = {o1, o2}
    Commands = {"init", "member", "lead", "assign", "plan", "task", "bind", "state", "accept", "rework", "cancel", "reset", "archive", "delete", "core.archive", "core.delete", "acquire", "release", "prune", "stop", "commit", "start", "delegate", "teardown", "crash"}
    Price <- Prices
    Budget = 4
    Launches = {"pty", "oneshot", "dry"}
    Inline = {}
    Verified = {t1}
    t1 = t1
    t2 = t2
    w1 = w1
INVARIANTS Loadable Settles NoSlotLost
CHECK_DEADLOCK FALSE
PROPERTIES TeardownClean OnlyOperatorsDecide UsesTables
SYMMETRY Symm
