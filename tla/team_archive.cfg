SPECIFICATION Spec
CONSTANTS
    Tasks = {t1}
    Workers = {w1}
    Lead = l1
    Plans = {}
    Slots = {s1}
    MaxSessions = 1
    DependsOn <- Deps
    None = None
    Teams <- MCTeams
    Operators = {o1}
    Commands = {"start", "state", "accept", "archive"}
    Price <- Prices
    Budget = 6
    Launches = {"pty"}
    Inline = {}
    Verified = {}
    t1 = t1
    t2 = t2
    w1 = w1
PROPERTIES ArchiveSafe
CHECK_DEADLOCK FALSE
