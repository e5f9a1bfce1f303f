SPECIFICATION FairSpec
CONSTANTS
    Uris = {"slots", "teams"}
    Tools = {"acquire_slot", "init_team", "wait_events"}
    MaxCalls = 3
    MaxOthers = 1
INVARIANTS AnsweredInOrder Coherent
PROPERTIES Rests
CHECK_DEADLOCK FALSE
