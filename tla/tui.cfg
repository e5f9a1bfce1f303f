SPECIFICATION FairSpec
CONSTANTS
    SlotIds = {1, 2}
    SessionIds = {1, 2}
    TeamIds = {1, 2}
    Cards <- MCCards
    CardSlot <- MCCardSlot
    Starts <- MCStarts
    Embedded = {1}
    MaxChanges = 1
    MaxKeys = 3
    MaxErrors = 1
    None = None
INVARIANTS Consistent ActsOnNamed
PROPERTIES NeverBack CursorStays Converges
CHECK_DEADLOCK FALSE
