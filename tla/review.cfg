SPECIFICATION Spec
CONSTANTS
    Slots = {s1, s2}
    Repos = {"r1", "r2"}
    Layouts <- Placings
    Files <- Names
    DirOf <- Directory
    TTL = 2
    MaxSteps = 6
    MaxErrors = 1
INVARIANTS
    Recent
    OverlapsShown
    RefreshIsSeen
