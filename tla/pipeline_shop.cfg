SPECIFICATION Spec
CONSTANTS
    Sessions = {s1, s2}
    NoSession = NoSession
    Loops = {l1}
    Configurations <- OnOrOff
    Unwatchable = {}
    MaxLength = 2
    MaxFaults = 1
SYMMETRY SessionSymmetry
INVARIANTS
    RightChat
    LogTellsTheTruth
    EscalationShows
CHECK_DEADLOCK FALSE
