SPECIFICATION Spec
CONSTANTS
    Sessions = {s1}
    NoSession = NoSession
    Loops = {l1}
    Configurations <- AlwaysOn
    Unwatchable = {}
    MaxLength = 2
    MaxFaults = 0
PROPERTIES
    SkipsFollowAgents
CHECK_DEADLOCK FALSE
