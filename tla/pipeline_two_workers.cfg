SPECIFICATION FairSpec
CONSTANTS
    Sessions = {s1}
    NoSession = NoSession
    Loops = {l1, l2}
    Configurations <- AlwaysOn
    Unwatchable = {s1}
    MaxLength = 3
    MaxFaults = 0
INVARIANTS
    LedgerInv
PROPERTIES
    ImplementsLedger
    OpenedChatsAreRecorded
    BuyersGetAttention
CHECK_DEADLOCK FALSE
