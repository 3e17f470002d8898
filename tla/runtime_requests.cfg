SPECIFICATION Spec
CONSTANTS
    Shops = {s1, s2}
    Callers = {api1, api2}
    CommandLoops = {}
    NoShop = NoShop
    MaxRetries = 0
    MaxLoginFailures = 3
    MaxTasks = 2
CONSTRAINT NoRowDeleted
VIEW Essentials
SYMMETRY ShopCallerSymmetry
INVARIANTS RegisteredContextHasLoop CleanStopSticks
CHECK_DEADLOCK FALSE
