SPECIFICATION Spec
CONSTANTS
    Shops = {s1}
    Callers = {loop}
    CommandLoops = {loop}
    NoShop = NoShop
    MaxRetries = 0
    MaxLoginFailures = 3
    MaxTasks = 3
INVARIANT LoginFailuresPauseRestart
CHECK_DEADLOCK FALSE
