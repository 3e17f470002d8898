\* One shop in a worker process, and two loops of it one after the other.
SPECIFICATION FairSpec
CONSTANTS
    Shops = {s1}
    Callers = {loop}
    CommandLoops = {loop}
    NoShop = NoShop
    MaxRetries = 1
    MaxLoginFailures = 3
    MaxTasks = 2
INVARIANTS RunningLoopsAreTracked OnlineShopHasLoop PollingShopIsOnline
PROPERTIES EndlessRecoveryPolls StopsReturn StaleBrowsersGo ScheduledRestartsHappen
CHECK_DEADLOCK FALSE
