SPECIFICATION FairSpec
CONSTANTS
    CommandMax = 2
    StatusMax = 2
    MaxFailures = 1
    MaxStragglers = 1
    MaxTimers = 2
INVARIANTS
    QuietShopIsOffline
    ServedShopIsOnline
    ShownShopIsServed
PROPERTY HeldShopComesBack
CHECK_DEADLOCK FALSE
