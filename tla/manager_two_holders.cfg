\* One crash; two workers, so that the window of the recovery leaves a choice.
CONSTANTS
    Shops = {s1}
    MaxShopsPerWorker = 1
    QueueMax = 2
    MaxWorkerId = 2
    MaxCrashes = 1
    MaxDeletes = 0
SPECIFICATION Spec
INVARIANT OneHolderPerShop
CHECK_DEADLOCK FALSE
