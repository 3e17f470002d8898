\* Two shops that fill one worker each (or share one), a crash, a third worker
\* id to spawn when a dead worker has not been noticed yet.
CONSTANTS
    Shops = {s1, s2}
    MaxShopsPerWorker = 1
    QueueMax = 2
    MaxWorkerId = 2
    MaxCrashes = 1
    MaxDeletes = 0
SPECIFICATION Spec
SYMMETRY ShopSymmetry
INVARIANTS
    CapacityRespected
    UnracedShopHasOneHolder
    HeldShopsAreCommanded
    OnlyHeldShopsAreCommanded
    StartedShopsAreTracked
    UnracedStopSticks
    ListenerSurvives
PROPERTY NoSpawnOverLiveWorker
CHECK_DEADLOCK FALSE
