\* Two shops that share a worker, which may crash and be respawned, and a command
\* queue smaller than its shops: commands are refused, and a recovery may fail
\* half-way and take the listener thread with it.
CONSTANTS
    Shops = {s1, s2}
    MaxShopsPerWorker = 2
    QueueMax = 1
    MaxWorkerId = 1
    MaxCrashes = 1
    MaxDeletes = 1
SPECIFICATION FairSpec
INVARIANT MappedShopsAreHeld
PROPERTIES
    StartedShopsRun
    StoppedShopsEnd
    ShutdownCompletes
CHECK_DEADLOCK FALSE
