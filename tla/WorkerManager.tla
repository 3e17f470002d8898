--------------------------- MODULE WorkerManager ---------------------------
(***************************************************************************)
(* The main process of the backend: the WorkerManager that owns the worker *)
(* processes (backend/workers/worker_manager.py), as seen by three kinds   *)
(* of actors.                                                              *)
(*                                                                         *)
(*   - The server thread: the lifespan of the application (start, serve,   *)
(*     shut down) and, while serving, the API calls that assign a shop to  *)
(*     a worker or remove it from one.  Handlers run to completion on the  *)
(*     event loop, so two API calls never interleave with each other.      *)
(*   - The status listener, a daemon thread that polls the status queue    *)
(*     and after each poll recovers the workers that died.                 *)
(*   - The worker processes, which consume their command queue, may crash  *)
(*     at any moment and exit on Shutdown.  What a worker does with a shop *)
(*     is the subject of ShopRuntime; here it is the set of the shops that *)
(*     its commands told it to run.                                        *)
(*                                                                         *)
(* One action is one section of code during which the manager's lock is    *)
(* held, or one that touches nothing shared.  The lock is held across      *)
(* several actions in one place only, the restore loop of a recovery.      *)
(***************************************************************************)
EXTENDS Integers, Sequences, FiniteSets

CONSTANTS
    Shops,              \* shop ids, the rows of the shop table
    MaxShopsPerWorker,  \* MAX_SHOPS_PER_WORKER
    QueueMax,           \* WORKER_QUEUE_MAXSIZE, of each command queue
    MaxWorkerId,        \* bound: worker ids handed out
    MaxCrashes,         \* bound: crashes of worker processes
    MaxDeletes          \* bound: rows of the shop table deleted

ASSUME LimitsAssumption ==
    /\ MaxShopsPerWorker \in Nat \ {0}
    /\ QueueMax \in Nat \ {0}
    /\ MaxWorkerId \in Nat
    /\ MaxCrashes \in Nat
    /\ MaxDeletes \in Nat

ASSUME ShopsAssumption == IsFiniteSet(Shops)

WorkerIds == 1..MaxWorkerId
NoWorker == 0

StartShop(s) == [type |-> "StartShop", shop |-> s]
StopShop(s)  == [type |-> "StopShop", shop |-> s]
Shutdown     == [type |-> "Shutdown"]
Command == {StartShop(s) : s \in Shops} \cup {StopShop(s) : s \in Shops} \cup {Shutdown}

VARIABLES
    \* self._workers, self._shop_to_worker, self._next_worker_id
    workers,        \* ids that have a handle
    shopIds,        \* handle.shop_ids of each id that has a handle
    shopToWorker,   \* the worker of each shop, or NoWorker
    nextWorkerId,
    \* the worker processes; an id is reused when a dead worker is respawned
    process,        \* "none", "alive" or "dead"
    generation,     \* how many processes an id has had
    cmdQueue,       \* the command queue of the id's latest process
    told,           \* shops whose last command handled by it was StartShop
    crashes,
    \* the database rows the manager reads
    shopTable,
    \* the listener thread: its place, and the locals of _monitor_workers
    listenerPc,
    restarts,       \* ids of dead workers still to be respawned
    affected,       \* the shops each of them held, still to be restored
    restarting,     \* the id being respawned, or NoWorker
    \* the server thread: its place in the lifespan, and locals of shutdown
    mainPc,
    listenerStop,   \* self._listener_stop
    toSignal,       \* processes in shutdown's snapshot not sent Shutdown yet
    toJoin,         \* processes in shutdown's snapshot not joined yet
    \* history variables: they record, and no action reads them
    asked,          \* "start" after an assign_shop that returned True, "stop"
                    \* after any remove_shop
    raced,          \* shops started or stopped while waiting to be restored
    unsent          \* shops whose StopShop met a full queue

managerVars  == <<workers, shopIds, shopToWorker, nextWorkerId>>
processVars  == <<process, generation, cmdQueue, told>>
listenerVars == <<listenerPc, restarts, affected, restarting>>
mainVars     == <<mainPc, listenerStop, toSignal, toJoin>>
historyVars  == <<asked, raced, unsent>>
vars == <<managerVars, processVars, crashes, shopTable, listenerVars, mainVars,
          historyVars>>

-----------------------------------------------------------------------------
(* Helpers *)

Alive(w) == process[w] = "alive"

Full(w) == Len(cmdQueue[w]) >= QueueMax

Load(w) == Cardinality(shopIds[w])

\* Mutant: a full worker is not skipped.
CandidatesFullToo == {w \in workers : Alive(w)}

\* Live workers with room.  A worker that died and has not been noticed yet
\* is skipped, although it still has a handle.
Candidates == {w \in workers : Alive(w) /\ Load(w) < MaxShopsPerWorker}

\* The least loaded candidate, the smallest id among equals.
LeastLoaded(w) ==
    /\ w \in Candidates
    /\ \A v \in Candidates : Load(w) < Load(v) \/ (Load(w) = Load(v) /\ w <= v)

\* math.ceil(shop_count / max_shops_per_worker).
RequiredWorkerCount(n) == (n + MaxShopsPerWorker - 1) \div MaxShopsPerWorker

\* The listener is in the lock section that restores the shops of one worker.
LockFree == listenerPc # "restoring"

\* Shops of a dead worker between the two lock sections of a recovery.
Pending == UNION {affected[w] : w \in restarts}

Serving == mainPc = "serving" /\ LockFree

\* A process is started under id w, with a command queue of its own.
Spawn(w) ==
    /\ process' = [process EXCEPT ![w] = "alive"]
    /\ generation' = [generation EXCEPT ![w] = @ + 1]
    /\ told' = [told EXCEPT ![w] = {}]

\* A process ends, and with it the shops that it ran.
Die(w) ==
    /\ process' = [process EXCEPT ![w] = "dead"]
    /\ told' = [told EXCEPT ![w] = {}]

-----------------------------------------------------------------------------
Init ==
    /\ workers = {}
    /\ shopIds = [w \in WorkerIds |-> {}]
    /\ shopToWorker = [s \in Shops |-> NoWorker]
    /\ nextWorkerId = 1
    /\ process = [w \in WorkerIds |-> "none"]
    /\ generation = [w \in WorkerIds |-> 0]
    /\ cmdQueue = [w \in WorkerIds |-> <<>>]
    /\ told = [w \in WorkerIds |-> {}]
    /\ crashes = 0
    /\ shopTable = Shops
    /\ listenerPc = "off"
    /\ restarts = {}
    /\ affected = [w \in WorkerIds |-> {}]
    /\ restarting = NoWorker
    /\ mainPc = "starting"
    /\ listenerStop = FALSE
    /\ toSignal = {}
    /\ toJoin = {}
    /\ asked = [s \in Shops |-> "nothing"]
    /\ raced = {}
    /\ unsent = {}

-----------------------------------------------------------------------------
(* The server thread *)

\* start_workers(n), called once and on a manager without workers.
StartFirst(n) ==
    /\ n <= MaxWorkerId
    /\ workers' = 1..n
    /\ nextWorkerId' = n + 1
    /\ process' = [w \in WorkerIds |-> IF w \in 1..n THEN "alive" ELSE process[w]]
    /\ generation' = [w \in WorkerIds |-> IF w \in 1..n THEN 1 ELSE generation[w]]

\* lifespan: start the workers that the online shops of the table require,
\* then the listener.  The shops themselves are not assigned here.
StartWorkers ==
    /\ mainPc = "starting"
    /\ \E online \in SUBSET shopTable : StartFirst(RequiredWorkerCount(Cardinality(online)))
    /\ listenerPc' = "checking"
    /\ mainPc' = "serving"
    /\ UNCHANGED <<shopIds, shopToWorker, cmdQueue, told, crashes, shopTable, restarts,
                   affected, restarting, listenerStop, toSignal, toJoin, historyVars>>

\* The common end of assign_shop: the command is put in the queue first, and
\* the shop is recorded as held only when that succeeded.
Hold(s, w, queue) ==
    /\ Len(queue) < QueueMax
    /\ cmdQueue' = [cmdQueue EXCEPT ![w] = Append(queue, StartShop(s))]
    /\ shopIds' = [shopIds EXCEPT ![w] = @ \cup {s}]
    /\ shopToWorker' = [shopToWorker EXCEPT ![s] = w]

\* Mutant: a shop that has a worker is assigned again.
AssignShopAgain(s) ==
    /\ Serving
    /\ s \in shopTable
    /\ \E w \in Candidates : LeastLoaded(w) /\ Hold(s, w, cmdQueue[w])
    /\ asked' = [asked EXCEPT ![s] = "start"]
    /\ UNCHANGED <<workers, nextWorkerId, process, generation, told, crashes, shopTable,
                   listenerVars, mainVars, raced, unsent>>

\* Mutant: the id of a new worker is not counted as used.
AssignShopSameId(s) ==
    /\ Serving
    /\ shopToWorker[s] = NoWorker
    /\ nextWorkerId <= MaxWorkerId
    /\ workers' = workers \cup {nextWorkerId}
    /\ Spawn(nextWorkerId)
    /\ Hold(s, nextWorkerId, <<>>)
    /\ asked' = [asked EXCEPT ![s] = "start"]
    /\ UNCHANGED <<nextWorkerId, crashes, shopTable, listenerVars, mainVars, raced, unsent>>

\* assign_shop.  It refuses, and changes nothing, when the shop has no row or
\* a worker already, or when the queue of the chosen worker is full.
AssignShop(s) ==
    /\ Serving
    /\ s \in shopTable
    /\ shopToWorker[s] = NoWorker
    /\ \/ /\ \E w \in Candidates : LeastLoaded(w) /\ Hold(s, w, cmdQueue[w])
          /\ UNCHANGED <<workers, nextWorkerId, process, generation, told>>
       \/ /\ Candidates = {}
          /\ nextWorkerId <= MaxWorkerId
          /\ workers' = workers \cup {nextWorkerId}
          /\ nextWorkerId' = nextWorkerId + 1
          /\ Spawn(nextWorkerId)
          /\ Hold(s, nextWorkerId, <<>>)
    /\ asked' = [asked EXCEPT ![s] = "start"]
    /\ raced' = IF s \in Pending THEN raced \cup {s} ELSE raced
    /\ UNCHANGED <<crashes, shopTable, listenerVars, mainVars, unsent>>

\* Mutant: the handle keeps the shop.
RemoveHeldShopFromMapOnly(s) ==
    /\ Serving
    /\ shopToWorker[s] # NoWorker
    /\ shopToWorker' = [shopToWorker EXCEPT ![s] = NoWorker]
    /\ ~Full(shopToWorker[s])
    /\ cmdQueue' = [cmdQueue EXCEPT ![shopToWorker[s]] = Append(@, StopShop(s))]
    /\ asked' = [asked EXCEPT ![s] = "stop"]
    /\ UNCHANGED <<workers, shopIds, nextWorkerId, process, generation, told, crashes,
                   shopTable, listenerVars, mainVars, raced, unsent>>

\* Mutant: the worker is not told.
RemoveHeldShopSilently(s) ==
    /\ Serving
    /\ shopToWorker[s] # NoWorker
    /\ shopToWorker' = [shopToWorker EXCEPT ![s] = NoWorker]
    /\ shopIds' = [shopIds EXCEPT ![shopToWorker[s]] = @ \ {s}]
    /\ asked' = [asked EXCEPT ![s] = "stop"]
    /\ UNCHANGED <<workers, nextWorkerId, processVars, crashes, shopTable, listenerVars,
                   mainVars, raced, unsent>>

\* remove_shop of a shop that has a worker.  The shop is forgotten first, and
\* a full queue then raises: the call fails and the command is never sent.
RemoveHeldShop(s) ==
    /\ Serving
    /\ shopToWorker[s] # NoWorker
    /\ shopToWorker' = [shopToWorker EXCEPT ![s] = NoWorker]
    /\ LET w == shopToWorker[s]
       IN  IF w \in workers
             THEN /\ shopIds' = [shopIds EXCEPT ![w] = @ \ {s}]
                  /\ IF Full(w)
                       THEN unsent' = unsent \cup {s} /\ UNCHANGED cmdQueue
                       ELSE /\ cmdQueue' = [cmdQueue EXCEPT ![w] = Append(@, StopShop(s))]
                            /\ UNCHANGED unsent
             ELSE UNCHANGED <<shopIds, cmdQueue, unsent>>
    /\ asked' = [asked EXCEPT ![s] = "stop"]
    /\ raced' = IF s \in Pending THEN raced \cup {s} ELSE raced
    /\ UNCHANGED <<workers, nextWorkerId, process, generation, told, crashes, shopTable,
                   listenerVars, mainVars>>

\* remove_shop of a shop that has none: it answers False and sends nothing.
RemoveUnheldShop(s) ==
    /\ Serving
    /\ shopToWorker[s] = NoWorker
    /\ asked' = [asked EXCEPT ![s] = "stop"]
    /\ raced' = IF s \in Pending THEN raced \cup {s} ELSE raced
    /\ UNCHANGED <<managerVars, processVars, crashes, shopTable, listenerVars, mainVars, unsent>>

\* The API deletes the row of a shop and tells the manager nothing.
DeleteShop(s) ==
    /\ Serving
    /\ s \in shopTable
    /\ Cardinality(Shops \ shopTable) < MaxDeletes
    /\ shopTable' = shopTable \ {s}
    /\ UNCHANGED <<managerVars, processVars, crashes, listenerVars, mainVars, historyVars>>

\* shutdown: set the stop flag ...
BeginShutdown ==
    /\ Serving
    /\ listenerStop' = TRUE
    /\ mainPc' = "stopping"
    /\ UNCHANGED <<managerVars, processVars, crashes, shopTable, listenerVars,
                   toSignal, toJoin, historyVars>>

\* ... copy the handles under the lock; a handle is a process, not an id ...
SnapshotWorkers ==
    /\ mainPc = "stopping"
    /\ LockFree
    /\ toSignal' = {<<w, generation[w]>> : w \in workers}
    /\ toJoin' = toSignal'
    /\ mainPc' = "draining"
    /\ UNCHANGED <<managerVars, processVars, crashes, shopTable, listenerVars,
                   listenerStop, historyVars>>

\* The process of a handle runs: an id's earlier processes are all dead.
HandleAlive(h) == generation[h[1]] = h[2] /\ Alive(h[1])

\* ... send each live process Shutdown, and shrug off a full queue ...
SignalWorker(h) ==
    /\ mainPc = "draining"
    /\ h \in toSignal
    /\ toSignal' = toSignal \ {h}
    /\ IF HandleAlive(h) /\ ~Full(h[1])
         THEN cmdQueue' = [cmdQueue EXCEPT ![h[1]] = Append(@, Shutdown)]
         ELSE UNCHANGED cmdQueue
    /\ UNCHANGED <<managerVars, process, generation, told, crashes, shopTable,
                   listenerVars, mainPc, listenerStop, toJoin, historyVars>>

\* Mutant: a process that outlives the timeout is waited for, not killed.
JoinOnly(h) ==
    /\ mainPc = "draining"
    /\ toSignal = {}
    /\ h \in toJoin
    /\ ~HandleAlive(h)
    /\ toJoin' = toJoin \ {h}
    /\ UNCHANGED <<managerVars, processVars, crashes, shopTable,
                   listenerVars, mainPc, listenerStop, toSignal, historyVars>>

\* ... wait for each process, and kill the one that outlives the timeout ...
JoinOrKill(h) ==
    /\ mainPc = "draining"
    /\ toSignal = {}
    /\ h \in toJoin
    /\ toJoin' = toJoin \ {h}
    /\ IF HandleAlive(h) THEN Die(h[1]) ELSE UNCHANGED <<process, told>>
    /\ UNCHANGED <<managerVars, generation, cmdQueue, crashes, shopTable,
                   listenerVars, mainPc, listenerStop, toSignal, historyVars>>

\* ... join the listener, for five seconds at most ...
JoinListener ==
    /\ mainPc = "draining"
    /\ toSignal = {}
    /\ toJoin = {}
    /\ mainPc' = "clearing"
    /\ UNCHANGED <<managerVars, processVars, crashes, shopTable, listenerVars,
                   listenerStop, toSignal, toJoin, historyVars>>

\* ... and forget every worker and every shop.
ClearState ==
    /\ mainPc = "clearing"
    /\ LockFree
    /\ workers' = {}
    /\ shopIds' = [w \in WorkerIds |-> {}]
    /\ shopToWorker' = [s \in Shops |-> NoWorker]
    /\ mainPc' = "closed"
    /\ UNCHANGED <<nextWorkerId, processVars, crashes, shopTable, listenerVars,
                   listenerStop, toSignal, toJoin, historyVars>>

-----------------------------------------------------------------------------
(* The status listener *)

\* The loop test; the thread then waits in the status queue for one event,
\* and for one second at most.
ListenerTest ==
    /\ listenerPc = "checking"
    /\ listenerPc' = IF listenerStop THEN "stopped" ELSE "waiting"
    /\ UNCHANGED <<managerVars, processVars, crashes, shopTable, restarts, affected,
                   restarting, mainVars, historyVars>>

\* An event arrived and was handled, or none did; either way the first lock
\* section of _monitor_workers follows: the handle of a dead worker goes, and
\* so does the assignment of each shop that it held.  The stop flag is not
\* looked at again.
DetectDeadWorkers ==
    /\ listenerPc = "waiting"
    /\ LET dead == {w \in workers : process[w] = "dead"}
       IN  /\ workers' = workers \ dead
           /\ shopToWorker' = [s \in Shops |->
                IF \E w \in dead : s \in shopIds[w] THEN NoWorker ELSE shopToWorker[s]]
           /\ shopIds' = [w \in WorkerIds |-> IF w \in dead THEN {} ELSE shopIds[w]]
           /\ affected' = [w \in WorkerIds |-> IF w \in dead THEN shopIds[w] ELSE {}]
           /\ restarts' = dead
           /\ listenerPc' = IF dead = {} THEN "checking" ELSE "respawning"
    /\ UNCHANGED <<nextWorkerId, processVars, crashes, shopTable, restarting, mainVars,
                   historyVars>>

\* Mutant: the new process inherits the queue of the dead one.
RespawnWorkerOldQueue(w) ==
    /\ listenerPc = "respawning"
    /\ w \in restarts
    /\ Spawn(w)
    /\ restarting' = w
    /\ listenerPc' = "registering"
    /\ UNCHANGED <<cmdQueue, managerVars, crashes, shopTable, restarts, affected, mainVars,
                   historyVars>>

\* Outside the lock, a new process is started under the id of a dead one.
RespawnWorker(w) ==
    /\ listenerPc = "respawning"
    /\ w \in restarts
    /\ Spawn(w)
    /\ cmdQueue' = [cmdQueue EXCEPT ![w] = <<>>]
    /\ restarting' = w
    /\ listenerPc' = "registering"
    /\ UNCHANGED <<managerVars, crashes, shopTable, restarts, affected, mainVars,
                   historyVars>>

\* The second lock section begins: the handle is published ...
RegisterWorker ==
    /\ listenerPc = "registering"
    /\ workers' = workers \cup {restarting}
    /\ shopIds' = [shopIds EXCEPT ![restarting] = {}]
    /\ nextWorkerId' = IF restarting >= nextWorkerId THEN restarting + 1 ELSE nextWorkerId
    /\ listenerPc' = "restoring"
    /\ UNCHANGED <<shopToWorker, processVars, crashes, shopTable, restarts, affected,
                   restarting, mainVars, historyVars>>

\* Mutant: the shop is recorded and the process is not told.
RestoreShopSilently(s) ==
    /\ listenerPc = "restoring"
    /\ s \in affected[restarting]
    /\ shopIds' = [shopIds EXCEPT ![restarting] = @ \cup {s}]
    /\ shopToWorker' = [shopToWorker EXCEPT ![s] = restarting]
    /\ affected' = [affected EXCEPT ![restarting] = @ \ {s}]
    /\ UNCHANGED <<workers, nextWorkerId, processVars, crashes, shopTable,
                   listenerPc, restarts, restarting, mainVars, historyVars>>

\* ... each shop is recorded as held and then sent to the process ...
RestoreShop(s) ==
    /\ listenerPc = "restoring"
    /\ s \in affected[restarting]
    /\ ~Full(restarting)
    /\ shopIds' = [shopIds EXCEPT ![restarting] = @ \cup {s}]
    /\ shopToWorker' = [shopToWorker EXCEPT ![s] = restarting]
    /\ cmdQueue' = [cmdQueue EXCEPT ![restarting] = Append(@, StartShop(s))]
    /\ affected' = [affected EXCEPT ![restarting] = @ \ {s}]
    /\ UNCHANGED <<workers, nextWorkerId, process, generation, told, crashes, shopTable,
                   listenerPc, restarts, restarting, mainVars, historyVars>>

\* Mutant: the handle gets the shop only after the command was sent.
RestoreFailsUnheld(s) ==
    /\ listenerPc = "restoring"
    /\ s \in affected[restarting]
    /\ Full(restarting)
    /\ shopToWorker' = [shopToWorker EXCEPT ![s] = restarting]
    /\ affected' = [w \in WorkerIds |-> {}]
    /\ restarts' = {}
    /\ restarting' = NoWorker
    /\ listenerPc' = "failed"
    /\ UNCHANGED <<workers, shopIds, nextWorkerId, processVars, crashes, shopTable, mainVars,
                   historyVars>>

\* ... where a full queue raises between the two: the thread ends, and with it
\* the rest of this recovery and every later one ...
RestoreFails(s) ==
    /\ listenerPc = "restoring"
    /\ s \in affected[restarting]
    /\ Full(restarting)
    /\ shopIds' = [shopIds EXCEPT ![restarting] = @ \cup {s}]
    /\ shopToWorker' = [shopToWorker EXCEPT ![s] = restarting]
    /\ affected' = [w \in WorkerIds |-> {}]
    /\ restarts' = {}
    /\ restarting' = NoWorker
    /\ listenerPc' = "failed"
    /\ UNCHANGED <<workers, nextWorkerId, processVars, crashes, shopTable, mainVars,
                   historyVars>>

\* Mutant: the loop ends before its last shop.
FinishRestoreEarly ==
    /\ listenerPc = "restoring"
    /\ restarts' = restarts \ {restarting}
    /\ affected' = [affected EXCEPT ![restarting] = {}]
    /\ restarting' = NoWorker
    /\ listenerPc' = IF restarts' = {} THEN "checking" ELSE "respawning"
    /\ UNCHANGED <<managerVars, processVars, crashes, shopTable, mainVars, historyVars>>

\* ... and the lock is released when all have been.
FinishRestore ==
    /\ listenerPc = "restoring"
    /\ affected[restarting] = {}
    /\ restarts' = restarts \ {restarting}
    /\ restarting' = NoWorker
    /\ listenerPc' = IF restarts' = {} THEN "checking" ELSE "respawning"
    /\ UNCHANGED <<managerVars, processVars, crashes, shopTable, affected, mainVars,
                   historyVars>>

-----------------------------------------------------------------------------
(* The worker processes *)

\* A worker takes a command off its queue and carries it out.
HandleStartShop(w, s) ==
    /\ told' = [told EXCEPT ![w] = @ \cup {s}]
    /\ UNCHANGED process

\* Mutant: the command is taken off the queue and the shop goes on.
HandleStopShopIgnored(w, s) == s \in Shops /\ UNCHANGED <<told, process>>

HandleStopShop(w, s) ==
    /\ told' = [told EXCEPT ![w] = @ \ {s}]
    /\ UNCHANGED process

HandleCommand(w) ==
    /\ Alive(w)
    /\ cmdQueue[w] # <<>>
    /\ LET c == Head(cmdQueue[w])
       IN  \/ c.type = "StartShop" /\ HandleStartShop(w, c.shop)
           \/ c.type = "StopShop" /\ HandleStopShop(w, c.shop)
           \/ c.type = "Shutdown" /\ Die(w)
    /\ cmdQueue' = [cmdQueue EXCEPT ![w] = Tail(@)]
    /\ UNCHANGED <<managerVars, generation, crashes, shopTable, listenerVars, mainVars,
                   historyVars>>

\* A worker process ends by itself, whatever the reason.
Crash(w) ==
    /\ Alive(w)
    /\ crashes < MaxCrashes
    /\ crashes' = crashes + 1
    /\ Die(w)
    /\ UNCHANGED <<managerVars, generation, cmdQueue, shopTable, listenerVars,
                   mainVars, historyVars>>

-----------------------------------------------------------------------------
ApiCall ==
    \E s \in Shops : AssignShop(s) \/ RemoveHeldShop(s) \/ RemoveUnheldShop(s) \/ DeleteShop(s)

ShutdownStep ==
    \/ SnapshotWorkers
    \/ \E h \in toSignal : SignalWorker(h)
    \/ \E h \in toJoin : JoinOrKill(h)
    \/ JoinListener
    \/ ClearState

Recovery ==
    \/ \E w \in restarts : RespawnWorker(w)
    \/ RegisterWorker
    \/ \E s \in Shops : RestoreShop(s) \/ RestoreFails(s)
    \/ FinishRestore

ListenerStep == ListenerTest \/ DetectDeadWorkers \/ Recovery

WorkerStep(w) == HandleCommand(w) \/ Crash(w)

Next ==
    \/ StartWorkers
    \/ ApiCall
    \/ BeginShutdown
    \/ ShutdownStep
    \/ ListenerStep
    \/ \E w \in WorkerIds : WorkerStep(w)

Spec == Init /\ [][Next]_vars

\* The operating system schedules the listener thread, the server thread and
\* the processes: each of them, once it can step, does.  That somebody calls
\* the API, shuts the program down or makes a worker crash is not promised.
Fairness ==
    /\ WF_vars(ListenerStep)
    /\ WF_vars(ShutdownStep)
    /\ \A w \in WorkerIds : WF_vars(HandleCommand(w))

FairSpec == Spec /\ Fairness

-----------------------------------------------------------------------------
(* The invariant behind the properties *)

\* Ids from nextWorkerId on are unused, an id waiting for its respawn has no
\* handle and a dead process, and the listener's locals fit its place.
ProcessesInv ==
    /\ \A w \in workers \cup restarts : w < nextWorkerId
    /\ \A w \in WorkerIds : w >= nextWorkerId => process[w] = "none" /\ cmdQueue[w] = <<>>
    /\ \A w \in restarts \ {restarting} : process[w] = "dead" /\ w \notin workers
    /\ listenerPc = "registering" => restarting \notin workers /\ cmdQueue[restarting] = <<>>
    /\ listenerPc = "restoring" => restarting \in workers
    /\ restarting # NoWorker <=> listenerPc \in {"registering", "restoring"}
    /\ listenerPc \in {"off", "checking", "waiting", "stopped", "failed"} => restarts = {}
    /\ mainPc = "starting" =>
         workers = {} /\ nextWorkerId = 1 /\ listenerPc = "off" /\ toSignal = {}

\* What is held belongs to a handle, what is to be restored to a respawn.
HoldersInv ==
    /\ \A w \in WorkerIds : shopIds[w] # {} => w \in workers
    /\ \A w \in WorkerIds : affected[w] # {} => w \in restarts

\* No handle of shutdown's snapshot is that of the process being respawned.
SnapshotInv ==
    \A h \in toSignal :
        /\ h[2] <= generation[h[1]]
        /\ h[1] = restarting => h[2] < generation[h[1]]

\* A queue that is being refilled has room for the rest of its shops.
RefillInv ==
    listenerPc = "restoring" =>
        Len(cmdQueue[restarting]) + Cardinality(affected[restarting]) <= MaxShopsPerWorker

-----------------------------------------------------------------------------
(* Properties *)

ManagerTypeOK ==
    /\ workers \in SUBSET WorkerIds
    /\ shopIds \in [WorkerIds -> SUBSET Shops]
    /\ shopToWorker \in [Shops -> WorkerIds \cup {NoWorker}]
    /\ nextWorkerId \in 1..(MaxWorkerId + 1)
    /\ shopTable \in SUBSET Shops

ProcessTypeOK ==
    /\ process \in [WorkerIds -> {"none", "alive", "dead"}]
    /\ generation \in [WorkerIds -> Nat]
    /\ cmdQueue \in [WorkerIds -> Seq(Command)]
    /\ told \in [WorkerIds -> SUBSET Shops]
    /\ crashes \in 0..MaxCrashes

ListenerTypeOK ==
    /\ listenerPc \in {"off", "checking", "waiting", "respawning", "registering",
                       "restoring", "stopped", "failed"}
    /\ restarts \in SUBSET WorkerIds
    /\ affected \in [WorkerIds -> SUBSET Shops]
    /\ restarting \in WorkerIds \cup {NoWorker}
    /\ listenerPc \in {"registering", "restoring"} => restarting \in restarts

MainTypeOK ==
    /\ mainPc \in {"starting", "serving", "stopping", "draining", "clearing", "closed"}
    /\ listenerStop \in BOOLEAN
    /\ toSignal \in SUBSET (WorkerIds \X Nat)
    /\ toJoin \in SUBSET (WorkerIds \X Nat)

HistoryTypeOK ==
    /\ asked \in [Shops -> {"nothing", "start", "stop"}]
    /\ raced \in SUBSET Shops
    /\ unsent \in SUBSET Shops

\* Type correctness, in the parts that the variables form.
TypeOK ==
    /\ ManagerTypeOK
    /\ ProcessTypeOK
    /\ ListenerTypeOK
    /\ MainTypeOK
    /\ HistoryTypeOK

\* No worker is ever given more shops than max_shops_per_worker, by an
\* assignment or by a recovery that restores the shops of a dead worker while
\* the API goes on assigning.
CapacityRespected ==
    \A w \in WorkerIds : Load(w) + Cardinality(affected[w]) <= MaxShopsPerWorker

\* _shop_to_worker and the handles agree: the worker that a shop maps to has
\* a handle, and that handle holds the shop.  remove_shop relies on it when it
\* answers False for a missing handle after it has forgotten the shop.
MappedShopsAreHeld ==
    \A s \in Shops : shopToWorker[s] # NoWorker =>
        /\ shopToWorker[s] \in workers
        /\ s \in shopIds[shopToWorker[s]]

\* Apart from the shops that the API touched in the window of a recovery, the
\* handles agree with _shop_to_worker, so no two workers hold one shop, and a
\* shop that waits to be restored is held by none and waits in one place.
UnracedShopHasOneHolder ==
    \A s \in Shops \ raced :
        /\ \A w \in WorkerIds : s \in shopIds[w] => shopToWorker[s] = w
        /\ \A w \in restarts : s \in affected[w] =>
             /\ shopToWorker[s] = NoWorker
             /\ \A v \in restarts : s \in affected[v] => v = w

\* The last command for s that the queue of w holds is StartShop, or none is
\* left in it and the last one handled was.
Commanded(w, s) ==
    LET q == cmdQueue[w]
    IN  \/ \E i \in 1..Len(q) :
             q[i] = StartShop(s) /\ \A j \in i..Len(q) : q[j] # StopShop(s)
        \/ s \in told[w] /\ \A i \in 1..Len(q) : q[i] # StopShop(s)

\* A live worker is under orders to run every shop it holds: queues, crashes,
\* respawns under the same id and restores never lose a StartShop.  A Shutdown
\* in the queue ends the matter.
HeldShopsAreCommanded ==
    \A w \in workers : \A s \in shopIds[w] :
        Alive(w) /\ listenerPc # "failed" => Commanded(w, s)

\* And it runs no shop that it does not hold, unless the StopShop was dropped
\* at a full queue: a StopShop never arrives before the StartShop it undoes,
\* and none is lost to a respawn.
OnlyHeldShopsAreCommanded ==
    mainPc # "closed" =>
        \A w \in workers : \A s \in Shops \ unsent :
            Alive(w) /\ Commanded(w, s) => s \in shopIds[w]

\* Once assign_shop has returned True the manager does not lose the shop: until
\* a remove_shop or the shutdown it has a worker or waits to be restored, over
\* any number of crashes.  (It needs a queue that takes all shops of a worker.)
StartedShopsAreTracked ==
    QueueMax >= MaxShopsPerWorker /\ mainPc # "closed" =>
        \A s \in Shops : asked[s] = "start" =>
            shopToWorker[s] # NoWorker \/ s \in Pending

\* A shop stopped outside the window of a recovery stays stopped: no later
\* recovery finds it among the shops of a dead worker and starts it again.
UnracedStopSticks ==
    \A s \in Shops \ raced : asked[s] = "stop" =>
        /\ shopToWorker[s] = NoWorker
        /\ s \notin Pending

\* The listener thread survives every recovery, provided that a fresh queue
\* takes the StartShop of every shop of a worker: _monitor_workers sends them
\* outside any exception handler of the thread.
ListenerSurvives == QueueMax >= MaxShopsPerWorker => listenerPc # "failed"

\* A worker id is never given to a second process while its first one lives,
\* so no process is left running that no handle leads to.
NoSpawnOverLiveWorker ==
    [][\A w \in WorkerIds : Alive(w) => generation'[w] = generation[w]]_vars

\* While the program serves, the shops of a crashed worker come back: a shop
\* that has a worker, dead or alive, ends up running in a live one, unless the
\* API stops it, the program shuts down, or a refused command has ended the
\* listener thread.
StartedShopsRun ==
    \A s \in Shops :
        asked[s] = "start" ~>
            \/ \E w \in workers : Alive(w) /\ s \in told[w]
            \/ asked[s] # "start"
            \/ mainPc # "serving"
            \/ listenerPc = "failed"

\* A stop reaches the worker: after remove_shop has returned True the worker
\* processes, with whatever else is in their queues, come to a point where none
\* is under orders to run the shop, unless it is started again meanwhile.
StoppedShopsEnd ==
    \A s \in Shops :
        asked[s] = "stop" /\ s \notin raced \cup unsent ~>
            \/ \A w \in WorkerIds : s \notin told[w]
            \/ asked[s] # "stop"
            \/ s \in raced \cup unsent
            \/ mainPc # "serving"

\* shutdown ends, whatever the workers and the listener are doing.
ShutdownCompletes == listenerStop ~> mainPc = "closed"

=============================================================================
