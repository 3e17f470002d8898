------------------------ MODULE WorkerManagerProofs ------------------------
(***************************************************************************)
(* What holds of WorkerManager for every number of shops, workers and      *)
(* crashes and every limit.                                                *)
(***************************************************************************)
EXTENDS WorkerManager, FiniteSetTheorems, TLAPS

\* The number of workers that the lifespan starts is a natural number.
LEMMA RequiredIsNat ==
    ASSUME NEW online \in SUBSET Shops
    PROVE  RequiredWorkerCount(Cardinality(online)) \in Nat
<1>1. Cardinality(online) \in Nat
  BY ShopsAssumption, FS_Subset, FS_CardinalityType
<1>2. \A k \in Nat, m \in Nat \ {0} : (k + m - 1) \div m \in Nat
  OBVIOUS
<1> QED BY <1>1, <1>2, LimitsAssumption DEF RequiredWorkerCount

\* The commands the manager sends are commands.
LEMMA CommandTypes ==
    /\ \A s \in Shops : StartShop(s) \in Command /\ StopShop(s) \in Command
    /\ Shutdown \in Command
BY DEF Command

\* Start and stop commands name a shop; the types tell the commands apart.
LEMMA CommandShop ==
    ASSUME NEW c \in Command
    PROVE  /\ c.type \in {"StartShop", "StopShop", "Shutdown"}
           /\ c.type = "StartShop" => c.shop \in Shops /\ c = StartShop(c.shop)
           /\ c.type = "StopShop" => c.shop \in Shops /\ c = StopShop(c.shop)
           /\ c.type = "Shutdown" => c = Shutdown
<1>1. CASE \E s \in Shops : c = StartShop(s)
  BY <1>1 DEF StartShop
<1>2. CASE \E s \in Shops : c = StopShop(s)
  BY <1>2 DEF StopShop
<1>3. CASE c = Shutdown
  BY <1>3 DEF Shutdown
<1> QED BY <1>1, <1>2, <1>3 DEF Command

\* Putting a command at the end of a queue of commands.
LEMMA AppendType ==
    ASSUME ProcessTypeOK, NEW w \in WorkerIds, NEW c \in Command
    PROVE  [cmdQueue EXCEPT ![w] = Append(@, c)] \in [WorkerIds -> Seq(Command)]
BY DEF ProcessTypeOK

-----------------------------------------------------------------------------
(* Type correctness *)

LEMMA InitType == Init => TypeOK
<1> SUFFICES ASSUME Init PROVE TypeOK
  OBVIOUS
<1>1. ManagerTypeOK
  BY LimitsAssumption DEF Init, ManagerTypeOK, NoWorker
<1>2. ProcessTypeOK
  BY LimitsAssumption DEF Init, ProcessTypeOK
<1>3. ListenerTypeOK
  BY DEF Init, ListenerTypeOK
<1>4. MainTypeOK /\ HistoryTypeOK
  BY DEF Init, MainTypeOK, HistoryTypeOK
<1> QED BY <1>1, <1>2, <1>3, <1>4 DEF TypeOK

LEMMA StartCount ==
    ASSUME TypeOK, StartWorkers
    PROVE  \E n \in Nat : StartFirst(n)
BY RequiredIsNat DEF TypeOK, ManagerTypeOK, StartWorkers

LEMMA StartType == TypeOK /\ StartWorkers => TypeOK'
<1> SUFFICES ASSUME TypeOK, StartWorkers PROVE TypeOK'
  OBVIOUS
<1> PICK n \in Nat : StartFirst(n)
  BY StartCount
<1>2. ManagerTypeOK'
  <2>1. UNCHANGED <<shopIds, shopToWorker, shopTable>>
    BY DEF StartWorkers
  <2>2. n \in 0..MaxWorkerId /\ workers' = 1..n /\ nextWorkerId' = n + 1
    BY LimitsAssumption DEF StartFirst
  <2>3. workers' \in SUBSET WorkerIds /\ nextWorkerId' \in 1..(MaxWorkerId + 1)
    BY <2>2, LimitsAssumption DEF WorkerIds
  <2> QED BY <2>1, <2>3 DEF TypeOK, ManagerTypeOK
<1>3. ProcessTypeOK'
  BY DEF TypeOK, StartWorkers, StartFirst, ProcessTypeOK
<1>4. (ListenerTypeOK /\ MainTypeOK /\ HistoryTypeOK)'
  BY DEF TypeOK, StartWorkers, ListenerTypeOK, MainTypeOK, HistoryTypeOK, historyVars
<1> QED BY <1>2, <1>3, <1>4 DEF TypeOK

\* Both ways of placing a shop leave the types alone.
LEMMA AssignType == ASSUME TypeOK, NEW s \in Shops, AssignShop(s) PROVE TypeOK'
<1> USE DEF TypeOK
<1>1. CASE \E w \in Candidates : LeastLoaded(w) /\ Hold(s, w, cmdQueue[w])
           /\ UNCHANGED <<workers, nextWorkerId, process, generation, told>>
  <2> PICK w \in Candidates : Hold(s, w, cmdQueue[w])
    BY <1>1
  <2>1. w \in WorkerIds
    BY DEF Candidates, ManagerTypeOK
  <2>2. ManagerTypeOK'
    BY <1>1, <2>1 DEF AssignShop, Hold, ManagerTypeOK
  <2>3. ProcessTypeOK'
    BY <1>1, <2>1, CommandTypes DEF AssignShop, Hold, ProcessTypeOK
  <2> QED BY <2>2, <2>3
      DEF AssignShop, ListenerTypeOK, MainTypeOK, HistoryTypeOK, listenerVars, mainVars
<1>2. CASE /\ nextWorkerId <= MaxWorkerId
           /\ workers' = workers \cup {nextWorkerId}
           /\ nextWorkerId' = nextWorkerId + 1
           /\ Spawn(nextWorkerId)
           /\ Hold(s, nextWorkerId, <<>>)
  <2>1. nextWorkerId \in WorkerIds
    BY <1>2, LimitsAssumption DEF ManagerTypeOK, WorkerIds
  <2>2. ManagerTypeOK'
    <3>1. nextWorkerId' \in 1..(MaxWorkerId + 1)
      BY <1>2, <2>1, LimitsAssumption DEF WorkerIds
    <3> QED BY <1>2, <2>1, <3>1 DEF AssignShop, Hold, ManagerTypeOK
  <2>3. ProcessTypeOK'
    <3>1. Append(<<>>, StartShop(s)) \in Seq(Command)
      BY CommandTypes
    <3> QED BY <1>2, <2>1, <3>1 DEF AssignShop, Hold, Spawn, ProcessTypeOK
  <2> QED BY <2>2, <2>3
      DEF AssignShop, ListenerTypeOK, MainTypeOK, HistoryTypeOK, listenerVars, mainVars
<1> QED BY <1>1, <1>2 DEF AssignShop

LEMMA ApiType == ASSUME TypeOK, ApiCall PROVE TypeOK'
<1> USE DEF TypeOK
<1>1. ASSUME NEW s \in Shops, RemoveHeldShop(s) PROVE TypeOK'
  <2>1. shopToWorker[s] \in WorkerIds
    BY <1>1 DEF RemoveHeldShop, ManagerTypeOK
  <2>2. ManagerTypeOK'
    BY <1>1, <2>1 DEF RemoveHeldShop, ManagerTypeOK, NoWorker
  <2>3. ProcessTypeOK'
    <3> DEFINE sent == [cmdQueue EXCEPT ![shopToWorker[s]] = Append(@, StopShop(s))]
    <3>1. cmdQueue' \in {cmdQueue, sent}
      BY <1>1 DEF RemoveHeldShop
    <3>2. sent \in [WorkerIds -> Seq(Command)]
      BY <2>1, CommandTypes, AppendType
    <3> QED BY <1>1, <3>1, <3>2 DEF RemoveHeldShop, ProcessTypeOK
  <2>4. HistoryTypeOK'
    BY <1>1 DEF RemoveHeldShop, HistoryTypeOK
  <2> QED BY <1>1, <2>2, <2>3, <2>4
      DEF RemoveHeldShop, ListenerTypeOK, MainTypeOK, listenerVars, mainVars
<1>2. ASSUME NEW s \in Shops, RemoveUnheldShop(s) PROVE TypeOK'
  BY <1>2 DEF RemoveUnheldShop, ManagerTypeOK, ProcessTypeOK, ListenerTypeOK, MainTypeOK,
       HistoryTypeOK, managerVars, processVars, listenerVars, mainVars
<1>3. ASSUME NEW s \in Shops, DeleteShop(s) PROVE TypeOK'
  BY <1>3 DEF DeleteShop, ManagerTypeOK, ProcessTypeOK, ListenerTypeOK, MainTypeOK,
       HistoryTypeOK, managerVars, processVars, listenerVars, mainVars, historyVars
<1> QED BY <1>1, <1>2, <1>3, AssignType DEF ApiCall

LEMMA ShutdownType == ASSUME TypeOK, BeginShutdown \/ ShutdownStep PROVE TypeOK'
<1> USE DEF TypeOK
<1>1. CASE BeginShutdown
  BY <1>1 DEF BeginShutdown, ManagerTypeOK, ProcessTypeOK, ListenerTypeOK, MainTypeOK,
       HistoryTypeOK, managerVars, processVars, listenerVars, historyVars
<1>2. CASE SnapshotWorkers
  BY <1>2 DEF SnapshotWorkers, ManagerTypeOK, ProcessTypeOK, ListenerTypeOK, MainTypeOK,
       HistoryTypeOK, managerVars, processVars, listenerVars, historyVars
<1>3. ASSUME NEW h \in toSignal, SignalWorker(h) PROVE TypeOK'
  <2>1. h[1] \in WorkerIds
    BY <1>3 DEF MainTypeOK
  <2>2. ProcessTypeOK'
    <3> DEFINE sent == [cmdQueue EXCEPT ![h[1]] = Append(@, Shutdown)]
    <3>1. cmdQueue' \in {cmdQueue, sent}
      BY <1>3 DEF SignalWorker
    <3>2. sent \in [WorkerIds -> Seq(Command)]
      BY <2>1, CommandTypes, AppendType
    <3> QED BY <1>3, <3>1, <3>2 DEF SignalWorker, ProcessTypeOK
  <2> QED BY <1>3, <2>2 DEF SignalWorker, ManagerTypeOK, ListenerTypeOK, MainTypeOK,
       HistoryTypeOK, managerVars, listenerVars, historyVars
<1>4. ASSUME NEW h \in toJoin, JoinOrKill(h) PROVE TypeOK'
  <2>1. h[1] \in WorkerIds
    BY <1>4 DEF MainTypeOK
  <2>2. ProcessTypeOK'
    BY <1>4, <2>1 DEF JoinOrKill, Die, ProcessTypeOK
  <2> QED BY <1>4, <2>2 DEF JoinOrKill, ManagerTypeOK, ListenerTypeOK, MainTypeOK,
       HistoryTypeOK, managerVars, listenerVars, historyVars
<1>5. CASE JoinListener
  BY <1>5 DEF JoinListener, ManagerTypeOK, ProcessTypeOK, ListenerTypeOK, MainTypeOK,
       HistoryTypeOK, managerVars, processVars, listenerVars, historyVars
<1>6. CASE ClearState
  BY <1>6 DEF ClearState, ManagerTypeOK, ProcessTypeOK, ListenerTypeOK, MainTypeOK,
       HistoryTypeOK, processVars, listenerVars, historyVars
<1> QED BY <1>1, <1>2, <1>3, <1>4, <1>5, <1>6 DEF ShutdownStep

LEMMA ListenerType == ASSUME TypeOK, ListenerStep PROVE TypeOK'
<1> USE DEF TypeOK
<1>1. CASE ListenerTest
  BY <1>1 DEF ListenerTest, ManagerTypeOK, ProcessTypeOK, ListenerTypeOK, MainTypeOK,
       HistoryTypeOK, managerVars, processVars, mainVars, historyVars
<1>2. CASE DetectDeadWorkers
  <2>1. ManagerTypeOK'
    BY <1>2 DEF DetectDeadWorkers, ManagerTypeOK
  <2>2. ListenerTypeOK'
    BY <1>2 DEF DetectDeadWorkers, ManagerTypeOK, ListenerTypeOK
  <2> QED BY <1>2, <2>1, <2>2 DEF DetectDeadWorkers, ProcessTypeOK, MainTypeOK,
       HistoryTypeOK, processVars, mainVars, historyVars
<1>3. ASSUME NEW w \in restarts, RespawnWorker(w) PROVE TypeOK'
  <2>1. w \in WorkerIds
    BY DEF ListenerTypeOK
  <2>2. ProcessTypeOK'
    BY <1>3, <2>1 DEF RespawnWorker, Spawn, ProcessTypeOK
  <2> QED BY <1>3, <2>1, <2>2 DEF RespawnWorker, ManagerTypeOK, ListenerTypeOK, MainTypeOK,
       HistoryTypeOK, managerVars, mainVars, historyVars
<1>4. CASE RegisterWorker
  <2>1. restarting \in WorkerIds
    BY <1>4 DEF RegisterWorker, ListenerTypeOK
  <2>2. nextWorkerId' \in 1..(MaxWorkerId + 1)
    BY <1>4, <2>1, LimitsAssumption DEF RegisterWorker, ManagerTypeOK, WorkerIds
  <2> QED BY <1>4, <2>1, <2>2 DEF RegisterWorker, ManagerTypeOK, ProcessTypeOK,
       ListenerTypeOK, MainTypeOK, HistoryTypeOK, processVars, mainVars, historyVars
<1>5. ASSUME NEW s \in Shops, RestoreShop(s) PROVE TypeOK'
  <2>1. restarting \in WorkerIds
    BY <1>5 DEF RestoreShop, ListenerTypeOK
  <2>2. ManagerTypeOK'
    BY <1>5, <2>1 DEF RestoreShop, ManagerTypeOK
  <2>3. ProcessTypeOK'
    BY <1>5, <2>1, CommandTypes DEF RestoreShop, ProcessTypeOK
  <2> QED BY <1>5, <2>2, <2>3 DEF RestoreShop, ListenerTypeOK, MainTypeOK, HistoryTypeOK,
       mainVars, historyVars
<1>6. ASSUME NEW s \in Shops, RestoreFails(s) PROVE TypeOK'
  <2>1. restarting \in WorkerIds
    BY <1>6 DEF RestoreFails, ListenerTypeOK
  <2> QED BY <1>6, <2>1 DEF RestoreFails, ManagerTypeOK, ProcessTypeOK, ListenerTypeOK,
       MainTypeOK, HistoryTypeOK, processVars, mainVars, historyVars
<1>7. CASE FinishRestore
  BY <1>7 DEF FinishRestore, ManagerTypeOK, ProcessTypeOK, ListenerTypeOK,
       MainTypeOK, HistoryTypeOK, managerVars, processVars, mainVars, historyVars
<1> QED BY <1>1, <1>2, <1>3, <1>4, <1>5, <1>6, <1>7 DEF ListenerStep, Recovery

LEMMA WorkerType == ASSUME TypeOK, NEW w \in WorkerIds, WorkerStep(w) PROVE TypeOK'
<1> USE DEF TypeOK
<1>1. CASE HandleCommand(w)
  <2>1. cmdQueue[w] \in Seq(Command) /\ cmdQueue[w] # <<>>
    BY <1>1 DEF HandleCommand, ProcessTypeOK
  <2>2. Head(cmdQueue[w]) \in Command /\ Tail(cmdQueue[w]) \in Seq(Command)
    BY <2>1
  <2>3. told' \in [WorkerIds -> SUBSET Shops]
    <3> DEFINE c == Head(cmdQueue[w])
    <3>1. CASE c.type = "StartShop" /\ HandleStartShop(w, c.shop)
      BY <2>2, <3>1, CommandShop DEF HandleStartShop, ProcessTypeOK
    <3>2. CASE c.type = "StopShop" /\ HandleStopShop(w, c.shop)
      BY <3>2 DEF HandleStopShop, ProcessTypeOK
    <3>3. CASE Die(w)
      BY <3>3 DEF Die, ProcessTypeOK
    <3> QED BY <1>1, <3>1, <3>2, <3>3 DEF HandleCommand
  <2>4. process' \in [WorkerIds -> {"none", "alive", "dead"}]
    BY <1>1 DEF HandleCommand, HandleStartShop, HandleStopShop, Die, ProcessTypeOK
  <2>5. ProcessTypeOK'
    BY <1>1, <2>2, <2>3, <2>4 DEF HandleCommand, ProcessTypeOK
  <2> QED BY <1>1, <2>5 DEF HandleCommand, ManagerTypeOK, ListenerTypeOK, MainTypeOK,
       HistoryTypeOK, managerVars, listenerVars, mainVars, historyVars
<1>2. CASE Crash(w)
  <2>1. ProcessTypeOK'
    BY <1>2, LimitsAssumption DEF Crash, Die, ProcessTypeOK
  <2> QED BY <1>2, <2>1 DEF Crash, ManagerTypeOK, ListenerTypeOK, MainTypeOK,
       HistoryTypeOK, managerVars, listenerVars, mainVars, historyVars
<1> QED BY <1>1, <1>2 DEF WorkerStep

LEMMA StutterType == TypeOK /\ UNCHANGED vars => TypeOK'
BY DEF TypeOK, ManagerTypeOK, ProcessTypeOK, ListenerTypeOK, MainTypeOK, HistoryTypeOK,
     vars, managerVars, processVars, listenerVars, mainVars, historyVars

\* Every variable keeps its type.
THEOREM TypeCorrect == Spec => []TypeOK
<1>1. TypeOK /\ [Next]_vars => TypeOK'
  BY StartType, ApiType, ShutdownType, ListenerType, WorkerType, StutterType DEF Next
<1> QED BY InitType, <1>1, PTL DEF Spec

-----------------------------------------------------------------------------
(* Worker ids, and the processes behind them *)

\* The inductive invariant about ids: processes, respawns and the snapshot.
IdsInv == TypeOK /\ ProcessesInv /\ SnapshotInv

LEMMA IdsInit == Init => IdsInv
<1> SUFFICES ASSUME Init PROVE ProcessesInv /\ SnapshotInv
  BY InitType DEF IdsInv
<1> QED BY DEF Init, ProcessesInv, SnapshotInv, NoWorker

LEMMA IdsStart == ASSUME IdsInv, StartWorkers PROVE (ProcessesInv /\ SnapshotInv)'
<1> USE DEF IdsInv
<1> PICK n \in Nat : StartFirst(n)
  BY StartCount
<1>1. UNCHANGED <<cmdQueue, restarts, restarting, toSignal>> /\ listenerPc' = "checking"
      /\ mainPc' = "serving" /\ mainPc = "starting"
  BY DEF StartWorkers
<1>2. workers' = 1..n /\ nextWorkerId' = n + 1
      /\ process' = [w \in WorkerIds |-> IF w \in 1..n THEN "alive" ELSE process[w]]
  BY DEF StartFirst
<1>3. ProcessesInv'
  BY <1>1, <1>2 DEF ProcessesInv, WorkerIds
<1>4. SnapshotInv'
  BY <1>1 DEF SnapshotInv, ProcessesInv
<1> QED BY <1>3, <1>4

LEMMA IdsAssign ==
    ASSUME IdsInv, NEW s \in Shops, AssignShop(s)
    PROVE  (ProcessesInv /\ SnapshotInv)'
<1> USE DEF IdsInv, TypeOK
<1>1. CASE \E w \in Candidates : LeastLoaded(w) /\ Hold(s, w, cmdQueue[w])
           /\ UNCHANGED <<workers, nextWorkerId, process, generation, told>>
  <2> PICK w \in Candidates : Hold(s, w, cmdQueue[w])
    BY <1>1
  <2>1. w \in workers /\ w \in WorkerIds
    BY DEF Candidates, ManagerTypeOK
  <2>2. \A v \in WorkerIds : v # w => cmdQueue'[v] = cmdQueue[v]
    BY <2>1 DEF Hold, ProcessTypeOK
  <2>3. UNCHANGED <<workers, nextWorkerId, process, generation, listenerVars, mainVars>>
    BY <1>1 DEF AssignShop
  <2>4. ProcessesInv'
    BY <2>1, <2>2, <2>3, LimitsAssumption DEF AssignShop, Serving, LockFree,
       ProcessesInv, ManagerTypeOK, ListenerTypeOK, listenerVars, mainVars, WorkerIds
  <2>5. SnapshotInv'
    BY <2>3 DEF SnapshotInv, listenerVars, mainVars
  <2> QED BY <2>4, <2>5
<1>2. CASE /\ nextWorkerId <= MaxWorkerId
           /\ workers' = workers \cup {nextWorkerId}
           /\ nextWorkerId' = nextWorkerId + 1
           /\ Spawn(nextWorkerId)
           /\ Hold(s, nextWorkerId, <<>>)
  <2>1. nextWorkerId \in WorkerIds
    BY <1>2, LimitsAssumption DEF ManagerTypeOK, WorkerIds
  <2>2. UNCHANGED <<listenerVars, mainVars>>
    BY DEF AssignShop
  <2>3. \A v \in WorkerIds : v # nextWorkerId =>
          cmdQueue'[v] = cmdQueue[v] /\ process'[v] = process[v]
    BY <1>2, <2>1 DEF Hold, Spawn, ProcessTypeOK
  <2>4. ProcessesInv'
    <3>1. /\ mainPc' = "serving" /\ listenerPc' # "restoring" /\ listenerPc' = listenerPc
          /\ restarts' = restarts /\ restarting' = restarting
      BY <2>2 DEF AssignShop, Serving, LockFree, listenerVars, mainVars
    <3>2. nextWorkerId \in Nat /\ nextWorkerId' = nextWorkerId + 1
          /\ workers' = workers \cup {nextWorkerId}
      BY <1>2, <2>1 DEF WorkerIds
    <3>3. /\ \A w \in workers \cup restarts : w \in WorkerIds /\ w < nextWorkerId
          /\ restarting # NoWorker => restarting \in restarts
      BY DEF ProcessesInv, ManagerTypeOK, ListenerTypeOK
    <3>4. \A w \in workers' \cup restarts' : w < nextWorkerId'
      BY <3>1, <3>2, <3>3 DEF WorkerIds
    <3>5. \A w \in WorkerIds : w >= nextWorkerId' => process'[w] = "none" /\ cmdQueue'[w] = <<>>
      BY <2>3, <3>2 DEF ProcessesInv, WorkerIds
    <3>6. \A w \in restarts' \ {restarting'} : process'[w] = "dead" /\ w \notin workers'
      BY <2>3, <3>1, <3>2, <3>3 DEF ProcessesInv
    <3>7. listenerPc' = "registering" => restarting' \notin workers' /\ cmdQueue'[restarting'] = <<>>
      <4> SUFFICES ASSUME listenerPc = "registering"
                   PROVE  restarting \notin workers' /\ cmdQueue'[restarting] = <<>>
        BY <3>1
      <4>1. restarting \in restarts /\ restarting \in WorkerIds /\ restarting # nextWorkerId
        BY <3>2, <3>3 DEF ListenerTypeOK
      <4> QED BY <2>3, <3>2, <4>1 DEF ProcessesInv
    <3> QED BY <3>1, <3>4, <3>5, <3>6, <3>7 DEF ProcessesInv
  <2>5. SnapshotInv'
    <3>1. \A v \in WorkerIds : /\ generation[v] \in Nat /\ generation'[v] \in Nat
                                /\ generation'[v] >= generation[v]
      BY <1>2, <2>1 DEF Spawn, ProcessTypeOK
    <3>2. \A h \in toSignal : h[1] \in WorkerIds /\ h[2] \in Nat
      BY DEF MainTypeOK
    <3> QED BY <2>2, <3>1, <3>2
        DEF SnapshotInv, ProcessTypeOK, MainTypeOK, listenerVars, mainVars
  <2> QED BY <2>4, <2>5
<1> QED BY <1>1, <1>2 DEF AssignShop

LEMMA IdsApi == ASSUME IdsInv, ApiCall PROVE (ProcessesInv /\ SnapshotInv)'
<1> USE DEF IdsInv, TypeOK
<1>1. ASSUME NEW s \in Shops, RemoveHeldShop(s) PROVE (ProcessesInv /\ SnapshotInv)'
  <2>1. shopToWorker[s] \in WorkerIds
    BY <1>1 DEF RemoveHeldShop, ManagerTypeOK
  <2>2. \A v \in WorkerIds : v # shopToWorker[s] => cmdQueue'[v] = cmdQueue[v]
    BY <1>1, <2>1 DEF RemoveHeldShop, ProcessTypeOK
  <2>3. shopToWorker[s] \notin workers => UNCHANGED cmdQueue
    BY <1>1 DEF RemoveHeldShop
  <2>4. UNCHANGED <<workers, nextWorkerId, process, generation, listenerVars, mainVars>>
    BY <1>1 DEF RemoveHeldShop
  <2>5. ProcessesInv'
    BY <1>1, <2>1, <2>2, <2>3, <2>4 DEF RemoveHeldShop, Serving, LockFree, ProcessesInv,
       ManagerTypeOK, ListenerTypeOK, listenerVars, mainVars, WorkerIds
  <2>6. SnapshotInv'
    BY <2>4 DEF SnapshotInv, listenerVars, mainVars
  <2> QED BY <2>5, <2>6
<1>2. ASSUME NEW s \in Shops, RemoveUnheldShop(s) \/ DeleteShop(s)
      PROVE  (ProcessesInv /\ SnapshotInv)'
  BY <1>2 DEF RemoveUnheldShop, DeleteShop, ProcessesInv, SnapshotInv, managerVars,
     processVars, listenerVars, mainVars
<1> QED BY <1>1, <1>2, IdsAssign DEF ApiCall

LEMMA IdsShutdown ==
    ASSUME IdsInv, BeginShutdown \/ ShutdownStep
    PROVE  (ProcessesInv /\ SnapshotInv)'
<1> USE DEF IdsInv, TypeOK
<1>1. CASE BeginShutdown \/ JoinListener
  BY <1>1 DEF BeginShutdown, Serving, JoinListener, ProcessesInv, SnapshotInv, managerVars,
     processVars, listenerVars
<1>2. CASE SnapshotWorkers
  <2>1. UNCHANGED <<managerVars, processVars, listenerVars>> /\ listenerPc # "restoring"
    BY <1>2 DEF SnapshotWorkers, LockFree
  <2>2. \A h \in toSignal' : h[1] \in workers /\ h[2] = generation[h[1]]
    BY <1>2 DEF SnapshotWorkers
  <2>3. restarting \notin workers
    BY <2>1 DEF ProcessesInv, ManagerTypeOK, ListenerTypeOK, WorkerIds, NoWorker
  <2>4. \A w \in workers : generation[w] \in Nat
    BY DEF ManagerTypeOK, ProcessTypeOK
  <2>5. UNCHANGED <<generation, restarting>>
    BY <2>1 DEF processVars, listenerVars
  <2>6. SnapshotInv'
    BY <2>2, <2>3, <2>4, <2>5 DEF SnapshotInv
  <2>7. ProcessesInv'
    BY <1>2, <2>1 DEF SnapshotWorkers, ProcessesInv, managerVars, processVars, listenerVars
  <2> QED BY <2>6, <2>7
<1>3. ASSUME NEW h \in toSignal, SignalWorker(h) PROVE (ProcessesInv /\ SnapshotInv)'
  <2>1. h[1] \in WorkerIds
    BY <1>3 DEF MainTypeOK
  <2>2. \A v \in WorkerIds : v # h[1] => cmdQueue'[v] = cmdQueue[v]
    BY <1>3, <2>1 DEF SignalWorker, ProcessTypeOK
  <2>3. ~HandleAlive(h) => UNCHANGED cmdQueue
    BY <1>3 DEF SignalWorker
  <2>4. UNCHANGED <<managerVars, process, generation, listenerVars, mainPc>>
        /\ toSignal' \subseteq toSignal /\ mainPc = "draining"
    BY <1>3 DEF SignalWorker
  <2>5. HandleAlive(h) => h[1] # restarting /\ h[1] < nextWorkerId
    BY <2>1 DEF HandleAlive, Alive, SnapshotInv, ProcessesInv, ProcessTypeOK, MainTypeOK,
       ManagerTypeOK, WorkerIds
  <2>6. ProcessesInv'
    BY <2>1, <2>2, <2>3, <2>4, <2>5 DEF ProcessesInv, ManagerTypeOK, ListenerTypeOK,
       managerVars, listenerVars, WorkerIds
  <2>7. SnapshotInv'
    BY <2>4 DEF SnapshotInv, listenerVars
  <2> QED BY <2>6, <2>7
<1>4. ASSUME NEW h \in toJoin, JoinOrKill(h) PROVE (ProcessesInv /\ SnapshotInv)'
  <2>1. h[1] \in WorkerIds
    BY <1>4 DEF MainTypeOK
  <2>2. UNCHANGED <<managerVars, generation, cmdQueue, listenerVars, mainPc, toSignal>>
    BY <1>4 DEF JoinOrKill
  <2>3. \A v \in WorkerIds : process'[v] = process[v] \/ (process[v] = "alive" /\ process'[v] = "dead")
    BY <1>4, <2>1 DEF JoinOrKill, HandleAlive, Alive, Die, ProcessTypeOK
  <2>4. ProcessesInv'
    BY <2>2, <2>3 DEF ProcessesInv, ListenerTypeOK, managerVars, listenerVars
  <2>5. SnapshotInv'
    BY <2>2 DEF SnapshotInv, listenerVars
  <2> QED BY <2>4, <2>5
<1>5. CASE ClearState
  BY <1>5 DEF ClearState, LockFree, ProcessesInv, SnapshotInv, processVars, listenerVars
<1> QED BY <1>1, <1>2, <1>3, <1>4, <1>5 DEF ShutdownStep

LEMMA IdsListener == ASSUME IdsInv, ListenerStep PROVE (ProcessesInv /\ SnapshotInv)'
<1> USE DEF IdsInv, TypeOK
<1>1. CASE ListenerTest
  BY <1>1 DEF ListenerTest, ProcessesInv, SnapshotInv, managerVars, processVars, mainVars
<1>2. CASE DetectDeadWorkers
  <2>1. workers' \subseteq workers /\ restarts' \subseteq workers
        /\ \A w \in restarts' : process[w] = "dead" /\ w \notin workers'
    BY <1>2 DEF DetectDeadWorkers
  <2>2. UNCHANGED <<nextWorkerId, processVars, restarting, mainVars>>
        /\ listenerPc' \in {"checking", "respawning"}
        /\ (listenerPc' = "checking" => restarts' = {})
        /\ listenerPc = "waiting"
    BY <1>2 DEF DetectDeadWorkers
  <2>3. ProcessesInv'
    BY <2>1, <2>2 DEF ProcessesInv, processVars, mainVars
  <2>4. SnapshotInv'
    BY <2>2 DEF SnapshotInv, processVars, mainVars
  <2> QED BY <2>3, <2>4
<1>3. ASSUME NEW w \in restarts, RespawnWorker(w) PROVE (ProcessesInv /\ SnapshotInv)'
  <2>1. w \in WorkerIds /\ restarting = NoWorker /\ w # NoWorker
    BY <1>3 DEF RespawnWorker, ListenerTypeOK, ProcessesInv, WorkerIds, NoWorker
  <2>2. UNCHANGED <<managerVars, restarts, mainVars>> /\ restarting' = w
        /\ listenerPc = "respawning" /\ listenerPc' = "registering"
    BY <1>3 DEF RespawnWorker
  <2>3. \A v \in WorkerIds : v # w => cmdQueue'[v] = cmdQueue[v]
          /\ process'[v] = process[v] /\ generation'[v] = generation[v]
    BY <1>3, <2>1 DEF RespawnWorker, Spawn, ProcessTypeOK
  <2>4. cmdQueue'[w] = <<>> /\ generation'[w] = generation[w] + 1
    BY <1>3, <2>1 DEF RespawnWorker, Spawn, ProcessTypeOK
  <2>5. ProcessesInv'
    <3>1. \A v \in restarts : v \in WorkerIds /\ process[v] = "dead" /\ v \notin workers
      BY <2>1 DEF ProcessesInv, ListenerTypeOK, WorkerIds, NoWorker
    <3>2. w < nextWorkerId /\ mainPc # "starting"
      BY <2>2 DEF ProcessesInv
    <3>3. nextWorkerId \in Nat /\ w \in Nat
      BY <2>1 DEF ManagerTypeOK, WorkerIds
    <3> QED BY <2>1, <2>2, <2>3, <2>4, <3>1, <3>2, <3>3 DEF ProcessesInv, managerVars, mainVars
  <2>6. SnapshotInv'
    BY <2>1, <2>2, <2>3, <2>4 DEF SnapshotInv, MainTypeOK, ProcessTypeOK, mainVars
  <2> QED BY <2>5, <2>6
<1>4. CASE RegisterWorker
  <2>1. restarting \in restarts /\ restarting \in WorkerIds
    BY <1>4 DEF RegisterWorker, ListenerTypeOK
  <2>2. UNCHANGED <<processVars, restarts, restarting, mainVars, nextWorkerId>>
        /\ workers' = workers \cup {restarting} /\ listenerPc' = "restoring"
        /\ listenerPc = "registering"
    BY <1>4, <2>1 DEF RegisterWorker, ProcessesInv, ManagerTypeOK, WorkerIds
  <2>3. ProcessesInv'
    BY <2>1, <2>2 DEF ProcessesInv, ManagerTypeOK, processVars, mainVars
  <2>4. SnapshotInv'
    BY <2>2 DEF SnapshotInv, processVars, mainVars
  <2> QED BY <2>3, <2>4
<1>5. ASSUME NEW s \in Shops, RestoreShop(s) PROVE (ProcessesInv /\ SnapshotInv)'
  <2>1. restarting \in WorkerIds /\ restarting \in restarts
    BY <1>5 DEF RestoreShop, ListenerTypeOK
  <2>2. \A v \in WorkerIds : v # restarting => cmdQueue'[v] = cmdQueue[v]
    BY <1>5, <2>1 DEF RestoreShop, ProcessTypeOK
  <2>3. UNCHANGED <<workers, nextWorkerId, process, generation, listenerPc, restarts,
                    restarting, mainVars>> /\ listenerPc = "restoring"
    BY <1>5 DEF RestoreShop
  <2>4. ProcessesInv'
    BY <2>1, <2>2, <2>3 DEF ProcessesInv, ManagerTypeOK, mainVars, WorkerIds
  <2>5. SnapshotInv'
    BY <2>3 DEF SnapshotInv, mainVars
  <2> QED BY <2>4, <2>5
<1>6. ASSUME NEW s \in Shops, RestoreFails(s) PROVE (ProcessesInv /\ SnapshotInv)'
  BY <1>6 DEF RestoreFails, ProcessesInv, SnapshotInv, ListenerTypeOK, MainTypeOK,
     processVars, mainVars, WorkerIds, NoWorker
<1>7. CASE FinishRestore
  BY <1>7 DEF FinishRestore, ProcessesInv, SnapshotInv, ListenerTypeOK, MainTypeOK,
     managerVars, processVars, mainVars, WorkerIds, NoWorker
<1> QED BY <1>1, <1>2, <1>3, <1>4, <1>5, <1>6, <1>7 DEF ListenerStep, Recovery

LEMMA IdsWorker ==
    ASSUME IdsInv, NEW w \in WorkerIds, WorkerStep(w)
    PROVE  (ProcessesInv /\ SnapshotInv)'
<1> USE DEF IdsInv, TypeOK
<1>1. UNCHANGED <<managerVars, generation, listenerVars, mainVars>> /\ Alive(w)
  BY DEF WorkerStep, HandleCommand, Crash
<1>2. cmdQueue'[w] = cmdQueue[w] \/ cmdQueue[w] # <<>>
  BY DEF WorkerStep, HandleCommand, Crash
<1>3. \A v \in WorkerIds : v # w => cmdQueue'[v] = cmdQueue[v] /\ process'[v] = process[v]
  BY DEF WorkerStep, HandleCommand, HandleStartShop, HandleStopShop, Crash, Die, ProcessTypeOK
<1>4. ProcessesInv'
  BY <1>1, <1>2, <1>3 DEF Alive, ProcessesInv, ListenerTypeOK, ManagerTypeOK, managerVars,
     listenerVars, mainVars, WorkerIds
<1>5. SnapshotInv'
  BY <1>1 DEF SnapshotInv, listenerVars, mainVars
<1> QED BY <1>4, <1>5

LEMMA IdsStutter == IdsInv /\ UNCHANGED vars => (ProcessesInv /\ SnapshotInv)'
BY DEF IdsInv, ProcessesInv, SnapshotInv, vars, managerVars, processVars, listenerVars, mainVars

\* Ids from nextWorkerId on are unused, an id that waits for its respawn has a
\* dead process and no handle, and shutdown signals no respawned process.
THEOREM IdsCorrect == Spec => []IdsInv
<1>1. IdsInv /\ [Next]_vars => (ProcessesInv /\ SnapshotInv)'
  BY IdsStart, IdsApi, IdsShutdown, IdsListener, IdsWorker, IdsStutter DEF Next
<1>2. TypeOK /\ IdsInv /\ [Next]_vars /\ TypeOK' => IdsInv'
  BY <1>1 DEF IdsInv
<1> QED BY TypeCorrect, IdsInit, <1>2, PTL DEF Spec

\* A process is started only under an id whose earlier process is dead.
LEMMA SpawnStep ==
    ASSUME IdsInv, [Next]_vars, NEW w \in WorkerIds, Alive(w)
    PROVE  generation'[w] = generation[w]
<1> USE DEF IdsInv, TypeOK
<1>1. CASE StartWorkers
  <2>1. process[w] = "none"
    BY <1>1 DEF StartWorkers, ProcessesInv, WorkerIds
  <2> QED BY <2>1 DEF Alive
<1>2. ASSUME NEW s \in Shops, AssignShop(s) PROVE generation'[w] = generation[w]
  <2>1. CASE UNCHANGED generation
    BY <2>1
  <2>2. CASE Spawn(nextWorkerId)
    <3>1. w # nextWorkerId
      BY DEF Alive, ProcessesInv, ManagerTypeOK, WorkerIds
    <3> QED BY <2>2, <3>1 DEF Spawn, ProcessTypeOK
  <2> QED BY <1>2, <2>1, <2>2 DEF AssignShop
<1>3. ASSUME NEW v \in restarts, RespawnWorker(v) PROVE generation'[w] = generation[w]
  <2>1. v # restarting
    BY <1>3 DEF RespawnWorker, ProcessesInv, ListenerTypeOK, WorkerIds, NoWorker
  <2>2. v # w
    BY <2>1 DEF ProcessesInv, Alive
  <2> QED BY <1>3, <2>2 DEF RespawnWorker, Spawn, ProcessTypeOK
<1>4. CASE ListenerTest \/ DetectDeadWorkers \/ RegisterWorker \/ FinishRestore
  BY <1>4 DEF ListenerTest, DetectDeadWorkers, RegisterWorker, FinishRestore, processVars
<1>5. ASSUME NEW s \in Shops,
             RestoreShop(s) \/ RestoreFails(s) \/ RemoveHeldShop(s) \/ RemoveUnheldShop(s)
               \/ DeleteShop(s)
      PROVE generation'[w] = generation[w]
  BY <1>5 DEF RestoreShop, RestoreFails, RemoveHeldShop, RemoveUnheldShop, DeleteShop, processVars
<1>6. CASE BeginShutdown \/ ShutdownStep
  BY <1>6 DEF BeginShutdown, ShutdownStep, SnapshotWorkers, SignalWorker, JoinOrKill,
     JoinListener, ClearState, processVars
<1>7. ASSUME NEW v \in WorkerIds, WorkerStep(v) PROVE generation'[w] = generation[w]
  BY <1>7 DEF WorkerStep, HandleCommand, Crash
<1>8. CASE UNCHANGED vars
  BY <1>8 DEF vars, processVars
<1> QED BY <1>1, <1>2, <1>3, <1>4, <1>5, <1>6, <1>7, <1>8
        DEF Next, ApiCall, ListenerStep, Recovery

\* No process is ever left behind, alive, by a second one under its id.
THEOREM SpawnsOverTheDead == Spec => NoSpawnOverLiveWorker
<1>1. IdsInv /\ [Next]_vars => [\A w \in WorkerIds : Alive(w) => generation'[w] = generation[w]]_vars
  BY SpawnStep
<1> QED BY IdsCorrect, <1>1, PTL DEF Spec, NoSpawnOverLiveWorker

-----------------------------------------------------------------------------
(* Who holds a shop *)

\* The inductive invariant about assignments.
AssignmentInv == HoldersInv /\ MappedShopsAreHeld /\ UnracedShopHasOneHolder

LEMMA AssignmentInit == Init => AssignmentInv
BY DEF Init, AssignmentInv, HoldersInv, MappedShopsAreHeld, UnracedShopHasOneHolder

\* What a step that takes nothing from the maps and adds one shop to one live
\* holder does.
LEMMA AssignmentAssign ==
    ASSUME IdsInv, AssignmentInv, NEW s \in Shops, AssignShop(s)
    PROVE  AssignmentInv'
<1> USE DEF IdsInv, TypeOK
<1>1. \E w \in WorkerIds :
        /\ shopIds' = [shopIds EXCEPT ![w] = @ \cup {s}]
        /\ shopToWorker' = [shopToWorker EXCEPT ![s] = w]
        /\ w \in workers'
        /\ workers \subseteq workers'
  <2>1. CASE \E w \in Candidates : Hold(s, w, cmdQueue[w]) /\ UNCHANGED workers
    BY <2>1 DEF Candidates, Hold, ManagerTypeOK
  <2>2. CASE /\ nextWorkerId <= MaxWorkerId
             /\ workers' = workers \cup {nextWorkerId}
             /\ Hold(s, nextWorkerId, <<>>)
    <3>1. nextWorkerId \in WorkerIds
      BY <2>2, LimitsAssumption DEF ManagerTypeOK, WorkerIds
    <3> QED BY <2>2, <3>1 DEF Hold
  <2> QED BY <2>1, <2>2 DEF AssignShop
<1> PICK w \in WorkerIds :
        /\ shopIds' = [shopIds EXCEPT ![w] = @ \cup {s}]
        /\ shopToWorker' = [shopToWorker EXCEPT ![s] = w]
        /\ w \in workers'
        /\ workers \subseteq workers'
  BY <1>1
<1>2. UNCHANGED <<restarts, affected, restarting>> /\ shopToWorker[s] = NoWorker
  BY DEF AssignShop, listenerVars
<1>3. raced \subseteq raced' /\ (s \notin raced' => s \notin Pending)
  BY DEF AssignShop
<1>4. HoldersInv'
  BY <1>2 DEF AssignmentInv, HoldersInv, ManagerTypeOK
<1>5. MappedShopsAreHeld'
  BY DEF AssignmentInv, MappedShopsAreHeld, ManagerTypeOK
<1>6. UnracedShopHasOneHolder'
  <2> SUFFICES ASSUME NEW t \in Shops \ raced'
      PROVE  /\ \A v \in WorkerIds : t \in shopIds'[v] => shopToWorker'[t] = v
             /\ \A v \in restarts : t \in affected[v] =>
                  /\ shopToWorker'[t] = NoWorker
                  /\ \A u \in restarts : t \in affected[u] => u = v
    BY <1>2 DEF UnracedShopHasOneHolder
  <2>1. t \in Shops \ raced
    BY <1>3
  <2>2. CASE t # s
    BY <2>1, <2>2 DEF AssignmentInv, UnracedShopHasOneHolder, ManagerTypeOK
  <2>3. CASE t = s
    <3>1. \A v \in WorkerIds : t \notin shopIds[v]
      BY <1>2, <2>1, <2>3 DEF AssignmentInv, UnracedShopHasOneHolder, WorkerIds, NoWorker
    <3>2. \A v \in restarts : t \notin affected[v]
      BY <1>3, <2>3 DEF Pending
    <3> QED BY <2>3, <3>1, <3>2 DEF ManagerTypeOK
  <2> QED BY <2>2, <2>3
<1> QED BY <1>4, <1>5, <1>6 DEF AssignmentInv

LEMMA AssignmentApi == ASSUME IdsInv, AssignmentInv, ApiCall PROVE AssignmentInv'
<1> USE DEF IdsInv, TypeOK, AssignmentInv
<1>1. ASSUME NEW s \in Shops, RemoveHeldShop(s) PROVE AssignmentInv'
  <2> DEFINE w == shopToWorker[s]
  <2>1. w \in WorkerIds /\ w \in workers /\ w # NoWorker
    BY <1>1 DEF RemoveHeldShop, ManagerTypeOK, MappedShopsAreHeld
  <2>2. /\ shopToWorker' = [shopToWorker EXCEPT ![s] = NoWorker]
        /\ shopIds' = [shopIds EXCEPT ![w] = @ \ {s}]
        /\ UNCHANGED <<workers, restarts, affected, restarting>>
        /\ raced \subseteq raced'
    BY <1>1, <2>1 DEF RemoveHeldShop, listenerVars
  <2>3. HoldersInv'
    BY <2>1, <2>2 DEF HoldersInv, ManagerTypeOK
  <2>4. MappedShopsAreHeld'
    BY <2>1, <2>2 DEF MappedShopsAreHeld, ManagerTypeOK
  <2>5. UnracedShopHasOneHolder'
    BY <2>1, <2>2 DEF UnracedShopHasOneHolder, ManagerTypeOK, ListenerTypeOK
  <2> QED BY <2>3, <2>4, <2>5
<1>2. ASSUME NEW s \in Shops, RemoveUnheldShop(s) PROVE AssignmentInv'
  BY <1>2 DEF RemoveUnheldShop, HoldersInv, MappedShopsAreHeld, UnracedShopHasOneHolder,
     managerVars, listenerVars
<1>3. ASSUME NEW s \in Shops, DeleteShop(s) PROVE AssignmentInv'
  BY <1>3 DEF DeleteShop, HoldersInv, MappedShopsAreHeld, UnracedShopHasOneHolder,
     managerVars, listenerVars, historyVars
<1> QED BY <1>1, <1>2, <1>3, AssignmentAssign DEF ApiCall

LEMMA AssignmentListener == ASSUME IdsInv, AssignmentInv, ListenerStep PROVE AssignmentInv'
<1> USE DEF IdsInv, TypeOK, AssignmentInv
<1>1. CASE ListenerTest
  BY <1>1 DEF ListenerTest, HoldersInv, MappedShopsAreHeld, UnracedShopHasOneHolder,
     managerVars, historyVars
<1>2. CASE DetectDeadWorkers
  <2> DEFINE dead == {w \in workers : process[w] = "dead"}
  <2>1. /\ workers' = workers \ dead
        /\ shopToWorker' = [s \in Shops |->
             IF \E w \in dead : s \in shopIds[w] THEN NoWorker ELSE shopToWorker[s]]
        /\ shopIds' = [w \in WorkerIds |-> IF w \in dead THEN {} ELSE shopIds[w]]
        /\ affected' = [w \in WorkerIds |-> IF w \in dead THEN shopIds[w] ELSE {}]
        /\ restarts' = dead
        /\ UNCHANGED raced
    BY <1>2 DEF DetectDeadWorkers, historyVars
  <2> HIDE DEF dead
  <2>2. dead \subseteq workers /\ workers \subseteq WorkerIds
    BY DEF dead, ManagerTypeOK
  <2>3. HoldersInv'
    BY <2>1, <2>2 DEF HoldersInv
  <2>4. MappedShopsAreHeld'
    BY <2>1, <2>2 DEF MappedShopsAreHeld
  <2>5. UnracedShopHasOneHolder'
    BY <2>1, <2>2 DEF UnracedShopHasOneHolder
  <2> QED BY <2>3, <2>4, <2>5
<1>3. ASSUME NEW w \in restarts, RespawnWorker(w) PROVE AssignmentInv'
  BY <1>3 DEF RespawnWorker, HoldersInv, MappedShopsAreHeld, UnracedShopHasOneHolder,
     managerVars, historyVars
<1>4. CASE RegisterWorker
  <2>1. restarting \notin workers /\ restarting \in WorkerIds /\ shopIds[restarting] = {}
    BY <1>4 DEF RegisterWorker, ProcessesInv, HoldersInv, ListenerTypeOK
  <2>2. UNCHANGED shopIds
    BY <1>4, <2>1 DEF RegisterWorker, ManagerTypeOK
  <2> QED BY <1>4, <2>2 DEF RegisterWorker, HoldersInv, MappedShopsAreHeld,
       UnracedShopHasOneHolder, historyVars
<1>5. ASSUME NEW s \in Shops, RestoreShop(s) \/ RestoreFails(s) PROVE AssignmentInv'
  <2>1. restarting \in WorkerIds /\ restarting \in restarts /\ restarting \in workers
        /\ s \in affected[restarting]
    BY <1>5 DEF RestoreShop, RestoreFails, ListenerTypeOK, ProcessesInv
  <2>2. /\ shopIds' = [shopIds EXCEPT ![restarting] = @ \cup {s}]
        /\ shopToWorker' = [shopToWorker EXCEPT ![s] = restarting]
        /\ UNCHANGED <<workers, raced>>
    BY <1>5 DEF RestoreShop, RestoreFails, historyVars
  <2>3. \/ /\ restarts' = restarts
           /\ affected' = [affected EXCEPT ![restarting] = @ \ {s}]
        \/ restarts' = {} /\ affected' = [w \in WorkerIds |-> {}]
    BY <1>5 DEF RestoreShop, RestoreFails
  <2>4. HoldersInv'
    BY <2>1, <2>2, <2>3 DEF HoldersInv, ManagerTypeOK, ListenerTypeOK
  <2>5. MappedShopsAreHeld'
    BY <2>1, <2>2 DEF MappedShopsAreHeld, ManagerTypeOK
  <2>6. UnracedShopHasOneHolder'
    <3> SUFFICES ASSUME NEW t \in Shops \ raced
        PROVE  /\ \A v \in WorkerIds : t \in shopIds'[v] => shopToWorker'[t] = v
               /\ \A v \in restarts' : t \in affected'[v] =>
                    /\ shopToWorker'[t] = NoWorker
                    /\ \A u \in restarts' : t \in affected'[u] => u = v
      BY <2>2 DEF UnracedShopHasOneHolder
    <3>1. \A v \in restarts' :
            v \in restarts /\ affected'[v] \subseteq affected[v]
              /\ (v = restarting => s \notin affected'[v])
      BY <2>1, <2>3 DEF ListenerTypeOK
    <3>2. CASE t # s
      BY <2>1, <2>2, <3>1, <3>2 DEF UnracedShopHasOneHolder, ManagerTypeOK
    <3>3. CASE t = s
      <4>1. \A v \in WorkerIds : t \notin shopIds[v]
        BY <2>1, <3>3 DEF UnracedShopHasOneHolder, WorkerIds, NoWorker
      <4>2. \A v \in restarts' : t \notin affected'[v]
        BY <2>1, <3>1, <3>3 DEF UnracedShopHasOneHolder
      <4> QED BY <2>1, <2>2, <3>3, <4>1, <4>2 DEF ManagerTypeOK
    <3> QED BY <3>2, <3>3
  <2> QED BY <2>4, <2>5, <2>6
<1>7. CASE FinishRestore
  BY <1>7 DEF FinishRestore, HoldersInv, MappedShopsAreHeld, UnracedShopHasOneHolder,
     managerVars, historyVars
<1> QED BY <1>1, <1>2, <1>3, <1>4, <1>5, <1>7 DEF ListenerStep, Recovery

\* The other steps touch neither maps nor recoveries, save the final clearing.
LEMMA AssignmentRest ==
    ASSUME IdsInv, AssignmentInv,
           \/ StartWorkers \/ BeginShutdown \/ ShutdownStep
           \/ \E w \in WorkerIds : WorkerStep(w)
           \/ UNCHANGED vars
    PROVE  AssignmentInv'
<1> USE DEF IdsInv, TypeOK, AssignmentInv
<1>1. CASE StartWorkers
  <2>1. workers = {} /\ UNCHANGED <<shopIds, shopToWorker, restarts, affected, historyVars>>
    BY <1>1 DEF StartWorkers, ProcessesInv
  <2> QED BY <2>1 DEF HoldersInv, MappedShopsAreHeld, UnracedShopHasOneHolder, historyVars
<1>2. CASE ClearState
  BY <1>2 DEF ClearState, HoldersInv, MappedShopsAreHeld, UnracedShopHasOneHolder,
     listenerVars, historyVars
<1>3. CASE UNCHANGED <<managerVars, listenerVars, historyVars>>
  BY <1>3 DEF HoldersInv, MappedShopsAreHeld, UnracedShopHasOneHolder, managerVars,
     listenerVars, historyVars
<1> QED BY <1>1, <1>2, <1>3 DEF BeginShutdown, ShutdownStep, SnapshotWorkers, SignalWorker,
        JoinOrKill, JoinListener, WorkerStep, HandleCommand, Crash, vars

THEOREM AssignmentCorrect == Spec => []AssignmentInv
<1>1. IdsInv /\ AssignmentInv /\ [Next]_vars => AssignmentInv'
  BY AssignmentApi, AssignmentListener, AssignmentRest DEF Next
<1> QED BY IdsCorrect, AssignmentInit, <1>1, PTL DEF Spec

\* The two maps agree: the worker a shop maps to has a handle that holds it.
THEOREM MapsAgree == Spec => []MappedShopsAreHeld
BY AssignmentCorrect, PTL DEF AssignmentInv

\* Only a call of the API in the window of a recovery gives a shop a second
\* holder, now or when the recovery ends.
THEOREM OneHolder == Spec => []UnracedShopHasOneHolder
BY AssignmentCorrect, PTL DEF AssignmentInv

-----------------------------------------------------------------------------
(* A stop outside the window of a recovery is final *)

LEMMA StopStep ==
    ASSUME IdsInv, AssignmentInv, UnracedStopSticks, [Next]_vars
    PROVE  UnracedStopSticks'
<1> USE DEF IdsInv, TypeOK, AssignmentInv
<1> SUFFICES ASSUME NEW t \in Shops, t \notin raced', asked'[t] = "stop"
    PROVE  shopToWorker'[t] = NoWorker /\ t \notin Pending'
  BY DEF UnracedStopSticks
<1>1. ASSUME NEW s \in Shops, AssignShop(s)
      PROVE  shopToWorker'[t] = NoWorker /\ t \notin Pending'
  <2>1. t # s
    BY <1>1 DEF AssignShop, HistoryTypeOK
  <2>2. t \notin raced /\ asked[t] = "stop" /\ UNCHANGED <<restarts, affected>>
    BY <1>1, <2>1 DEF AssignShop, HistoryTypeOK, listenerVars
  <2>3. shopToWorker'[t] = shopToWorker[t]
    BY <1>1, <2>1 DEF AssignShop, Hold, ManagerTypeOK
  <2> QED BY <2>2, <2>3 DEF UnracedStopSticks, Pending
<1>2. ASSUME NEW s \in Shops, RemoveHeldShop(s) \/ RemoveUnheldShop(s)
      PROVE  shopToWorker'[t] = NoWorker /\ t \notin Pending'
  <2>1. UNCHANGED <<restarts, affected>> /\ t \notin raced
    BY <1>2 DEF RemoveHeldShop, RemoveUnheldShop, listenerVars
  <2>2. CASE t # s
    BY <1>2, <2>1, <2>2 DEF RemoveHeldShop, RemoveUnheldShop, UnracedStopSticks, Pending,
       HistoryTypeOK, ManagerTypeOK, managerVars
  <2>3. CASE t = s
    <3>1. t \notin Pending
      BY <1>2, <2>3 DEF RemoveHeldShop, RemoveUnheldShop
    <3>2. shopToWorker'[t] = NoWorker
      BY <1>2, <2>3 DEF RemoveHeldShop, RemoveUnheldShop, ManagerTypeOK, managerVars
    <3> QED BY <2>1, <3>1, <3>2 DEF Pending
  <2> QED BY <2>2, <2>3
<1>3. CASE DetectDeadWorkers
  <2>1. shopToWorker[t] = NoWorker
    BY <1>3 DEF DetectDeadWorkers, UnracedStopSticks, historyVars
  <2>2. \A w \in WorkerIds : t \notin shopIds[w]
    BY <1>3, <2>1 DEF DetectDeadWorkers, UnracedShopHasOneHolder, historyVars, WorkerIds, NoWorker
  <2>3. shopToWorker'[t] = NoWorker
    BY <1>3, <2>1 DEF DetectDeadWorkers
  <2>4. \A w \in restarts' : w \in WorkerIds /\ affected'[w] = shopIds[w]
    BY <1>3 DEF DetectDeadWorkers, ManagerTypeOK
  <2> QED BY <2>2, <2>3, <2>4 DEF Pending
<1>4. ASSUME NEW s \in Shops, RestoreShop(s) \/ RestoreFails(s)
      PROVE  shopToWorker'[t] = NoWorker /\ t \notin Pending'
  <2>1. restarting \in restarts /\ restarting \in WorkerIds /\ s \in affected[restarting]
    BY <1>4 DEF RestoreShop, RestoreFails, ListenerTypeOK
  <2>2. t \notin Pending /\ shopToWorker[t] = NoWorker
    BY <1>4 DEF RestoreShop, RestoreFails, UnracedStopSticks, historyVars
  <2>3. t # s
    BY <2>1, <2>2 DEF Pending
  <2>4. shopToWorker'[t] = NoWorker
    BY <1>4, <2>2, <2>3 DEF RestoreShop, RestoreFails, ManagerTypeOK
  <2>5. \A w \in restarts' : w \in restarts /\ affected'[w] \subseteq affected[w]
    BY <1>4, <2>1 DEF RestoreShop, RestoreFails, ListenerTypeOK
  <2> QED BY <2>2, <2>4, <2>5 DEF Pending
<1>5. CASE ClearState
  BY <1>5 DEF ClearState, UnracedStopSticks, Pending, listenerVars, historyVars
<1>6. CASE FinishRestore
  BY <1>6 DEF FinishRestore, UnracedStopSticks, Pending, managerVars, historyVars
<1>7. CASE UNCHANGED <<shopToWorker, restarts, affected, raced, asked>>
  BY <1>7 DEF UnracedStopSticks, Pending
<1> QED BY <1>1, <1>2, <1>3, <1>4, <1>5, <1>6, <1>7 DEF Next, ApiCall, ListenerStep, Recovery,
        StartWorkers, DeleteShop, BeginShutdown, ShutdownStep, SnapshotWorkers, SignalWorker,
        JoinOrKill, JoinListener, ListenerTest, RespawnWorker, RegisterWorker, WorkerStep,
        HandleCommand, Crash, vars, managerVars, listenerVars, historyVars

\* A shop stopped outside the window of a recovery is brought back by none.
THEOREM StopSticks == Spec => []UnracedStopSticks
<1>1. Init => UnracedStopSticks
  BY DEF Init, UnracedStopSticks
<1>2. IdsInv /\ AssignmentInv /\ UnracedStopSticks /\ [Next]_vars => UnracedStopSticks'
  BY StopStep
<1> QED BY IdsCorrect, AssignmentCorrect, <1>1, <1>2, PTL DEF Spec

-----------------------------------------------------------------------------
(* Capacity, and the listener that relies on it *)

\* Sets of shops are finite; what one shop more or less does to their size.
LEMMA ShopSetSize ==
    ASSUME NEW S \in SUBSET Shops, NEW s \in Shops
    PROVE  /\ IsFiniteSet(S) /\ Cardinality(S) \in Nat
           /\ Cardinality(S \cup {s}) <= Cardinality(S) + 1
           /\ s \in S => Cardinality(S \ {s}) = Cardinality(S) - 1
           /\ Cardinality(S \ {s}) <= Cardinality(S)
           /\ s \in S => Cardinality(S) >= 1
<1>1. IsFiniteSet(S)
  BY ShopsAssumption, FS_Subset
<1>2. Cardinality(S) \in Nat
  BY <1>1, FS_CardinalityType
<1>3. Cardinality(S \cup {s}) = IF s \in S THEN Cardinality(S) ELSE Cardinality(S) + 1
  BY <1>1, FS_AddElement
<1>4. IsFiniteSet(S \ {s}) /\ Cardinality(S \ {s}) = IF s \in S THEN Cardinality(S) - 1 ELSE Cardinality(S)
  BY <1>1, FS_RemoveElement
<1>5. Cardinality(S \ {s}) \in Nat
  BY <1>4, FS_CardinalityType
<1> QED BY <1>1, <1>2, <1>3, <1>4, <1>5

\* A worker with a handle has nothing to restore while the lock is free.
LEMMA FreeWorker ==
    ASSUME IdsInv, HoldersInv, LockFree, NEW w \in workers
    PROVE  affected[w] = {}
<1>1. w \in WorkerIds
  BY DEF IdsInv, TypeOK, ManagerTypeOK
<1>2. w \notin restarts
  BY <1>1 DEF IdsInv, ProcessesInv, LockFree, WorkerIds, NoWorker
<1> QED BY <1>1, <1>2 DEF HoldersInv

LEMMA CapacityInit == Init => CapacityRespected
<1>1. Cardinality({}) = 0
  BY FS_EmptySet
<1> QED BY <1>1, LimitsAssumption DEF Init, CapacityRespected, Load

LEMMA CapacityStep ==
    ASSUME IdsInv, AssignmentInv, CapacityRespected, [Next]_vars
    PROVE  CapacityRespected'
<1> USE DEF IdsInv, TypeOK, AssignmentInv
<1> SUFFICES ASSUME NEW w \in WorkerIds
    PROVE  Cardinality(shopIds'[w]) + Cardinality(affected'[w]) <= MaxShopsPerWorker
  BY DEF CapacityRespected, Load
<1> DEFINE held == Cardinality(shopIds[w])  lost == Cardinality(affected[w])
<1>1. held + lost <= MaxShopsPerWorker /\ held \in Nat /\ lost \in Nat
  <2>1. \A S \in SUBSET Shops : Cardinality(S) \in Nat
    BY ShopsAssumption, FS_Subset, FS_CardinalityType
  <2> QED BY <2>1 DEF CapacityRespected, Load, ManagerTypeOK, ListenerTypeOK
<1>2. Cardinality({}) = 0
  BY FS_EmptySet
<1> HIDE DEF held, lost
<1>3. ASSUME NEW s \in Shops, AssignShop(s)
      PROVE  Cardinality(shopIds'[w]) + Cardinality(affected'[w]) <= MaxShopsPerWorker
  <2>1. UNCHANGED affected
    BY <1>3 DEF AssignShop, listenerVars
  <2>2. ASSUME NEW v \in Candidates, Hold(s, v, cmdQueue[v])
        PROVE  Cardinality(shopIds'[w]) + Cardinality(affected'[w]) <= MaxShopsPerWorker
    <3>1. v \in workers /\ v \in WorkerIds /\ Cardinality(shopIds[v]) < MaxShopsPerWorker
      BY DEF Candidates, ManagerTypeOK, Load
    <3>2. CASE w # v
      BY <1>1, <2>1, <2>2, <3>1, <3>2 DEF Hold, ManagerTypeOK, held, lost
    <3>3. CASE w = v
      <4>1. affected[w] = {}
        BY <1>3, <3>1, <3>3, FreeWorker DEF AssignShop, Serving
      <4>2. shopIds'[w] = shopIds[w] \cup {s}
        BY <2>2, <3>1, <3>3 DEF Hold, ManagerTypeOK
      <4>3. Cardinality(shopIds[w] \cup {s}) <= held + 1
        BY ShopSetSize DEF ManagerTypeOK, held
      <4>4. Cardinality(shopIds[w] \cup {s}) \in Nat
        BY ShopSetSize DEF ManagerTypeOK
      <4> QED BY <1>1, <1>2, <2>1, <3>1, <3>3, <4>1, <4>2, <4>3, <4>4, LimitsAssumption DEF held
    <3> QED BY <3>2, <3>3
  <2>3. ASSUME nextWorkerId <= MaxWorkerId, Hold(s, nextWorkerId, <<>>)
        PROVE  Cardinality(shopIds'[w]) + Cardinality(affected'[w]) <= MaxShopsPerWorker
    <3>1. nextWorkerId \in WorkerIds
      BY <2>3, LimitsAssumption DEF ManagerTypeOK, WorkerIds
    <3>2. CASE w # nextWorkerId
      BY <1>1, <2>1, <2>3, <3>1, <3>2 DEF Hold, ManagerTypeOK, held, lost
    <3>3. CASE w = nextWorkerId
      <4>1. w \notin workers /\ w \notin restarts
        BY <3>3 DEF ProcessesInv, ManagerTypeOK, WorkerIds
      <4>2. shopIds[w] = {} /\ affected[w] = {}
        BY <4>1 DEF HoldersInv
      <4>3. shopIds'[w] = {s}
        BY <2>3, <3>3, <4>2 DEF Hold, ManagerTypeOK
      <4>4. Cardinality({s}) = 1
        BY FS_Singleton
      <4> QED BY <1>2, <2>1, <4>2, <4>3, <4>4, LimitsAssumption
    <3> QED BY <3>2, <3>3
  <2> QED BY <1>3, <2>2, <2>3 DEF AssignShop
<1>4. ASSUME NEW s \in Shops, RemoveHeldShop(s)
      PROVE  Cardinality(shopIds'[w]) + Cardinality(affected'[w]) <= MaxShopsPerWorker
  <2>1. UNCHANGED affected /\ (shopIds'[w] = shopIds[w] \/ shopIds'[w] = shopIds[w] \ {s})
    BY <1>4 DEF RemoveHeldShop, listenerVars, ManagerTypeOK
  <2>2. Cardinality(shopIds[w] \ {s}) <= held /\ Cardinality(shopIds[w] \ {s}) \in Nat
    BY ShopSetSize DEF ManagerTypeOK, held
  <2>3. \/ Cardinality(shopIds'[w]) = held
        \/ Cardinality(shopIds'[w]) = Cardinality(shopIds[w] \ {s})
    BY <2>1, Zenon DEF held
  <2> QED BY <1>1, <2>1, <2>2, <2>3, LimitsAssumption DEF lost
<1>5. CASE DetectDeadWorkers
  <2>1. affected[w] = {}
    BY <1>5 DEF DetectDeadWorkers, ProcessesInv, HoldersInv
  <2>2. \/ shopIds'[w] = {} /\ affected'[w] = shopIds[w]
        \/ shopIds'[w] = shopIds[w] /\ affected'[w] = {}
    BY <1>5 DEF DetectDeadWorkers
  <2>3. \/ Cardinality(shopIds'[w]) = 0 /\ Cardinality(affected'[w]) = held
        \/ Cardinality(shopIds'[w]) = held /\ Cardinality(affected'[w]) = 0
    BY <1>2, <2>2, Zenon DEF held
  <2> QED BY <1>1, <2>3, LimitsAssumption
<1>6. CASE RegisterWorker
  <2>1. UNCHANGED affected /\ (shopIds'[w] = shopIds[w] \/ shopIds'[w] = {})
    BY <1>6 DEF RegisterWorker, ManagerTypeOK
  <2>2. Cardinality(shopIds'[w]) = held \/ Cardinality(shopIds'[w]) = 0
    BY <1>2, <2>1, Zenon DEF held
  <2> QED BY <1>1, <2>1, <2>2, LimitsAssumption DEF lost
<1>7. ASSUME NEW s \in Shops, RestoreShop(s) \/ RestoreFails(s)
      PROVE  Cardinality(shopIds'[w]) + Cardinality(affected'[w]) <= MaxShopsPerWorker
  <2>1. s \in affected[restarting] /\ restarting \in WorkerIds
    BY <1>7 DEF RestoreShop, RestoreFails, ListenerTypeOK
  <2>2. CASE w # restarting
    <3>1. shopIds'[w] = shopIds[w] /\ (affected'[w] = affected[w] \/ affected'[w] = {})
      BY <1>7, <2>1, <2>2 DEF RestoreShop, RestoreFails, ManagerTypeOK, ListenerTypeOK
    <3>2. Cardinality(shopIds'[w]) = held
          /\ (Cardinality(affected'[w]) = lost \/ Cardinality(affected'[w]) = 0)
      BY <1>2, <3>1, Zenon DEF held, lost
    <3> QED BY <1>1, <3>2, LimitsAssumption
  <2>3. CASE w = restarting
    <3>1. /\ shopIds'[w] = shopIds[w] \cup {s}
          /\ affected'[w] = affected[w] \ {s} \/ affected'[w] = {}
      BY <1>7, <2>1, <2>3 DEF RestoreShop, RestoreFails, ManagerTypeOK, ListenerTypeOK
    <3>2. Cardinality(shopIds[w] \cup {s}) <= held + 1
          /\ Cardinality(shopIds[w] \cup {s}) \in Nat
      BY ShopSetSize DEF ManagerTypeOK, held
    <3>3. Cardinality(affected[w] \ {s}) = lost - 1 /\ lost >= 1
      BY <2>1, <2>3, ShopSetSize DEF ListenerTypeOK, lost
    <3>4. Cardinality(shopIds'[w]) = Cardinality(shopIds[w] \cup {s})
      BY <3>1, Zenon
    <3>5. Cardinality(affected'[w]) = Cardinality(affected[w] \ {s})
          \/ Cardinality(affected'[w]) = 0
      BY <1>2, <3>1, Zenon
    <3> QED BY <1>1, <3>2, <3>3, <3>4, <3>5, LimitsAssumption
  <2> QED BY <2>2, <2>3
<1>8. CASE ClearState
  BY <1>1, <1>2, <1>8, LimitsAssumption DEF ClearState, listenerVars, held, lost
<1>9. CASE UNCHANGED <<shopIds, affected>>
  BY <1>1, <1>9 DEF held, lost
<1> QED BY <1>3, <1>4, <1>5, <1>6, <1>7, <1>8, <1>9 DEF Next, ApiCall, ListenerStep, Recovery,
        StartWorkers, RemoveUnheldShop, DeleteShop, BeginShutdown, ShutdownStep,
        SnapshotWorkers, SignalWorker, JoinOrKill, JoinListener, ListenerTest, RespawnWorker,
        FinishRestore, WorkerStep, HandleCommand, Crash, vars, managerVars, listenerVars

\* Assignments and recoveries, interleaved in any way, never give a worker
\* more than max_shops_per_worker shops.
THEOREM Capacity == Spec => []CapacityRespected
<1>1. IdsInv /\ AssignmentInv /\ CapacityRespected /\ [Next]_vars => CapacityRespected'
  BY CapacityStep
<1> QED BY IdsCorrect, AssignmentCorrect, CapacityInit, <1>1, PTL DEF Spec

\* Whoever puts a command in the queue of the worker that is being refilled,
\* it is the recovery; and a worker that takes one makes room.
LEMMA RefillStep ==
    ASSUME IdsInv, CapacityRespected, RefillInv, [Next]_vars
    PROVE  RefillInv'
<1> USE DEF IdsInv, TypeOK
<1> SUFFICES ASSUME listenerPc' = "restoring"
    PROVE  Len(cmdQueue'[restarting']) + Cardinality(affected'[restarting']) <= MaxShopsPerWorker
  BY DEF RefillInv
<1>1. CASE RegisterWorker
  <2>1. restarting \in WorkerIds /\ cmdQueue[restarting] = <<>>
        /\ UNCHANGED <<affected, cmdQueue, restarting>>
    BY <1>1 DEF RegisterWorker, ListenerTypeOK, ProcessesInv, processVars
  <2>2. Cardinality(affected[restarting]) \in Nat /\ Cardinality(shopIds[restarting]) \in Nat
    BY <2>1, ShopsAssumption, FS_Subset, FS_CardinalityType DEF ManagerTypeOK, ListenerTypeOK
  <2>3. Cardinality(affected[restarting]) <= MaxShopsPerWorker
    BY <2>1, <2>2, LimitsAssumption DEF CapacityRespected, Load
  <2> QED BY <2>1, <2>2, <2>3, LimitsAssumption
<1> DEFINE r == restarting
<1>2. ASSUME listenerPc = "restoring", UNCHANGED <<restarting, affected>>,
             \/ cmdQueue'[r] = cmdQueue[r]
             \/ cmdQueue[r] # <<>> /\ cmdQueue'[r] = Tail(cmdQueue[r])
      PROVE  Len(cmdQueue'[restarting']) + Cardinality(affected'[restarting']) <= MaxShopsPerWorker
  <2>1. r \in WorkerIds /\ cmdQueue[r] \in Seq(Command)
    BY <1>2 DEF ListenerTypeOK, ProcessTypeOK
  <2>2. Cardinality(affected[r]) \in Nat
    BY <2>1, ShopsAssumption, FS_Subset, FS_CardinalityType DEF ListenerTypeOK
  <2>3. Len(cmdQueue[r]) + Cardinality(affected[r]) <= MaxShopsPerWorker
    BY <1>2 DEF RefillInv
  <2>4. Len(cmdQueue'[r]) <= Len(cmdQueue[r]) /\ Len(cmdQueue'[r]) \in Nat /\ Len(cmdQueue[r]) \in Nat
    <3>1. CASE cmdQueue'[r] = cmdQueue[r]
      BY <2>1, <3>1
    <3>2. CASE cmdQueue[r] # <<>> /\ cmdQueue'[r] = Tail(cmdQueue[r])
      BY <2>1, <3>2
    <3> QED BY <1>2, <3>1, <3>2
  <2> QED BY <1>2, <2>2, <2>3, <2>4, LimitsAssumption
<1>3. ASSUME NEW s \in Shops, RestoreShop(s)
      PROVE  Len(cmdQueue'[restarting']) + Cardinality(affected'[restarting']) <= MaxShopsPerWorker
  <2>1. r \in WorkerIds /\ s \in affected[r] /\ UNCHANGED restarting /\ listenerPc = "restoring"
        /\ cmdQueue[r] \in Seq(Command)
    BY <1>3 DEF RestoreShop, ListenerTypeOK, ProcessTypeOK
  <2>2. cmdQueue'[r] = Append(cmdQueue[r], StartShop(s)) /\ affected'[r] = affected[r] \ {s}
    BY <1>3, <2>1 DEF RestoreShop, ProcessTypeOK, ListenerTypeOK
  <2>3. Cardinality(affected[r] \ {s}) = Cardinality(affected[r]) - 1 /\ Cardinality(affected[r]) \in Nat
    BY <2>1, ShopSetSize DEF ListenerTypeOK
  <2>4. Len(cmdQueue'[r]) = Len(cmdQueue[r]) + 1 /\ Len(cmdQueue[r]) \in Nat
    BY <2>1, <2>2
  <2>5. Len(cmdQueue[r]) + Cardinality(affected[r]) <= MaxShopsPerWorker
    BY <2>1 DEF RefillInv
  <2> QED BY <2>1, <2>2, <2>3, <2>4, <2>5, LimitsAssumption
<1>4. CASE ShutdownStep
  <2>1. listenerPc = "restoring" /\ UNCHANGED <<restarting, affected>>
    BY <1>4 DEF ShutdownStep, SnapshotWorkers, SignalWorker, JoinOrKill, JoinListener,
       ClearState, listenerVars
  <2>2. ASSUME NEW h \in toSignal, SignalWorker(h) PROVE cmdQueue'[r] = cmdQueue[r]
    <3>1. h[1] \in WorkerIds /\ generation[h[1]] \in Nat /\ h[2] \in Nat
      BY DEF MainTypeOK, ProcessTypeOK
    <3>2. h[1] = r => ~HandleAlive(h)
      BY <3>1 DEF SnapshotInv, HandleAlive
    <3>3. CASE h[1] = r
      BY <2>2, <3>2, <3>3 DEF SignalWorker
    <3>4. CASE h[1] # r
      <4>1. r \in WorkerIds /\ cmdQueue \in [WorkerIds -> Seq(Command)]
        BY <2>1 DEF ListenerTypeOK, ProcessTypeOK
      <4> QED BY <2>2, <3>1, <3>4, <4>1 DEF SignalWorker
    <3> QED BY <3>3, <3>4
  <2>3. cmdQueue'[r] = cmdQueue[r]
    BY <1>4, <2>2 DEF ShutdownStep, SnapshotWorkers, JoinOrKill, JoinListener, ClearState, processVars
  <2> QED BY <1>2, <2>1, <2>3
<1>5. ASSUME NEW w \in WorkerIds, WorkerStep(w)
      PROVE  Len(cmdQueue'[restarting']) + Cardinality(affected'[restarting']) <= MaxShopsPerWorker
  <2>1. listenerPc = "restoring" /\ UNCHANGED <<restarting, affected>>
    BY <1>5 DEF WorkerStep, HandleCommand, Crash, listenerVars
  <2>2. \/ cmdQueue'[r] = cmdQueue[r]
        \/ cmdQueue[r] # <<>> /\ cmdQueue'[r] = Tail(cmdQueue[r])
    <3>1. r \in WorkerIds
      BY <2>1 DEF ListenerTypeOK
    <3> QED BY <1>5, <3>1 DEF WorkerStep, HandleCommand, Crash, ProcessTypeOK
  <2> QED BY <1>2, <2>1, <2>2
<1>6. CASE UNCHANGED vars
  BY <1>2, <1>6 DEF vars, listenerVars, processVars
<1>7. ~ApiCall /\ ~BeginShutdown /\ ~StartWorkers
  BY DEF ApiCall, AssignShop, RemoveHeldShop, RemoveUnheldShop, DeleteShop, BeginShutdown,
     Serving, LockFree, StartWorkers, listenerVars
<1>8. CASE ListenerStep
  BY <1>1, <1>3, <1>8 DEF ListenerStep, Recovery, ListenerTest, DetectDeadWorkers,
     RespawnWorker, RestoreFails, FinishRestore
<1> QED BY <1>4, <1>5, <1>6, <1>7, <1>8 DEF Next

THEOREM RefillCorrect == Spec => []RefillInv
<1>1. Init => RefillInv
  BY DEF Init, RefillInv
<1>2. IdsInv /\ CapacityRespected /\ RefillInv /\ [Next]_vars => RefillInv'
  BY RefillStep
<1> QED BY IdsCorrect, Capacity, <1>1, <1>2, PTL DEF Spec

LEMMA SurvivalStep ==
    ASSUME IdsInv, CapacityRespected, RefillInv, ListenerSurvives, [Next]_vars
    PROVE  ListenerSurvives'
<1> USE DEF IdsInv, TypeOK
<1> SUFFICES ASSUME QueueMax >= MaxShopsPerWorker PROVE listenerPc' # "failed"
  BY DEF ListenerSurvives
<1>1. listenerPc # "failed"
  BY DEF ListenerSurvives
<1>2. ASSUME NEW s \in Shops PROVE ~RestoreFails(s)
  <2> SUFFICES ASSUME RestoreFails(s) PROVE FALSE
    OBVIOUS
  <2>1. restarting \in WorkerIds /\ s \in affected[restarting] /\ Full(restarting)
        /\ listenerPc = "restoring"
    BY DEF RestoreFails, ListenerTypeOK
  <2>2. Cardinality(affected[restarting]) >= 1 /\ Cardinality(affected[restarting]) \in Nat
    BY <2>1, ShopSetSize DEF ListenerTypeOK
  <2>3. Len(cmdQueue[restarting]) \in Nat /\ Len(cmdQueue[restarting]) >= QueueMax
    BY <2>1 DEF ProcessTypeOK, Full
  <2>4. Len(cmdQueue[restarting]) + Cardinality(affected[restarting]) <= MaxShopsPerWorker
    BY <2>1 DEF RefillInv
  <2> QED BY <2>2, <2>3, <2>4, LimitsAssumption
<1>3. CASE ListenerStep
  BY <1>1, <1>2, <1>3 DEF ListenerStep, Recovery, ListenerTest, DetectDeadWorkers,
     RespawnWorker, RegisterWorker, RestoreShop, FinishRestore
<1>4. CASE StartWorkers
  BY <1>4 DEF StartWorkers
<1>5. CASE UNCHANGED listenerPc
  BY <1>1, <1>5
<1> QED BY <1>3, <1>4, <1>5 DEF Next, ApiCall, AssignShop, RemoveHeldShop, RemoveUnheldShop,
        DeleteShop, BeginShutdown, ShutdownStep, SnapshotWorkers, SignalWorker, JoinOrKill,
        JoinListener, ClearState, WorkerStep, HandleCommand, Crash, vars, listenerVars

\* A command queue that takes as many commands as a worker has shops is enough
\* for the listener thread to survive every recovery.
THEOREM Survival == Spec => []ListenerSurvives
<1>1. Init => ListenerSurvives
  BY DEF Init, ListenerSurvives
<1>2. IdsInv /\ CapacityRespected /\ RefillInv /\ ListenerSurvives /\ [Next]_vars
      => ListenerSurvives'
  BY SurvivalStep
<1> QED BY IdsCorrect, Capacity, RefillCorrect, <1>1, <1>2, PTL DEF Spec

-----------------------------------------------------------------------------
(* Nothing that was started is lost *)

LEMMA TrackingStep ==
    ASSUME IdsInv, AssignmentInv, ListenerSurvives', StartedShopsAreTracked, [Next]_vars
    PROVE  StartedShopsAreTracked'
<1> USE DEF IdsInv, TypeOK, AssignmentInv
<1> SUFFICES ASSUME QueueMax >= MaxShopsPerWorker, mainPc' # "closed",
                    NEW t \in Shops, asked'[t] = "start"
    PROVE  shopToWorker'[t] # NoWorker \/ t \in Pending'
  BY DEF StartedShopsAreTracked
<1>1. listenerPc' # "failed"
  BY DEF ListenerSurvives
<1>2. mainPc # "closed"
  BY DEF Next, StartWorkers, ApiCall, AssignShop, RemoveHeldShop, RemoveUnheldShop,
     DeleteShop, BeginShutdown, ShutdownStep, SnapshotWorkers, SignalWorker, JoinOrKill,
     JoinListener, ClearState, ListenerStep, Recovery, ListenerTest, DetectDeadWorkers,
     RespawnWorker, RegisterWorker, RestoreShop, RestoreFails, FinishRestore, WorkerStep,
     HandleCommand, Crash, Serving, vars, mainVars
<1>3. asked[t] = "start" => shopToWorker[t] # NoWorker \/ t \in Pending
  BY <1>2 DEF StartedShopsAreTracked
<1>4. ASSUME NEW s \in Shops, AssignShop(s)
      PROVE  shopToWorker'[t] # NoWorker \/ t \in Pending'
  <2>1. CASE t = s
    <3>1. \E w \in WorkerIds : shopToWorker' = [shopToWorker EXCEPT ![s] = w]
      <4>1. nextWorkerId <= MaxWorkerId => nextWorkerId \in WorkerIds
        BY LimitsAssumption DEF ManagerTypeOK, WorkerIds
      <4> QED BY <1>4, <4>1 DEF AssignShop, Hold, Candidates, ManagerTypeOK
    <3> QED BY <2>1, <3>1 DEF ManagerTypeOK, WorkerIds, NoWorker
  <2>2. CASE t # s
    BY <1>3, <1>4, <2>2 DEF AssignShop, Hold, Pending, ManagerTypeOK, HistoryTypeOK, listenerVars
  <2> QED BY <2>1, <2>2
<1>5. ASSUME NEW s \in Shops, RemoveHeldShop(s) \/ RemoveUnheldShop(s)
      PROVE  shopToWorker'[t] # NoWorker \/ t \in Pending'
  <2>1. t # s
    BY <1>5 DEF RemoveHeldShop, RemoveUnheldShop, HistoryTypeOK
  <2> QED BY <1>3, <1>5, <2>1 DEF RemoveHeldShop, RemoveUnheldShop, Pending, ManagerTypeOK,
          HistoryTypeOK, managerVars, listenerVars
<1>6. CASE DetectDeadWorkers
  <2>1. shopToWorker[t] # NoWorker
    BY <1>3, <1>6 DEF DetectDeadWorkers, ProcessesInv, Pending, historyVars
  <2>2. CASE \E w \in workers : process[w] = "dead" /\ t \in shopIds[w]
    <3> PICK w \in workers : process[w] = "dead" /\ t \in shopIds[w]
      BY <2>2
    <3>1. w \in restarts' /\ w \in WorkerIds /\ affected'[w] = shopIds[w]
      BY <1>6 DEF DetectDeadWorkers, ManagerTypeOK
    <3> QED BY <3>1 DEF Pending
  <2>3. CASE ~\E w \in workers : process[w] = "dead" /\ t \in shopIds[w]
    BY <1>6, <2>1, <2>3 DEF DetectDeadWorkers
  <2> QED BY <2>2, <2>3
<1>7. ASSUME NEW s \in Shops, RestoreShop(s)
      PROVE  shopToWorker'[t] # NoWorker \/ t \in Pending'
  <2>1. restarting \in WorkerIds
    BY <1>7 DEF RestoreShop, ListenerTypeOK
  <2>2. CASE t = s
    BY <1>7, <2>1, <2>2 DEF RestoreShop, ManagerTypeOK, WorkerIds, NoWorker
  <2>3. CASE t # s
    <3>1. shopToWorker'[t] = shopToWorker[t] /\ asked[t] = "start" /\ UNCHANGED restarts
      BY <1>7, <2>3 DEF RestoreShop, ManagerTypeOK, historyVars
    <3>2. \A w \in restarts : t \in affected[w] => t \in affected'[w]
      BY <1>7, <2>1, <2>3 DEF RestoreShop, ListenerTypeOK
    <3> QED BY <1>3, <3>1, <3>2 DEF Pending
  <2> QED BY <2>2, <2>3
<1>8. ASSUME NEW s \in Shops, RestoreFails(s) PROVE FALSE
  BY <1>1, <1>8 DEF RestoreFails
<1>9. CASE FinishRestore
  BY <1>3, <1>9 DEF FinishRestore, Pending, managerVars, historyVars
<1>10. CASE ClearState
  BY <1>10 DEF ClearState
<1>11. CASE UNCHANGED <<shopToWorker, restarts, affected, asked>>
  BY <1>3, <1>11 DEF Pending
<1> QED BY <1>4, <1>5, <1>6, <1>7, <1>8, <1>9, <1>10, <1>11 DEF Next, ApiCall, ListenerStep,
        Recovery, StartWorkers, DeleteShop, BeginShutdown, ShutdownStep, SnapshotWorkers,
        SignalWorker, JoinOrKill, JoinListener, ListenerTest, RespawnWorker, RegisterWorker,
        WorkerStep, HandleCommand, Crash, vars, managerVars, listenerVars, historyVars

\* A shop that was started has a worker or waits to be restored, until it is
\* stopped or the program ends, over any number of crashes and recoveries.
THEOREM Tracking == Spec => []StartedShopsAreTracked
<1>1. Init => StartedShopsAreTracked
  BY DEF Init, StartedShopsAreTracked
<1>2. IdsInv /\ AssignmentInv /\ ListenerSurvives' /\ StartedShopsAreTracked /\ [Next]_vars
      => StartedShopsAreTracked'
  BY TrackingStep
<1> QED BY IdsCorrect, AssignmentCorrect, Survival, <1>1, <1>2, PTL DEF Spec

-----------------------------------------------------------------------------
(* What the processes are under orders to run *)

\* Commanded, of a queue and of the shops told before it.
Ordered(q, before, s) ==
    \/ \E i \in 1..Len(q) :
         q[i] = StartShop(s) /\ \A j \in i..Len(q) : q[j] # StopShop(s)
    \/ s \in before /\ \A i \in 1..Len(q) : q[i] # StopShop(s)

\* A shop's own start and stop orders it, each to its end; the command for
\* another shop, and Shutdown, leave it alone.
LEMMA OrderAppended ==
    ASSUME NEW q \in Seq(Command), NEW c \in Command, NEW before, NEW s \in Shops
    PROVE  /\ c = StartShop(s) => Ordered(Append(q, c), before, s)
           /\ c = StopShop(s) => ~Ordered(Append(q, c), before, s)
           /\ c \notin {StartShop(s), StopShop(s)} =>
                (Ordered(Append(q, c), before, s) <=> Ordered(q, before, s))
<1> DEFINE r == Append(q, c)
<1>1. /\ Len(q) \in Nat /\ Len(r) = Len(q) + 1 /\ r[Len(r)] = c
      /\ \A i \in 1..Len(q) : r[i] = q[i]
  OBVIOUS
<1>2. StartShop(s) # StopShop(s)
  BY DEF StartShop, StopShop
<1> HIDE DEF r
<1>3. CASE c = StartShop(s)
  <2>1. Len(r) \in 1..Len(r) /\ \A j \in Len(r)..Len(r) : r[j] # StopShop(s)
    BY <1>1, <1>2, <1>3
  <2>2. Ordered(r, before, s)
    BY <1>1, <1>3, <2>1 DEF Ordered
  <2> QED BY <1>2, <1>3, <2>2 DEF r
<1>4. CASE c = StopShop(s)
  <2>1. \A i \in 1..Len(r) : Len(r) \in i..Len(r) /\ Len(r) \in 1..Len(r)
    BY <1>1
  <2>2. ~Ordered(r, before, s)
    BY <1>1, <1>4, <2>1 DEF Ordered
  <2> QED BY <1>2, <1>4, <2>2 DEF r
<1>5. CASE c \notin {StartShop(s), StopShop(s)}
  <2>1. ASSUME Ordered(q, before, s) PROVE Ordered(r, before, s)
    <3>1. ASSUME NEW i \in 1..Len(q), q[i] = StartShop(s),
                 \A j \in i..Len(q) : q[j] # StopShop(s)
          PROVE  Ordered(r, before, s)
      <4>1. i \in 1..Len(r) /\ r[i] = StartShop(s) /\ \A j \in i..Len(r) : r[j] # StopShop(s)
        BY <1>1, <1>5, <3>1
      <4> QED BY <4>1 DEF Ordered
    <3>2. ASSUME s \in before, \A i \in 1..Len(q) : q[i] # StopShop(s)
          PROVE  Ordered(r, before, s)
      <4>1. \A i \in 1..Len(r) : r[i] # StopShop(s)
        BY <1>1, <1>5, <3>2
      <4> QED BY <3>2, <4>1 DEF Ordered
    <3> QED BY <2>1, <3>1, <3>2 DEF Ordered
  <2>2. ASSUME Ordered(r, before, s) PROVE Ordered(q, before, s)
    <3>1. ASSUME NEW i \in 1..Len(r), r[i] = StartShop(s),
                 \A j \in i..Len(r) : r[j] # StopShop(s)
          PROVE  Ordered(q, before, s)
      <4>1. i \in 1..Len(q) /\ q[i] = StartShop(s) /\ \A j \in i..Len(q) : q[j] # StopShop(s)
        BY <1>1, <1>5, <3>1
      <4> QED BY <4>1 DEF Ordered
    <3>2. ASSUME s \in before, \A i \in 1..Len(r) : r[i] # StopShop(s)
          PROVE  Ordered(q, before, s)
      <4>1. \A i \in 1..Len(q) : q[i] # StopShop(s)
        BY <1>1, <3>2
      <4> QED BY <3>2, <4>1 DEF Ordered
    <3> QED BY <2>2, <3>1, <3>2 DEF Ordered
  <2> QED BY <1>5, <2>1, <2>2 DEF r
<1> QED BY <1>3, <1>4, <1>5

\* A command that is handled orders afterwards what it ordered in the queue.
LEMMA OrderHandled ==
    ASSUME NEW q \in Seq(Command), q # <<>>, NEW before, NEW after, NEW s \in Shops,
           Head(q) = StartShop(s) => s \in after,
           Head(q) = StopShop(s) => s \notin after,
           Head(q) \notin {StartShop(s), StopShop(s)} => (s \in after <=> s \in before)
    PROVE  Ordered(Tail(q), after, s) <=> Ordered(q, before, s)
<1> DEFINE r == Tail(q)
<1>1. /\ Len(q) \in Nat \ {0} /\ Len(r) = Len(q) - 1 /\ q[1] = Head(q)
      /\ \A i \in 1..Len(r) : r[i] = q[i + 1]
  OBVIOUS
<1>2. StartShop(s) # StopShop(s)
  BY DEF StartShop, StopShop
<1> HIDE DEF r
<1>3. ASSUME Ordered(q, before, s) PROVE Ordered(r, after, s)
  <2>1. ASSUME NEW i \in 1..Len(q), q[i] = StartShop(s), \A j \in i..Len(q) : q[j] # StopShop(s)
        PROVE  Ordered(r, after, s)
    <3>1. CASE i = 1
      <4>1. s \in after /\ \A j \in 1..Len(r) : r[j] # StopShop(s)
        BY <1>1, <2>1, <3>1
      <4> QED BY <4>1 DEF Ordered
    <3>2. CASE i # 1
      <4>1. i - 1 \in 1..Len(r) /\ r[i - 1] = StartShop(s)
            /\ \A j \in (i - 1)..Len(r) : r[j] # StopShop(s)
        BY <1>1, <2>1, <3>2
      <4> QED BY <4>1 DEF Ordered
    <3> QED BY <3>1, <3>2
  <2>2. ASSUME s \in before, \A i \in 1..Len(q) : q[i] # StopShop(s)
        PROVE  Ordered(r, after, s)
    <3>1. s \in after /\ \A j \in 1..Len(r) : r[j] # StopShop(s)
      BY <1>1, <2>2
    <3> QED BY <3>1 DEF Ordered
  <2> QED BY <1>3, <2>1, <2>2 DEF Ordered
<1>4. ASSUME Ordered(r, after, s) PROVE Ordered(q, before, s)
  <2>1. ASSUME NEW i \in 1..Len(r), r[i] = StartShop(s), \A j \in i..Len(r) : r[j] # StopShop(s)
        PROVE  Ordered(q, before, s)
    <3>1. i + 1 \in 1..Len(q) /\ q[i + 1] = StartShop(s)
      BY <1>1, <2>1
    <3>2. \A j \in (i + 1)..Len(q) : q[j] # StopShop(s)
      <4> TAKE j \in (i + 1)..Len(q)
      <4>1. j - 1 \in i..Len(r) /\ j - 1 \in 1..Len(r) /\ r[j - 1] = q[(j - 1) + 1]
        BY <1>1, <2>1
      <4> QED BY <2>1, <4>1
    <3> QED BY <3>1, <3>2 DEF Ordered
  <2>2. ASSUME s \in after, \A i \in 1..Len(r) : r[i] # StopShop(s)
        PROVE  Ordered(q, before, s)
    <3>1. Head(q) # StopShop(s)
      BY <2>2
    <3>2. \A j \in 1..Len(q) : q[j] # StopShop(s)
      <4> TAKE j \in 1..Len(q)
      <4>1. CASE j = 1
        BY <1>1, <3>1, <4>1
      <4>2. CASE j # 1
        <5>1. j - 1 \in 1..Len(r) /\ r[j - 1] = q[(j - 1) + 1]
          BY <1>1, <4>2
        <5> QED BY <2>2, <5>1
      <4> QED BY <4>1, <4>2
    <3>3. CASE Head(q) = StartShop(s)
      <4>1. 1 \in 1..Len(q) /\ q[1] = StartShop(s)
        BY <1>1, <3>3
      <4> QED BY <3>2, <4>1 DEF Ordered
    <3>4. CASE Head(q) # StartShop(s)
      <4>1. s \in before
        BY <2>2, <3>1, <3>4
      <4> QED BY <3>2, <4>1 DEF Ordered
    <3> QED BY <3>3, <3>4
  <2> QED BY <1>4, <2>1, <2>2 DEF Ordered
<1> QED BY <1>3, <1>4 DEF r

\* A process that does not run, and one that has no handle yet, was told nothing.
IdleInv ==
    /\ \A w \in WorkerIds : ~Alive(w) => told[w] = {}
    /\ listenerPc = "registering" => told[restarting] = {}

OrdersInv == IdleInv /\ HeldShopsAreCommanded /\ OnlyHeldShopsAreCommanded

\* What OrdersInv says of one handle.
InOrder(w) ==
    \A s \in Shops :
        /\ s \in shopIds[w] /\ Alive(w) /\ listenerPc # "failed" => Commanded(w, s)
        /\ mainPc # "closed" /\ s \notin unsent /\ Alive(w) /\ Commanded(w, s) => s \in shopIds[w]

LEMMA OrdersInOrder ==
    ASSUME TypeOK
    PROVE  HeldShopsAreCommanded /\ OnlyHeldShopsAreCommanded <=> \A w \in workers : InOrder(w)
BY DEF TypeOK, ManagerTypeOK, HeldShopsAreCommanded, OnlyHeldShopsAreCommanded, InOrder

\* The server and the listener come to their ends once and for all, and no
\* dropped StopShop is forgotten.
LEMMA EndsLast ==
    ASSUME IdsInv, [Next]_vars
    PROVE  /\ mainPc = "closed" => mainPc' = "closed"
           /\ listenerPc = "failed" => listenerPc' = "failed"
           /\ unsent \subseteq unsent'
BY DEF IdsInv, ProcessesInv, Next, StartWorkers, ApiCall, AssignShop, RemoveHeldShop,
   RemoveUnheldShop, DeleteShop, BeginShutdown, ShutdownStep, SnapshotWorkers, SignalWorker,
   JoinOrKill, JoinListener, ClearState, ListenerStep, Recovery, ListenerTest,
   DetectDeadWorkers, RespawnWorker, RegisterWorker, RestoreShop, RestoreFails, FinishRestore,
   WorkerStep, HandleCommand, Crash, Serving, vars, mainVars, listenerVars, historyVars

\* A handle whose shops, process and orders a step leaves alone stays in order.
LEMMA KeptInOrder ==
    ASSUME IdsInv, [Next]_vars, NEW w \in WorkerIds, InOrder(w),
           shopIds'[w] = shopIds[w], process'[w] = process[w],
           cmdQueue'[w] = cmdQueue[w], told'[w] = told[w]
    PROVE  InOrder(w)'
BY EndsLast DEF InOrder, Commanded, Alive

\* So does one whose process has died.
LEMMA DeadInOrder ==
    ASSUME NEW w \in WorkerIds, ~Alive(w)' PROVE InOrder(w)'
BY DEF InOrder

\* One that is sent a shop, and holds it from then on.
LEMMA SentInOrder ==
    ASSUME IdsInv, [Next]_vars, NEW w \in WorkerIds, InOrder(w), NEW s \in Shops,
           shopIds'[w] = shopIds[w] \cup {s}, process'[w] = process[w],
           cmdQueue'[w] = Append(cmdQueue[w], StartShop(s)), told'[w] = told[w]
    PROVE  InOrder(w)'
<1>1. cmdQueue[w] \in Seq(Command) /\ StartShop(s) \in Command
  BY CommandTypes DEF IdsInv, TypeOK, ProcessTypeOK
<1>2. \A t \in Shops : t # s => StartShop(s) \notin {StartShop(t), StopShop(t)}
  BY DEF StartShop, StopShop
<1>3. \A t \in Shops :
        /\ t = s => Commanded(w, t)'
        /\ t # s => (Commanded(w, t)' <=> Commanded(w, t))
  <2> TAKE t \in Shops
  <2>1. Commanded(w, t)' <=> Ordered(Append(cmdQueue[w], StartShop(s)), told[w], t)
    BY DEF Commanded, Ordered
  <2>2. Commanded(w, t) <=> Ordered(cmdQueue[w], told[w], t)
    BY DEF Commanded, Ordered
  <2> QED BY <1>1, <1>2, <2>1, <2>2, OrderAppended
<1> QED BY <1>3, EndsLast DEF InOrder, Alive

\* The handle of a new process that is sent its first shop.
LEMMA FirstInOrder ==
    ASSUME NEW w \in WorkerIds, NEW s \in Shops, shopIds'[w] = {s},
           cmdQueue'[w] = <<StartShop(s)>>, told'[w] = {}
    PROVE  InOrder(w)'
<1>1. \A t \in Shops : Commanded(w, t)' <=> t = s
  BY DEF Commanded, StartShop, StopShop
<1> QED BY <1>1 DEF InOrder

\* A handle whose process is sent nothing new and told nothing yet.
LEMMA EmptyInOrder ==
    ASSUME NEW w \in WorkerIds, shopIds'[w] = {}, cmdQueue'[w] = <<>>, told'[w] = {}
    PROVE  InOrder(w)'
BY DEF InOrder, Commanded

LEMMA AssignInOrder ==
    ASSUME IdsInv, AssignmentInv, [Next]_vars, \A w \in workers : InOrder(w),
           NEW s \in Shops, AssignShop(s)
    PROVE  \A w \in workers' : InOrder(w)'
<1> USE DEF IdsInv, TypeOK
<1> SUFFICES ASSUME NEW w \in workers' PROVE InOrder(w)'
  OBVIOUS
<1>1. CASE \E v \in Candidates : LeastLoaded(v) /\ Hold(s, v, cmdQueue[v])
           /\ UNCHANGED <<workers, nextWorkerId, process, generation, told>>
  <2> PICK v \in Candidates : Hold(s, v, cmdQueue[v])
    BY <1>1
  <2>1. v \in WorkerIds /\ w \in WorkerIds /\ InOrder(w)
        /\ UNCHANGED <<process, told>>
        /\ shopIds' = [shopIds EXCEPT ![v] = @ \cup {s}]
        /\ cmdQueue' = [cmdQueue EXCEPT ![v] = Append(cmdQueue[v], StartShop(s))]
    BY <1>1 DEF Candidates, Hold, ManagerTypeOK
  <2>2. CASE w = v
    <3>1. shopIds'[w] = shopIds[w] \cup {s}
          /\ cmdQueue'[w] = Append(cmdQueue[w], StartShop(s))
      BY <2>1, <2>2 DEF ManagerTypeOK, ProcessTypeOK
    <3> QED BY <2>1, <3>1, SentInOrder
  <2>3. CASE w # v
    <3>1. shopIds'[w] = shopIds[w] /\ cmdQueue'[w] = cmdQueue[w]
      BY <2>1, <2>3 DEF ManagerTypeOK, ProcessTypeOK
    <3> QED BY <2>1, <3>1, KeptInOrder
  <2> QED BY <2>2, <2>3
<1>2. CASE /\ nextWorkerId <= MaxWorkerId
           /\ workers' = workers \cup {nextWorkerId}
           /\ nextWorkerId' = nextWorkerId + 1
           /\ Spawn(nextWorkerId)
           /\ Hold(s, nextWorkerId, <<>>)
  <2>1. nextWorkerId \in WorkerIds /\ nextWorkerId \notin workers
    BY <1>2, LimitsAssumption DEF ManagerTypeOK, ProcessesInv, WorkerIds
  <2>2. shopIds[nextWorkerId] = {}
    BY <2>1 DEF AssignmentInv, HoldersInv
  <2>3. CASE w = nextWorkerId
    <3>1. shopIds'[w] = {s} /\ cmdQueue'[w] = <<StartShop(s)>> /\ told'[w] = {}
      BY <1>2, <2>1, <2>2, <2>3 DEF Hold, Spawn, ManagerTypeOK, ProcessTypeOK
    <3> QED BY <2>1, <2>3, <3>1, FirstInOrder
  <2>4. CASE w # nextWorkerId
    <3>1. w \in WorkerIds /\ InOrder(w)
      BY <1>2, <2>4 DEF ManagerTypeOK
    <3>2. shopIds'[w] = shopIds[w] /\ cmdQueue'[w] = cmdQueue[w]
          /\ process'[w] = process[w] /\ told'[w] = told[w]
      BY <1>2, <2>4, <3>1 DEF Hold, Spawn, ManagerTypeOK, ProcessTypeOK
    <3> QED BY <3>1, <3>2, KeptInOrder
  <2> QED BY <2>3, <2>4
<1> QED BY <1>1, <1>2 DEF AssignShop

\* The shop that a stop takes from a handle is out of its queue's orders, or its
\* command was dropped.
LEMMA RemoveInOrder ==
    ASSUME IdsInv, AssignmentInv, [Next]_vars, \A w \in workers : InOrder(w),
           NEW s \in Shops, RemoveHeldShop(s)
    PROVE  \A w \in workers' : InOrder(w)'
<1> USE DEF IdsInv, TypeOK
<1> DEFINE v == shopToWorker[s]
<1>1. v \in WorkerIds /\ v \in workers
  BY DEF RemoveHeldShop, AssignmentInv, MappedShopsAreHeld, ManagerTypeOK
<1>2. /\ shopIds' = [shopIds EXCEPT ![v] = @ \ {s}]
      /\ \/ s \in unsent' /\ UNCHANGED cmdQueue
         \/ cmdQueue' = [cmdQueue EXCEPT ![v] = Append(@, StopShop(s))]
      /\ UNCHANGED <<workers, process, told, listenerPc, mainPc>>
  BY <1>1 DEF RemoveHeldShop, listenerVars, mainVars
<1> HIDE DEF v
<1> SUFFICES ASSUME NEW w \in workers PROVE InOrder(w)'
  BY <1>2
<1>3. w \in WorkerIds /\ InOrder(w)
  BY DEF ManagerTypeOK
<1>4. CASE w # v
  <2>1. shopIds'[w] = shopIds[w] /\ cmdQueue'[w] = cmdQueue[w]
    BY <1>1, <1>2, <1>3, <1>4 DEF ManagerTypeOK, ProcessTypeOK
  <2> QED BY <1>2, <1>3, <2>1, KeptInOrder
<1>5. CASE w = v /\ s \in unsent' /\ UNCHANGED cmdQueue
  <2>1. shopIds'[w] = shopIds[w] \ {s}
    BY <1>2, <1>3, <1>5 DEF ManagerTypeOK
  <2> QED BY <1>2, <1>3, <1>5, <2>1, EndsLast DEF InOrder, Commanded, Alive
<1>6. CASE w = v /\ cmdQueue' = [cmdQueue EXCEPT ![v] = Append(@, StopShop(s))]
  <2>1. shopIds'[w] = shopIds[w] \ {s} /\ cmdQueue'[w] = Append(cmdQueue[w], StopShop(s))
    BY <1>2, <1>3, <1>6 DEF ManagerTypeOK, ProcessTypeOK
  <2>2. cmdQueue[w] \in Seq(Command) /\ StopShop(s) \in Command
    BY <1>3, CommandTypes DEF ProcessTypeOK
  <2>3. \A t \in Shops : t # s => StopShop(s) \notin {StartShop(t), StopShop(t)}
    BY DEF StartShop, StopShop
  <2>4. \A t \in Shops :
          /\ t = s => ~Commanded(w, t)'
          /\ t # s => (Commanded(w, t)' <=> Commanded(w, t))
    <3> TAKE t \in Shops
    <3>1. Commanded(w, t)' <=> Ordered(Append(cmdQueue[w], StopShop(s)), told[w], t)
      BY <1>2, <2>1 DEF Commanded, Ordered
    <3>2. Commanded(w, t) <=> Ordered(cmdQueue[w], told[w], t)
      BY DEF Commanded, Ordered
    <3> QED BY <2>2, <2>3, <3>1, <3>2, OrderAppended
  <2> QED BY <1>2, <1>3, <2>1, <2>4, EndsLast DEF InOrder, Alive
<1> QED BY <1>2, <1>4, <1>5, <1>6

\* shutdown's Shutdown ends the process when its turn comes, and orders nothing.
LEMMA SignalInOrder ==
    ASSUME IdsInv, [Next]_vars, \A w \in workers : InOrder(w),
           NEW h \in toSignal, SignalWorker(h)
    PROVE  \A w \in workers' : InOrder(w)'
<1> USE DEF IdsInv, TypeOK
<1>1. UNCHANGED <<workers, shopIds, process, told>>
  BY DEF SignalWorker, managerVars
<1> SUFFICES ASSUME NEW w \in workers PROVE InOrder(w)'
  BY <1>1
<1>2. w \in WorkerIds /\ InOrder(w)
  BY DEF ManagerTypeOK
<1>3. CASE cmdQueue'[w] = cmdQueue[w]
  BY <1>1, <1>2, <1>3, KeptInOrder
<1>4. CASE cmdQueue'[w] = Append(cmdQueue[w], Shutdown)
  <2>1. cmdQueue[w] \in Seq(Command) /\ Shutdown \in Command
    BY <1>2, CommandTypes DEF ProcessTypeOK
  <2>2. \A t \in Shops : Shutdown \notin {StartShop(t), StopShop(t)}
    BY DEF StartShop, StopShop, Shutdown
  <2>3. \A t \in Shops : Commanded(w, t)' <=> Commanded(w, t)
    <3> TAKE t \in Shops
    <3>1. Commanded(w, t)' <=> Ordered(Append(cmdQueue[w], Shutdown), told[w], t)
      BY <1>1, <1>4 DEF Commanded, Ordered
    <3>2. Commanded(w, t) <=> Ordered(cmdQueue[w], told[w], t)
      BY DEF Commanded, Ordered
    <3> QED BY <2>1, <2>2, <3>1, <3>2, OrderAppended
  <2> QED BY <1>1, <1>2, <2>3, EndsLast DEF InOrder, Alive
<1>5. cmdQueue'[w] \in {cmdQueue[w], Append(cmdQueue[w], Shutdown)}
  BY <1>2 DEF SignalWorker, ProcessTypeOK
<1> QED BY <1>3, <1>4, <1>5

\* Handling a command changes no orders, except by ending the process.
LEMMA HandledInOrder ==
    ASSUME IdsInv, [Next]_vars, \A w \in workers : InOrder(w),
           NEW v \in WorkerIds, HandleCommand(v)
    PROVE  \A w \in workers' : InOrder(w)'
<1> USE DEF IdsInv, TypeOK
<1>1. UNCHANGED <<workers, shopIds>> /\ cmdQueue' = [cmdQueue EXCEPT ![v] = Tail(@)]
  BY DEF HandleCommand, managerVars
<1> SUFFICES ASSUME NEW w \in workers PROVE InOrder(w)'
  BY <1>1
<1>2. w \in WorkerIds /\ InOrder(w)
  BY DEF ManagerTypeOK
<1>3. CASE w # v
  <2>1. cmdQueue'[w] = cmdQueue[w] /\ process'[w] = process[w] /\ told'[w] = told[w]
    BY <1>1, <1>2, <1>3 DEF HandleCommand, HandleStartShop, HandleStopShop, Die, ProcessTypeOK
  <2> QED BY <1>1, <1>2, <2>1, KeptInOrder
<1>4. CASE w = v
  <2> DEFINE c == Head(cmdQueue[w])
  <2>1. cmdQueue[w] \in Seq(Command) /\ cmdQueue[w] # <<>> /\ c \in Command
    BY <1>2, <1>4 DEF HandleCommand, ProcessTypeOK
  <2>2. cmdQueue'[w] = Tail(cmdQueue[w])
    BY <1>1, <1>2, <1>4 DEF ProcessTypeOK
  <2>3. CASE c.type = "Shutdown"
    <3>1. ~Alive(w)'
      BY <1>2, <1>4, <2>3 DEF HandleCommand, Die, Alive, ProcessTypeOK
    <3> QED BY <1>2, <3>1, DeadInOrder
  <2>4. CASE c.type # "Shutdown"
    <3>1. process' = process
          /\ \/ c.type = "StartShop" /\ told'[w] = told[w] \cup {c.shop}
             \/ c.type = "StopShop" /\ told'[w] = told[w] \ {c.shop}
      BY <1>2, <1>4, <2>4 DEF HandleCommand, HandleStartShop, HandleStopShop, ProcessTypeOK
    <3>2. \A t \in Shops : Commanded(w, t)' <=> Commanded(w, t)
      <4> TAKE t \in Shops
      <4>1. /\ c = StartShop(t) => t \in told'[w]
            /\ c = StopShop(t) => t \notin told'[w]
            /\ c \notin {StartShop(t), StopShop(t)} => (t \in told'[w] <=> t \in told[w])
        <5>1. c.type = "StartShop" => c = StartShop(c.shop)
          BY <2>1, CommandShop
        <5>2. c.type = "StopShop" => c = StopShop(c.shop)
          BY <2>1, CommandShop
        <5>3. StartShop(t).shop = t /\ StopShop(t).shop = t
              /\ StartShop(t).type = "StartShop" /\ StopShop(t).type = "StopShop"
          BY DEF StartShop, StopShop
        <5> HIDE DEF c
        <5> QED BY <3>1, <5>1, <5>2, <5>3
      <4>2. Ordered(Tail(cmdQueue[w]), told'[w], t) <=> Ordered(cmdQueue[w], told[w], t)
        BY <2>1, <4>1, OrderHandled
      <4>3. Commanded(w, t)' <=> Ordered(Tail(cmdQueue[w]), told'[w], t)
        BY <2>2 DEF Commanded, Ordered
      <4>4. Commanded(w, t) <=> Ordered(cmdQueue[w], told[w], t)
        BY DEF Commanded, Ordered
      <4> QED BY <4>2, <4>3, <4>4
    <3> QED BY <1>1, <1>2, <3>1, <3>2, EndsLast DEF InOrder, Alive
  <2> QED BY <2>3, <2>4
<1> QED BY <1>3, <1>4

LEMMA ListenerInOrder ==
    ASSUME IdsInv, AssignmentInv, IdleInv, [Next]_vars, \A w \in workers : InOrder(w),
           ListenerStep
    PROVE  \A w \in workers' : InOrder(w)'
<1> USE DEF IdsInv, TypeOK
<1> SUFFICES ASSUME NEW w \in workers' PROVE InOrder(w)'
  OBVIOUS
<1>0. \A v \in workers : v \in WorkerIds /\ InOrder(v)
  BY DEF ManagerTypeOK
<1>1. CASE ListenerTest
  BY <1>0, <1>1, KeptInOrder DEF ListenerTest, managerVars, processVars
<1>2. CASE DetectDeadWorkers
  <2>1. w \in workers /\ w \in WorkerIds /\ shopIds'[w] = shopIds[w]
    BY <1>0, <1>2 DEF DetectDeadWorkers
  <2> QED BY <1>0, <1>2, <2>1, KeptInOrder DEF DetectDeadWorkers, processVars
<1>3. ASSUME NEW v \in restarts, RespawnWorker(v) PROVE InOrder(w)'
  <2>1. v \notin workers /\ v \in WorkerIds
    BY <1>3 DEF RespawnWorker, ProcessesInv, ListenerTypeOK, WorkerIds, NoWorker
  <2>2. w \in workers /\ w \in WorkerIds /\ w # v
    BY <1>0, <1>3, <2>1 DEF RespawnWorker, managerVars
  <2>3. shopIds'[w] = shopIds[w] /\ process'[w] = process[w]
        /\ cmdQueue'[w] = cmdQueue[w] /\ told'[w] = told[w]
    BY <1>3, <2>2 DEF RespawnWorker, Spawn, managerVars, ProcessTypeOK
  <2> QED BY <1>0, <2>2, <2>3, KeptInOrder
<1>4. CASE RegisterWorker
  <2>1. restarting \notin workers /\ restarting \in WorkerIds
        /\ cmdQueue[restarting] = <<>> /\ told[restarting] = {}
    BY <1>4 DEF RegisterWorker, ProcessesInv, ListenerTypeOK, IdleInv
  <2>2. workers' = workers \cup {restarting} /\ UNCHANGED processVars
        /\ shopIds' = [shopIds EXCEPT ![restarting] = {}]
    BY <1>4 DEF RegisterWorker
  <2>3. CASE w = restarting
    BY <2>1, <2>2, <2>3, EmptyInOrder DEF processVars, ManagerTypeOK
  <2>4. CASE w # restarting
    <3>1. w \in workers /\ w \in WorkerIds /\ shopIds'[w] = shopIds[w]
      BY <1>0, <2>2, <2>4 DEF ManagerTypeOK
    <3> QED BY <1>0, <2>2, <3>1, KeptInOrder DEF processVars
  <2> QED BY <2>3, <2>4
<1>5. ASSUME NEW s \in Shops, RestoreShop(s) PROVE InOrder(w)'
  <2>1. restarting \in WorkerIds /\ w \in workers /\ w \in WorkerIds
        /\ UNCHANGED <<process, told>>
        /\ shopIds' = [shopIds EXCEPT ![restarting] = @ \cup {s}]
        /\ cmdQueue' = [cmdQueue EXCEPT ![restarting] = Append(@, StartShop(s))]
    BY <1>0, <1>5 DEF RestoreShop, ListenerTypeOK
  <2>2. CASE w = restarting
    <3>1. shopIds'[w] = shopIds[w] \cup {s}
          /\ cmdQueue'[w] = Append(cmdQueue[w], StartShop(s))
      BY <2>1, <2>2 DEF ManagerTypeOK, ProcessTypeOK
    <3> QED BY <1>0, <2>1, <3>1, SentInOrder
  <2>3. CASE w # restarting
    <3>1. shopIds'[w] = shopIds[w] /\ cmdQueue'[w] = cmdQueue[w]
      BY <2>1, <2>3 DEF ManagerTypeOK, ProcessTypeOK
    <3> QED BY <1>0, <2>1, <3>1, KeptInOrder
  <2> QED BY <2>2, <2>3
<1>6. ASSUME NEW s \in Shops, RestoreFails(s) PROVE InOrder(w)'
  <2>1. listenerPc' = "failed" /\ w \in workers /\ w \in WorkerIds
        /\ UNCHANGED <<process, told, cmdQueue, mainPc, unsent>>
        /\ \A t \in shopIds[w] : t \in shopIds'[w]
    BY <1>0, <1>6 DEF RestoreFails, processVars, mainVars, historyVars, ManagerTypeOK
  <2> QED BY <1>0, <2>1 DEF InOrder, Commanded, Alive
<1>7. CASE FinishRestore
  BY <1>0, <1>7, KeptInOrder DEF FinishRestore, managerVars, processVars
<1> QED BY <1>1, <1>2, <1>3, <1>4, <1>5, <1>6, <1>7 DEF ListenerStep, Recovery

\* The steps that start the processes, end them or leave all of this alone.
LEMMA RestInOrder ==
    ASSUME IdsInv, AssignmentInv, IdleInv, [Next]_vars, \A w \in workers : InOrder(w),
           \/ StartWorkers \/ BeginShutdown \/ SnapshotWorkers \/ JoinListener \/ ClearState
           \/ \E h \in toJoin : JoinOrKill(h)
           \/ \E s \in Shops : RemoveUnheldShop(s) \/ DeleteShop(s)
           \/ \E w \in WorkerIds : Crash(w)
           \/ UNCHANGED vars
    PROVE  \A w \in workers' : InOrder(w)'
<1> USE DEF IdsInv, TypeOK
<1> SUFFICES ASSUME NEW w \in workers' PROVE InOrder(w)'
  OBVIOUS
<1>0. \A v \in workers : v \in WorkerIds /\ InOrder(v)
  BY DEF ManagerTypeOK
<1>1. CASE StartWorkers
  <2> PICK n \in Nat : StartFirst(n)
    BY <1>1, StartCount
  <2>1. w \in WorkerIds /\ workers = {} /\ nextWorkerId = 1
        /\ UNCHANGED <<shopIds, cmdQueue, told>>
    BY <1>1, LimitsAssumption DEF StartWorkers, StartFirst, ProcessesInv, WorkerIds
  <2>2. process[w] = "none" /\ cmdQueue[w] = <<>>
    BY <2>1 DEF ProcessesInv, WorkerIds
  <2>3. told[w] = {} /\ shopIds[w] = {}
    BY <2>1, <2>2 DEF IdleInv, Alive, AssignmentInv, HoldersInv
  <2> QED BY <2>1, <2>2, <2>3, EmptyInOrder
<1>2. CASE ClearState
  BY <1>2 DEF ClearState
<1>3. ASSUME NEW v \in WorkerIds, Die(v), UNCHANGED <<workers, shopIds, cmdQueue>>
      PROVE  InOrder(w)'
  <2>1. w \in workers /\ w \in WorkerIds
    BY <1>0, <1>3
  <2>2. CASE w = v
    <3>1. ~Alive(w)'
      BY <1>3, <2>1, <2>2 DEF Die, Alive, ProcessTypeOK
    <3> QED BY <2>1, <3>1, DeadInOrder
  <2>3. CASE w # v
    <3>1. process'[w] = process[w] /\ told'[w] = told[w]
      BY <1>3, <2>1, <2>3 DEF Die, ProcessTypeOK
    <3> QED BY <1>0, <1>3, <2>1, <3>1, KeptInOrder
  <2> QED BY <2>2, <2>3
<1>4. CASE UNCHANGED <<workers, shopIds, process, cmdQueue, told>>
  BY <1>0, <1>4, KeptInOrder
<1>5. ASSUME NEW h \in toJoin, JoinOrKill(h) PROVE InOrder(w)'
  <2>1. h[1] \in WorkerIds
    BY <1>5 DEF MainTypeOK
  <2>2. CASE HandleAlive(h)
    BY <1>3, <1>5, <2>1, <2>2 DEF JoinOrKill, managerVars
  <2>3. CASE ~HandleAlive(h)
    BY <1>4, <1>5, <2>3 DEF JoinOrKill, managerVars
  <2> QED BY <2>2, <2>3
<1>6. ASSUME NEW v \in WorkerIds, Crash(v) PROVE InOrder(w)'
  BY <1>3, <1>6 DEF Crash, managerVars
<1> QED BY <1>1, <1>2, <1>4, <1>5, <1>6 DEF BeginShutdown, SnapshotWorkers, JoinListener,
        RemoveUnheldShop, DeleteShop, vars, managerVars, processVars

LEMMA IdleStep == ASSUME IdsInv, IdleInv, [Next]_vars PROVE IdleInv'
<1> USE DEF IdsInv, TypeOK
<1>1. ASSUME NEW v \in WorkerIds, Spawn(v), listenerPc' = "registering" => restarting' \in {restarting, v},
             listenerPc' = "registering" => listenerPc = "registering" \/ restarting' = v
      PROVE  IdleInv'
  <2>1. \A w \in WorkerIds : ~Alive(w)' => told'[w] = {}
    BY <1>1 DEF Spawn, IdleInv, Alive, ProcessTypeOK
  <2>2. listenerPc' = "registering" => told'[restarting'] = {}
    BY <1>1 DEF Spawn, IdleInv, ProcessTypeOK, ListenerTypeOK
  <2> QED BY <2>1, <2>2 DEF IdleInv
<1>2. ASSUME NEW v \in WorkerIds, Die(v), UNCHANGED <<listenerPc, restarting>> PROVE IdleInv'
  <2>1. \A w \in WorkerIds : ~Alive(w)' => told'[w] = {}
    BY <1>2 DEF Die, IdleInv, Alive, ProcessTypeOK
  <2>2. listenerPc' = "registering" => told'[restarting'] = {}
    BY <1>2 DEF Die, IdleInv, ProcessTypeOK, ListenerTypeOK
  <2> QED BY <2>1, <2>2 DEF IdleInv
<1>3. CASE UNCHANGED <<process, told, listenerPc, restarting>>
  BY <1>3 DEF IdleInv, Alive
<1>4. CASE UNCHANGED <<process, told>> /\ listenerPc' # "registering"
  BY <1>4 DEF IdleInv, Alive
<1>5. ASSUME NEW s \in Shops, AssignShop(s) PROVE IdleInv'
  <2>1. UNCHANGED <<listenerPc, restarting>>
    BY <1>5 DEF AssignShop, listenerVars
  <2>2. CASE UNCHANGED <<process, told>>
    BY <1>3, <2>1, <2>2
  <2>3. CASE nextWorkerId <= MaxWorkerId /\ Spawn(nextWorkerId)
    <3>1. nextWorkerId \in WorkerIds
      BY <2>3, LimitsAssumption DEF ManagerTypeOK, WorkerIds
    <3> QED BY <1>1, <2>1, <2>3, <3>1
  <2> QED BY <1>5, <2>2, <2>3 DEF AssignShop
<1>6. CASE StartWorkers
  <2> PICK n \in Nat : StartFirst(n)
    BY <1>6, StartCount
  <2>1. UNCHANGED told /\ listenerPc' = "checking"
        /\ \A w \in WorkerIds : process[w] = "alive" => process'[w] = "alive"
    BY <1>6 DEF StartWorkers, StartFirst
  <2> QED BY <2>1 DEF IdleInv, Alive
<1>7. ASSUME NEW v \in restarts, RespawnWorker(v) PROVE IdleInv'
  <2>1. v \in WorkerIds /\ Spawn(v) /\ restarting' = v
    BY <1>7 DEF RespawnWorker, ListenerTypeOK
  <2> QED BY <1>1, <2>1
<1>8. ASSUME NEW v \in WorkerIds, HandleCommand(v) PROVE IdleInv'
  <2>1. UNCHANGED <<listenerPc, restarting>> /\ Alive(v) /\ cmdQueue[v] # <<>>
    BY <1>8 DEF HandleCommand, listenerVars
  <2>2. CASE Die(v)
    BY <1>2, <2>1, <2>2
  <2>3. CASE UNCHANGED process /\ \A w \in WorkerIds \ {v} : told'[w] = told[w]
    <3>1. \A w \in WorkerIds : ~Alive(w)' => told'[w] = {}
      BY <2>1, <2>3 DEF IdleInv, Alive
    <3>2. listenerPc' = "registering" => told'[restarting'] = {}
      BY <2>1, <2>3 DEF IdleInv, ProcessesInv, ListenerTypeOK
    <3> QED BY <3>1, <3>2 DEF IdleInv
  <2> QED BY <1>8, <2>2, <2>3 DEF HandleCommand, HandleStartShop, HandleStopShop, ProcessTypeOK
<1>9. ASSUME NEW h \in toJoin, JoinOrKill(h) PROVE IdleInv'
  <2>1. h[1] \in WorkerIds /\ UNCHANGED <<listenerPc, restarting>>
    BY <1>9 DEF JoinOrKill, MainTypeOK, listenerVars
  <2> QED BY <1>2, <1>3, <1>9, <2>1 DEF JoinOrKill
<1>10. ASSUME NEW v \in WorkerIds, Crash(v) PROVE IdleInv'
  BY <1>2, <1>10 DEF Crash, listenerVars
<1>11. CASE ListenerTest \/ DetectDeadWorkers \/ RegisterWorker \/ FinishRestore
            \/ \E s \in Shops : RestoreShop(s) \/ RestoreFails(s)
  BY <1>4, <1>11 DEF ListenerTest, DetectDeadWorkers, RegisterWorker, RestoreShop,
     RestoreFails, FinishRestore, processVars
<1>12. CASE BeginShutdown \/ SnapshotWorkers \/ JoinListener \/ ClearState \/ UNCHANGED vars
            \/ (\E h \in toSignal : SignalWorker(h))
            \/ \E s \in Shops : RemoveHeldShop(s) \/ RemoveUnheldShop(s) \/ DeleteShop(s)
  BY <1>3, <1>12 DEF BeginShutdown, SnapshotWorkers, JoinListener, ClearState, SignalWorker,
     RemoveHeldShop, RemoveUnheldShop, DeleteShop, vars, processVars, listenerVars
<1> QED BY <1>5, <1>6, <1>7, <1>8, <1>9, <1>10, <1>11, <1>12 DEF Next, ApiCall, ListenerStep,
        Recovery, ShutdownStep, WorkerStep

LEMMA OrdersStep ==
    ASSUME IdsInv, IdsInv', AssignmentInv, OrdersInv, [Next]_vars
    PROVE  OrdersInv'
<1>1. \A w \in workers : InOrder(w)
  BY OrdersInOrder DEF OrdersInv, IdsInv
<1>2. \A w \in workers' : InOrder(w)'
  BY <1>1, AssignInOrder, RemoveInOrder, SignalInOrder, HandledInOrder, ListenerInOrder,
     RestInOrder DEF OrdersInv, Next, ApiCall, ShutdownStep, WorkerStep
<1>3. (HeldShopsAreCommanded /\ OnlyHeldShopsAreCommanded)'
  BY <1>2 DEF IdsInv, TypeOK, ManagerTypeOK, HeldShopsAreCommanded,
     OnlyHeldShopsAreCommanded, InOrder
<1> QED BY <1>3, IdleStep DEF OrdersInv

THEOREM OrdersCorrect == Spec => []OrdersInv
<1>1. Init => OrdersInv
  BY DEF Init, OrdersInv, IdleInv, HeldShopsAreCommanded, OnlyHeldShopsAreCommanded
<1>2. IdsInv /\ IdsInv' /\ AssignmentInv /\ OrdersInv /\ [Next]_vars => OrdersInv'
  BY OrdersStep
<1> QED BY IdsCorrect, AssignmentCorrect, <1>1, <1>2, PTL DEF Spec

\* Every shop a live worker holds is one it is under orders to run: no StartShop
\* is lost to a full queue, a crash, a respawn under the same id or a restore.
THEOREM HeldAreCommanded == Spec => []HeldShopsAreCommanded
BY OrdersCorrect, PTL DEF OrdersInv

\* A live worker is under orders to run no other shop, unless the StopShop met a
\* full queue: stops never overtake the starts they undo.
THEOREM OnlyHeldAreCommanded == Spec => []OnlyHeldShopsAreCommanded
BY OrdersCorrect, PTL DEF OrdersInv

=============================================================================
