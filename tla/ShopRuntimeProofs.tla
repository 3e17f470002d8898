------------------------- MODULE ShopRuntimeProofs -------------------------
(***************************************************************************)
(* Theorems about ShopRuntime, for any shops, callers, limits and number   *)
(* of tasks.                                                               *)
(***************************************************************************)
EXTENDS ShopRuntime, TLAPS

-----------------------------------------------------------------------------
(* Types *)

\* The count of crashes exceeds its limit only in a loop that is ending.
RetriesInv == \A t \in Tasks : retries[t] > MaxRetries => pc[t] \in {"closing", "done", "gone"}

TypeInv == TypeOK /\ RetriesInv

LEMMA TypeInit == Init => TypeInv
<1> SUFFICES ASSUME Init PROVE TypeInv
  OBVIOUS
<1>1. LoopTypeOK /\ RetriesInv
  BY RuntimeAssumption DEF Init, LoopTypeOK, RetriesInv, Tasks
<1>2. RuntimeTypeOK /\ DbTypeOK
  BY RuntimeAssumption DEF Init, RuntimeTypeOK, DbTypeOK, NoTask
<1>3. CallerTypeOK
  BY DEF Init, CallerTypeOK
<1>4. HistoryTypeOK
  BY RuntimeAssumption DEF Init, HistoryTypeOK
<1> QED BY <1>1, <1>2, <1>3, <1>4 DEF TypeInv, TypeOK

\* A task at an await has been created, for a shop.
LEMMA TaskShop ==
  ASSUME LoopTypeOK, NEW t \in Tasks, pc[t] # "none"
  PROVE  shopOf[t] \in Shops /\ t < nextTask
BY RuntimeAssumption DEF LoopTypeOK, Tasks

LEMMA SetupType == ASSUME TypeInv, NEW t \in Tasks, Setup(t) PROVE TypeInv'
<1> USE RuntimeAssumption DEF TypeInv, TypeOK, RetriesInv, LoopTypeOK, RuntimeTypeOK, DbTypeOK,
      CallerTypeOK, HistoryTypeOK, LoopPlaces, taskVars, runtimeVars, browserVars, dbVars,
      callerVars, historyVars, At, Goto, Leave, Emit, GoOnline, GoOffline
<1>0. pc[t] # "none"
  BY DEF Setup, Enter, EngineReady, Opened, LoggedIn, AwaitManualLogin, LoginFails, Notified
<1>a. shopOf[t] \in Shops
  BY <1>0, TaskShop
<1>1. CASE Enter(t)
  BY <1>1 DEF Enter
<1>2. CASE EngineReady(t)
  BY <1>2, <1>a DEF EngineReady
<1>3. CASE Opened(t)
  BY <1>3, <1>a DEF Opened
<1>4. CASE LoggedIn(t)
  BY <1>4, <1>a DEF LoggedIn
<1>5. CASE AwaitManualLogin(t)
  BY <1>5, <1>a DEF AwaitManualLogin
<1>6. CASE LoginFails(t)
  BY <1>6, <1>a DEF LoginFails
<1>7. CASE Notified(t)
  BY <1>7, <1>a DEF Notified
<1> QED BY <1>1, <1>2, <1>3, <1>4, <1>5, <1>6, <1>7 DEF Setup

LEMMA PollType == ASSUME TypeInv, NEW t \in Tasks, Poll(t) PROVE TypeInv'
<1> USE RuntimeAssumption DEF TypeInv, TypeOK, RetriesInv, LoopTypeOK, RuntimeTypeOK, DbTypeOK,
      CallerTypeOK, HistoryTypeOK, LoopPlaces, taskVars, runtimeVars, browserVars, dbVars,
      callerVars, historyVars, At, Goto, Leave, Emit, GoOnline, GoOffline
<1>0. pc[t] # "none"
  BY DEF Poll, PollSucceeds, BrowserGone, SessionExpired, AwaitManualRelogin, LoggedInAgain
<1>a. shopOf[t] \in Shops
  BY <1>0, TaskShop
<1>1. CASE PollSucceeds(t)
  BY <1>1, <1>a DEF PollSucceeds
<1>2. CASE BrowserGone(t)
  BY <1>2, <1>a DEF BrowserGone
<1>3. CASE SessionExpired(t)
  BY <1>3, <1>a DEF SessionExpired
<1>4. CASE AwaitManualRelogin(t)
  BY <1>4, <1>a DEF AwaitManualRelogin
<1>5. CASE LoggedInAgain(t)
  BY <1>5, <1>a DEF LoggedInAgain
<1> QED BY <1>1, <1>2, <1>3, <1>4, <1>5 DEF Poll

LEMMA CrashType ==
  ASSUME TypeInv, NEW t \in Tasks, Crashes(t), shopOf[t] \in Shops,
         pc[t] \in LoopPlaces \ {"closing"},
         cancel' \in [Tasks -> {"no", "requested", "delivered", "lost"}],
         called' \in [Shops -> {"nothing", "start", "stop", "cleanStop"}],
         UNCHANGED <<nextTask, shopOf, runtimeVars, engineOn, shopTable, policy, callerVars,
                     overlapped, loginStreak>>
  PROVE  TypeInv'
<1> USE RuntimeAssumption DEF TypeInv, TypeOK, RetriesInv, LoopTypeOK, RuntimeTypeOK, DbTypeOK,
      CallerTypeOK, HistoryTypeOK, LoopPlaces, runtimeVars, callerVars, Goto, Leave, Emit,
      GoOffline
<1>1. retries' = [retries EXCEPT ![t] = @ + 1]
  BY DEF Crashes
<1>2. /\ \/ pc' = [pc EXCEPT ![t] = "closing"]
         \/ pc' = [pc EXCEPT ![t] = "recovering"] /\ retries[t] + 1 <= MaxRetries
      /\ contexts' = [contexts EXCEPT ![shopOf[t]] = "none"]
      /\ online' \subseteq online /\ cookieValid' \subseteq cookieValid
      /\ \E event \in {"offline", "recovery"} :
           lastEvent' = [lastEvent EXCEPT ![shopOf[t]] = event]
  BY DEF Crashes
<1>3. retries[t] <= MaxRetries
  OBVIOUS
<1>4. LoopTypeOK'
  BY <1>1, <1>2, <1>3
<1>5. RetriesInv'
  BY <1>1, <1>2
<1>6. RuntimeTypeOK'
  BY <1>2
<1>7. DbTypeOK'
  BY <1>2
<1>8. CallerTypeOK'
  OBVIOUS
<1>9. HistoryTypeOK'
  BY <1>2
<1> QED BY <1>4, <1>5, <1>6, <1>7, <1>8, <1>9

LEMMA EndType ==
  ASSUME TypeInv, NEW t \in Tasks,
         \/ LoopCrashes(t) \/ Recovered(t) \/ Closed(t)
         \/ TakeCancellation(t) \/ LosesCancellation(t) \/ OnTaskDone(t)
  PROVE  TypeInv'
<1> USE RuntimeAssumption DEF TypeInv, TypeOK, RetriesInv, LoopTypeOK, RuntimeTypeOK, DbTypeOK,
      CallerTypeOK, HistoryTypeOK, LoopPlaces, taskVars, runtimeVars, browserVars, dbVars,
      callerVars, historyVars, At, Goto, Leave, Emit, GoOnline, GoOffline
<1>0. pc[t] # "none"
  BY DEF Live, LoopCrashes, Recovered, Closed, TakeCancellation, LosesCancellation, OnTaskDone
<1>a. shopOf[t] \in Shops
  BY <1>0, TaskShop
<1>1. CASE LoopCrashes(t)
  <2>1. /\ Crashes(t) /\ pc[t] \in LoopPlaces \ {"closing"}
        /\ UNCHANGED <<nextTask, shopOf, cancel, runtimeVars, engineOn, shopTable, policy,
                       callerVars, overlapped, called, loginStreak>>
    BY <1>1 DEF LoopCrashes
  <2>2. /\ cancel' \in [Tasks -> {"no", "requested", "delivered", "lost"}]
        /\ called' \in [Shops -> {"nothing", "start", "stop", "cleanStop"}]
    BY <2>1
  <2> HIDE DEF TypeInv
  <2> QED BY <1>a, <2>1, <2>2, CrashType
<1>2. CASE Recovered(t)
  BY <1>2, <1>a DEF Recovered
<1>3. CASE Closed(t)
  BY <1>3, <1>a DEF Closed
<1>4. CASE TakeCancellation(t)
  BY <1>4, <1>a DEF TakeCancellation
<1>5. CASE OnTaskDone(t)
  BY <1>5, <1>a DEF OnTaskDone
<1>6. CASE LosesCancellation(t)
  <2>1. /\ cancel' \in [Tasks -> {"no", "requested", "delivered", "lost"}]
        /\ called' \in [Shops -> {"nothing", "start", "stop", "cleanStop"}]
    BY <1>6, <1>a DEF LosesCancellation
  <2>2. CASE Crashes(t)
    <3>1. /\ pc[t] \in LoopPlaces \ {"closing"}
          /\ UNCHANGED <<nextTask, shopOf, runtimeVars, engineOn, shopTable, policy, callerVars,
                         overlapped, loginStreak>>
      BY <1>6 DEF LosesCancellation
    <3> HIDE DEF TypeInv
    <3> QED BY <1>a, <2>1, <2>2, <3>1, CrashType
  <2>3. CASE UNCHANGED <<pc, retries, contexts, online, cookieValid, lastEvent>>
    BY <1>6, <2>1, <2>3 DEF LosesCancellation
  <2> QED BY <1>6, <2>2, <2>3 DEF LosesCancellation
<1> QED BY <1>1, <1>2, <1>3, <1>4, <1>5, <1>6

LEMMA StartType ==
  ASSUME TypeInv, NEW s \in Shops, StartShop(s), timers' \in [Shops -> Nat],
         called' \in [Shops -> {"nothing", "start", "stop", "cleanStop"}],
         loginStreak' \in [Shops -> 0..MaxLoginFailures]
  PROVE  TypeInv'
<1> USE RuntimeAssumption DEF TypeInv, TypeOK, RetriesInv, LoopTypeOK, RuntimeTypeOK, DbTypeOK,
      CallerTypeOK, HistoryTypeOK, taskVars, runtimeVars, browserVars, dbVars, callerVars,
      historyVars, NoTask
<1>1. nextTask \in Tasks /\ nextTask' = nextTask + 1
  BY DEF StartShop, Tasks
<1>2. shopOf' = [shopOf EXCEPT ![nextTask] = s] /\ pc' = [pc EXCEPT ![nextTask] = "created"]
  BY DEF StartShop, Goto
<1>3. LoopTypeOK'
  <2>1. nextTask' \in 1..(MaxTasks + 1)
    BY <1>1 DEF Tasks
  <2>2. shopOf' \in [Tasks -> Shops \cup {NoShop}]
    BY <1>1, <1>2
  <2>3. pc' \in [Tasks -> LoopPlaces \cup {"none", "done", "gone"}]
    BY <1>1, <1>2 DEF LoopPlaces
  <2>4. retries' = retries /\ cancel' = cancel
    BY DEF StartShop
  <2>5. ASSUME NEW t \in Tasks
        PROVE  (shopOf'[t] = NoShop <=> t >= nextTask') /\ (pc'[t] = "none" <=> t >= nextTask')
    BY <1>1, <1>2 DEF Tasks
  <2> QED BY <2>1, <2>2, <2>3, <2>4, <2>5
<1>6. RetriesInv'
  <2> SUFFICES ASSUME NEW t \in Tasks, retries[t] > MaxRetries
               PROVE  pc'[t] \in {"closing", "done", "gone"}
    BY DEF StartShop
  <2>1. t # nextTask
    BY <1>1
  <2> QED BY <2>1, <1>2
<1>4. RuntimeTypeOK' /\ DbTypeOK'
  BY <1>1 DEF StartShop
<1>5. CallerTypeOK' /\ HistoryTypeOK'
  BY DEF StartShop
<1> QED BY <1>3, <1>4, <1>5, <1>6

LEMMA StopType ==
  ASSUME TypeInv, NEW c \in Callers, NEW s \in Shops, callerPc[c] = "idle", BeginStop(c, s),
         callerTodo' \in [Callers -> SUBSET Shops]
  PROVE  TypeInv'
<1> USE RuntimeAssumption DEF TypeInv, TypeOK, RetriesInv, LoopTypeOK, RuntimeTypeOK, DbTypeOK,
      CallerTypeOK, HistoryTypeOK, taskVars, runtimeVars, browserVars, dbVars, callerVars,
      historyVars, NoTask
<1> DEFINE t == runningTasks[s]
<1>1. LoopTypeOK' /\ RetriesInv'
  BY DEF BeginStop
<1>2. RuntimeTypeOK' /\ DbTypeOK'
  BY DEF BeginStop
<1>3. HistoryTypeOK'
  BY DEF BeginStop
<1>4. CASE t = NoTask
  BY <1>1, <1>2, <1>3, <1>4 DEF BeginStop
<1>5. CASE t # NoTask
  <2>1. t \in Tasks
    BY <1>5
  <2>2. callerPc' = [callerPc EXCEPT ![c] = "waiting"] /\ callerShop' = [callerShop EXCEPT ![c] = s]
    BY <1>5 DEF BeginStop
  <2>3. callerTask' = [callerTask EXCEPT ![c] = IF Live(t) THEN t ELSE NoTask]
    BY <1>5 DEF BeginStop
  <2>4. CallerTypeOK'
    BY <2>1, <2>2, <2>3 DEF BeginStop
  <2> QED BY <1>1, <1>2, <1>3, <2>4
<1> QED BY <1>4, <1>5

LEMMA CallerType ==
  ASSUME TypeInv, NEW c \in Callers, CallerStep(c) \/ WaitTimesOut(c)
  PROVE  TypeInv'
<1> USE RuntimeAssumption DEF TypeInv, TypeOK, RetriesInv, LoopTypeOK, RuntimeTypeOK, DbTypeOK,
      CallerTypeOK, HistoryTypeOK, taskVars, runtimeVars, browserVars, dbVars, callerVars,
      historyVars
<1>1. CASE WaitOver(c)
  BY <1>1 DEF WaitOver, EndStop, Emit
<1>2. CASE ForceClose(c)
  BY <1>2 DEF ForceClose
<1>3. CASE ForceClosed(c)
  BY <1>3 DEF ForceClosed, EndStop, Emit
<1>4. CASE CloseContexts(c)
  BY <1>4 DEF CloseContexts
<1>5. CASE StopPlaywright(c)
  <2>1. contexts' \in [Shops -> {"none", "alive", "dead", "stale"}]
    BY <1>5 DEF StopPlaywright
  <2>2. /\ UNCHANGED <<taskVars, runtimeVars, dbVars, callerShop, callerTask, callerTodo, quitting,
                      historyVars>>
        /\ engineOn' = FALSE /\ callerPc[c] = "stoppingPlaywright"
        /\ callerPc' = [callerPc EXCEPT ![c] = "idle"]
    BY <1>5 DEF StopPlaywright
  <2>3. CallerTypeOK'
    BY <2>2
  <2> QED BY <2>1, <2>2, <2>3
<1>6. CASE ExitWorker(c)
  <2>0. pc' \in [Tasks -> {"none", "gone"}] /\ \A t \in Tasks : pc'[t] = "none" <=> ~(t < nextTask)
    BY <1>6 DEF ExitWorker
  <2>1. LoopTypeOK' /\ RetriesInv'
    <3>1. UNCHANGED <<nextTask, shopOf, retries, cancel>>
      BY <1>6 DEF ExitWorker
    <3>2. pc' \in [Tasks -> LoopPlaces \cup {"none", "done", "gone"}]
      BY <2>0
    <3>3. \A t \in Tasks : pc'[t] = "none" <=> t >= nextTask'
      BY <2>0, <3>1 DEF Tasks
    <3>4. ASSUME NEW t \in Tasks, retries[t] > MaxRetries PROVE pc'[t] = "gone"
      <4>1. pc[t] # "none"
        <5>1. pc[t] \in {"closing", "done", "gone"}
          BY <3>4
        <5> QED BY <5>1
      <4>2. t < nextTask
        BY <4>1, TaskShop
      <4> QED BY <2>0, <4>2
    <3> QED BY <3>1, <3>2, <3>3, <3>4
  <2>2. RuntimeTypeOK'
    BY <1>6 DEF ExitWorker, NoTask
  <2>3. DbTypeOK' /\ CallerTypeOK'
    BY <1>6 DEF ExitWorker
  <2>4. HistoryTypeOK'
    BY <1>6 DEF ExitWorker
  <2> QED BY <2>1, <2>2, <2>3, <2>4
<1>7. CASE WaitTimesOut(c)
  BY <1>7 DEF WaitTimesOut, Live
<1>8. CASE StopNext(c)
  <2>1. PICK s \in callerTodo[c] :
         BeginStop(c, s) /\ callerTodo' = [callerTodo EXCEPT ![c] = @ \ {s}]
    BY <1>8 DEF StopNext
  <2>2. callerPc[c] = "idle" /\ s \in Shops /\ callerTodo' \in [Callers -> SUBSET Shops]
    BY <1>8, <2>1 DEF StopNext
  <2> QED BY <2>1, <2>2, StopType
<1> QED BY <1>1, <1>2, <1>3, <1>4, <1>5, <1>6, <1>7, <1>8 DEF CallerStep

LEMMA CallType == ASSUME TypeInv, NEW c \in Callers, Call(c) PROVE TypeInv'
<1> USE RuntimeAssumption DEF TypeInv, TypeOK, RetriesInv, LoopTypeOK, RuntimeTypeOK, DbTypeOK,
      CallerTypeOK, HistoryTypeOK, taskVars, runtimeVars, browserVars, dbVars, callerVars,
      historyVars
<1>1. ASSUME NEW s \in Shops, CallStart(c, s) PROVE TypeInv'
  BY <1>1, StartType DEF CallStart
<1>2. ASSUME NEW s \in Shops, CallStop(c, s) PROVE TypeInv'
  BY <1>2, StopType DEF CallStop, Free
<1>3. CASE CallStopAll(c)
  BY <1>3 DEF CallStopAll
<1> QED BY <1>1, <1>2, <1>3 DEF Call

LEMMA EnvironmentType ==
  ASSUME TypeInv, NEW s \in Shops, RestartTimerFires(s) \/ Environment(s)
  PROVE  TypeInv'
<1> USE RuntimeAssumption DEF TypeInv, TypeOK, RetriesInv, LoopTypeOK, RuntimeTypeOK, DbTypeOK,
      CallerTypeOK, HistoryTypeOK, taskVars, runtimeVars, browserVars, dbVars, callerVars,
      historyVars
<1>1. CASE RestartTimerFires(s)
  <2>1. timers' \in [Shops -> Nat]
    BY <1>1 DEF RestartTimerFires
  <2>2. CASE StartShop(s) /\ UNCHANGED <<called, loginStreak>>
    <3>1. called' \in [Shops -> {"nothing", "start", "stop", "cleanStop"}]
      BY <2>2
    <3>2. loginStreak' \in [Shops -> 0..MaxLoginFailures]
      BY <2>2
    <3> HIDE DEF TypeInv
    <3> QED BY <2>1, <2>2, <3>1, <3>2, StartType
  <2>3. CASE UNCHANGED <<taskVars, runningTasks, loginFailCount, stopReasons, up, browserVars,
                         dbVars, callerVars, historyVars>>
    BY <2>1, <2>3
  <2> QED BY <1>1, <2>2, <2>3 DEF RestartTimerFires
<1>2. CASE CloseBrowser(s)
  BY <1>2 DEF CloseBrowser
<1>3. CASE PageDies(s)
  BY <1>3 DEF PageDies
<1>4. CASE SetPolicy(s)
  BY <1>4 DEF SetPolicy
<1>5. CASE DeleteShop(s)
  BY <1>5 DEF DeleteShop
<1> QED BY <1>1, <1>2, <1>3, <1>4, <1>5 DEF Environment

LEMMA StutterType == TypeInv /\ UNCHANGED vars => TypeInv'
BY DEF TypeInv, TypeOK, RetriesInv, LoopTypeOK, RuntimeTypeOK, DbTypeOK, CallerTypeOK,
     HistoryTypeOK, vars, taskVars, runtimeVars, browserVars, dbVars, callerVars, historyVars

LEMMA LoopType == ASSUME TypeInv, NEW t \in Tasks, LoopStep(t) PROVE TypeInv'
BY SetupType, PollType, EndType DEF LoopStep

LEMMA TypeStep == TypeInv /\ [Next]_vars => TypeInv'
BY LoopType, CallType, CallerType, EnvironmentType, StutterType DEF Next

\* Every variable keeps its type; the count of crashes of a loop stays below one
\* more than its retries, the streak of failed logins within its limit.
THEOREM RuntimeTypeCorrect == Spec => []TypeOK
<1>1. TypeInv => TypeOK
  BY DEF TypeInv
<1> QED BY TypeInit, TypeStep, <1>1, PTL DEF Spec

-----------------------------------------------------------------------------
(* The steps of a loop *)

\* A loop has its place changed by itself alone, and takes a cancellation before
\* anything else.
Proceeds(t) ==
    /\ pc[t] \in LoopPlaces
    /\ pc'[t] \in (LoopPlaces \ {"created"}) \cup {"done"}
    /\ cancel'[t] # "requested"
    /\ cancel'[t] = "no" <=> cancel[t] = "no"
    /\ cancel'[t] = "lost" => cancel[t] = "lost" \/ called'[shopOf[t]] # "cleanStop"
    /\ UNCHANGED <<runningTasks, timers>>

LEMMA LoopFrame ==
  ASSUME TypeInv, NEW t \in Tasks, LoopStep(t)
  PROVE  /\ UNCHANGED <<nextTask, shopOf, shopTable, policy, callerVars, overlapped, up>>
         /\ \A s \in Shops : called'[s] = "cleanStop" => called[s] = "cleanStop"
         /\ \A u \in Tasks : u # t => pc'[u] = pc[u] /\ cancel'[u] = cancel[u]
         /\ shopOf[t] \in Shops
         /\ Proceeds(t) \/ OnTaskDone(t)
<1> USE DEF TypeInv, TypeOK, LoopTypeOK, taskVars, runtimeVars, browserVars, dbVars, callerVars,
      historyVars, At, Goto, Leave, Emit, GoOnline, GoOffline, Proceeds, LoopPlaces
<1>1. CASE Enter(t)
  BY <1>1, TaskShop DEF Enter
<1>2. CASE EngineReady(t)
  BY <1>2, TaskShop DEF EngineReady
<1>3. CASE Opened(t)
  BY <1>3, TaskShop DEF Opened
<1>4. CASE LoggedIn(t)
  BY <1>4, TaskShop DEF LoggedIn
<1>5. CASE AwaitManualLogin(t)
  BY <1>5, TaskShop DEF AwaitManualLogin
<1>6. CASE LoginFails(t)
  BY <1>6, TaskShop DEF LoginFails
<1>7. CASE Notified(t)
  BY <1>7, TaskShop DEF Notified
<1>8. CASE PollSucceeds(t)
  BY <1>8, TaskShop DEF PollSucceeds
<1>9. CASE BrowserGone(t)
  BY <1>9, TaskShop DEF BrowserGone
<1>10. CASE SessionExpired(t)
  BY <1>10, TaskShop DEF SessionExpired
<1>11. CASE AwaitManualRelogin(t)
  BY <1>11, TaskShop DEF AwaitManualRelogin
<1>12. CASE LoggedInAgain(t)
  BY <1>12, TaskShop DEF LoggedInAgain
<1>13. CASE LoopCrashes(t)
  BY <1>13, TaskShop DEF LoopCrashes, Crashes
<1>14. CASE Recovered(t)
  BY <1>14, TaskShop DEF Recovered
<1>15. CASE Closed(t)
  BY <1>15, TaskShop DEF Closed
<1>16. CASE TakeCancellation(t)
  BY <1>16, TaskShop DEF TakeCancellation, Live
<1>17. CASE OnTaskDone(t)
  BY <1>17, TaskShop DEF OnTaskDone
<1>18. CASE LosesCancellation(t)
  <2>1. /\ pc[t] \in LoopPlaces /\ cancel[t] = "requested" /\ shopOf[t] \in Shops
        /\ UNCHANGED <<nextTask, shopOf, runtimeVars, shopTable, policy, callerVars, overlapped>>
    BY <1>18, TaskShop DEF LosesCancellation
  <2>2. pc' = pc \/ \E place \in {"closing", "recovering"} : pc' = [pc EXCEPT ![t] = place]
    BY <1>18 DEF LosesCancellation, Crashes
  <2>3. cancel' = [cancel EXCEPT ![t] = "lost"]
    BY <1>18 DEF LosesCancellation
  <2>4. called' = [called EXCEPT ![shopOf[t]] = IF @ = "cleanStop" THEN "stop" ELSE @]
    BY <1>18 DEF LosesCancellation
  <2>5. /\ \A s \in Shops : called'[s] = "cleanStop" => called[s] = "cleanStop"
        /\ called'[shopOf[t]] # "cleanStop"
    BY <2>1, <2>4 DEF HistoryTypeOK
  <2>6. /\ \A u \in Tasks : u # t => pc'[u] = pc[u] /\ cancel'[u] = cancel[u]
        /\ cancel'[t] = "lost"
        /\ pc'[t] \in {"login", "notifying", "polling", "relogin", "closing", "recovering"}
    BY <1>18, <2>2, <2>3 DEF LosesCancellation
  <2> QED BY <2>1, <2>5, <2>6
<1> QED
  BY <1>1, <1>2, <1>3, <1>4, <1>5, <1>6, <1>7, <1>8, <1>9, <1>10, <1>11, <1>12, <1>13, <1>14, <1>15, <1>16, <1>17, <1>18
     DEF LoopStep, Setup, Poll

\* Steps that leave the loops alone but for a cancellation of one that is live.
Calm ==
    /\ UNCHANGED <<nextTask, shopOf, pc, runningTasks, timers, called>>
    /\ \A t \in Tasks : cancel'[t] = cancel[t] \/ (Live(t) /\ cancel'[t] = "requested")

LEMMA WaitFrame ==
  ASSUME TypeInv, NEW c \in Callers,
         \/ WaitOver(c) \/ ForceClose(c) \/ ForceClosed(c) \/ CloseContexts(c)
         \/ StopPlaywright(c) \/ WaitTimesOut(c) \/ CallStopAll(c)
  PROVE  Calm
<1> USE DEF TypeInv, TypeOK, LoopTypeOK, CallerTypeOK, taskVars, runtimeVars, historyVars, Calm
<1>1. CASE WaitOver(c) \/ ForceClose(c) \/ ForceClosed(c)
  BY <1>1 DEF WaitOver, ForceClose, ForceClosed, EndStop, Emit
<1>2. CASE CloseContexts(c) \/ StopPlaywright(c) \/ CallStopAll(c)
  BY <1>2 DEF CloseContexts, StopPlaywright, CallStopAll
<1>3. CASE WaitTimesOut(c)
  BY <1>3 DEF WaitTimesOut
<1> QED BY <1>1, <1>2, <1>3

LEMMA EnvironmentFrame == ASSUME TypeInv, NEW s \in Shops, Environment(s) PROVE Calm
BY DEF Environment, CloseBrowser, PageDies, SetPolicy, DeleteShop, taskVars, runtimeVars,
     historyVars, Calm

LEMMA StutterFrame == ASSUME UNCHANGED vars PROVE Calm
BY DEF vars, taskVars, runtimeVars, historyVars, Calm

-----------------------------------------------------------------------------
(* Which loops run on *)

\* No cancellation is asked for once a loop has ended.
EndedInv == \A t \in Tasks : pc[t] = "done" => cancel[t] # "requested"

\* The loops of a shop that was stopped cleanly end by a cancellation, so that
\* no restart is scheduled for them, and have lost none.
CleanEndInv ==
    \A s \in Shops : called[s] = "cleanStop" => \A t \in Tasks : shopOf[t] = s =>
        /\ pc[t] = "done" => cancel[t] = "delivered"
        /\ Live(t) => cancel[t] # "lost"

LoopsInv == RunningLoopsAreTracked /\ EndedInv /\ CleanStopSticks /\ CleanEndInv

LEMMA LoopsInit == Init => LoopsInv
BY DEF Init, LoopsInv, RunningLoopsAreTracked, EndedInv, CleanStopSticks, CleanEndInv, Live

LEMMA LoopsCalm == ASSUME TypeInv, LoopsInv, Calm PROVE LoopsInv'
<1> USE DEF LoopsInv, Calm, Live
<1>1. RunningLoopsAreTracked'
  BY DEF RunningLoopsAreTracked
<1>2. EndedInv'
  BY DEF EndedInv
<1>3. CleanStopSticks' /\ CleanEndInv'
  BY DEF CleanStopSticks, CleanEndInv
<1> QED BY <1>1, <1>2, <1>3

LEMMA LoopsLoop == ASSUME TypeInv, LoopsInv, NEW t \in Tasks, LoopStep(t) PROVE LoopsInv'
<1> USE LoopFrame DEF LoopsInv
<1> DEFINE s == shopOf[t]
<1>1. CASE Proceeds(t)
  <2> USE <1>1 DEF Proceeds, Live, LoopPlaces
  <2>1. RunningLoopsAreTracked'
    BY DEF RunningLoopsAreTracked
  <2>2. EndedInv'
    BY DEF EndedInv
  <2>3. CleanStopSticks'
    BY DEF CleanStopSticks
  <2>4. cancel'[t] \in {"no", "delivered", "lost"}
    BY LoopType DEF TypeInv, TypeOK, LoopTypeOK
  <2>5. ASSUME NEW r \in Shops, called'[r] = "cleanStop", NEW u \in Tasks, shopOf[u] = r
        PROVE  (pc'[u] = "done" => cancel'[u] = "delivered") /\ (Live(u)' => cancel'[u] # "lost")
    <3>0. called[r] = "cleanStop"
      BY <2>5
    <3>1. CASE u = t
      <4>1. cancel[t] \notin {"no", "lost"}
        BY <2>5, <3>0, <3>1 DEF CleanStopSticks, CleanEndInv
      <4>2. cancel'[t] \notin {"no", "lost"}
        BY <2>5, <3>1, <4>1
      <4> QED BY <2>4, <3>1, <4>2
    <3>2. CASE u # t
      BY <2>5, <3>0, <3>2 DEF CleanEndInv
    <3> QED BY <3>1, <3>2
  <2>6. CleanEndInv'
    BY <2>5 DEF CleanEndInv
  <2> QED BY <2>1, <2>2, <2>3, <2>6
<1>2. CASE OnTaskDone(t)
  <2>1. /\ pc[t] = "done" /\ pc'[t] = "gone" /\ cancel' = cancel /\ called' = called
        /\ runningTasks' = [runningTasks EXCEPT ![s] = IF @ = t THEN NoTask ELSE @]
    BY <1>2 DEF OnTaskDone, Goto, TypeInv, TypeOK, LoopTypeOK
  <2>2. timers' = timers \/ (cancel[t] # "delivered" /\ \A r \in Shops : r # s => timers'[r] = timers[r])
    BY <1>2 DEF OnTaskDone, TypeInv, TypeOK, RuntimeTypeOK
  <2>3. RunningLoopsAreTracked'
    <3> SUFFICES ASSUME NEW u \in Tasks, Live(u)', cancel'[u] = "no"
                 PROVE  runningTasks'[shopOf[u]] = u
      BY DEF RunningLoopsAreTracked
    <3>1. u # t
      BY <2>1 DEF Live
    <3>2. Live(u) /\ cancel[u] = "no"
      BY <2>1, <3>1 DEF Live
    <3>3. runningTasks[shopOf[u]] = u
      BY <3>2 DEF RunningLoopsAreTracked
    <3>4. shopOf[u] \in Shops
      BY <3>2, TaskShop DEF Live, TypeInv, TypeOK
    <3> QED BY <2>1, <3>1, <3>3, <3>4 DEF TypeInv, TypeOK, RuntimeTypeOK
  <2>4. EndedInv'
    BY <2>1 DEF EndedInv
  <2>5. CleanStopSticks'
    <3> SUFFICES ASSUME NEW r \in Shops, called[r] = "cleanStop"
                 PROVE  /\ timers'[r] = 0
                        /\ \A u \in Tasks : shopOf[u] = r /\ Live(u)' => cancel[u] # "no"
      BY <2>1 DEF CleanStopSticks
    <3>1. timers[r] = 0 /\ \A u \in Tasks : shopOf[u] = r /\ Live(u) => cancel[u] # "no"
      BY DEF CleanStopSticks
    <3>2. r = s => cancel[t] = "delivered"
      BY <2>1 DEF CleanEndInv
    <3>3. timers'[r] = 0
      BY <2>2, <3>1, <3>2
    <3>4. \A u \in Tasks : Live(u)' => Live(u)
      BY <2>1 DEF Live
    <3> QED BY <3>1, <3>3, <3>4
  <2>6. CleanEndInv'
    BY <2>1 DEF CleanEndInv, Live
  <2> QED BY <2>3, <2>4, <2>5, <2>6
<1> QED BY <1>1, <1>2

LEMMA LoopsStart ==
  ASSUME TypeInv, LoopsInv, NEW s \in Shops, StartShop(s),
         \A r \in Shops : timers'[r] = timers[r] \/ called[r] # "cleanStop",
         called'[s] # "cleanStop",
         \A r \in Shops : r # s => called'[r] = called[r]
  PROVE  LoopsInv'
<1> DEFINE n == nextTask
<1>1. /\ n \in Tasks /\ pc[n] = "none" /\ shopOf' = [shopOf EXCEPT ![n] = s]
      /\ pc' = [pc EXCEPT ![n] = "created"] /\ cancel' = cancel
      /\ runningTasks' = [runningTasks EXCEPT ![s] = n] /\ ~TrackedLive(s)
  BY DEF StartShop, Goto, Tasks, TypeInv, TypeOK, LoopTypeOK
<1>2. \A u \in Tasks : u # n => shopOf'[u] = shopOf[u] /\ pc'[u] = pc[u]
  BY <1>1 DEF TypeInv, TypeOK, LoopTypeOK
<1>3. shopOf'[n] = s /\ pc'[n] = "created" /\ runningTasks'[s] = n
  BY <1>1 DEF TypeInv, TypeOK, LoopTypeOK, RuntimeTypeOK
<1>4. RunningLoopsAreTracked'
  <2> SUFFICES ASSUME NEW u \in Tasks, Live(u)', cancel[u] = "no", u # n
               PROVE  runningTasks'[shopOf'[u]] = u
    BY <1>1, <1>3 DEF RunningLoopsAreTracked
  <2>1. Live(u) /\ runningTasks[shopOf[u]] = u
    BY <1>2 DEF Live, LoopsInv, RunningLoopsAreTracked
  <2>2. shopOf[u] # s
    BY <1>1, <2>1 DEF TrackedLive, Tasks, NoTask
  <2>3. shopOf[u] \in Shops
    BY <2>1, TaskShop DEF Live, TypeInv, TypeOK
  <2> QED BY <1>1, <1>2, <2>1, <2>2, <2>3 DEF TypeInv, TypeOK, RuntimeTypeOK
<1>5. EndedInv'
  BY <1>1, <1>2, <1>3 DEF LoopsInv, EndedInv
<1>6. CleanStopSticks' /\ CleanEndInv'
  <2> SUFFICES ASSUME NEW r \in Shops, called'[r] = "cleanStop"
               PROVE  /\ timers'[r] = 0
                      /\ \A u \in Tasks : shopOf'[u] = r =>
                           /\ Live(u)' => cancel[u] \notin {"no", "lost"}
                           /\ pc'[u] = "done" => cancel[u] = "delivered"
    BY <1>1 DEF CleanStopSticks, CleanEndInv
  <2>1. r # s /\ called[r] = "cleanStop"
    OBVIOUS
  <2>2. timers'[r] = 0
    BY <2>1 DEF LoopsInv, CleanStopSticks
  <2> QED BY <1>2, <1>3, <2>1, <2>2 DEF LoopsInv, CleanStopSticks, CleanEndInv, Live
<1> QED BY <1>4, <1>5, <1>6 DEF LoopsInv

LEMMA LoopsStop ==
  ASSUME TypeInv, LoopsInv, NEW c \in Callers, NEW s \in Shops, BeginStop(c, s)
  PROVE  LoopsInv'
<1> DEFINE t == runningTasks[s]
<1>1. /\ UNCHANGED <<nextTask, shopOf, pc, timers>>
      /\ runningTasks' = [runningTasks EXCEPT ![s] = NoTask]
  BY DEF BeginStop
<1>2. \A r \in Shops : r # s => called'[r] = called[r] /\ runningTasks'[r] = runningTasks[r]
  BY DEF BeginStop, TypeInv, TypeOK, RuntimeTypeOK, HistoryTypeOK
<1>3. called'[s] = "cleanStop" =>
        /\ TrackedLive(s) /\ timers[s] = 0 /\ ~CallbackDue(s)
        /\ \A u \in Tasks : shopOf[u] = s /\ Live(u) => cancel[u] # "lost"
  BY DEF BeginStop, TypeInv, TypeOK, HistoryTypeOK
<1>4. /\ \A u \in Tasks : cancel'[u] = cancel[u] \/ (Live(u) /\ cancel'[u] = "requested")
      /\ TrackedLive(s) => cancel'[t] = "requested"
  BY DEF BeginStop, TrackedLive, TypeInv, TypeOK, LoopTypeOK, RuntimeTypeOK
<1>5. RunningLoopsAreTracked'
  <2> SUFFICES ASSUME NEW u \in Tasks, Live(u), cancel'[u] = "no"
               PROVE  runningTasks'[shopOf[u]] = u
    BY <1>1 DEF RunningLoopsAreTracked, Live
  <2>1. runningTasks[shopOf[u]] = u /\ shopOf[u] \in Shops
    BY <1>4, TaskShop DEF LoopsInv, RunningLoopsAreTracked, Live, TypeInv, TypeOK
  <2>2. shopOf[u] # s
    BY <1>4, <2>1 DEF TrackedLive, Tasks, NoTask
  <2> QED BY <1>2, <2>1, <2>2
<1>6. EndedInv'
  BY <1>1, <1>4 DEF LoopsInv, EndedInv, Live
<1>7. ASSUME NEW r \in Shops, called'[r] = "cleanStop"
      PROVE  /\ timers'[r] = 0
             /\ \A u \in Tasks : shopOf[u] = r =>
                  /\ Live(u) => cancel'[u] \notin {"no", "lost"}
                  /\ pc[u] = "done" => cancel'[u] = "delivered"
  <2>1. CASE r # s
    BY <1>1, <1>2, <1>4, <1>7, <2>1 DEF LoopsInv, CleanStopSticks, CleanEndInv, Live
  <2>2. CASE r = s
    <3>1. TrackedLive(s) /\ timers[s] = 0 /\ ~CallbackDue(s) /\ cancel'[t] = "requested"
      BY <1>3, <1>4, <1>7, <2>2
    <3>2. ASSUME NEW u \in Tasks, shopOf[u] = s, Live(u) PROVE cancel'[u] \notin {"no", "lost"}
      BY <1>3, <1>4, <1>7, <2>2, <3>1, <3>2 DEF LoopsInv, RunningLoopsAreTracked
    <3> QED BY <1>1, <2>2, <3>1, <3>2 DEF CallbackDue
  <2> QED BY <2>1, <2>2
<1>8. CleanStopSticks' /\ CleanEndInv'
  BY <1>1, <1>7 DEF CleanStopSticks, CleanEndInv, Live
<1> QED BY <1>5, <1>6, <1>8 DEF LoopsInv

LEMMA LoopsExit ==
  ASSUME TypeInv, LoopsInv, NEW c \in Callers, ExitWorker(c)
  PROVE  LoopsInv'
<1>1. \A t \in Tasks : pc'[t] \in {"none", "gone"}
  BY DEF ExitWorker
<1>2. \A s \in Shops : timers'[s] = 0
  BY DEF ExitWorker
<1> QED BY <1>1, <1>2 DEF LoopsInv, RunningLoopsAreTracked, EndedInv, CleanStopSticks, CleanEndInv,
                         Live

LEMMA LoopsStep == TypeInv /\ LoopsInv /\ [Next]_vars => LoopsInv'
<1> SUFFICES ASSUME TypeInv, LoopsInv, [Next]_vars PROVE LoopsInv'
  OBVIOUS
<1>1. ASSUME NEW s \in Shops, RestartTimerFires(s) PROVE LoopsInv'
  <2>1. CASE StartShop(s) /\ UNCHANGED <<called, loginStreak>>
    <3>1. timers[s] > 0 /\ \A r \in Shops : r # s => timers'[r] = timers[r]
      BY <1>1 DEF RestartTimerFires, TypeInv, TypeOK, RuntimeTypeOK
    <3>2. called[s] # "cleanStop"
      BY <3>1 DEF LoopsInv, CleanStopSticks
    <3> QED BY <2>1, <3>1, <3>2, LoopsStart
  <2>2. CASE UNCHANGED <<taskVars, runningTasks, historyVars>>
    <3>1. \A r \in Shops : timers[r] = 0 => timers'[r] = 0
      BY <1>1 DEF RestartTimerFires, TypeInv, TypeOK, RuntimeTypeOK
    <3> QED BY <2>2, <3>1 DEF taskVars, historyVars, LoopsInv, RunningLoopsAreTracked, EndedInv,
                              CleanStopSticks, CleanEndInv, Live
  <2> QED BY <1>1, <2>1, <2>2 DEF RestartTimerFires
<1>2. ASSUME NEW c \in Callers, NEW s \in Shops, CallStart(c, s) PROVE LoopsInv'
  <2>1. called'[s] = "start" /\ \A r \in Shops : r # s => called'[r] = called[r]
    BY <1>2 DEF CallStart, TypeInv, TypeOK, HistoryTypeOK
  <2> QED BY <1>2, <2>1, LoopsStart DEF CallStart
<1>3. ASSUME NEW c \in Callers, NEW s \in Shops, CallStop(c, s) PROVE LoopsInv'
  BY <1>3, LoopsStop DEF CallStop
<1>4. ASSUME NEW c \in Callers, StopNext(c) PROVE LoopsInv'
  <2>1. PICK s \in callerTodo[c] : BeginStop(c, s)
    BY <1>4 DEF StopNext
  <2>2. s \in Shops
    BY DEF TypeInv, TypeOK, CallerTypeOK
  <2> QED BY <2>1, <2>2, LoopsStop
<1>5. ASSUME NEW c \in Callers, CallStopAll(c) \/ CallerStep(c) \/ WaitTimesOut(c) PROVE LoopsInv'
  BY <1>4, <1>5, WaitFrame, LoopsCalm, LoopsExit DEF CallerStep
<1>6. CASE UNCHANGED vars
  BY <1>6, StutterFrame, LoopsCalm
<1> QED BY <1>1, <1>2, <1>3, <1>5, <1>6, LoopsLoop, EnvironmentFrame, LoopsCalm DEF Next, Call

\* The invariant behind LoopsTracked and CleanStops: which loops run on, how
\* they end, and what a clean stop leaves behind.
THEOREM LoopsCorrect == Spec => []LoopsInv
BY TypeInit, TypeStep, LoopsInit, LoopsStep, PTL DEF Spec

\* Every loop that runs on is the one _running_tasks has for its shop.
THEOREM LoopsTracked == Spec => []RunningLoopsAreTracked
BY LoopsCorrect, PTL DEF LoopsInv

\* A clean stop is final: no loop of the shop runs on, and none is scheduled.
\* (A stop whose cancellation is lost is none, see LosesCancellation.)
THEOREM CleanStops == Spec => []CleanStopSticks
BY LoopsCorrect, PTL DEF LoopsInv

-----------------------------------------------------------------------------
(* Registered contexts and the loops that will take them out *)

\* Where a loop has the browser of its shop in its care.
Cares(t) == pc[t] \in LoopPlaces \ {"created", "closing"}

\* A loop opens and closes the browser of its own shop only, and when it no
\* longer cares for one, or has not begun to, there is none of its making.
LEMMA LoopBrowser ==
  ASSUME TypeInv, NEW t \in Tasks, LoopStep(t)
  PROVE  /\ \A s \in Shops : s # shopOf[t] => contexts'[s] = contexts[s]
         /\ \/ contexts'[shopOf[t]] = "none"
            \/ Cares(t)'
            \/ ~Cares(t) /\ contexts' = contexts
<1> USE DEF TypeInv, TypeOK, LoopTypeOK, RuntimeTypeOK, taskVars, runtimeVars, browserVars, dbVars,
      callerVars, historyVars, At, Goto, Leave, Emit, GoOnline, GoOffline, Cares, LoopPlaces
<1>1. CASE Enter(t)
  BY <1>1, TaskShop DEF Enter
<1>2. CASE EngineReady(t)
  BY <1>2, TaskShop DEF EngineReady
<1>3. CASE Opened(t)
  BY <1>3, TaskShop DEF Opened
<1>4. CASE LoggedIn(t)
  BY <1>4, TaskShop DEF LoggedIn
<1>5. CASE AwaitManualLogin(t)
  BY <1>5, TaskShop DEF AwaitManualLogin
<1>6. CASE LoginFails(t)
  BY <1>6, TaskShop DEF LoginFails
<1>7. CASE Notified(t)
  BY <1>7, TaskShop DEF Notified
<1>8. CASE PollSucceeds(t)
  BY <1>8, TaskShop DEF PollSucceeds
<1>9. CASE BrowserGone(t)
  BY <1>9, TaskShop DEF BrowserGone
<1>10. CASE SessionExpired(t)
  BY <1>10, TaskShop DEF SessionExpired
<1>11. CASE AwaitManualRelogin(t)
  BY <1>11, TaskShop DEF AwaitManualRelogin
<1>12. CASE LoggedInAgain(t)
  BY <1>12, TaskShop DEF LoggedInAgain
<1>13. CASE LoopCrashes(t)
  BY <1>13, TaskShop DEF LoopCrashes, Crashes
<1>14. CASE Recovered(t)
  BY <1>14, TaskShop DEF Recovered
<1>15. CASE Closed(t)
  BY <1>15, TaskShop DEF Closed
<1>16. CASE TakeCancellation(t)
  BY <1>16, TaskShop DEF TakeCancellation, Live
<1>17. CASE OnTaskDone(t)
  BY <1>17, TaskShop DEF OnTaskDone
<1>18. CASE LosesCancellation(t)
  BY <1>18, TaskShop DEF LosesCancellation, Crashes
<1> QED
  BY <1>1, <1>2, <1>3, <1>4, <1>5, <1>6, <1>7, <1>8, <1>9, <1>10, <1>11, <1>12, <1>13, <1>14, <1>15, <1>16, <1>17, <1>18
     DEF LoopStep, Setup, Poll

LEMMA BrowserInit == Init => RegisteredContextHasLoop
BY DEF Init, RegisteredContextHasLoop

LEMMA BrowserLoop ==
  ASSUME TypeInv, RegisteredContextHasLoop, NEW t \in Tasks, LoopStep(t)
  PROVE  RegisteredContextHasLoop'
<1> SUFFICES ASSUME NEW s \in Shops, contexts'[s] # "none"
             PROVE  \E u \in Tasks : shopOf[u] = s /\ Cares(u)'
  BY LoopFrame DEF RegisteredContextHasLoop, Cares, Live, LoopPlaces
<1>1. CASE s = shopOf[t] /\ Cares(t)'
  BY <1>1
<1>2. CASE ~(s = shopOf[t] /\ Cares(t)')
  <2>1. contexts'[s] = contexts[s] /\ (s = shopOf[t] => ~Cares(t))
    BY <1>2, LoopBrowser
  <2>2. PICK u \in Tasks : shopOf[u] = s /\ Cares(u)
    BY <2>1 DEF RegisteredContextHasLoop, Live, Cares, LoopPlaces, TypeInv, TypeOK, LoopTypeOK
  <2>3. u # t
    BY <2>1, <2>2
  <2> QED BY <2>2, <2>3, LoopFrame DEF Cares
<1> QED BY <1>1, <1>2

\* Steps of others leave a caring loop to its place, and open no browser.
LEMMA BrowserOther ==
  ASSUME TypeInv, RegisteredContextHasLoop,
         \A s \in Shops : contexts'[s] # "none" => contexts[s] # "none",
         \A t \in Tasks : pc[t] # "none" => shopOf'[t] = shopOf[t] /\ pc'[t] = pc[t]
  PROVE  RegisteredContextHasLoop'
<1> SUFFICES ASSUME NEW s \in Shops, contexts'[s] # "none"
             PROVE  \E t \in Tasks : shopOf'[t] = s /\ Live(t)' /\ pc'[t] \notin {"created", "closing"}
  BY DEF RegisteredContextHasLoop
<1>1. PICK t \in Tasks : shopOf[t] = s /\ Live(t) /\ pc[t] \notin {"created", "closing"}
  BY DEF RegisteredContextHasLoop
<1> QED BY <1>1 DEF Live

LEMMA StartFrame ==
  ASSUME TypeInv, NEW s \in Shops, StartShop(s)
  PROVE  /\ \A t \in Tasks : pc[t] # "none" => shopOf'[t] = shopOf[t] /\ pc'[t] = pc[t]
         /\ \A t \in Tasks : pc[t] # "none" => cancel'[t] = cancel[t]
         /\ UNCHANGED <<browserVars, dbVars, lastEvent>>
BY DEF StartShop, Goto, TypeInv, TypeOK, LoopTypeOK, Tasks

LEMMA StopFrame ==
  ASSUME TypeInv, NEW c \in Callers, NEW s \in Shops, BeginStop(c, s)
  PROVE  /\ UNCHANGED <<shopOf, pc, dbVars, lastEvent>>
         /\ \A t \in Tasks : cancel'[t] = cancel[t] \/ (Live(t) /\ cancel'[t] = "requested")
         /\ \A r \in Shops : contexts'[r] # "none" => contexts[r] # "none"
BY DEF BeginStop, TypeInv, TypeOK, LoopTypeOK, RuntimeTypeOK

LEMMA BrowserStep == TypeInv /\ RegisteredContextHasLoop /\ [Next]_vars => RegisteredContextHasLoop'
<1> SUFFICES ASSUME TypeInv, RegisteredContextHasLoop, [Next]_vars PROVE RegisteredContextHasLoop'
  OBVIOUS
<1>1. ASSUME NEW s \in Shops, RestartTimerFires(s) PROVE RegisteredContextHasLoop'
  BY <1>1, StartFrame, BrowserOther DEF RestartTimerFires, browserVars, taskVars
<1>2. ASSUME NEW c \in Callers, Call(c) PROVE RegisteredContextHasLoop'
  BY <1>2, StartFrame, StopFrame, BrowserOther
     DEF Call, CallStart, CallStop, CallStopAll, browserVars, taskVars
<1>3. ASSUME NEW c \in Callers, StopNext(c) PROVE RegisteredContextHasLoop'
  <2>1. PICK s \in callerTodo[c] : BeginStop(c, s)
    BY <1>3 DEF StopNext
  <2>2. s \in Shops
    BY DEF TypeInv, TypeOK, CallerTypeOK
  <2> QED BY <2>1, <2>2, StopFrame, BrowserOther
<1>4. ASSUME NEW c \in Callers, ExitWorker(c) PROVE RegisteredContextHasLoop'
  BY <1>4 DEF ExitWorker, RegisteredContextHasLoop
<1>5. ASSUME NEW c \in Callers,
             \/ WaitOver(c) \/ ForceClose(c) \/ ForceClosed(c) \/ CloseContexts(c)
             \/ StopPlaywright(c) \/ WaitTimesOut(c)
      PROVE  RegisteredContextHasLoop'
  <2>1. UNCHANGED <<shopOf, pc>>
    BY <1>5, WaitFrame
       DEF WaitOver, ForceClose, ForceClosed, CloseContexts, StopPlaywright, WaitTimesOut, taskVars
  <2>2. \A s \in Shops : contexts'[s] # "none" => contexts[s] # "none"
    BY <1>5 DEF WaitOver, ForceClose, ForceClosed, CloseContexts, StopPlaywright, WaitTimesOut,
                EndStop, browserVars, TypeInv, TypeOK, RuntimeTypeOK
  <2> QED BY <2>1, <2>2, BrowserOther
<1>6. ASSUME NEW s \in Shops, Environment(s) PROVE RegisteredContextHasLoop'
  <2>1. UNCHANGED <<shopOf, pc>>
    BY <1>6 DEF Environment, CloseBrowser, PageDies, SetPolicy, DeleteShop, taskVars
  <2>2. \A r \in Shops : contexts'[r] # "none" => contexts[r] # "none"
    BY <1>6 DEF Environment, CloseBrowser, PageDies, SetPolicy, DeleteShop, browserVars,
                TypeInv, TypeOK, RuntimeTypeOK
  <2> QED BY <2>1, <2>2, BrowserOther
<1>7. CASE UNCHANGED vars
  BY <1>7, BrowserOther DEF vars, taskVars, browserVars
<1> QED
  BY <1>1, <1>2, <1>3, <1>4, <1>5, <1>6, <1>7, BrowserLoop DEF Next, CallerStep

\* No browser context stays registered without a loop of its shop that will take
\* it out of the registry.  (That its Chrome ends is not said: a close may fail.)
THEOREM ContextsHaveLoops == Spec => []RegisteredContextHasLoop
BY TypeInit, TypeStep, BrowserInit, BrowserStep, PTL DEF Spec

-----------------------------------------------------------------------------
(* The online flag and the events *)

\* A loop whose last word may have been ShopOnline: it polls, or it was cancelled
\* before it could say otherwise, and its done callback will.
Announced(t) ==
    \/ pc[t] \in {"polling", "relogin", "remanual"}
    \/ pc[t] \in {"closing", "done"} /\ cancel[t] \notin {"no", "lost"}

AnnouncedInv ==
    \A s \in Shops : lastEvent[s] = "online" => \E t \in Tasks : shopOf[t] = s /\ Announced(t)

Present(t) == pc[t] \notin {"none", "gone"}

PresentInv == \A s \in online : \E t \in Tasks : shopOf[t] = s /\ Present(t)

OnlineInv == AnnouncedInv /\ PresentInv

\* What a loop leaves behind in the events and in the row of its shop.
LEMMA LoopOnline ==
  ASSUME TypeInv, EndedInv, NEW t \in Tasks, LoopStep(t)
  PROVE  /\ \A s \in Shops : s # shopOf[t] =>
              lastEvent'[s] = lastEvent[s] /\ (s \in online' => s \in online)
         /\ \/ lastEvent'[shopOf[t]] # "online"
            \/ Announced(t)'
            \/ ~Announced(t) /\ lastEvent' = lastEvent
         /\ shopOf[t] \in online' => Present(t)'
         /\ online' \subseteq Shops
<1> USE DEF TypeInv, TypeOK, LoopTypeOK, DbTypeOK, HistoryTypeOK, EndedInv, taskVars, runtimeVars,
      browserVars, dbVars, callerVars, historyVars, At, Goto, Leave, Emit, GoOnline, GoOffline,
      Announced, Present
<1>1. CASE Enter(t)
  BY <1>1, TaskShop DEF Enter
<1>2. CASE EngineReady(t)
  BY <1>2, TaskShop DEF EngineReady
<1>3. CASE Opened(t)
  BY <1>3, TaskShop DEF Opened
<1>4. CASE LoggedIn(t)
  BY <1>4, TaskShop DEF LoggedIn
<1>5. CASE AwaitManualLogin(t)
  BY <1>5, TaskShop DEF AwaitManualLogin
<1>6. CASE LoginFails(t)
  BY <1>6, TaskShop DEF LoginFails
<1>7. CASE Notified(t)
  BY <1>7, TaskShop DEF Notified
<1>8. CASE PollSucceeds(t)
  BY <1>8, TaskShop DEF PollSucceeds
<1>9. CASE BrowserGone(t)
  BY <1>9, TaskShop DEF BrowserGone
<1>10. CASE SessionExpired(t)
  BY <1>10, TaskShop DEF SessionExpired
<1>11. CASE AwaitManualRelogin(t)
  BY <1>11, TaskShop DEF AwaitManualRelogin
<1>12. CASE LoggedInAgain(t)
  BY <1>12, TaskShop DEF LoggedInAgain
<1>13. CASE LoopCrashes(t)
  BY <1>13, TaskShop DEF LoopCrashes, Crashes
<1>14. CASE Recovered(t)
  BY <1>14, TaskShop DEF Recovered
<1>15. CASE Closed(t)
  BY <1>15, TaskShop DEF Closed
<1>16. CASE TakeCancellation(t)
  BY <1>16, TaskShop DEF TakeCancellation, Live
<1>17. CASE OnTaskDone(t)
  <2>1. /\ shopOf[t] \in Shops /\ pc[t] = "done"
        /\ online' = online \ {shopOf[t]}
        /\ \/ lastEvent' = [lastEvent EXCEPT ![shopOf[t]] = "offline"]
           \/ cancel[t] # "delivered" /\ lastEvent' = lastEvent
    BY <1>17, TaskShop DEF OnTaskDone
  <2> QED BY <1>17, <2>1
<1>18. CASE LosesCancellation(t)
  BY <1>18, TaskShop DEF LosesCancellation, Crashes
<1> QED
  BY <1>1, <1>2, <1>3, <1>4, <1>5, <1>6, <1>7, <1>8, <1>9, <1>10, <1>11, <1>12, <1>13, <1>14, <1>15, <1>16, <1>17, <1>18
     DEF LoopStep, Setup, Poll

LEMMA OnlineInit == Init => OnlineInv
BY DEF Init, OnlineInv, AnnouncedInv, PresentInv

LEMMA OnlineLoop ==
  ASSUME TypeInv, EndedInv, OnlineInv, NEW t \in Tasks, LoopStep(t)
  PROVE  OnlineInv'
<1>1. ASSUME NEW s \in Shops, lastEvent'[s] = "online"
      PROVE  \E u \in Tasks : shopOf[u] = s /\ Announced(u)'
  <2>1. CASE s = shopOf[t] /\ Announced(t)'
    BY <2>1
  <2>2. CASE ~(s = shopOf[t] /\ Announced(t)')
    <3>1. lastEvent[s] = "online" /\ (s = shopOf[t] => ~Announced(t))
      BY <1>1, <2>2, LoopOnline
    <3>2. PICK u \in Tasks : shopOf[u] = s /\ Announced(u)
      BY <3>1 DEF OnlineInv, AnnouncedInv
    <3>3. u # t
      BY <3>1, <3>2
    <3> QED BY <3>2, <3>3, LoopFrame DEF Announced
  <2> QED BY <2>1, <2>2
<1>2. ASSUME NEW s \in online'
      PROVE  \E u \in Tasks : shopOf[u] = s /\ Present(u)'
  <2>1. CASE s = shopOf[t]
    BY <1>2, <2>1, LoopOnline
  <2>2. CASE s # shopOf[t]
    <3>1. s \in online
      BY <1>2, <2>2, LoopOnline
    <3>2. PICK u \in Tasks : shopOf[u] = s /\ Present(u)
      BY <3>1 DEF OnlineInv, PresentInv
    <3> QED BY <2>2, <3>2, LoopFrame DEF Present
  <2> QED BY <2>1, <2>2
<1> QED BY <1>1, <1>2, LoopFrame DEF OnlineInv, AnnouncedInv, PresentInv

\* Steps of others leave the loops where they are and announce no shop.
LEMMA OnlineOther ==
  ASSUME TypeInv, OnlineInv, online' \subseteq online,
         \A s \in Shops : lastEvent'[s] = "online" => lastEvent[s] = "online",
         \A t \in Tasks : pc[t] # "none" =>
            /\ shopOf'[t] = shopOf[t] /\ pc'[t] = pc[t]
            /\ cancel'[t] = cancel[t] \/ cancel'[t] = "requested"
  PROVE  OnlineInv'
<1>1. ASSUME NEW t \in Tasks, Announced(t) PROVE Announced(t)' /\ shopOf'[t] = shopOf[t]
  BY <1>1 DEF Announced
<1>2. ASSUME NEW t \in Tasks, Present(t) PROVE Present(t)' /\ shopOf'[t] = shopOf[t]
  BY <1>2 DEF Present
<1>3. AnnouncedInv'
  BY <1>1 DEF OnlineInv, AnnouncedInv
<1>4. PresentInv'
  BY <1>2 DEF OnlineInv, PresentInv
<1> QED BY <1>3, <1>4 DEF OnlineInv

LEMMA OnlineExit ==
  ASSUME TypeInv, OnlineInv, NEW c \in Callers, ExitWorker(c)
  PROVE  OnlineInv'
<1> DEFINE due == {s \in Shops : CallbackDue(s)}
           left == {shopOf[t] : t \in {u \in Tasks : Live(u)}}
<1>1. \A t \in Tasks : Present(t) => shopOf[t] \in left \cup due
  BY TaskShop DEF Present, Live, CallbackDue, TypeInv, TypeOK
<1>2. \A t \in Tasks : Announced(t) => Present(t)
  BY DEF Announced, Present
<1>3. ASSUME NEW s \in Shops PROVE lastEvent'[s] # "online"
  <2>1. lastEvent'[s] = IF s \in left \cup due THEN "offline" ELSE lastEvent[s]
    BY DEF ExitWorker
  <2> QED BY <1>1, <1>2, <2>1 DEF OnlineInv, AnnouncedInv
<1>4. online' = online \ (left \cup due)
  BY DEF ExitWorker
<1>5. online' = {}
  BY <1>1, <1>4 DEF OnlineInv, PresentInv
<1> QED BY <1>3, <1>5 DEF OnlineInv, AnnouncedInv, PresentInv

LEMMA OnlineStep == TypeInv /\ LoopsInv /\ OnlineInv /\ [Next]_vars => OnlineInv'
<1> SUFFICES ASSUME TypeInv, LoopsInv, OnlineInv, [Next]_vars PROVE OnlineInv'
  OBVIOUS
<1>1. ASSUME NEW s \in Shops, RestartTimerFires(s) PROVE OnlineInv'
  BY <1>1, StartFrame, OnlineOther DEF RestartTimerFires, dbVars, taskVars, historyVars
<1>2. ASSUME NEW c \in Callers, Call(c) PROVE OnlineInv'
  BY <1>2, StartFrame, StopFrame, OnlineOther
     DEF Call, CallStart, CallStop, CallStopAll, dbVars, taskVars, historyVars
<1>3. ASSUME NEW c \in Callers, StopNext(c) PROVE OnlineInv'
  <2>1. PICK s \in callerTodo[c] : BeginStop(c, s)
    BY <1>3 DEF StopNext
  <2>2. s \in Shops
    BY DEF TypeInv, TypeOK, CallerTypeOK
  <2> QED BY <2>1, <2>2, StopFrame, OnlineOther DEF dbVars
<1>5. ASSUME NEW c \in Callers,
             \/ WaitOver(c) \/ ForceClose(c) \/ ForceClosed(c) \/ CloseContexts(c)
             \/ StopPlaywright(c) \/ WaitTimesOut(c)
      PROVE  OnlineInv'
  <2>1. online' \subseteq online
    BY <1>5 DEF WaitOver, ForceClose, ForceClosed, CloseContexts, StopPlaywright, WaitTimesOut,
                EndStop, dbVars
  <2>2. \A s \in Shops : lastEvent'[s] = "online" => lastEvent[s] = "online"
    BY <1>5 DEF WaitOver, ForceClose, ForceClosed, CloseContexts, StopPlaywright, WaitTimesOut,
                EndStop, Emit, historyVars, TypeInv, TypeOK, HistoryTypeOK
  <2>3. UNCHANGED <<shopOf, pc>> /\ \A t \in Tasks : cancel'[t] \in {cancel[t], "requested"}
    BY <1>5, WaitFrame
       DEF WaitOver, ForceClose, ForceClosed, CloseContexts, StopPlaywright, WaitTimesOut,
           taskVars, Calm
  <2> QED BY <2>1, <2>2, <2>3, OnlineOther
<1>6. ASSUME NEW s \in Shops, Environment(s) PROVE OnlineInv'
  BY <1>6, OnlineOther
     DEF Environment, CloseBrowser, PageDies, SetPolicy, DeleteShop, taskVars, dbVars, historyVars
<1>7. CASE UNCHANGED vars
  BY <1>7, OnlineOther DEF vars, taskVars, dbVars, historyVars
<1> QED
  BY <1>1, <1>2, <1>3, OnlineExit, <1>5, <1>6, <1>7, OnlineLoop DEF Next, CallerStep, LoopsInv

\* The runtime leaves no shop online, in its row or by its last event, without a
\* loop or a done callback that is due.  (Other writers of is_online are those of
\* ShopConsole.)
THEOREM OnlineShopsHaveLoops == Spec => []OnlineShopHasLoop
<1>1. TypeInv /\ OnlineInv => OnlineShopHasLoop
  BY DEF OnlineInv, AnnouncedInv, PresentInv, Announced, Present, OnlineShopHasLoop, TypeInv,
         TypeOK, DbTypeOK
<1> QED
  BY TypeInit, TypeStep, LoopsInit, LoopsStep, OnlineInit, OnlineStep, <1>1, PTL DEF Spec

-----------------------------------------------------------------------------
(* A loop that polls is online *)

\* What the row and the events say of the shop of a loop that has logged in.
Shown(t) ==
    LET s == shopOf[t]
    IN  /\ pc[t] \in {"polling", "relogin", "remanual"} /\ s \in shopTable => s \in online
        /\ pc[t] = "polling" /\ s \in shopTable =>
             s \in cookieValid /\ lastEvent[s] = "online"

\* One loop at a time: for a shop that was never started too early, one loop at
\* most is live, it is the one that is tracked and waited for, and once it has
\* run no done callback of an earlier one is due.
Orderly(s) ==
    /\ \A t, u \in Tasks : shopOf[t] = s /\ shopOf[u] = s /\ Live(t) /\ Live(u) => t = u
    /\ \A t \in Tasks : shopOf[t] = s /\ Live(t) =>
         /\ runningTasks[s] \in {t, NoTask}
         /\ pc[t] = "created" \/ ~CallbackDue(s)
         /\ \A c \in Callers : callerShop[c] = s => callerTask[c] = t
    /\ \A t \in Tasks : shopOf[t] = s /\ up => Shown(t)

ForceInv == \A c \in Callers : callerPc[c] = "forceClosing" =>
    callerTask[c] \in Tasks /\ pc[callerTask[c]] = "gone"

OrderInv == ForceInv /\ \A s \in Shops \ overlapped : Orderly(s)

LEMMA OrderInit == Init => OrderInv
BY DEF Init, OrderInv, ForceInv, Orderly, Shown, Live

\* A loop writes the row of its own shop, and shows it online while it polls.
LEMMA LoopShown ==
  ASSUME TypeInv, NEW t \in Tasks, LoopStep(t)
  PROVE  /\ \A s \in Shops : s # shopOf[t] =>
              /\ lastEvent'[s] = lastEvent[s]
              /\ s \in online' <=> s \in online
              /\ s \in cookieValid' <=> s \in cookieValid
         /\ Shown(t) => Shown(t)'
<1> USE DEF TypeInv, TypeOK, LoopTypeOK, DbTypeOK, HistoryTypeOK, taskVars, runtimeVars,
      browserVars, dbVars, callerVars, historyVars, At, Goto, Leave, Emit, GoOnline, GoOffline,
      Shown
<1>1. CASE Enter(t)
  BY <1>1, TaskShop DEF Enter
<1>2. CASE EngineReady(t)
  BY <1>2, TaskShop DEF EngineReady
<1>3. CASE Opened(t)
  BY <1>3, TaskShop DEF Opened
<1>4. CASE LoggedIn(t)
  BY <1>4, TaskShop DEF LoggedIn
<1>5. CASE AwaitManualLogin(t)
  BY <1>5, TaskShop DEF AwaitManualLogin
<1>6. CASE LoginFails(t)
  BY <1>6, TaskShop DEF LoginFails
<1>7. CASE Notified(t)
  BY <1>7, TaskShop DEF Notified
<1>8. CASE PollSucceeds(t)
  BY <1>8, TaskShop DEF PollSucceeds
<1>9. CASE BrowserGone(t)
  BY <1>9, TaskShop DEF BrowserGone
<1>10. CASE SessionExpired(t)
  BY <1>10, TaskShop DEF SessionExpired
<1>11. CASE AwaitManualRelogin(t)
  BY <1>11, TaskShop DEF AwaitManualRelogin
<1>12. CASE LoggedInAgain(t)
  BY <1>12, TaskShop DEF LoggedInAgain
<1>13. CASE LoopCrashes(t)
  BY <1>13, TaskShop DEF LoopCrashes, Crashes
<1>14. CASE Recovered(t)
  BY <1>14, TaskShop DEF Recovered
<1>15. CASE Closed(t)
  BY <1>15, TaskShop DEF Closed
<1>16. CASE TakeCancellation(t)
  BY <1>16, TaskShop DEF TakeCancellation, Live
<1>17. CASE OnTaskDone(t)
  BY <1>17, TaskShop DEF OnTaskDone
<1>18. CASE LosesCancellation(t)
  BY <1>18, TaskShop DEF LosesCancellation, Crashes
<1> QED
  BY <1>1, <1>2, <1>3, <1>4, <1>5, <1>6, <1>7, <1>8, <1>9, <1>10, <1>11, <1>12, <1>13, <1>14, <1>15, <1>16, <1>17, <1>18
     DEF LoopStep, Setup, Poll

LEMMA LoopBegins ==
  ASSUME TypeInv, NEW t \in Tasks, LoopStep(t)
  PROVE  /\ pc[t] = "created" => ~CallbackDue(shopOf[t])
         /\ pc[t] # "gone"
         /\ up
         /\ \A s \in Shops : s # shopOf[t] => runningTasks'[s] = runningTasks[s]
         /\ runningTasks'[shopOf[t]] \in {runningTasks[shopOf[t]], NoTask}
<1>1. pc[t] = "created" => ~CallbackDue(shopOf[t])
  BY DEF LoopStep, Setup, Poll, Enter, EngineReady, Opened, LoggedIn, AwaitManualLogin, LoginFails,
         Notified, PollSucceeds, BrowserGone, SessionExpired, AwaitManualRelogin, LoggedInAgain,
         LoopCrashes, Recovered, Closed, TakeCancellation, LosesCancellation, OnTaskDone, At
<1>2. pc[t] # "gone" /\ up
  BY DEF LoopStep, Setup, Poll, Enter, EngineReady, Opened, LoggedIn, AwaitManualLogin, LoginFails,
         Notified, PollSucceeds, BrowserGone, SessionExpired, AwaitManualRelogin, LoggedInAgain,
         LoopCrashes, Recovered, Closed, TakeCancellation, LosesCancellation, OnTaskDone, At, Live
<1>3. CASE Proceeds(t)
  BY <1>1, <1>2, <1>3 DEF Proceeds
<1>4. CASE OnTaskDone(t)
  BY <1>1, <1>2, <1>4, LoopFrame DEF OnTaskDone, TypeInv, TypeOK, RuntimeTypeOK
<1> QED BY <1>3, <1>4, LoopFrame

LEMMA OrderLoop == ASSUME TypeInv, OrderInv, NEW t \in Tasks, LoopStep(t) PROVE OrderInv'
<1>1. ForceInv'
  BY LoopFrame, LoopBegins DEF OrderInv, ForceInv, callerVars
<1> SUFFICES ASSUME NEW s \in Shops, s \notin overlapped PROVE Orderly(s)'
  BY <1>1, LoopFrame DEF OrderInv
<1>2. Orderly(s)
  BY DEF OrderInv
<1>3. \A u \in Tasks : Live(u)' => Live(u)
  BY LoopFrame DEF Live, Proceeds, OnTaskDone, Goto, LoopPlaces, TypeInv, TypeOK, LoopTypeOK
<1>4. \A u, v \in Tasks :
        shopOf'[u] = s /\ shopOf'[v] = s /\ Live(u)' /\ Live(v)' => u = v
  BY <1>2, <1>3, LoopFrame DEF Orderly
<1>5. ASSUME NEW u \in Tasks, shopOf[u] = s, Live(u)'
      PROVE  /\ runningTasks'[s] \in {u, NoTask}
             /\ pc'[u] = "created" \/ ~CallbackDue(s)'
             /\ \A c \in Callers : callerShop'[c] = s => callerTask'[c] = u
  <2>1. Live(u) /\ runningTasks[s] \in {u, NoTask} /\ (pc[u] = "created" \/ ~CallbackDue(s))
    BY <1>2, <1>3, <1>5 DEF Orderly
  <2>2. runningTasks'[s] \in {u, NoTask}
    BY <2>1, LoopBegins
  <2>3. \A c \in Callers : callerShop'[c] = s => callerTask'[c] = u
    BY <1>2, <1>5, <2>1, LoopFrame DEF Orderly, callerVars
  <2>4. pc'[u] = "created" \/ ~CallbackDue(s)'
    <3>1. CASE u = t
      <4>1. ~CallbackDue(s)
        BY <1>5, <2>1, <3>1, LoopBegins
      <4> QED BY <1>5, <3>1, <4>1, LoopFrame DEF CallbackDue, Live
    <3>2. CASE u # t
      <4>1. pc'[u] = pc[u]
        BY <3>2, LoopFrame
      <4>2. shopOf[t] = s => pc[t] = "done"
        BY <1>2, <1>5, <2>1, <3>2, LoopFrame DEF Orderly, Proceeds, OnTaskDone, Live, LoopPlaces
      <4>3. CallbackDue(s)' => CallbackDue(s)
        BY <4>2, LoopFrame DEF CallbackDue
      <4> QED BY <2>1, <4>1, <4>3
    <3> QED BY <3>1, <3>2
  <2> QED BY <2>2, <2>3, <2>4
<1>6. ASSUME NEW u \in Tasks, shopOf[u] = s PROVE Shown(u)'
  <2>1. up /\ Shown(u)
    BY <1>2, <1>6, LoopBegins DEF Orderly
  <2>2. CASE u = t
    BY <2>1, <2>2, LoopShown
  <2>3. CASE u # t /\ shopOf[t] = s
    <3>1. pc[u] \notin {"polling", "relogin", "remanual"}
      <4>1. CASE Proceeds(t)
        BY <1>2, <1>6, <2>3, <4>1 DEF Orderly, Proceeds, Live, LoopPlaces
      <4>2. CASE OnTaskDone(t)
        BY <1>2, <1>6, <2>3, <4>2 DEF Orderly, OnTaskDone, CallbackDue, Live
      <4> QED BY <4>1, <4>2, LoopFrame
    <3> QED BY <2>3, <3>1, LoopFrame DEF Shown
  <2>4. CASE u # t /\ shopOf[t] # s
    <3>1. pc'[u] = pc[u] /\ shopOf' = shopOf /\ shopTable' = shopTable
      BY <2>4, LoopFrame
    <3> QED BY <1>6, <2>1, <2>4, <3>1, LoopShown DEF Shown
  <2> QED BY <2>2, <2>3, <2>4
<1> QED BY <1>4, <1>5, <1>6, LoopFrame DEF Orderly

LEMMA OrderStart == ASSUME TypeInv, OrderInv, NEW s \in Shops, StartShop(s) PROVE OrderInv'
<1> DEFINE n == nextTask
<1>1. /\ n \in Tasks /\ pc[n] = "none" /\ shopOf' = [shopOf EXCEPT ![n] = s]
      /\ pc' = [pc EXCEPT ![n] = "created"]
      /\ runningTasks' = [runningTasks EXCEPT ![s] = n]
      /\ UNCHANGED <<up, dbVars, callerVars, lastEvent>>
  BY DEF StartShop, Goto, Tasks, TypeInv, TypeOK, LoopTypeOK
<1>2. /\ overlapped \subseteq overlapped'
      /\ s \notin overlapped' => ~Stopping(s) /\ \A t \in Tasks : shopOf[t] = s => ~Live(t)
  BY DEF StartShop
<1>3. /\ shopOf'[n] = s /\ pc'[n] = "created" /\ runningTasks'[s] = n
      /\ \A t \in Tasks : t # n => shopOf'[t] = shopOf[t] /\ pc'[t] = pc[t]
      /\ \A r \in Shops : r # s => runningTasks'[r] = runningTasks[r]
  BY <1>1 DEF TypeInv, TypeOK, LoopTypeOK, RuntimeTypeOK
<1>4. ForceInv'
  <2>1. \A t \in Tasks : pc[t] = "gone" => pc'[t] = "gone"
    BY <1>1, <1>3
  <2>2. callerPc' = callerPc /\ callerTask' = callerTask
    BY <1>1 DEF callerVars
  <2> QED BY <2>1, <2>2 DEF OrderInv, ForceInv
<1> SUFFICES ASSUME NEW r \in Shops, r \notin overlapped' PROVE Orderly(r)'
  BY <1>4 DEF OrderInv
<1>5. Orderly(r)
  BY <1>2 DEF OrderInv
<1>6. ASSUME NEW t \in Tasks PROVE shopOf'[t] = r /\ up' => Shown(t)'
  BY <1>1, <1>3, <1>5 DEF Orderly, Shown, dbVars
<1>7. CASE r = s
  <2>1. \A t \in Tasks : shopOf'[t] = s /\ Live(t)' => t = n
    BY <1>2, <1>3, <1>7 DEF Live
  <2>2. \A c \in Callers : callerShop'[c] # s
    BY RuntimeAssumption, <1>1, <1>2, <1>7 DEF Stopping, callerVars, TypeInv, TypeOK, CallerTypeOK
  <2> QED BY <1>3, <1>6, <1>7, <2>1, <2>2 DEF Orderly
<1>8. CASE r # s
  <2>1. \A t \in Tasks : shopOf'[t] = r => t # n /\ shopOf[t] = r /\ pc'[t] = pc[t]
    BY <1>3, <1>8
  <2>2. CallbackDue(r)' => CallbackDue(r)
    BY <2>1 DEF CallbackDue
  <2> QED BY <1>1, <1>3, <1>5, <1>6, <1>8, <2>1, <2>2 DEF Orderly, Live, callerVars
<1> QED BY <1>7, <1>8

\* What is to be said of the row of a shop stays, or no loop of it is live.
RowKept(s) ==
    /\ s \in shopTable' => s \in shopTable
    /\ s \in shopTable' => (s \in online' <=> s \in online)
    /\ s \in shopTable' => (s \in cookieValid' <=> s \in cookieValid)
    /\ lastEvent'[s] = lastEvent[s]

\* Steps of others, none of which starts a loop.
LEMMA OrderOther ==
  ASSUME TypeInv, OrderInv, ForceInv', UNCHANGED <<shopOf, pc, up, overlapped>>,
         \A s \in Shops : RowKept(s) \/ \A t \in Tasks : shopOf[t] = s => ~Live(t),
         \A s \in Shops : runningTasks'[s] \in {runningTasks[s], NoTask},
         \A c \in Callers : \A t \in Tasks :
            callerShop'[c] = shopOf[t] /\ Live(t) /\ shopOf[t] \notin overlapped =>
               callerTask'[c] = t
  PROVE  OrderInv'
<1> SUFFICES ASSUME NEW s \in Shops, s \notin overlapped PROVE Orderly(s)'
  BY DEF OrderInv
<1>1. Orderly(s)
  BY DEF OrderInv
<1>2. ASSUME NEW t \in Tasks, shopOf[t] = s, up PROVE Shown(t)'
  BY <1>1, <1>2 DEF Orderly, Shown, RowKept, Live
<1>3. ASSUME NEW t \in Tasks, shopOf[t] = s, Live(t)
      PROVE  /\ runningTasks'[s] \in {t, NoTask}
             /\ pc[t] = "created" \/ ~CallbackDue(s)
             /\ \A c \in Callers : callerShop'[c] = s => callerTask'[c] = t
  BY <1>1, <1>3 DEF Orderly
<1> QED BY <1>1, <1>2, <1>3 DEF Orderly, Live, CallbackDue

LEMMA OrderStop ==
  ASSUME TypeInv, OrderInv, NEW c \in Callers, NEW s \in Shops, BeginStop(c, s),
         callerPc[c] = "idle"
  PROVE  OrderInv'
<1>1. UNCHANGED <<shopOf, pc, up, overlapped, dbVars, lastEvent>>
  BY DEF BeginStop
<1>2. \A r \in Shops : runningTasks'[r] \in {runningTasks[r], NoTask}
  BY DEF BeginStop, TypeInv, TypeOK, RuntimeTypeOK
<1>3. \/ UNCHANGED <<callerPc, callerShop, callerTask>>
      \/ /\ runningTasks[s] # NoTask
         /\ callerPc' = [callerPc EXCEPT ![c] = "waiting"]
         /\ callerShop' = [callerShop EXCEPT ![c] = s]
         /\ callerTask' = [callerTask EXCEPT ![c] = IF Live(runningTasks[s]) THEN runningTasks[s]
                                                     ELSE NoTask]
  BY DEF BeginStop
<1>4. ForceInv'
  BY <1>1, <1>3 DEF OrderInv, ForceInv, TypeInv, TypeOK, CallerTypeOK
<1>5. ASSUME NEW d \in Callers, NEW t \in Tasks, callerShop'[d] = shopOf[t], Live(t),
             shopOf[t] \notin overlapped
      PROVE  callerTask'[d] = t
  <2>1. shopOf[t] \in Shops /\ Orderly(shopOf[t])
    BY <1>5, TaskShop DEF Live, OrderInv, TypeInv, TypeOK
  <2>2. CASE UNCHANGED <<callerPc, callerShop, callerTask>> \/ d # c
    BY <1>3, <1>5, <2>1, <2>2 DEF Orderly, TypeInv, TypeOK, CallerTypeOK
  <2>3. CASE d = c /\ ~UNCHANGED <<callerPc, callerShop, callerTask>>
    <3>1. shopOf[t] = s /\ runningTasks[s] # NoTask
      BY <1>3, <1>5, <2>3 DEF TypeInv, TypeOK, CallerTypeOK
    <3>2. runningTasks[s] = t
      BY <1>5, <2>1, <3>1 DEF Orderly
    <3> QED BY <1>3, <1>5, <2>3, <3>2 DEF TypeInv, TypeOK, CallerTypeOK
  <2> QED BY <2>2, <2>3
<1> QED BY <1>1, <1>2, <1>4, <1>5, OrderOther DEF dbVars, RowKept

\* The end of a wait concerns a shop without a live loop.
LEMMA OrderEndStop ==
  ASSUME TypeInv, OrderInv, NEW c \in Callers, WaitOver(c) \/ ForceClosed(c)
  PROVE  OrderInv'
<1> DEFINE s == callerShop[c]
<1>1. /\ callerPc[c] \in {"waiting", "forceClosing"} /\ EndStop(c)
      /\ UNCHANGED <<shopOf, pc, up, overlapped, runningTasks, shopTable, cookieValid>>
  BY DEF WaitOver, ForceClosed, taskVars, runtimeVars
<1>2. s \in Shops
  BY <1>1 DEF TypeInv, TypeOK, CallerTypeOK
<1>3. callerTask[c] \in Tasks => pc[callerTask[c]] = "gone"
  BY DEF WaitOver, ForceClosed, OrderInv, ForceInv
<1>4. callerShop' = [callerShop EXCEPT ![c] = NoShop] /\ callerTask' = [callerTask EXCEPT ![c] = NoTask]
  BY <1>1 DEF EndStop
<1>5. \A d \in Callers : d # c => callerPc'[d] = callerPc[d] /\ callerTask'[d] = callerTask[d]
  BY <1>1 DEF EndStop, TypeInv, TypeOK, CallerTypeOK
<1>6. callerPc'[c] # "forceClosing"
  BY <1>1 DEF EndStop, TypeInv, TypeOK, CallerTypeOK
<1>7. ForceInv'
  BY <1>1, <1>5, <1>6 DEF OrderInv, ForceInv
<1> SUFFICES ASSUME NEW r \in Shops, r \notin overlapped PROVE Orderly(r)'
  BY <1>1, <1>7 DEF OrderInv
<1>8. Orderly(r)
  BY DEF OrderInv
<1>9. r = s => \A t \in Tasks : shopOf[t] = r => ~Live(t)
  BY <1>3, <1>8 DEF Orderly, Live
<1>10. RowKept(r) \/ r = s
  BY <1>1, <1>2 DEF RowKept, EndStop, Emit, TypeInv, TypeOK, HistoryTypeOK
<1>11. ASSUME NEW t \in Tasks, shopOf[t] = r, up PROVE Shown(t)'
  BY <1>1, <1>8, <1>9, <1>10, <1>11 DEF Orderly, Shown, RowKept, Live
<1>12. ASSUME NEW t \in Tasks, shopOf[t] = r, Live(t), NEW d \in Callers, callerShop'[d] = r
       PROVE  callerTask'[d] = t
  <2>1. d # c
    BY RuntimeAssumption, <1>4, <1>12 DEF TypeInv, TypeOK, CallerTypeOK
  <2>2. callerShop[d] = r
    BY <1>4, <1>12, <2>1 DEF TypeInv, TypeOK, CallerTypeOK
  <2> QED BY <1>5, <1>8, <1>12, <2>1, <2>2 DEF Orderly
<1> QED BY <1>1, <1>8, <1>11, <1>12 DEF Orderly, Live, CallbackDue

LEMMA OrderWait ==
  ASSUME TypeInv, OrderInv, NEW c \in Callers,
         \/ ForceClose(c) \/ CloseContexts(c) \/ StopPlaywright(c) \/ WaitTimesOut(c)
         \/ CallStopAll(c)
  PROVE  OrderInv'
<1> USE DEF ForceClose, CloseContexts, StopPlaywright, WaitTimesOut, CallStopAll
<1>1. UNCHANGED <<shopOf, pc, up, overlapped, runningTasks, dbVars, lastEvent, callerShop, callerTask>>
  BY DEF taskVars, runtimeVars, historyVars
<1>2. ForceInv'
  <2> SUFFICES ASSUME NEW d \in Callers, callerPc'[d] = "forceClosing"
               PROVE  callerTask[d] \in Tasks /\ pc[callerTask[d]] = "gone"
    BY <1>1 DEF ForceInv
  <2>1. CASE callerPc[d] = "forceClosing"
    BY <2>1 DEF OrderInv, ForceInv
  <2>2. CASE callerPc[d] # "forceClosing"
    <3>1. d = c /\ ForceClose(c)
      BY <2>2 DEF TypeInv, TypeOK, CallerTypeOK
    <3> QED BY <3>1 DEF TypeInv, TypeOK, CallerTypeOK
  <2> QED BY <2>1, <2>2
<1>3. ASSUME NEW d \in Callers, NEW t \in Tasks, callerShop[d] = shopOf[t], Live(t),
             shopOf[t] \notin overlapped
      PROVE  callerTask[d] = t
  BY <1>3, TaskShop DEF OrderInv, Orderly, Live, TypeInv, TypeOK
<1> HIDE DEF ForceClose, CloseContexts, StopPlaywright, WaitTimesOut, CallStopAll
<1> QED BY <1>1, <1>2, <1>3, OrderOther DEF RowKept, dbVars

LEMMA OrderExit ==
  ASSUME TypeInv, OrderInv, NEW c \in Callers, ExitWorker(c)
  PROVE  OrderInv'
<1>1. ~up' /\ UNCHANGED <<callerPc, callerTask, overlapped>>
  BY DEF ExitWorker, callerVars
<1>2. pc' = [t \in Tasks |-> IF t < nextTask THEN "gone" ELSE "none"]
  BY DEF ExitWorker
<1>3. \A t \in Tasks : pc'[t] \in {"none", "gone"}
  BY <1>2
<1>4. ForceInv'
  BY <1>1, <1>2, TaskShop DEF OrderInv, ForceInv, TypeInv, TypeOK
<1> QED BY <1>1, <1>3, <1>4 DEF OrderInv, Orderly, Live

LEMMA OrderEnvironment ==
  ASSUME TypeInv, OrderInv, NEW s \in Shops, Environment(s)
  PROVE  OrderInv'
<1>1. UNCHANGED <<shopOf, pc, up, overlapped, runningTasks, lastEvent, callerVars>>
  BY DEF Environment, CloseBrowser, PageDies, SetPolicy, DeleteShop, taskVars, runtimeVars,
         historyVars
<1>2. \A r \in Shops : RowKept(r)
  BY <1>1 DEF Environment, CloseBrowser, PageDies, SetPolicy, DeleteShop, dbVars, RowKept
<1>3. ForceInv'
  BY <1>1 DEF OrderInv, ForceInv, callerVars
<1>4. ASSUME NEW d \in Callers, NEW t \in Tasks, callerShop[d] = shopOf[t], Live(t),
             shopOf[t] \notin overlapped
      PROVE  callerTask[d] = t
  BY <1>4, TaskShop DEF OrderInv, Orderly, Live, TypeInv, TypeOK
<1> QED BY <1>1, <1>2, <1>3, <1>4, OrderOther DEF callerVars

LEMMA OrderQuiet ==
  ASSUME TypeInv, OrderInv,
         UNCHANGED <<shopOf, pc, up, runningTasks, dbVars, callerVars, historyVars>>
  PROVE  OrderInv'
BY DEF OrderInv, ForceInv, Orderly, Shown, Live, CallbackDue, dbVars, callerVars, historyVars

LEMMA OrderStep == TypeInv /\ OrderInv /\ [Next]_vars => OrderInv'
<1> SUFFICES ASSUME TypeInv, OrderInv, [Next]_vars PROVE OrderInv'
  OBVIOUS
<1>1. ASSUME NEW s \in Shops, RestartTimerFires(s) PROVE OrderInv'
  BY <1>1, OrderStart, OrderQuiet DEF RestartTimerFires, taskVars
<1>2. ASSUME NEW c \in Callers, Call(c) PROVE OrderInv'
  BY <1>2, OrderStart, OrderStop, OrderWait DEF Call, CallStart, CallStop, Free
<1>3. ASSUME NEW c \in Callers, StopNext(c) PROVE OrderInv'
  <2>1. PICK s \in callerTodo[c] : BeginStop(c, s)
    BY <1>3 DEF StopNext
  <2>2. s \in Shops /\ callerPc[c] = "idle"
    BY <1>3 DEF StopNext, TypeInv, TypeOK, CallerTypeOK
  <2> QED BY <2>1, <2>2, OrderStop
<1>4. CASE UNCHANGED vars
  BY <1>4, OrderQuiet DEF vars, taskVars, runtimeVars
<1> QED
  BY <1>1, <1>2, <1>3, <1>4, OrderLoop, OrderEndStop, OrderWait, OrderExit, OrderEnvironment
     DEF Next, CallerStep

\* As far as the runtime writes them, the row and the last event of a loop that
\* polls are online, unless its shop was started too early.
THEOREM PollingIsOnline == Spec => []PollingShopIsOnline
<1>1. TypeInv /\ OrderInv => PollingShopIsOnline
  BY TaskShop DEF OrderInv, Orderly, Shown, PollingShopIsOnline, TypeInv, TypeOK
<1> QED BY TypeInit, TypeStep, OrderInit, OrderStep, <1>1, PTL DEF Spec
=============================================================================
