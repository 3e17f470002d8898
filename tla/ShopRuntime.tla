---------------------------- MODULE ShopRuntime ----------------------------
(***************************************************************************)
(* The runtime that runs shops (class ShopRuntime of                       *)
(* backend/workers/shop_worker.py): one asyncio event loop on which the    *)
(* following take turns, each from one await to the next.                  *)
(*                                                                         *)
(*   - Shop loops, one task each: start the engine, open the browser of    *)
(*     the shop, log in, poll; recover from crashes, a few times.          *)
(*   - The done callback of such a task, which may schedule a restart of   *)
(*     the shop in ten seconds; the timers of these restarts.              *)
(*   - Callers of start_shop, stop_shop and stop_all_shops.  In a worker   *)
(*     process that is the command loop alone, which takes one command     *)
(*     after the other; in the main process, when it runs without workers, *)
(*     every API request is a caller of its own.                           *)
(*                                                                         *)
(* Besides, the user may close a browser window, a page may die, and the   *)
(* API may change the restart policy of a shop or delete its row.          *)
(*                                                                         *)
(* A task that is cancelled gets the cancellation at the await where it    *)
(* is, before it does anything else, and wait_for passes it on.  Only an   *)
(* HTTP client that fails to close puts an error in its place.             *)
(***************************************************************************)
EXTENDS Integers, FiniteSets

CONSTANTS
    Shops,              \* shop ids
    Callers,            \* who may call start_shop and stop_shop
    CommandLoops,       \* those that are the command loop of a worker process
    NoShop,             \* stands for no shop
    MaxRetries,         \* DEFAULT_CRASH_RECOVERY_MAX_RETRIES
    MaxLoginFailures,   \* login failures that pause the restarts: 3
    MaxTasks            \* bound: shop loops started

ASSUME RuntimeAssumption ==
    /\ NoShop \notin Shops
    /\ CommandLoops \subseteq Callers
    /\ MaxRetries \in Nat
    /\ MaxLoginFailures \in Nat \ {0}
    /\ MaxTasks \in Nat

Tasks == 1..MaxTasks
NoTask == 0

VARIABLES
    \* the shop loops: tasks are numbered as they are created
    nextTask,
    shopOf,         \* the shop of each task created
    pc,             \* the await where each task is
    retries,        \* its local crash_retries
    cancel,         \* "no", "requested", "delivered" or "lost"
    \* the fields of the runtime
    runningTasks,   \* self._running_tasks: the task of each shop, or NoTask
    loginFailCount, \* self._login_fail_count
    stopReasons,    \* shops that have an entry in self._stop_reasons; the
                    \* reasons are four kinds of login failure
    timers,         \* restarts scheduled with call_later, per shop
    up,             \* the event loop runs
    \* the browser engine: its contexts and whether Playwright runs
    contexts,       \* those that are registered: "none", "alive", "dead":
                    \* without a usable page, or "stale": of a Playwright that
                    \* was stopped
    engineOn,
    \* the database rows
    shopTable,      \* shops that have a row
    online,         \* shops with is_online
    cookieValid,    \* shops with cookie_valid
    policy,         \* shops with auto_restart
    \* the callers
    callerPc,       \* the await where each caller is, or "idle"
    callerShop,     \* the shop it stops
    callerTask,     \* the task it waits for
    callerTodo,     \* what stop_all_shops still has to stop
    quitting,       \* callers that carry out Shutdown
    \* history variables: they record, and no action reads them
    lastEvent,      \* the last status emitted of each shop
    overlapped,     \* shops started while an earlier loop of them still ran,
                    \* or while a stop of them was not over
    called,         \* the last call for each shop; "cleanStop" is a stop of a
                    \* running loop that takes its cancellation, with no other
                    \* end of a loop to be handled
    loginStreak     \* login failures in a row since the shop was last online
                    \* or started by a caller

taskVars    == <<nextTask, shopOf, pc, retries, cancel>>
runtimeVars == <<runningTasks, loginFailCount, stopReasons, timers, up>>
browserVars == <<contexts, engineOn>>
dbVars      == <<shopTable, online, cookieValid, policy>>
callerVars  == <<callerPc, callerShop, callerTask, callerTodo, quitting>>
historyVars == <<lastEvent, overlapped, called, loginStreak>>
vars == <<taskVars, runtimeVars, browserVars, dbVars, callerVars, historyVars>>

-----------------------------------------------------------------------------
(* Helpers *)

\* Created, and task.done() is false.
Live(t) == pc[t] \notin {"none", "done", "gone"}

\* The task runs on, that is, it has no cancellation to take first.
At(t, place) == up /\ pc[t] = place /\ cancel[t] # "requested"

TrackedLive(s) == runningTasks[s] # NoTask /\ Live(runningTasks[s])

\* A loop of the shop has ended and its done callback has not run yet.
CallbackDue(s) == \E t \in Tasks : shopOf[t] = s /\ pc[t] = "done"

Stopping(s) ==
    \E c \in Callers : callerPc[c] \in {"waiting", "timedOut", "forceClosing"} /\ callerShop[c] = s

\* open_shop reuses a context; to launch one it needs Playwright.
CanOpen(s) == contexts[s] \in {"alive", "dead"} \/ (contexts[s] = "none" /\ engineOn)

Goto(t, place) == pc' = [pc EXCEPT ![t] = place]

Emit(s, event) == lastEvent' = [lastEvent EXCEPT ![s] = event]

\* A row that has been deleted takes no update.
GoOnline(s) ==
    /\ online' = online \cup ({s} \cap shopTable)
    /\ cookieValid' = cookieValid \cup ({s} \cap shopTable)
    /\ Emit(s, "online")

GoOffline(s) ==
    /\ online' = online \ {s}
    /\ cookieValid' = cookieValid \ {s}
    /\ Emit(s, "offline")

\* Mutant: the finally clause does not close the browser.
LeaveOpen(t) == Goto(t, "closing") /\ UNCHANGED contexts

\* The finally clause begins: close_shop takes the context out of the registry
\* at once, and then waits for the browser to close.  If that fails or takes
\* too long, it is logged, and the Chrome is lost (BrowserEngine, lost).
Leave(t) ==
    /\ Goto(t, "closing")
    /\ contexts' = [contexts EXCEPT ![shopOf[t]] = "none"]

-----------------------------------------------------------------------------
Init ==
    /\ nextTask = 1
    /\ shopOf = [t \in Tasks |-> NoShop]
    /\ pc = [t \in Tasks |-> "none"]
    /\ retries = [t \in Tasks |-> 0]
    /\ cancel = [t \in Tasks |-> "no"]
    /\ runningTasks = [s \in Shops |-> NoTask]
    /\ loginFailCount = [s \in Shops |-> 0]
    /\ stopReasons = {}
    /\ timers = [s \in Shops |-> 0]
    /\ up = TRUE
    /\ contexts = [s \in Shops |-> "none"]
    /\ engineOn = FALSE
    /\ shopTable = Shops
    /\ online = {}
    /\ cookieValid = {}
    /\ policy \in SUBSET Shops
    /\ callerPc = [c \in Callers |-> "idle"]
    /\ callerShop = [c \in Callers |-> NoShop]
    /\ callerTask = [c \in Callers |-> NoTask]
    /\ callerTodo = [c \in Callers |-> {}]
    /\ quitting = {}
    /\ lastEvent = [s \in Shops |-> "none"]
    /\ overlapped = {}
    /\ called = [s \in Shops |-> "nothing"]
    /\ loginStreak = [s \in Shops |-> 0]

-----------------------------------------------------------------------------
(* Starting a shop *)

\* start_shop, from a caller or from a restart timer.  It refuses, and changes
\* nothing, when the tracked task of the shop is live or its row is gone.
StartShop(s) ==
    /\ ~TrackedLive(s)
    /\ s \in shopTable
    /\ nextTask <= MaxTasks
    /\ loginFailCount' = [loginFailCount EXCEPT ![s] = 0]
    /\ stopReasons' = stopReasons \ {s}
    /\ nextTask' = nextTask + 1
    /\ shopOf' = [shopOf EXCEPT ![nextTask] = s]
    /\ Goto(nextTask, "created")
    /\ runningTasks' = [runningTasks EXCEPT ![s] = nextTask]
    /\ overlapped' = IF Stopping(s) \/ \E t \in Tasks : shopOf[t] = s /\ Live(t)
                       THEN overlapped \cup {s} ELSE overlapped
    /\ UNCHANGED <<retries, cancel, up, browserVars, dbVars, callerVars, lastEvent>>

\* A caller is between two calls.
Free(c) == up /\ callerPc[c] = "idle" /\ callerTodo[c] = {} /\ c \notin quitting

CallStart(c, s) ==
    /\ Free(c)
    /\ StartShop(s)
    /\ called' = [called EXCEPT ![s] = "start"]
    /\ loginStreak' = [loginStreak EXCEPT ![s] = 0]
    /\ UNCHANGED timers

\* Mutant: only a shop that is online in the database is restarted.
RestartTimerFiresIfOnline(s) ==
    /\ up
    /\ timers[s] > 0
    /\ timers' = [timers EXCEPT ![s] = @ - 1]
    /\ \/ s \in policy \cap online /\ StartShop(s) /\ UNCHANGED <<called, loginStreak>>
       \/ /\ s \notin policy \cap online \/ TrackedLive(s)
          /\ UNCHANGED <<taskVars, runningTasks, loginFailCount, stopReasons, up, browserVars,
                         dbVars, callerVars, historyVars>>

\* _auto_restart_shop, ten seconds after a loop ended.
RestartTimerFires(s) ==
    /\ up
    /\ timers[s] > 0
    /\ timers' = [timers EXCEPT ![s] = @ - 1]
    /\ \/ s \in policy /\ StartShop(s) /\ UNCHANGED <<called, loginStreak>>
       \/ /\ s \notin policy \/ TrackedLive(s)
          /\ UNCHANGED <<taskVars, runningTasks, loginFailCount, stopReasons, up, browserVars,
                         dbVars, callerVars, historyVars>>

-----------------------------------------------------------------------------
(* The shop loop *)

\* The task runs for the first time, after the callbacks that were due before
\* it was created: the event loop keeps them in order.
Enter(t) ==
    /\ At(t, "created")
    /\ ~CallbackDue(shopOf[t])
    /\ Goto(t, "engine")
    /\ UNCHANGED <<nextTask, shopOf, retries, cancel, runtimeVars, browserVars, dbVars,
                   callerVars, historyVars>>

\* The engine runs.  The loop ends when the row of the shop is gone.
EngineReady(t) ==
    /\ At(t, "engine")
    /\ engineOn' = TRUE
    /\ IF shopOf[t] \in shopTable
         THEN Goto(t, "opening") /\ UNCHANGED <<contexts, lastEvent>>
         ELSE Leave(t) /\ Emit(shopOf[t], "offline")
    /\ UNCHANGED <<nextTask, shopOf, retries, cancel, runtimeVars, dbVars, callerVars,
                   overlapped, called, loginStreak>>

\* open_shop: a new browser, or a page of the one that is open.
Opened(t) ==
    /\ At(t, "opening")
    /\ CanOpen(shopOf[t])
    /\ contexts' = [contexts EXCEPT ![shopOf[t]] = "alive"]
    /\ Goto(t, "login")
    /\ UNCHANGED <<nextTask, shopOf, retries, cancel, runtimeVars, engineOn, dbVars,
                   callerVars, historyVars>>

\* Logged in, by the cookie, by the credentials or by hand.
LoggedIn(t) ==
    /\ At(t, "login") \/ At(t, "manual")
    /\ loginFailCount' = [loginFailCount EXCEPT ![shopOf[t]] = 0]
    /\ loginStreak' = [loginStreak EXCEPT ![shopOf[t]] = 0]
    /\ GoOnline(shopOf[t])
    /\ Goto(t, "polling")
    /\ UNCHANGED <<nextTask, shopOf, retries, cancel, runningTasks, stopReasons, timers, up,
                   browserVars, shopTable, policy, callerVars, overlapped, called>>

\* Not logged in, and no credentials: somebody has two minutes to log in.
AwaitManualLogin(t) ==
    /\ At(t, "login")
    /\ online' = online \cup ({shopOf[t]} \cap shopTable)
    /\ cookieValid' = cookieValid \ {shopOf[t]}
    /\ Goto(t, "manual")
    /\ UNCHANGED <<nextTask, shopOf, retries, cancel, runtimeVars, browserVars, shopTable,
                   policy, callerVars, historyVars>>

\* A login or a later one fails: by the credentials, and then a notification
\* is sent before the loop ends, or by hand.
LoginFails(t) ==
    /\ \/ /\ At(t, "login") \/ At(t, "relogin")
          /\ Goto(t, "notifying")
          /\ UNCHANGED contexts
       \/ /\ At(t, "manual") \/ At(t, "remanual")
          /\ Leave(t)
    /\ stopReasons' = stopReasons \cup {shopOf[t]}
    /\ GoOffline(shopOf[t])
    /\ UNCHANGED <<nextTask, shopOf, retries, cancel, runningTasks, loginFailCount, timers, up,
                   engineOn, shopTable, policy, callerVars, overlapped, called,
                   loginStreak>>

Notified(t) ==
    /\ At(t, "notifying")
    /\ Leave(t)
    /\ UNCHANGED <<nextTask, shopOf, retries, cancel, runtimeVars, engineOn, dbVars,
                   callerVars, historyVars>>

\* A poll cycle without an error.  (One with an error changes nothing.)
PollSucceeds(t) ==
    /\ At(t, "polling")
    /\ contexts[shopOf[t]] = "alive"
    /\ retries' = [retries EXCEPT ![t] = 0]
    /\ UNCHANGED <<nextTask, shopOf, pc, cancel, runtimeVars, browserVars, dbVars,
                   callerVars, historyVars>>

\* The browser was closed and the shop is not to be restarted: the loop ends.
BrowserGone(t) ==
    /\ At(t, "polling")
    /\ contexts[shopOf[t]] = "none"
    /\ shopOf[t] \notin policy
    /\ GoOffline(shopOf[t])
    /\ Leave(t)
    /\ UNCHANGED <<nextTask, shopOf, retries, cancel, runtimeVars, engineOn, shopTable,
                   policy, callerVars, overlapped, called, loginStreak>>

\* The login check of a poll cycle fails: log in again.
SessionExpired(t) ==
    /\ At(t, "polling")
    /\ contexts[shopOf[t]] = "alive"
    /\ cookieValid' = cookieValid \ {shopOf[t]}
    /\ Goto(t, "relogin")
    /\ UNCHANGED <<nextTask, shopOf, retries, cancel, runtimeVars, browserVars, shopTable,
                   online, policy, callerVars, historyVars>>

AwaitManualRelogin(t) ==
    /\ At(t, "relogin")
    /\ Goto(t, "remanual")
    /\ UNCHANGED <<nextTask, shopOf, retries, cancel, runtimeVars, browserVars, dbVars,
                   callerVars, historyVars>>

\* Mutant: cookie_valid is not set again.
LoggedInAgainOnly(t) ==
    /\ At(t, "relogin") \/ At(t, "remanual")
    /\ Emit(shopOf[t], "online")
    /\ Goto(t, "polling")
    /\ UNCHANGED <<nextTask, shopOf, retries, cancel, runtimeVars, browserVars, dbVars,
                   callerVars, overlapped, called, loginStreak>>

\* Logged in again; is_online is left as it is.
LoggedInAgain(t) ==
    /\ At(t, "relogin") \/ At(t, "remanual")
    /\ loginFailCount' = [loginFailCount EXCEPT ![shopOf[t]] = 0]
    /\ loginStreak' = [loginStreak EXCEPT ![shopOf[t]] = 0]
    /\ cookieValid' = cookieValid \cup ({shopOf[t]} \cap shopTable)
    /\ Emit(shopOf[t], "online")
    /\ Goto(t, "polling")
    /\ UNCHANGED <<nextTask, shopOf, retries, cancel, runningTasks, stopReasons, timers, up,
                   browserVars, shopTable, online, policy, callerVars, overlapped,
                   called>>

\* Mutant: what goes wrong while polling is always an error of one poll cycle.
LoopCrashesInSetupOnly(t) ==
    /\ \E place \in {"engine", "opening", "login", "manual"} : At(t, place)
    /\ retries' = [retries EXCEPT ![t] = @ + 1]
    /\ IF retries[t] + 1 > MaxRetries
         THEN GoOffline(shopOf[t]) /\ Leave(t)
         ELSE Goto(t, "recovering") /\ UNCHANGED <<contexts, online, cookieValid, lastEvent>>
    /\ UNCHANGED <<nextTask, shopOf, cancel, runtimeVars, engineOn, shopTable, policy,
                   callerVars, overlapped, called, loginStreak>>

\* The except clause.  ShopCrashRecovery is emitted in any case; then the loop
\* ends after too many crashes, or when the browser is gone and the shop is not
\* to be restarted; or else restart_shop closes the browser.
Crashes(t) ==
    LET s == shopOf[t]
    IN  /\ retries' = [retries EXCEPT ![t] = @ + 1]
        /\ IF retries[t] + 1 > MaxRetries \/ (contexts[s] = "none" /\ s \notin policy)
             THEN GoOffline(s) /\ Leave(t)
             ELSE /\ Emit(s, "recovery")
                  /\ Goto(t, "recovering")
                  /\ contexts' = [contexts EXCEPT ![s] = "none"]
                  /\ UNCHANGED <<online, cookieValid>>

\* An await raised, a browser to be restarted was closed or its page died.
LoopCrashes(t) ==
    /\ \E place \in {"engine", "opening", "login", "manual", "notifying", "polling",
                     "relogin", "remanual"} : At(t, place)
    /\ Crashes(t)
    /\ UNCHANGED <<nextTask, shopOf, cancel, runtimeVars, engineOn, shopTable, policy,
                   callerVars, overlapped, called, loginStreak>>

\* Mutant: the count starts again with every recovery.
RecoveredAfresh(t) ==
    /\ At(t, "recovering")
    /\ retries' = [retries EXCEPT ![t] = 0]
    /\ Goto(t, "engine")
    /\ UNCHANGED <<nextTask, shopOf, cancel, runtimeVars, browserVars, dbVars, callerVars,
                   historyVars>>

\* restart_shop opens the browser again, or fails to, and the loop begins anew.
Recovered(t) ==
    /\ At(t, "recovering")
    /\ \/ /\ CanOpen(shopOf[t])
          /\ contexts' = [contexts EXCEPT ![shopOf[t]] = "alive"]
       \/ UNCHANGED contexts
    /\ Goto(t, "engine")
    /\ UNCHANGED <<nextTask, shopOf, retries, cancel, runtimeVars, engineOn, dbVars,
                   callerVars, historyVars>>

Closed(t) ==
    /\ At(t, "closing")
    /\ Goto(t, "done")
    /\ UNCHANGED <<nextTask, shopOf, retries, cancel, runtimeVars, browserVars, dbVars,
                   callerVars, historyVars>>

\* Mutant: an except clause takes the cancellation for an error.
TakeCancellationAsError(t) ==
    /\ up
    /\ Live(t)
    /\ cancel[t] = "requested"
    /\ cancel' = [cancel EXCEPT ![t] = "no"]
    /\ UNCHANGED <<nextTask, shopOf, pc, retries, runtimeVars, browserVars, dbVars, callerVars,
                   historyVars>>

\* A task that has not run yet never does, and a second cancellation cuts the
\* finally clause short.
TakeCancellation(t) ==
    /\ up
    /\ Live(t)
    /\ cancel[t] = "requested"
    /\ pc[t] = "created" => ~CallbackDue(shopOf[t])
    /\ cancel' = [cancel EXCEPT ![t] = "delivered"]
    /\ IF pc[t] \in {"created", "closing"}
         THEN Goto(t, "done") /\ UNCHANGED contexts
         ELSE Leave(t)
    /\ UNCHANGED <<nextTask, shopOf, retries, runtimeVars, engineOn, dbVars, callerVars,
                   historyVars>>

\* The cancellation meets a request to the model or a notification whose client
\* then fails to close, and that error takes its place: the notification of a
\* failed login crashes the loop, any other error is handled where it is.
LosesCancellation(t) ==
    /\ up
    /\ pc[t] \in {"login", "notifying", "polling", "relogin"}
    /\ cancel[t] = "requested"
    /\ cancel' = [cancel EXCEPT ![t] = "lost"]
    /\ called' = [called EXCEPT ![shopOf[t]] = IF @ = "cleanStop" THEN "stop" ELSE @]
    /\ IF pc[t] = "notifying"
         THEN Crashes(t)
         ELSE UNCHANGED <<pc, retries, contexts, online, cookieValid, lastEvent>>
    /\ UNCHANGED <<nextTask, shopOf, runtimeVars, engineOn, shopTable, policy, callerVars,
                   overlapped, loginStreak>>

\* Mutant: whatever task the shop has by now is forgotten.
OnTaskDoneForgetAny(t) ==
    /\ up
    /\ pc[t] = "done"
    /\ Goto(t, "gone")
    /\ runningTasks' = [runningTasks EXCEPT ![shopOf[t]] = NoTask]
    /\ UNCHANGED <<nextTask, shopOf, retries, cancel, loginFailCount, stopReasons, timers, up,
                   browserVars, dbVars, callerVars, historyVars>>

\* Mutant: nothing is said to the database and the main process.
OnTaskDoneQuietly(t) ==
    /\ up
    /\ pc[t] = "done"
    /\ Goto(t, "gone")
    /\ runningTasks' = [s \in Shops |-> IF runningTasks[s] = t THEN NoTask ELSE runningTasks[s]]
    /\ UNCHANGED <<nextTask, shopOf, retries, cancel, loginFailCount, stopReasons, timers, up,
                   browserVars, dbVars, callerVars, historyVars>>

\* _on_task_done, the done callback of the task.
OnTaskDone(t) ==
    LET s == shopOf[t]
        loginFailed == s \in stopReasons
        restart == cancel[t] # "delivered" /\ s \in policy
        paused == loginFailed /\ loginFailCount[s] + 1 >= MaxLoginFailures
    IN  /\ up
        /\ pc[t] = "done"
        /\ Goto(t, "gone")
        /\ retries' = [retries EXCEPT ![t] = 0]
        /\ runningTasks' = [runningTasks EXCEPT ![s] = IF @ = t THEN NoTask ELSE @]
        /\ stopReasons' = stopReasons \ {s}
        /\ loginStreak' = [loginStreak EXCEPT ![s] =
                             IF ~loginFailed THEN 0 ELSE IF @ < MaxLoginFailures THEN @ + 1 ELSE @]
        /\ loginFailCount' = [loginFailCount EXCEPT ![s] =
                                IF ~loginFailed THEN 0 ELSE IF restart THEN @ + 1 ELSE @]
        /\ \/ restart /\ paused /\ GoOffline(s) /\ UNCHANGED timers
           \/ /\ restart /\ ~paused
              /\ online' = online \ {s}
              /\ timers' = [timers EXCEPT ![s] = @ + 1]
              /\ UNCHANGED <<cookieValid, lastEvent>>
           \/ /\ ~restart
              /\ online' = online \ {s}
              /\ Emit(s, "offline")
              /\ UNCHANGED <<cookieValid, timers>>
        /\ UNCHANGED <<nextTask, shopOf, cancel, up, browserVars, shopTable, policy,
                       callerVars, overlapped, called>>

-----------------------------------------------------------------------------
(* Stopping a shop *)

\* Mutant: the task is forgotten and not cancelled.
BeginStopNoCancel(c, s) ==
    /\ runningTasks[s] # NoTask
    /\ runningTasks' = [runningTasks EXCEPT ![s] = NoTask]
    /\ callerShop' = [callerShop EXCEPT ![c] = s]
    /\ callerTask' = [callerTask EXCEPT ![c] = runningTasks[s]]
    /\ callerPc' = [callerPc EXCEPT ![c] = "waiting"]
    /\ called' = [called EXCEPT ![s] = IF timers[s] = 0 THEN "cleanStop" ELSE "stop"]
    /\ UNCHANGED <<taskVars, loginFailCount, stopReasons, timers, up, browserVars, dbVars,
                   quitting, lastEvent, overlapped, loginStreak>>

\* stop_shop up to its first await: the task is forgotten and cancelled.  A
\* task that has ended is not waited for, and if there is none, all there is
\* to do is to close a browser that may be open.
BeginStop(c, s) ==
    LET t == runningTasks[s]
    IN  /\ runningTasks' = [runningTasks EXCEPT ![s] = NoTask]
        /\ IF t = NoTask
             THEN /\ contexts' = [contexts EXCEPT ![s] = "none"]
                  /\ UNCHANGED <<cancel, callerPc, callerShop, callerTask>>
             ELSE /\ cancel' = IF Live(t) THEN [cancel EXCEPT ![t] = "requested"] ELSE cancel
                  /\ callerShop' = [callerShop EXCEPT ![c] = s]
                  /\ callerTask' = [callerTask EXCEPT ![c] = IF Live(t) THEN t ELSE NoTask]
                  /\ callerPc' = [callerPc EXCEPT ![c] = "waiting"]
                  /\ UNCHANGED contexts
        /\ called' = [called EXCEPT ![s] =
                        IF /\ TrackedLive(s) /\ timers[s] = 0 /\ ~CallbackDue(s)
                           /\ \A u \in Tasks : shopOf[u] = s /\ Live(u) => cancel[u] # "lost"
                          THEN "cleanStop" ELSE "stop"]
        /\ UNCHANGED <<nextTask, shopOf, pc, retries, loginFailCount, stopReasons, timers, up,
                       engineOn, dbVars, quitting, lastEvent, overlapped, loginStreak>>

CallStop(c, s) ==
    /\ Free(c)
    /\ BeginStop(c, s)
    /\ UNCHANGED callerTodo

\* stop_all_shops, of the API or as the first part of a Shutdown, after which
\* the caller takes no more commands.
CallStopAll(c) ==
    /\ Free(c)
    /\ callerTodo' = [callerTodo EXCEPT ![c] = {s \in Shops : runningTasks[s] # NoTask}]
    /\ IF c \in CommandLoops
         THEN quitting' = quitting \cup {c}
         ELSE callerTodo'[c] # {} /\ UNCHANGED quitting
    /\ UNCHANGED <<taskVars, runtimeVars, browserVars, dbVars, callerPc, callerShop,
                   callerTask, historyVars>>

StopNext(c) ==
    /\ up
    /\ callerPc[c] = "idle"
    /\ \E s \in callerTodo[c] :
         /\ BeginStop(c, s)
         /\ callerTodo' = [callerTodo EXCEPT ![c] = @ \ {s}]

\* The rest of stop_shop, after its wait.  The engine is stopped with the last
\* shop.
EndStop(c) ==
    /\ online' = online \ {callerShop[c]}
    /\ Emit(callerShop[c], "offline")
    /\ callerShop' = [callerShop EXCEPT ![c] = NoShop]
    /\ callerTask' = [callerTask EXCEPT ![c] = NoTask]
    /\ callerPc' = [callerPc EXCEPT ![c] =
                      IF engineOn /\ \A s \in Shops : ~TrackedLive(s)
                        THEN "stoppingEngine" ELSE "idle"]

\* The task has ended, and so has its done callback, which was there first.
WaitOver(c) ==
    /\ up
    /\ callerPc[c] = "waiting"
    /\ callerTask[c] \in Tasks => pc[callerTask[c]] = "gone"
    /\ EndStop(c)
    /\ UNCHANGED <<taskVars, runtimeVars, browserVars, shopTable, cookieValid, policy,
                   callerTodo, quitting, overlapped, called, loginStreak>>

\* The wait takes too long: wait_for cancels the task once more ...
WaitTimesOut(c) ==
    /\ up
    /\ callerPc[c] = "waiting"
    /\ callerTask[c] # NoTask
    /\ Live(callerTask[c])
    /\ cancel' = [cancel EXCEPT ![callerTask[c]] = "requested"]
    /\ callerPc' = [callerPc EXCEPT ![c] = "timedOut"]
    /\ UNCHANGED <<nextTask, shopOf, pc, retries, runtimeVars, browserVars, dbVars, callerShop,
                   callerTask, callerTodo, quitting, historyVars>>

\* ... waits for it, and the browser of the shop is closed, whose ever it is.
ForceClose(c) ==
    /\ up
    /\ callerPc[c] = "timedOut"
    /\ pc[callerTask[c]] = "gone"
    /\ contexts' = [contexts EXCEPT ![callerShop[c]] = "none"]
    /\ callerPc' = [callerPc EXCEPT ![c] = "forceClosing"]
    /\ UNCHANGED <<taskVars, runtimeVars, engineOn, dbVars, callerShop, callerTask, callerTodo,
                   quitting, historyVars>>

ForceClosed(c) ==
    /\ up
    /\ callerPc[c] = "forceClosing"
    /\ EndStop(c)
    /\ UNCHANGED <<taskVars, runtimeVars, browserVars, shopTable, cookieValid, policy,
                   callerTodo, quitting, overlapped, called, loginStreak>>

\* engine.stop closes the contexts it finds ...
CloseContexts(c) ==
    /\ up
    /\ callerPc[c] = "stoppingEngine"
    /\ contexts' = [s \in Shops |-> "none"]
    /\ callerPc' = [callerPc EXCEPT ![c] = "stoppingPlaywright"]
    /\ UNCHANGED <<taskVars, runtimeVars, engineOn, dbVars, callerShop, callerTask, callerTodo,
                   quitting, historyVars>>

\* ... and stops Playwright; a browser that was opened meanwhile is of no use.
StopPlaywright(c) ==
    /\ up
    /\ callerPc[c] = "stoppingPlaywright"
    /\ engineOn' = FALSE
    /\ contexts' = [s \in Shops |-> IF contexts[s] = "none" THEN "none" ELSE "stale"]
    /\ callerPc' = [callerPc EXCEPT ![c] = "idle"]
    /\ UNCHANGED <<taskVars, runtimeVars, dbVars, callerShop, callerTask, callerTodo, quitting,
                   historyVars>>

\* The end of Shutdown and of the process: the engine is stopped, what is left
\* of tasks is cancelled and waited for, and the event loop is closed.
ExitWorker(c) ==
    LET left == {shopOf[t] : t \in {u \in Tasks : Live(u)}}
        due == {s \in Shops : CallbackDue(s)}
    IN  /\ up
        /\ c \in quitting
        /\ callerPc[c] = "idle"
        /\ callerTodo[c] = {}
        /\ up' = FALSE
        /\ engineOn' = FALSE
        /\ contexts' = [s \in Shops |-> "none"]
        /\ pc' = [t \in Tasks |-> IF t < nextTask THEN "gone" ELSE "none"]
        /\ runningTasks' = [s \in Shops |-> NoTask]
        /\ timers' = [s \in Shops |-> 0]
        /\ online' = online \ (left \cup due)
        /\ lastEvent' = [s \in Shops |-> IF s \in left \cup due THEN "offline"
                                          ELSE lastEvent[s]]
        /\ UNCHANGED <<nextTask, shopOf, retries, cancel, loginFailCount, stopReasons,
                       shopTable, cookieValid, policy, callerVars, overlapped, called,
                       loginStreak>>

-----------------------------------------------------------------------------
(* The environment *)

\* The user closes the browser window of a shop.
CloseBrowser(s) ==
    /\ contexts[s] # "none"
    /\ contexts' = [contexts EXCEPT ![s] = "none"]
    /\ UNCHANGED <<taskVars, runtimeVars, engineOn, dbVars, callerVars, historyVars>>

PageDies(s) ==
    /\ contexts[s] = "alive"
    /\ contexts' = [contexts EXCEPT ![s] = "dead"]
    /\ UNCHANGED <<taskVars, runtimeVars, engineOn, dbVars, callerVars, historyVars>>

\* The API saves the configuration of a shop.
SetPolicy(s) ==
    /\ s \in shopTable
    /\ policy' = IF s \in policy THEN policy \ {s} ELSE policy \cup {s}
    /\ UNCHANGED <<taskVars, runtimeVars, browserVars, shopTable, online, cookieValid,
                   callerVars, historyVars>>

\* The API deletes a shop, and with it its configuration.
DeleteShop(s) ==
    /\ s \in shopTable
    /\ shopTable' = shopTable \ {s}
    /\ online' = online \ {s}
    /\ cookieValid' = cookieValid \ {s}
    /\ policy' = policy \ {s}
    /\ UNCHANGED <<taskVars, runtimeVars, browserVars, callerVars, historyVars>>

-----------------------------------------------------------------------------
Setup(t) ==
    \/ Enter(t)
    \/ EngineReady(t)
    \/ Opened(t)
    \/ LoggedIn(t)
    \/ AwaitManualLogin(t)
    \/ LoginFails(t)
    \/ Notified(t)

Poll(t) ==
    \/ PollSucceeds(t)
    \/ BrowserGone(t)
    \/ SessionExpired(t)
    \/ AwaitManualRelogin(t)
    \/ LoggedInAgain(t)

LoopStep(t) ==
    \/ Setup(t)
    \/ Poll(t)
    \/ LoopCrashes(t)
    \/ Recovered(t)
    \/ Closed(t)
    \/ TakeCancellation(t)
    \/ LosesCancellation(t)
    \/ OnTaskDone(t)

Call(c) ==
    \/ \E s \in Shops : CallStart(c, s) \/ CallStop(c, s)
    \/ CallStopAll(c)

CallerStep(c) ==
    \/ StopNext(c)
    \/ WaitOver(c)
    \/ ForceClose(c)
    \/ ForceClosed(c)
    \/ CloseContexts(c)
    \/ StopPlaywright(c)
    \/ ExitWorker(c)

Environment(s) == CloseBrowser(s) \/ PageDies(s) \/ SetPolicy(s) \/ DeleteShop(s)

Next ==
    \/ \E t \in Tasks : LoopStep(t)
    \/ \E c \in Callers : Call(c) \/ CallerStep(c) \/ WaitTimesOut(c)
    \/ \E s \in Shops : RestartTimerFires(s) \/ Environment(s)

Spec == Init /\ [][Next]_vars

\* Every await of a loop or a caller ends, by its result or by its timeout, a
\* timer fires and a callback runs.  A loop that polls may do so forever: it is
\* only a browser that is closed or out of order that it is bound to notice, by
\* the test in every cycle or by the login check in every thirtieth.
Fairness ==
    /\ \A t \in Tasks :
         /\ WF_vars(Setup(t) \/ Recovered(t) \/ Closed(t))
         /\ WF_vars(AwaitManualRelogin(t) \/ LoggedInAgain(t) \/ LoginFails(t))
         /\ WF_vars(LoopCrashes(t) /\ contexts[shopOf[t]] # "alive")
         /\ WF_vars(BrowserGone(t))
         /\ WF_vars(TakeCancellation(t))
         /\ WF_vars(OnTaskDone(t))
    /\ \A c \in Callers : WF_vars(CallerStep(c)) /\ WF_vars(WaitTimesOut(c))
    /\ \A s \in Shops : WF_vars(RestartTimerFires(s))

FairSpec == Spec /\ Fairness

-----------------------------------------------------------------------------
(* Properties *)

LoopPlaces == {"created", "engine", "opening", "login", "manual", "notifying", "polling",
               "relogin", "remanual", "recovering", "closing"}

LoopTypeOK ==
    /\ nextTask \in 1..(MaxTasks + 1)
    /\ shopOf \in [Tasks -> Shops \cup {NoShop}]
    /\ pc \in [Tasks -> LoopPlaces \cup {"none", "done", "gone"}]
    /\ retries \in [Tasks -> 0..(MaxRetries + 1)]
    /\ cancel \in [Tasks -> {"no", "requested", "delivered", "lost"}]
    /\ \A t \in Tasks : shopOf[t] = NoShop <=> t >= nextTask
    /\ \A t \in Tasks : pc[t] = "none" <=> t >= nextTask

RuntimeTypeOK ==
    /\ runningTasks \in [Shops -> Tasks \cup {NoTask}]
    /\ loginFailCount \in [Shops -> Nat]
    /\ stopReasons \in SUBSET Shops
    /\ timers \in [Shops -> Nat]
    /\ up \in BOOLEAN
    /\ contexts \in [Shops -> {"none", "alive", "dead", "stale"}]
    /\ engineOn \in BOOLEAN

DbTypeOK ==
    /\ shopTable \in SUBSET Shops
    /\ online \in SUBSET shopTable
    /\ cookieValid \in SUBSET shopTable
    /\ policy \in SUBSET shopTable

CallerTypeOK ==
    /\ callerPc \in [Callers -> {"idle", "waiting", "timedOut", "forceClosing",
                                 "stoppingEngine", "stoppingPlaywright"}]
    /\ callerShop \in [Callers -> Shops \cup {NoShop}]
    /\ callerTask \in [Callers -> Tasks \cup {NoTask}]
    /\ callerTodo \in [Callers -> SUBSET Shops]
    /\ quitting \in SUBSET CommandLoops
    /\ \A c \in Callers :
         callerPc[c] \in {"waiting", "timedOut", "forceClosing"} <=> callerShop[c] # NoShop
    /\ \A c \in Callers : callerPc[c] = "timedOut" => callerTask[c] # NoTask

HistoryTypeOK ==
    /\ lastEvent \in [Shops -> {"none", "online", "offline", "recovery"}]
    /\ overlapped \in SUBSET Shops
    /\ called \in [Shops -> {"nothing", "start", "stop", "cleanStop"}]
    /\ loginStreak \in [Shops -> 0..MaxLoginFailures]

\* Type correctness, in the parts that the variables form.
TypeOK ==
    /\ LoopTypeOK
    /\ RuntimeTypeOK
    /\ DbTypeOK
    /\ CallerTypeOK
    /\ HistoryTypeOK

\* Every loop that runs on, that is, whose cancellation nobody asked for, is
\* the one that _running_tasks has for its shop, so that get_running_shops
\* shows it and stop_shop reaches it.  In particular no shop has two of them,
\* whatever restarts, stops and callbacks come together.
RunningLoopsAreTracked ==
    \A t \in Tasks : Live(t) /\ cancel[t] = "no" => runningTasks[shopOf[t]] = t

\* No browser stays registered without a loop of its shop that will take it out:
\* every end of a loop, a forced one too, does, so that the next loop does not
\* meet the page of an earlier one.  This is the registry of the engine; that the
\* Chrome itself ends is another matter, see BrowserEngine.
RegisteredContextHasLoop ==
    \A s \in Shops : contexts[s] # "none" =>
        \E t \in Tasks : shopOf[t] = s /\ Live(t) /\ pc[t] \notin {"created", "closing"}

\* The runtime never leaves a shop online that no loop serves: while is_online
\* is set, or ShopOnline was the last event, a loop of the shop is running or
\* its done callback is due.  These are the writes of the runtime; the routes
\* and the listener of the main process write is_online too, and may leave it
\* set: see ShopConsole.
OnlineShopHasLoop ==
    \A s \in Shops : s \in online \/ lastEvent[s] = "online" =>
        \E t \in Tasks : shopOf[t] = s /\ pc[t] \notin {"none", "gone"}

\* A loop that polls is online in the database and in the events, as far as the
\* runtime writes them, unless the shop was started before an earlier loop or
\* stop of it was over: then their last words come late.  What the routes and
\* the listener write is in ShopConsole.
PollingShopIsOnline ==
    \A t \in Tasks :
        pc[t] = "polling" /\ up /\ shopOf[t] \in shopTable \ overlapped =>
            shopOf[t] \in online \cap cookieValid /\ lastEvent[shopOf[t]] = "online"

\* A stop of a running loop that meets no restart timer and no loop that has
\* just ended is final, unless the cancellation is lost: the loop never schedules
\* a restart, and until a caller starts the shop again no loop of it runs and
\* none is scheduled.
CleanStopSticks ==
    \A s \in Shops : called[s] = "cleanStop" =>
        /\ timers[s] = 0
        /\ \A t \in Tasks : shopOf[t] = s /\ Live(t) => cancel[t] # "no"

\* A loop is restarted over and over only if it polls in between: it cannot
\* recover from crash after crash without end.
EndlessRecoveryPolls ==
    \A t \in Tasks : []<>(pc[t] = "recovering") => []<>(pc[t] = "polling" /\ retries[t] = 0)

\* The loop has lost the cancellation of the timeout as well.
LostAgain(c) == callerPc[c] = "timedOut" /\ cancel[callerTask[c]] = "lost"

\* stop_shop returns: its caller is never left waiting by the loop it cancels,
\* by other loops or by the engine, unless the loop loses both cancellations:
\* the wait for the second has no limit.
StopsReturn ==
    \A c \in Callers : callerPc[c] # "idle" ~> callerPc[c] = "idle" \/ LostAgain(c) \/ ~up

\* A browser that Playwright left behind, when the engine was stopped while a
\* timer started a loop, does not stay: its loop notices and replaces it.
StaleBrowsersGo == \A s \in Shops : contexts[s] = "stale" ~> contexts[s] # "stale"

\* A restart that was scheduled is carried out, if the shop is still to be
\* restarted when its time has come and no loop of it runs already.
ScheduledRestartsHappen ==
    \A s \in Shops :
        timers[s] > 0 ~> TrackedLive(s) \/ s \notin policy \/ nextTask > MaxTasks \/ ~up
======================================================================================================================================================
