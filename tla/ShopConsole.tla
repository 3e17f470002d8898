---------------------------- MODULE ShopConsole ----------------------------
(***************************************************************************)
(* What the front end shows of a shop, the flag is_online of its row and   *)
(* the list of running shops, against the loop that serves it.  The flag   *)
(* has three writers that do not wait for each other:                      *)
(*                                                                         *)
(*   - the routes of backend/api/shops.py, one request at a time: no       *)
(*     handler awaits anything that suspends it while workers are in use;  *)
(*   - the runtime in the worker process, which writes the row itself and  *)
(*     then publishes a status event (backend/workers/shop_worker.py);     *)
(*   - the listener thread of the manager, which applies these events      *)
(*     later, in the order of a bounded queue that drops what does not     *)
(*     fit (backend/workers/worker_manager.py).                            *)
(*                                                                         *)
(* One shop, in a system whose shops fit one worker.  Other shops of that  *)
(* worker are its environment: their events fill the queue.  The moves of  *)
(* a shop between workers and the window of a recovery are the subject of  *)
(* WorkerManager, the steps inside a loop that of ShopRuntime; a loop here *)
(* logs in, polls and comes to its end.                                    *)
(***************************************************************************)
EXTENDS Integers, Sequences

CONSTANTS
    CommandMax,     \* WORKER_QUEUE_MAXSIZE, of the command queue
    StatusMax,      \* WORKER_QUEUE_MAXSIZE, of the status queue
    MaxFailures,    \* bound: crashes of the worker and commands that raise
    MaxStragglers,  \* bound: cancelled loops that outlive the stop_shop of
                    \* their shop
    MaxTimers       \* bound: restarts of the shop scheduled at a time

ASSUME BoundsAssumption ==
    /\ CommandMax \in Nat \ {0}
    /\ StatusMax \in Nat \ {0}
    /\ MaxFailures \in Nat
    /\ MaxStragglers \in Nat \ {0}
    /\ MaxTimers \in Nat \ {0}

VARIABLES
    \* the database: the row of the shop exists, is_online, auto_restart
    hasRow, online, policy,
    \* the manager: the shop is in _shop_to_worker; the request being handled
    mapped,
    api,            \* "idle", "assigning", "removing" or "clearing"
    \* the queues between the processes
    commands,       \* "StartShop" and "StopShop" of this shop
    statusQueue,    \* "online" and "offline" of this shop, "other" events
    \* the worker process: the place of its command loop
    worker,         \* "none", "fresh" and "due" before a heartbeat, "ready"
                    \* for a command, "stopping" in stop_shop, "ending", "dead"
    \* its runtime: the tracked loop of the shop, its timers, old loops
    loop,           \* "off", "starting", "on" or "ending"
    timers,         \* restarts scheduled: another loop may end before the first
    stragglers,     \* loops that were cancelled and have not ended
    failures,
    \* history variables: they record, and no action reads them
    falseOnline,    \* the flag may come to be set without reason: it was so at
                    \* the start, a start was refused, the worker died, or an
                    \* event that was to clear it was dropped
    falseOffline,   \* the flag may come to be cleared without reason: the loop
                    \* was started before an earlier one had ended, or its event
                    \* was dropped
    ended           \* the last loop ended by itself

database == <<hasRow, online, policy>>
manager  == <<mapped, api>>
runtime  == <<loop, timers, stragglers>>
history  == <<falseOnline, falseOffline, ended>>
vars == <<database, manager, commands, statusQueue, worker, runtime, failures, history>>

-----------------------------------------------------------------------------
(* Helpers *)

Alive == worker \notin {"none", "dead"}

CommandsFull == Len(commands) >= CommandMax

Sent(command) == \E i \in DOMAIN commands : commands[i] = command

Pending(event) == \E i \in DOMAIN statusQueue : statusQueue[i] = event

\* _emit_status for some events in turn, which drops those that do not fit.
Emit(events) ==
    LET room == StatusMax - Len(statusQueue)
    IN  statusQueue' = statusQueue \o SubSeq(events, 1, IF Len(events) < room THEN Len(events)
                                                                            ELSE room)
Dropped(events) == Len(statusQueue) + Len(events) > StatusMax

\* The runtime clears the flag and publishes events that end with "offline".
PublishOffline(events) ==
    /\ online' = FALSE
    /\ Emit(events)
    /\ falseOnline' = (Dropped(events) /\ Pending("online"))

\* The runtime publishes that the shop is online.
PublishOnline ==
    /\ Emit(<<"online">>)
    /\ falseOffline' = (falseOffline \/ (Dropped(<<"online">>) /\ Pending("offline")))

\* The command loop goes on: a heartbeat may be due before the next command.
NextTurn == worker' \in {"due", "ready"}

\* A loop of the shop is created.
StartLoop ==
    /\ loop' = "starting"
    /\ falseOffline' = (stragglers > 0 \/ worker = "stopping")
    /\ ended' = FALSE

-----------------------------------------------------------------------------
\* Nothing resets the flags when the program starts.
Init ==
    /\ hasRow = TRUE
    /\ online \in BOOLEAN
    /\ policy \in BOOLEAN
    /\ mapped = FALSE
    /\ api = "idle"
    /\ commands = <<>>
    /\ statusQueue = <<>>
    /\ worker \in {"none", "fresh"}
    /\ loop = "off"
    /\ timers = 0
    /\ stragglers = 0
    /\ failures = 0
    /\ falseOnline = online
    /\ falseOffline = FALSE
    /\ ended = FALSE

-----------------------------------------------------------------------------
(* The routes *)

\* api_start_shop and api_open_browser, and api_toggle_status of a shop that
\* is offline, set the flag before they call assign_shop.
StartRequested ==
    /\ api = "idle"
    /\ hasRow
    /\ online' = TRUE
    /\ api' = "assigning"
    /\ UNCHANGED <<hasRow, policy, mapped, commands, statusQueue, worker, runtime, failures,
                   history>>

\* start_all_online_shops reads which shops are to be started from the flag.
StartAllRequested ==
    /\ api = "idle"
    /\ hasRow /\ online
    /\ api' = "assigning"
    /\ UNCHANGED <<database, mapped, commands, statusQueue, worker, runtime, failures, history>>

\* Mutant: the shop is recorded although the queue has no room for the command.
AssignUnsent ==
    /\ hasRow
    /\ ~mapped
    /\ mapped' = TRUE
    /\ IF Alive
         THEN /\ commands' = IF CommandsFull THEN commands ELSE Append(commands, "StartShop")
              /\ UNCHANGED worker
         ELSE /\ commands' = <<"StartShop">>
              /\ worker' = "fresh"
    /\ UNCHANGED falseOnline

\* assign_shop gives the shop to the live worker, or to a new one.
Assign ==
    /\ hasRow
    /\ ~mapped
    /\ Alive => ~CommandsFull
    /\ mapped' = TRUE
    /\ IF Alive
         THEN /\ commands' = Append(commands, "StartShop")
              /\ UNCHANGED worker
         ELSE /\ commands' = <<"StartShop">>
              /\ worker' = "fresh"
    /\ UNCHANGED falseOnline

\* It answers False, or the full queue raises: the flag stays as it is.
Refuse ==
    /\ ~hasRow \/ mapped \/ (Alive /\ CommandsFull)
    /\ falseOnline' = TRUE
    /\ UNCHANGED <<mapped, commands, worker>>

AssignRequested ==
    /\ api = "assigning"
    /\ Assign \/ Refuse
    /\ api' = "idle"
    /\ UNCHANGED <<database, statusQueue, runtime, failures, falseOffline, ended>>

\* remove_shop forgets the shop and sends the StopShop, to a dead worker, too;
\* a full queue raises.
Remove ==
    /\ mapped' = FALSE
    /\ ended' = FALSE
    /\ commands' = IF mapped /\ ~CommandsFull THEN Append(commands, "StopShop") ELSE commands

\* api_stop_shop writes the flag last, and not at all after an exception.
StopRequested ==
    /\ api = "idle"
    /\ Remove
    /\ api' = IF mapped /\ CommandsFull THEN "idle" ELSE "clearing"
    /\ UNCHANGED <<database, statusQueue, worker, runtime, failures, falseOnline, falseOffline>>

\* A route clears the flag.
Clear ==
    /\ online' = FALSE
    /\ falseOnline' = (falseOnline /\ Pending("online"))
    /\ UNCHANGED <<hasRow, policy, mapped, commands, statusQueue, worker, runtime, failures,
                   falseOffline, ended>>

FlagCleared == api = "clearing" /\ api' = "idle" /\ Clear

\* api_toggle_status of a shop that is online writes first, and swallows an
\* exception of the removal.
ToggledOff ==
    /\ api = "idle"
    /\ hasRow /\ online
    /\ api' = "removing"
    /\ Clear

RemoveRequested ==
    /\ api = "removing"
    /\ api' = "idle"
    /\ Remove
    /\ UNCHANGED <<database, statusQueue, worker, runtime, failures, falseOnline, falseOffline>>

\* stop_all_shops removes the shops that are mapped, and writes no flag.
StopAllRequested ==
    /\ api = "idle"
    /\ mapped
    /\ Remove
    /\ UNCHANGED <<database, api, statusQueue, worker, runtime, failures, falseOnline,
                   falseOffline>>

\* api_delete_shop deletes the row and nothing else.
DeleteRequested ==
    /\ api = "idle"
    /\ hasRow
    /\ hasRow' = FALSE
    /\ online' = FALSE
    /\ policy' = FALSE
    /\ UNCHANGED <<manager, commands, statusQueue, worker, runtime, failures, history>>

\* api_save_config, as far as auto_restart is concerned.
PolicyChanged ==
    /\ api = "idle"
    /\ hasRow
    /\ policy' = ~policy
    /\ UNCHANGED <<hasRow, online, manager, commands, statusQueue, worker, runtime, failures,
                   history>>

-----------------------------------------------------------------------------
(* The listener thread *)

\* _handle_status_event: only the statuses of the shop touch its row.
HandleStatusEvent ==
    IF statusQueue = <<>>
      THEN UNCHANGED <<online, statusQueue>>
      ELSE /\ online' = CASE Head(statusQueue) = "online"  -> hasRow
                          [] Head(statusQueue) = "offline" -> FALSE
                          [] OTHER                         -> online
           /\ statusQueue' = Tail(statusQueue)

\* Mutant: the new worker is not told what the dead one was to run.
MonitorWorkersSilent ==
    IF worker = "dead"
      THEN worker' = "fresh" /\ commands' = <<>>
      ELSE UNCHANGED <<worker, commands>>

\* _monitor_workers replaces a dead worker and restores its shops.
MonitorWorkers ==
    IF worker = "dead"
      THEN /\ worker' = "fresh"
           /\ commands' = IF mapped THEN <<"StartShop">> ELSE <<>>
      ELSE UNCHANGED <<worker, commands>>

\* A turn of the listener: an event, if one comes in time, and then the workers.
StatusListener ==
    /\ HandleStatusEvent
    /\ MonitorWorkers
    /\ UNCHANGED <<hasRow, policy, manager, runtime, failures, history>>

-----------------------------------------------------------------------------
(* The command loop of the worker *)

\* A heartbeat, which is not emitted but put in the queue: if that is full, the
\* exception ends the command loop.
EmitHeartbeat ==
    /\ worker \in {"fresh", "due"}
    /\ IF Len(statusQueue) < StatusMax
         THEN /\ statusQueue' = Append(statusQueue, "other")
              /\ worker' = "ready"
         ELSE /\ worker' = "ending"
              /\ UNCHANGED statusQueue
    /\ UNCHANGED <<database, manager, commands, runtime, failures, history>>

\* No command within the poll timeout.
NoCommand ==
    /\ worker = "ready"
    /\ commands = <<>>
    /\ worker' = "due"
    /\ UNCHANGED <<database, manager, commands, statusQueue, runtime, failures, history>>

\* start_shop, by a command: refused while the tracked loop runs or when the
\* row is gone.
HandleStart ==
    /\ worker = "ready"
    /\ commands # <<>> /\ Head(commands) = "StartShop"
    /\ commands' = Tail(commands)
    /\ NextTurn
    /\ IF loop = "off" /\ hasRow
         THEN StartLoop
         ELSE /\ ended' = (ended \/ (mapped /\ loop = "off"))
              /\ UNCHANGED <<loop, falseOffline>>
    /\ UNCHANGED <<database, manager, statusQueue, timers, stragglers, failures, falseOnline>>

\* stop_shop: the loop is forgotten and cancelled, and the caller waits.  If no
\* loop is tracked nothing is written, and a scheduled restart stays scheduled.
HandleStop ==
    /\ worker = "ready"
    /\ commands # <<>> /\ Head(commands) = "StopShop"
    /\ commands' = Tail(commands)
    /\ IF loop = "off"
         THEN /\ NextTurn
              /\ UNCHANGED <<loop, stragglers>>
         ELSE /\ stragglers < MaxStragglers
              /\ loop' = "off"
              /\ stragglers' = stragglers + 1
              /\ worker' = "stopping"
    /\ falseOffline' = FALSE
    /\ UNCHANGED <<database, manager, statusQueue, timers, failures, falseOnline, ended>>

\* Mutant: the row is written and no event emitted.
StopEndsQuietly ==
    /\ worker = "stopping"
    /\ NextTurn
    /\ online' = FALSE
    /\ falseOnline' = FALSE
    /\ UNCHANGED <<hasRow, policy, manager, commands, statusQueue, runtime, failures, falseOffline,
                   ended>>

\* The wait is over, because the loop has ended or because of its timeout.
StopEnds ==
    /\ worker = "stopping"
    /\ NextTurn
    /\ PublishOffline(<<"offline">>)
    /\ UNCHANGED <<hasRow, policy, manager, commands, runtime, failures, falseOffline, ended>>

\* A handler raises, a query of the database for instance: nothing catches it
\* before it ends the command loop.
CommandFails ==
    /\ worker = "ready"
    /\ commands # <<>>
    /\ failures < MaxFailures
    /\ failures' = failures + 1
    /\ commands' = Tail(commands)
    /\ worker' = "ending"
    /\ UNCHANGED <<database, manager, statusQueue, runtime, history>>

\* The process is gone, and with it its loops and timers.
Die ==
    /\ worker' = "dead"
    /\ loop' = "off"
    /\ stragglers' = 0
    /\ timers' = 0
    /\ falseOnline' = TRUE
    /\ falseOffline' = FALSE

\* The finally clause of run cancels every task and waits for it, and thereby
\* for its done callback; then the process exits.  A loop that was ending may
\* have ended before, and its restart policy then keep it from an event.
EndWorker ==
    /\ worker = "ending"
    /\ Die
    /\ \E n \in stragglers..(stragglers + 1) :
         /\ n > stragglers => loop # "off"
         /\ n = stragglers => loop \in {"off", "ending"}
         /\ online' = (online /\ n = 0 /\ loop = "off")
         /\ Emit([i \in 1..n |-> "offline"])
    /\ UNCHANGED <<hasRow, policy, manager, commands, failures, ended>>

\* The process dies at once.  What it put in the status queue last may not
\* have left its buffer.
Crash ==
    /\ Alive
    /\ failures < MaxFailures
    /\ failures' = failures + 1
    /\ Die
    /\ \E n \in 0..Len(statusQueue) : statusQueue' = SubSeq(statusQueue, 1, n)
    /\ UNCHANGED <<database, manager, commands, ended>>

-----------------------------------------------------------------------------
(* The loop of the shop *)

\* The wait for a login by hand sets the flag, without an event.
AwaitManualLogin ==
    /\ Alive
    /\ loop = "starting"
    /\ online' = hasRow
    /\ falseOnline' = FALSE
    /\ UNCHANGED <<hasRow, policy, manager, commands, statusQueue, worker, runtime, failures,
                   falseOffline, ended>>

\* Mutant: the row is written and no event emitted.
GoOnlineQuietly ==
    /\ Alive
    /\ loop = "starting"
    /\ loop' = "on"
    /\ online' = hasRow
    /\ falseOnline' = FALSE
    /\ UNCHANGED <<hasRow, policy, manager, commands, statusQueue, worker, timers, stragglers,
                   failures, falseOffline, ended>>

GoOnline ==
    /\ Alive
    /\ loop = "starting"
    /\ loop' = "on"
    /\ online' = hasRow
    /\ falseOnline' = FALSE
    /\ PublishOnline
    /\ UNCHANGED <<hasRow, policy, manager, commands, worker, timers, stragglers, failures, ended>>

\* A session that had expired: the event alone says that the shop is online.
LoggedInAgain ==
    /\ Alive
    /\ loop = "on"
    /\ PublishOnline
    /\ UNCHANGED <<database, manager, commands, worker, runtime, failures, falseOnline, ended>>

\* A crash of the loop is announced, and it sets the shop up anew.
CrashRecovery ==
    /\ Alive
    /\ loop \in {"starting", "on"}
    /\ loop' = "starting"
    /\ Emit(<<"other">>)
    /\ UNCHANGED <<database, manager, commands, worker, timers, stragglers, failures, history>>

\* The loop gives up: a login failed (two events), the browser was closed (one),
\* or there were too many crashes (the crash is announced first).
GiveUp ==
    /\ Alive
    /\ loop \in {"starting", "on"}
    /\ loop' = "ending"
    /\ \E events \in {<<"offline">>, <<"offline", "offline">>, <<"other", "offline">>} :
         PublishOffline(events)
    /\ UNCHANGED <<hasRow, policy, manager, commands, worker, timers, stragglers, failures,
                   falseOffline, ended>>

\* _on_task_done of a loop that ended by itself: a restart is scheduled if the
\* policy says so, and an event published only if it does not.
OnTaskDone ==
    /\ Alive
    /\ loop = "ending"
    /\ loop' = "off"
    /\ falseOffline' = FALSE
    /\ IF policy
         THEN /\ timers < MaxTimers
              /\ timers' = timers + 1
              /\ online' = FALSE
              /\ falseOnline' = (falseOnline /\ Pending("online"))
              /\ UNCHANGED <<statusQueue, ended>>
         ELSE /\ PublishOffline(<<"offline">>)
              /\ ended' = mapped
              /\ UNCHANGED timers
    /\ UNCHANGED <<hasRow, policy, manager, commands, worker, stragglers, failures>>

\* _on_task_done of a loop that was cancelled.
CancelledTaskDone ==
    /\ stragglers > 0
    /\ stragglers' = stragglers - 1
    /\ PublishOffline(<<"offline">>)
    /\ UNCHANGED <<hasRow, policy, manager, commands, worker, loop, timers, failures, falseOffline,
                   ended>>

\* _auto_restart_shop, after its ten seconds.
AutoRestartShop ==
    /\ timers > 0
    /\ worker # "ending"
    /\ timers' = timers - 1
    /\ IF policy /\ loop = "off"
         THEN StartLoop
         ELSE /\ ended' = (ended \/ (mapped /\ loop = "off"))
              /\ UNCHANGED <<loop, falseOffline>>
    /\ UNCHANGED <<database, manager, commands, statusQueue, worker, stragglers, failures,
                   falseOnline>>

\* Another shop of the worker emits an event.
OtherShopEmits ==
    /\ worker \in {"due", "ready", "stopping"}
    /\ Emit(<<"other">>)
    /\ UNCHANGED <<database, manager, commands, worker, runtime, failures, history>>

-----------------------------------------------------------------------------
Route ==
    \/ StartRequested \/ StartAllRequested \/ AssignRequested
    \/ StopRequested \/ FlagCleared \/ ToggledOff \/ RemoveRequested \/ StopAllRequested
    \/ DeleteRequested \/ PolicyChanged

CommandLoop ==
    \/ EmitHeartbeat \/ NoCommand
    \/ HandleStart \/ HandleStop \/ StopEnds \/ CommandFails
    \/ EndWorker

ShopLoop ==
    \/ AwaitManualLogin \/ GoOnline \/ LoggedInAgain \/ CrashRecovery \/ GiveUp
    \/ OnTaskDone \/ CancelledTaskDone \/ AutoRestartShop

Next ==
    \/ Route
    \/ StatusListener
    \/ CommandLoop \/ Crash
    \/ ShopLoop
    \/ OtherShopEmits

Spec == Init /\ [][Next]_vars

\* The listener thread and the command loop are scheduled, and a cancelled
\* loop ends: its awaits are bounded.  No request, failure or event is promised.
Fairness ==
    /\ WF_vars(StatusListener)
    /\ WF_vars(CommandLoop)
    /\ WF_vars(CancelledTaskDone)

FairSpec == Spec /\ Fairness

-----------------------------------------------------------------------------
(* Properties *)

TypeOK ==
    /\ {hasRow, online, policy, mapped, falseOnline, falseOffline, ended} \subseteq BOOLEAN
    /\ online \/ policy => hasRow
    /\ api \in {"idle", "assigning", "removing", "clearing"}
    /\ commands \in Seq({"StartShop", "StopShop"}) /\ Len(commands) <= CommandMax
    /\ statusQueue \in Seq({"online", "offline", "other"}) /\ Len(statusQueue) <= StatusMax
    /\ worker \in {"none", "fresh", "due", "ready", "stopping", "ending", "dead"}
    /\ loop \in {"off", "starting", "on", "ending"}
    /\ stragglers \in 0..MaxStragglers
    /\ timers \in 0..MaxTimers
    /\ failures \in 0..MaxFailures

\* No request, command, event or callback of the shop is on its way.
Settled ==
    /\ api = "idle"
    /\ commands = <<>>
    /\ ~Pending("online") /\ ~Pending("offline")
    /\ worker \in {"fresh", "due", "ready"}
    /\ stragglers = 0

\* The three writers of is_online agree in the end that a shop is offline: once
\* all is settled, a shop without a loop is shown online only if the program
\* found the flag so, a start was refused after the route had set it, the worker
\* died, or, with an earlier event that says online on its way, the event that
\* says offline was dropped at a full queue.
QuietShopIsOffline == Settled /\ loop = "off" => ~online \/ falseOnline

\* And that it is online: once all is settled a shop that is shown as running
\* and whose loop polls has its flag set, however stops, starts, toggles and
\* late events went before, unless it was started before an earlier loop had
\* ended or the event of its login was dropped while an older one was pending.
ServedShopIsOnline ==
    Settled /\ mapped /\ hasRow /\ loop = "on" => online \/ falseOffline

\* A shop that get_running_shops lists is served, or about to be, in a worker
\* that lives or will be replaced, unless its loop ended by itself: then it
\* stays in the list, and a start through the API is refused.
ShownShopIsServed ==
    mapped =>
        \/ worker \in {"ending", "dead"}
        \/ Sent("StartShop")
        \/ loop # "off" \/ timers > 0 \/ ended

\* A shop whose worker died, by a heartbeat that found the status queue full
\* just as by a crash, gets a new loop, unless it is stopped or deleted.
HeldShopComesBack == mapped /\ worker = "dead" ~> loop # "off" \/ ~mapped \/ ~hasRow
=============================================================================
