# PDDCS in TLA+

PDDCS is a customer service desk for shops of an online platform. A FastAPI
backend serves a web front end; worker processes run a browser per shop, log in,
poll the shop's chat sessions and let a language model answer them. This
directory holds TLA+ models of the backend (`backend/`), the instances of them
that TLC checks, and theorems about them whose proofs TLAPS checks.

- [The system](#the-system)
- [What is hard about it](#what-is-hard-about-it)
- [The modules](#the-modules)
- [The runs](#the-runs)
- [Where code and claims part](#where-code-and-claims-part)
- [Fairness](#fairness)
- [The proofs](#the-proofs)
- [What is left out](#what-is-left-out)
- [The plan](#the-plan)

## The system

| Part | Source | State | Operations |
| --- | --- | --- | --- |
| Worker manager | `workers/worker_manager.py`, `main.py` | handles of worker processes with the shops each holds, the map from shop to worker, the next id, the listener's stop flag | `start_workers`, `assign_shop`, `remove_shop`, `shutdown`; the listener's `_monitor_workers` |
| Worker process | `workers/shop_worker.py`, class `ShopWorker` | command queue, `_shutdown`, its runtime | `_handle_command`, heartbeat |
| Shop runtime | `workers/shop_worker.py`, class `ShopRuntime` | a task per shop, login failure counts, stop reasons, restart timers | `start_shop`, `stop_shop`, `stop_all_shops`, `_shop_loop`, `_on_task_done`, `_auto_restart_shop` |
| Scheduler | `services/scheduler.py` | the worker manager, or none | passes calls on to the manager or to a local runtime |
| Browser engine | `engines/playwright_engine.py` | Playwright, a browser context per shop | `start`, `stop`, `open_shop`, `close_shop`, `restart_shop`, the close event |
| Message processor | `services/message_processor.py`, `chat_service.py` | sessions, messages, escalations (rows) | `process_buyer_message`, `takeover_session` |
| Escalation rules | `services/escalation_checker.py` | none | decides whether a message goes to a person |
| Language model client | `ai/llm_client.py` | none | completion with retries and a fallback |
| Notifier | `services/notifier.py` | reservations of the last five minutes | `send_notification` |
| Shop service, API | `services/shop_service.py`, `api/*.py` | rows of shops and their configuration | start, stop, create, update, delete |
| Settings, knowledge, dashboard | `services/*_service.py` | rows, files | plain reads and writes |
| PDD adapter | `adapters/pdd.py` | the page of the platform | log in, fetch messages, send, escalate |
| Cookies, profiles, human simulation | `engines/*.py` | files | save, load, random delays |
| Crypto, schema, seeds, migrations, front end, tools | `core`, `db`, `alembic`, `frontend`, `tools` | none shared | |

How they interact:

- An API request to start or stop a shop writes `is_online` and calls the
  scheduler. With workers, that is `assign_shop` or `remove_shop`, which changes
  the maps under a lock and puts a command on the queue of a worker process.
  Without workers, the request awaits a `ShopRuntime` in the main process.
- A worker process takes one command after the other. `StartShop` creates an
  asyncio task and returns; `StopShop` cancels one and waits for it; `Shutdown`
  stops all and ends the process. Events and heartbeats go back on one status
  queue, whose listener thread also looks for dead processes after every poll
  and respawns them with the shops they held.
- `is_online` has three writers that do not wait for each other: the route of the
  request, the runtime in the worker process, and the listener, which applies the
  events that the runtime has published. `get_running_shops` answers from the
  manager's map alone.
- A shop loop uses the one engine of its process, the rows of its shop, the
  message processor, the language model and the notifier. When its task ends, a
  callback may schedule a restart of the shop in ten seconds, which calls
  `start_shop` like everybody else.

What makes each part correct: the manager never gives one shop to two workers,
never loses a shop that was started nor revives one that was stopped, keeps the
capacity of each worker, and ends every process it has begun. The runtime has
one loop at most for a shop, knows every loop that runs, leaves no browser
registered and no online flag of its own behind a loop, stops what it is told to stop, and recovers a
bounded number of times. The message pipeline records each message, decides it
once, for a reply or for an escalation, sends one text about it at most and into
the right chat, and its rows say what happened. The flag and the list of running
shops agree with the loops once everything has arrived. The engine has one Chrome
at a time for a profile directory, loses none, and gives each permit of its
semaphore back. The notifier sends one notification in five minutes for an event,
and one that failed does not count. A model that hangs costs no buyer the answer,
and a login that succeeds late is not reported as a failed one.

## What is hard about it

- **Threads and processes.** The listener thread and the server thread share
  the manager's maps. The lock is released between the detection of a dead
  worker and the restoration of its shops, while a process is spawned. Worker
  processes lag behind by the length of their queue, and may die at any time.
- **Tasks of one event loop.** A loop, its done callback, the timer of its
  restart and a `stop_shop` that waits for it take turns at every `await`. What
  was read before one may be stale after it.
- **Cancellation.** `wait_for` passes a cancellation on, handlers of
  `Exception` let it through, and the `finally` clause of the loop has awaits of
  its own. An exception in a `finally` clause inside (`notifier.py:142`,
  `llm_client.py:149`) takes its place.
- **The page.** What the adapter believes to be the open chat and what the page
  shows are two things: a click may be broken off half-way, go where the chat
  stood before, or not be made at all without a word, since the queries of the
  adapter swallow errors and timeouts. Buyers and agents write while a reply is
  being made.
- **Counters and bounds.** Recovery attempts, login failures, the capacity of
  workers and the size of queues.
- **Timeouts inside timeouts.** Nearly every await is under `wait_for`, and so is
  its caller. The outer one may cut the inner one off at any place, and what was
  asked of the driver, the webhook or the model goes on.
- **Partial failure.** A full queue in the middle of a recovery or of a stop, a
  close that fails, an exception in a `finally` clause that replaces the result.

`PROJECT.json` lists these hazards with the line where each bites and the
properties that look at it.

## The modules

| Module | What it is |
| --- | --- |
| `WorkerManager` | The manager, its listener thread, the program's start and shutdown, and the workers as consumers of their queues |
| `MCWorkerManager` | Symmetry and the claims that the code does not keep |
| `WorkerManagerProofs` | Theorems about `WorkerManager` for all values of its constants |
| `ShopRuntime` | One runtime: shop loops, callbacks, timers, callers, the engine's contexts and the rows they write |
| `MCShopRuntime` | Symmetry and the claims that the code does not keep |
| `ShopRuntimeProofs` | Theorems about `ShopRuntime` for all values of its constants |
| `ShopConsole` | One shop as the front end sees it: the routes, the command and status queues, the command loop with its heartbeats, the listener, and the three writers of `is_online` |
| `MCShopConsole` | Its instance |
| `ShopConsoleProofs` | Theorems about `ShopConsole` for all sizes of its queues |
| `BrowserEngine` | The Chrome windows of one worker: `open_shop`, `close_shop`, `restart_shop`, `stop` and the close event from await to await, the semaphore, the driver, calls that are cut off |
| `MCBrowserEngine` | Its loops and their shops |
| `BrowserEngineProofs` | Theorems about `BrowserEngine` for all values of its constants |
| `MessageLedger` | What the pipeline promises for each message: recorded, then decided once, then at most one text about it |
| `MessagePipeline` | The loops of a shop with its chats: reading, splitting, storing, deciding, sending, transferring, and the page, the rows and the people around them |
| `MCMessagePipeline` | Configurations, symmetry and the claim that the code does not keep |
| `MessagePipelineProofs` | Types of `MessagePipeline` and its refinement of the ledger, for all values of its constants |
| `PipelineChatProofs` | Texts, rows and statuses of `MessagePipeline` and the chats they belong to, for all values of its constants |
| `Notifier` | Notifications with their reservations, in time |
| `LlmClient` | A chat of the language model with its requests, retries and two deadlines, in time |
| `ShopLogin` | How a loop gets to its chat page: navigation, `auto_login`, captcha, verification, the reports of failures, crashes; EXTENDS `Notifier` |
| `TimedShop` | `ShopLogin` and `LlmClient` together: the timed calls of a loop |
| `MCTimedShop` | Its instance with the timeouts of the code |
| `TimedShopProofs` | Theorems about `TimedShop` for all timeouts and limits |

Definitions whose comment begins with *Mutant* are plausible bugs: each replaces
the definition after it in a run that must then fail.

### WorkerManager

One action is one section of code under `self._lock`, or one that touches
nothing shared. `workers`, `shopIds`, `shopToWorker` and `nextWorkerId` are
`_workers`, the handles' `shop_ids`, `_shop_to_worker` and `_next_worker_id`.
A process has an id, which a respawn reuses, and a `generation` that tells its
processes apart; `told` is the set of shops the process has been told to run
and not told to stop, which is what it runs as far as the manager is concerned.

- Server thread: `StartWorkers` (`start_workers` with the `required_worker_count`
  of the shops in the table), `AssignShop` (refusals, choice of the least loaded
  live worker or a new one, the command, then the maps, in that order),
  `RemoveHeldShop`, `RemoveUnheldShop`, `DeleteShop`, and `shutdown` in five
  steps: the flag, the snapshot of the handles, a `Shutdown` to each, `join` or
  `kill` of each, the join of the listener, the clearing of the maps. Handlers
  run on one event loop and do not await inside the manager, hence no two of
  them interleave.
- Listener thread: `ListenerTest` (the stop flag), `DetectDeadWorkers`, and per
  dead worker `RespawnWorker` (outside the lock), `RegisterWorker`,
  `RestoreShop` for each shop inside the lock, or `RestoreFails` when the queue
  refuses a command and the exception ends the thread.
- Worker: `HandleStartShop`, `HandleStopShop`, `Shutdown`; `Crash` at any time.

The history variables `asked`, `raced` and `unsent` record the last request
for a shop, the shops touched by the API while they waited to be restored, and
those whose `StopShop` was refused. No action reads them.

### ShopRuntime

One action is the code from one `await` to the next. `pc[t]` is the await where
task `t` is, `cancel[t]` whether a cancellation is on its way. A task that is
cancelled takes the cancellation at its current await before anything else; a
second one, from the timeout of `stop_shop`, hits the `finally` clause. Only a
request to the model or a notification whose client fails to close loses it
(`LosesCancellation`): a notification's error is a crash of the loop, any other is
handled where it is, and the loop goes on. A stop that meets this is no clean one,
and one whose loop loses the cancellation of the timeout as well need not return
(`LostAgain`).

- Loop: `Enter`, `EngineReady`, `Opened`, `LoggedIn`, `AwaitManualLogin`,
  `LoginFails`, `Notified`; then `PollSucceeds`, `BrowserGone`,
  `SessionExpired`, `AwaitManualRelogin`, `LoggedInAgain`; `LoopCrashes` (with
  `Crashes`) and `Recovered` for the handler of exceptions; `TakeCancellation`, `Closed` for
  the end. `OnTaskDone` is the whole done callback, with the decision to restart.
- Callers: the command loop of a worker (`CommandLoops`), one command at a time
  and a `Shutdown` at the end, or API requests of the main process, in any
  number at a time. `BeginStop` runs up to the first await of `stop_shop`;
  `WaitOver`, `WaitTimesOut`, `ForceClose`, `ForceClosed`, `CloseContexts` and
  `StopPlaywright` are what follows.
- Environment: `CloseBrowser`, `PageDies`, `SetPolicy`, `DeleteShop`.

`contexts` is the registry of the engine, not the Chrome windows: a close that
fails or a launch that is cut off leaves a Chrome that no registry knows, which is
the subject of `BrowserEngine`. `online` and `lastEvent` are what the runtime
writes; the routes and the listener, which write the flag as well, are in
`ShopConsole`.

The event loop keeps callbacks in order: a loop does not take its first step
before the done callbacks that were due when it was created (`Enter`).

### MessagePipeline

One action is the code from one `await`, or from one transaction, to the next,
since API requests and the loops of other processes may come between two
transactions. It is the inside of `PollSucceeds` of `ShopRuntime`: `idle` is the
wait between two cycles, `next` the one between two sessions of a cycle.

- Platform: `page[s]` is what chat `s` shows, each text with its kind and, if the
  pipeline has typed it, the message it is about; `listed` the chats in the list
  of sessions; `transferred` the clicks on an agent.
- Database: `saved` the buyers' messages by their dedup key (chat, index and
  content of the message, and the session it was filed under), `replies` and
  `escalations` the rows of AI replies and of the escalation log, `status` the
  status of the session rows.
- Adapter: `current` is `_current_session_id`, `shown` the chat that the page
  really shows. `Switches` and `SwitchBreaks` are `switch_to_session` when it
  returns and when an exception or a timeout breaks it off; `Misses` when it
  returns without the chat though the list shows it, because its queries were
  swallowed or its click (`Clicked`) went to where the chat had stood. `Ensures`,
  `EnsureBreaks` and `EnsureMisses` are the same behind the test of the other
  methods, `GetsOn` and `GetsOnAndFails` what these go on from.
- Loop: `ListSessions` (chats that wait first, without those marked `un-watch`,
  and any part of the list if queries are swallowed), `SwitchTo`, `Fetch` with
  `Splits` (`_split_session_buyer_messages`), `FetchUnordered` (the fallback of
  `fetch_messages`, which reads all texts of buyers, then all of sellers, or
  nothing), `StoreNext` for the history, `SavePending`,
  `Escalate` or `Reply` for the last message, then `Send`, or `SendNotice` and
  `Transfer`. `SwitchFails`, `FetchFails`, `ProcessingFails`, `SendFails`,
  `NoticeFails` and `TransferFails` are the same steps when they fail, before or
  after their effect; `StartAnew` is the end of the loop and a new one.
- Others: `BuyerWrites`, `AgentWrites`, `ChatCloses`, `Marks` (`un-watch`), `Takeover`
  (`takeover_session`, which the pipeline never looks at).

A chat that has left the list, or that a switch has missed, is an exception to
`RightChat` and the properties about the log and the status: `switch_to_session`
only logs that it does not find the chat, or does not notice that its click went
astray, and what is read and typed afterwards concerns the chat that happens to be
open. The history variable `missed` remembers such chats. A switch that is broken
off by an exception is no such excuse. The abstraction rests on one
assumption about the platform: a text typed into the input box of the seller
appears in the page as a seller item, which the adapter reads as `"human"`.

`ImplementsLedger` maps the ledger's `recorded` to `saved`, `replied` to
`replies`, `escalated` to the records of the escalation log and `delivered` to
the replies and notices in the chats, each with its place there, so that a second
text about a message would show even if it were the same.

### ShopConsole

One shop in a system whose shops fit one worker; the other shops are its
environment (`OtherShopEmits`), which is there to fill the status queue. The three
writers are separate groups of actions:

- Routes, one request at a time, since no handler suspends while workers are in
  use: `StartRequested` (the flag) then `AssignRequested` (`Assign` or `Refuse`),
  `StartAllRequested`, `StopRequested` then `FlagCleared`, `ToggledOff` then
  `RemoveRequested`, `StopAllRequested`, `DeleteRequested`, `PolicyChanged`. The
  listener and the worker come between the two halves of a request.
- Worker: `EmitHeartbeat` (which is not dropped but raises at a full queue),
  `NoCommand`, `HandleStart`, `HandleStop` with `StopEnds`, `CommandFails`,
  `EndWorker` (the `finally` clause of `run`) and `Crash`. `Emit` is
  `_emit_status`, which drops what does not fit.
- Loop: `AwaitManualLogin`, `GoOnline`, `LoggedInAgain`, `CrashRecovery`,
  `GiveUp`, `OnTaskDone`, `CancelledTaskDone`, `AutoRestartShop`: what
  `ShopRuntime` does step by step, reduced to what it writes and publishes.
- Listener: `StatusListener` handles one event and looks for a dead worker.

`falseOnline`, `falseOffline` and `ended` are history variables. They name the
cases in which the flag or the list is wrong for good; the properties say that
there are no others.

### BrowserEngine

One action is the code from one `await` to the next. `call[c]` is where caller `c`
(the loop of a shop, or the command loop) waits inside the engine, with the
browser it has in hand and what it does afterwards (`next`: return, reopen in
`restart_shop`, go on with the list of `stop`, or end the loop). `chrome` is the
world outside: every Chrome that was ever launched and its state. `contexts`,
`playwright`, `permits` and `waiters` are `_contexts`, `_playwright` and the
semaphore with its queue.

- `open_shop`: `Enter` (a registered context is returned untested), `Acquire`,
  `Admit` (the second look at the registry), `Launch`, `Launched`, `LaunchFails`,
  `Prepared`, `GotPage`. `close_shop`: `Close` (unregister first), `Saved`,
  `Closed`, `CloseFails`. `stop`: `Stop`, `CloseNext`, `Stopped`.
- Every call may be cut off wherever it waits (`TimesOut`, `Cancel`): `CutOff`
  frees the semaphore as `async with` does, and leaves the rest to the driver.
- Browsers: `Appears` (the launch of a call that was cut off succeeds), `Ends`,
  and `ContextClosed`, the handler of the close event, which unregisters whatever
  the shop has by then.

`lost` and `stale` are history variables: browsers that the code does lose (calls
cut off, failed closes, displaced by the late event of such a browser) and those
that ended with the driver.

### Notifier, LlmClient, ShopLogin and TimedShop

Here time counts. An await takes no time or all that its timeout allows, so that
each sum of timeouts which the code can reach is reached; awaits without a branch
between them are one step. Time is the age of the reservations (`notes`), the time
spent in `navigate_to_chat` (`spent`) and in its wait for the result of the login
(`waited`), and the clock of a chat.

- `Notifier`: `Reserve` (`_reserve_event`), `Posted` with `_release_event` after a
  failure, `PostOver` (the client is closed), `PostCutOff` (a caller's timeout is
  no `Exception`, so that nothing is released). `fate` is a history of what became
  of each notification.
- `LlmClient`: `Ask`, `Respond`, `CloseClient`, `Pause`, `Done`. `Tick` lets a step
  run into the deadline of `process_buyer_message` or, after that, into that of
  its caller. The client of a request is closed after a cancellation too, and an
  exception of that takes the place of the cancellation: the chat then goes on.
- `ShopLogin`: `Goto`, `Settle`, `FillForm`, `AwaitResult`, `SeeCaptcha`,
  `Telling`, `GiveUpLogin`, `Arrive`, `Finish` are `navigate_to_chat` and
  `auto_login`; `NavigationTimesOut` and `TellingTimesOut` the timeout of the whole;
  `Verify`, `Report`, `Reporting`, `AwaitManualLogin`, `Poll`, `SessionExpired`,
  `StartAgain` and `Crash` the loop around it; `LoginAccepted` and `SessionEnds`
  the platform. `page` is what the browser shows, `session` whether the platform
  takes the cookies. `Answers` is what `is_logged_in` may say of a page: it takes
  every error of the browser for a no, on the chat page too.

## The runs

Passing runs:

| Run | Instance | What it checks |
| --- | --- | --- |
| `manager_safety` | 2 shops, capacity 1, queue 2, 2 worker ids, a crash | Capacity, one holder per shop outside the window, no lost `StartShop`, no stray one, started shops are not lost, stopped ones stay stopped, the listener survives, no process spawned over a live one |
| `manager_liveness` | 2 shops that share a worker whose queue holds 1 command, a crash, a deleted row | Started shops run, stopped ones end, the shutdown ends; the maps agree, also after a recovery that died half-way |
| `runtime_worker` | 1 shop, a command loop, 2 loops of the shop, 1 retry | Every running loop is tracked, the runtime leaves no online flag without a loop, polling means online; stops return (but for cancellations that are lost twice), scheduled restarts happen, recovery is not endless without polls in between, browsers left over by a stopped engine are replaced |
| `runtime_requests` | 2 shops, 2 API requests at a time, 2 loops, no retries, no row deleted | No registered context without a loop, a clean stop is final, for concurrent starts and stops and for one engine, stopped with the last running shop while the other may be starting |
| `pipeline_shop` | 2 chats of up to 2 texts before the pipeline's own, 1 loop, AI on or off per cycle, 1 fault or miss | Texts and rows stay with their chat, the escalation log and the session status tell the truth |
| `pipeline_two_workers` | 1 chat of up to 3 texts that may be marked un-watch, 2 loops, no faults | The invariant of the proofs and the ledger with two loops at work on the same message, messages that are seen are recorded, buyers get attention |
| `console_status` | 1 shop, queues of 2 places, 1 failure of the worker, 1 straggler, 2 timers | The online flag and the list of running shops agree with the loop once all has arrived, but for the named exceptions; a shop whose worker died comes back |
| `engine_browsers` | 2 shops, 3 loops (2 of one shop), the command loop, 2 browsers, 1 permit | No browser is lost, doubled, or registered when it is gone, and a late close event displaces no context, but for the named exceptions; no permit is lost |
| `timed_calls` | The timeouts of the code, in units | No failed notification silences the next, no shop is stopped for a login that did not fail, a model that hangs costs no buyer the answer |

Why the bounds are enough: a second shop is what makes workers unequal and
queues hold commands of different shops; a second worker id gives the API a
choice while the first is down; one crash already meets every state of the other
actors, and `generation` makes the second process of an id differ from the
first. In `manager_liveness` the queue is smaller than the shops of the worker,
so that commands are refused and recoveries die half-way. Two loops allow one that
is closing, or whose callback is due, and one that begins; a third is reached by
`runtime_login_pause`. The timers count without a bound of their own, since each
is scheduled by the end of one of these loops. `runtime_requests` leaves deletions
of rows (`NoRowDeleted`) and retries to `runtime_worker`, and its view (`Essentials`
in `MCShopRuntime`) leaves out the variables that decide neither a step nor a
property in this instance: flags, events, other histories, and two counts.
In `pipeline_shop` a second chat is what a text can go astray to, and one fault
already leaves `current` and `shown` apart, the loop in another chat, a message recorded but undecided, a
reply recorded but unsent, or a row without its transfer. In
`pipeline_two_workers` three texts allow a message after the reply to an earlier
one, and two loops that decide, send and store at the same time; its escalations
have a notice and no target, those of `pipeline_shop` both. The two runs share
the ledger, which the proofs carry to any number of everything.

In `console_status` a status queue of two places is full with an event that
contradicts the next one, and with the two events of one loop; a command queue of
two holds a stop and a start, and refuses. One failure of the worker meets every
state, one straggler is what the successor of a stopped loop overlaps with, and two
timers are those of two loops that end within ten seconds.
In `engine_browsers` two browsers are an old and a new one of a shop, or one of
each shop; a launch beyond the bound raises, as a launch may. Its two loops of one shop
are the one that is cancelled and its successor; with one permit a third caller
waits; the loops of one shop are alike, hence the symmetry. In `timed_calls` a unit is 30 s for the login and the notifications
(`Window` 300 s, `NavigationLimit` 180 s, `LoginLimit` 120 s, the time of the form
150 s, the rest rounded up) and 5 s for the chat (`RequestLimit` 30 s and 5 s of
buffer, `CloseLimit` 15 s, `ChatLimit` 40 s, `ProcessLimit` 50 s), and nothing
else bounds it.

`MaxWorkerId`, `MaxCrashes` of the manager, `MaxDeletes`, `MaxTasks`, `MaxLength`,
`Unwatchable`, `MaxFaults`, `MaxFailures`, `MaxStragglers`, `MaxTimers`, `Loops` of
the engine and `MaxBrowsers` are the only bounds that the code does not have. Where there are
proofs all but `MaxTasks` are constants like any other, so the theorems hold for
every value of them.

Deadlock is not checked: the program may stop, and so may a run whose bound of
tasks or of browsers is used up.

## Where code and claims part

Three runs check a sentence that the repository says and the code does not keep;
TLC finds the behaviour.

| Run | Claim | What happens |
| --- | --- | --- |
| `manager_two_holders` | each shop gets an isolated window and directory | a shop is assigned to a second worker while its first one is respawned, and then restored to the first as well |
| `runtime_login_pause` | "Login failed %s times, auto restart paused", after three | each restart goes through `start_shop`, which resets the count |
| `pipeline_guard` | "Skip auto reply ... because human replied after the latest buyer message" | a message that arrives while a reply is being made stands before that reply, which is taken for a human's; it is stored and never answered |

Other surprises of the same kind show in what the passing properties have to
except: a stop in the window of a recovery is undone by it
(`UnracedStopSticks`), a stop before a scheduled restart leaves the timer alone
(`CleanStopSticks`), a loop that is being stopped is no longer tracked and may
have a successor beside it (`RunningLoopsAreTracked`), whose row it then takes
offline (`PollingShopIsOnline`), and a stopped shop whose `StopShop` met a full
queue runs on (`OnlyHeldShopsAreCommanded`). Texts meant for a chat that has left
the list, or that is in the list but whose query timed out without a word ("Session
not found"), or whose click went where it had stood before, go into another one,
and are filed for it (`RightChat`). When the items of a chat cannot be read in their
order, texts of the seller count as later than all of the buyer's, so that an old
one answers a new message, and a chat that the platform marks as un-watch is never
read (`BuyersGetAttention`). A stop whose cancellation was lost to a client that
failed to close leaves a loop that goes on until its timeout (`CleanStopSticks`,
`StopsReturn`). What no property denies: a message that was recorded before a failure is never taken up again, and a session
that a person has taken over (`ChatMonitor.vue` says "会话已转由人工接管") is
answered by the AI as before, which sets its status back.

In the console, a start that the manager refuses leaves the flag set, since
the route sets it first; a loop that ends by itself stays in the list of running
shops, and a start through the API is refused from then on (`ended`). In the engine,
"force killing" in the log of `close_shop` kills nothing: a close that fails or
takes too long leaves a Chrome that no context refers to, and so does a launch that
is cut off, whose window appears later (`lost`). A stop that is cut off may leave
`_playwright` set over a driver that has ended. A notification that is cut off
keeps its reservation, and suppresses the next of its kind for five minutes though
nothing was sent (`SilenceIsExplained`). `navigate_to_chat` logs that it "will try
credentials" when the chat page did not come up (`pdd.py:425`), but they are tried
on the login page only, and the shop is stopped as if its login had failed; and
`is_logged_in` takes every error of the browser for a no, so that a window that is
closed before the check of a good chat page is reported as a failed login
(`LoginFailureIsEarned`). An exception while the client of a cancelled request is
closed takes the place of the cancellation, and the chat goes on past its deadline
(`AnswerSurvivesHangs`).

## Fairness

- `WorkerManager`: weak fairness of the listener's step, of the shutdown's step
  and of the command handling of each worker, because the operating system
  schedules threads and processes, and `queue.get`, `join` and `kill` have
  timeouts. Nothing promises a request, a shutdown or a crash.
- `ShopRuntime`: weak fairness of what ends an await, because every await is
  under `wait_for` or a bounded loop of sleeps; of the timeout of a stop that waits
  for a loop (`WaitTimesOut`); of timers and callbacks, because
  the event loop runs them; of the callers' next steps. A loop that polls is
  promised nothing except that it notices a closed browser (tested in each cycle)
  or a page that is out of order (the login check of every thirtieth cycle).
  `PollSucceeds` and the environment get no fairness.

- `MessagePipeline`: weak fairness of the loop's next step, because each of its
  awaits is under `wait_for`. Nothing promises that a message or an agent comes,
  that a page is reloaded or that a loop begins anew. Nor does it promise that a
  given chat is opened: `OpenedChatsAreRecorded` assumes that it is, again and
  again, since chats that wait for an answer come before all others.
  `BuyersGetAttention` assumes that the AI is on in each cycle, that nothing
  fails, the ordered reading of the page included, and that the chat is never marked
  as un-watch.
- `ShopConsole`: weak fairness of the listener, of the command loop (one command,
  heartbeat or wait after the other, each bounded by a timeout) and of the end of a
  cancelled loop, all of whose awaits are bounded. No request, failure or event
  is promised.
- `BrowserEngine` and `TimedShop` need none: their properties are invariants.

## The proofs

`WorkerManagerProofs` proves, for any finite set of shops, any positive capacity
and queue size and any bounds (`LimitsAssumption`, `ShopsAssumption`):

| Theorem | States | Rests on |
| --- | --- | --- |
| `TypeCorrect` | `Spec => []TypeOK` | one lemma per group of actions |
| `IdsCorrect` | `Spec => []IdsInv`, that is `ProcessesInv` and `SnapshotInv` | types |
| `SpawnsOverTheDead` | `Spec => NoSpawnOverLiveWorker` | `IdsInv` |
| `MapsAgree`, `OneHolder` | `MappedShopsAreHeld`, `UnracedShopHasOneHolder` | `AssignmentInv`, with `HoldersInv` |
| `StopSticks` | `UnracedStopSticks` | `AssignmentInv` |
| `Capacity` | `CapacityRespected` | `AssignmentInv` |
| `RefillCorrect` | `RefillInv` | `Capacity` |
| `Survival` | `ListenerSurvives` | `RefillInv` |
| `Tracking` | `StartedShopsAreTracked` | `Survival`, `AssignmentInv` |
| `HeldAreCommanded`, `OnlyHeldAreCommanded` | `HeldShopsAreCommanded`, `OnlyHeldShopsAreCommanded` | `OrdersInv`, with `IdleInv`, and `AssignmentInv` |

The argument in brief. None of the properties is inductive as it stands. First,
`ProcessesInv` ties the listener's locals to the processes: ids that wait for
their respawn are dead and have no handle, ids not handed out have neither
process nor commands. With it a `Spawn` never hits a live process. Then
`HoldersInv` says that only ids with a handle hold shops and only ids that wait
for their respawn have shops to restore, so that a respawned handle starts empty:
without it a restore could add to a set that is not there. The agreement of the
maps and the single holder follow for shops outside `raced`. The capacity
counts what is held plus what is still to be restored, which is what a restore
moves from one to the other, and needs the sets to be disjoint from what the
API adds in the meantime: it cannot add any, since the lock is held from
`RegisterWorker` on and before that the id has no handle. `RefillInv` bounds the
queue of the worker being refilled by the same sum, from which it follows that a
queue of `MaxShopsPerWorker` places never refuses a restore. The orders in the
queues rest on two lemmas about queues of any length: a command put at the end
settles its own shop and leaves the others' alone (`OrderAppended`), and one taken
from the front is worth after it what it was worth before (`OrderHandled`). What
has to be added is that a new process was told nothing: a process that does not
run has been told nothing, nor has one that is started but not registered yet,
which handles no command because nobody sends it any (`IdleInv`).

The type invariants of the modules with proofs are proved and not run.

`ShopRuntimeProofs` proves every invariant that the runs of `ShopRuntime` check,
for any sets of shops, callers and command loops, any limits and any number of
tasks (`RuntimeAssumption`; the sets need not be finite):

| Theorem | States | Rests on |
| --- | --- | --- |
| `RuntimeTypeCorrect` | `Spec => []TypeOK` | `RetriesInv`: only a loop that is ending has counted past its retries |
| `LoopsTracked`, `CleanStops` | `RunningLoopsAreTracked`, `CleanStopSticks` | `LoopsInv`, with `EndedInv` and `CleanEndInv` |
| `ContextsHaveLoops` | `RegisteredContextHasLoop` | types; inductive as it stands |
| `OnlineShopsHaveLoops` | `OnlineShopHasLoop` | `OnlineInv`, and `LoopsInv` |
| `PollingIsOnline` | `PollingShopIsOnline` | `OrderInv` |

The argument in brief. The steps of loops are reduced to what they may do to the
tables of the runtime (`LoopFrame`, `LoopBrowser`, `LoopOnline`, `LoopShown`), so
that each invariant is proved against four frames and not against fourteen
actions. That a clean stop is final needs more than its statement: the
done callback of the stopped loop is still to come, and schedules a restart unless
the loop ended by the cancellation; `CleanEndInv` says that it did, and
`EndedInv` that nobody cancels it afterwards in vain. `OnlineInv` replaces "some
loop is left" by the loops that will still speak: those that poll, and those that
were cancelled, whose done callback takes the shop offline; a loop that ends
otherwise has said so before. `PollingShopIsOnline` is about the last word in the
row, which is right only if loops come one at a time. `Orderly` states just that
for a shop outside `overlapped`: one live loop, which is the tracked one and the
one that every stop waits for, and no done callback due beside it once it has
run its first step. The last part is where the order of callbacks in the event
loop (`Enter`) is used.

`MessagePipelineProofs` proves for any chats, loops, configurations and bounds
(`PipelineAssumption`):

| Theorem | States | Rests on |
| --- | --- | --- |
| `PipelineTypeCorrect` | `Spec => []TypeOK` | `PlacesInv`: where a loop has a session, a chat on its page and a message |
| `LedgerInvariant` | `Spec => []LedgerInv` | types |
| `PipelineImplementsLedger` | `Spec => ImplementsLedger` | `LedgerInv` |

The argument in brief. The steps of loops are reduced to five kinds (`Rests`,
`Saves`, `Replies`, `Escalates`, `Delivers`), and `LoopSteps` shows that each of
them is one of these, `OutsideSteps` that the others change nothing the ledger
sees: a text of a buyer or an agent adds no delivery, an update of the log does
not change what the log is about. What makes a decision unique is that a loop
which decides or sends has recorded the message itself: `OneHandlerInv` says
that no two loops have the same message in hand, because the second one finds its
dedup key. `DecisionsInv` and `DeliveriesInv` add that a message in the hands of
a deciding loop has no decision, and one in the hands of a sending loop a
decision and no text yet. With them each kind of step is a step of the ledger or
leaves it as it is.

`PipelineChatProofs` goes on from there:

| Theorem | States | Rests on |
| --- | --- | --- |
| `EverythingInItsChat` | `RightChat`, for any number of loops | `ChatInv`, with `ReadInv` |
| `SuccessIsTransferred` | `LogTellsTheTruth`, for one loop | `ChatInv`; inductive beside it |
| `EscalationsShow` | `EscalationShows`, for one loop | `AheadInv`, `ShowsInv` |

The argument in brief. `current` and `shown` may part when a click is broken off
or the page is reloaded. `OnCourse` says that a loop never goes on with its session
then: from its click to the end of the session both are the chat of that session,
and so is all it has in hand, unless the chat has left the list or a switch has
missed it. A step of a loop
leaves its session, turns to another, reads, or goes on (`CourseStep`), and stores
or types only on course. `ReadInv` adds that what it has in hand was written by the
buyer, where it says. For the status, `AheadInv` says that until its decision no
recorded message of the session comes after the pending one, so that a reply is
later than every escalation before it; `ShowsInv` that an escalated session has a
status, and when it says that the AI is at it, a reply to a later message.

`SuccessIsTransferred` and `EscalationsShow` assume `OneLoop`. That is a shop as
`start_shop` leaves it; two loops meet where one is being stopped, or a recovery has
given a shop to two workers. Then `_update_escalation_log` may take the row of the
other loop, and a reply to an older message may set the status back after a newer
one was escalated. `RightChat` needs no such thing.

`TimedShopProofs` proves the invariants of `TimedShop` for any timeouts, limits
and windows (`NotifierAssumption`, `LimitsAssumption`, `LlmAssumption`):

| Theorem | States | Rests on |
| --- | --- | --- |
| `FailuresDoNotSilence` | `SilenceIsExplained` | `NotifierInv` |
| `HangsAreSurvived` | `AnswerSurvivesHangs` | `LlmInv` |
| `FailuresAreEarned` | `LoginFailureIsEarned` | `LoginInv` |

The argument in brief. `NotifierInv` says that no reservation ever has the fate
"failed", because a failure releases it, and that the time left to
`navigate_to_chat` is a time. `LlmInv` follows the two deadlines: as long as no
client makes trouble, requests and pauses run under the first one only, and it is
exactly at the first one, with a cancelled request, that a client is closed under
the second, which is later (`ChatLimit < ProcessLimit` is the one fact about the
timeouts that it takes). `LoginInv` adds to the property where the form stands at
each place of the login: the login page is shown only without a session, the
result is awaited only after the form was sent, and who has credentials leaves the
login page only by way of the form. The exception for a check of the chat page that
failed is the code's: `misjudged` records that the last one did.

`ShopConsoleProofs` proves for queues of any size and any bounds
(`BoundsAssumption`):

| Theorem | States | Rests on |
| --- | --- | --- |
| `RunningShopsAreServed` | `ShownShopIsServed` | `StateInv`, `ListInv` |
| `QuietShopsAreOffline` | `QuietShopIsOffline` | `StateInv`, `FlagInv` |
| `ServedShopsAreOnline` | `ServedShopIsOnline` | `StateInv`, `ServedInv` |

The argument in brief. `StateInv` holds the types, and what the death of a worker
takes with it. `ListInv` adds to the first property that the last command in the
queue about a listed shop is its `StartShop`: without it a stop that is handled
after the start would leave a listed shop that nobody serves. The second property
speaks of a state where all has arrived; what holds before that is `FlagInv`. Its
first part says that an "online" that is still in the queue of a shop whose loop is
over is followed by an "offline" (`Overruled`), as long as no other end of a loop is
still to speak (`Silent`). Its second part says that the flag of such a shop is off,
or an "offline" is on its way, unless a start is. Both except the shops for which the
model has noted a reason (`falseOnline`), most of all a dropped event. `Emitted`,
which says what a bounded publication does to the queue, carries all of it.

`ServedShopIsOnline`, too, speaks of a state where all has arrived. Before that,
`ServedInv` says of a loop that polls that every "offline" in the queue is followed by
an "online" (`Renewed`), and that the flag is set, or an "online" is in the queue, or
a route is about to take the shop off the list, or has done so. A loop beside one
that is still to end is marked from its start (`falseOffline`), and so is one whose
"online" was dropped behind an older "offline"; for every other loop the order of the
queue decides.

`BrowserEngineProofs` proves for any finite or infinite sets of shops and loops and
any numbers of browsers and permits (`ParametersAssumption`):

| Theorem | States | Rests on |
| --- | --- | --- |
| `BrowsersReachable` | `BrowsersAreReachable` | `OwnersInv` |
| `OneBrowser` | `OneBrowserPerProfile` | `OwnersInv`, `LoopInv` |
| `RegisteredRun` | `RegisteredBrowsersRun` | part of `OwnersInv` |
| `OnlyLateCloses` | `OnlyLateClosesDisplace` | `OwnersInv`, `RefsInv` |
| `PermitsAreAccounted` | `PermitsAddUp` | `PermitInv`, `LoopInv`, `QueueInv` |
| `EngineTypeCorrect` | `TypeOK` | all of these |

The argument in brief. The invariant has five parts, each inductive with those
before it. `TypeInv` is weaker than `TypeOK`, which says of browsers what only
`RefsInv` knows. `LoopInv` says which call a loop may be in: a loop that opens is
tracked, one that was cancelled or ends closes, and a shop has one tracked loop.
`QueueInv`: who waits for the semaphore does so once. `RefsInv`: a call and the
registry refer to browsers of their own shop, and who launches one has found none
registered. `OwnersInv` is the heart: it names for each Chrome who answers for it.
One that is being launched has its loop, one that is open is registered or being
closed, and a close event is of one that was registered last or is being closed,
all but those in `lost`. The five properties are read off it. The steps of calls
are first reduced to a few kinds (`Kinds`), so that each part is proved against
those. `PermitInv` counts: the free permits and the calls inside make up
`MaxOpening` after every way out, be it an answer, a failure, a timeout or a
cancellation, also of a call that was just handed a permit.

What stays with TLC: all liveness (`StartedShopsRun`, `StoppedShopsEnd`,
`ShutdownCompletes`, `EndlessRecoveryPolls`, `StopsReturn`, `StaleBrowsersGo`,
`ScheduledRestartsHappen`, `OpenedChatsAreRecorded`, `BuyersGetAttention`,
`HeldShopComesBack`), which rests on fairness and hence on
`ENABLED`, out of the prover's reach; and the three claims that the code does not
keep. Every invariant and every action property that a passing run checks is
proved, `LogTellsTheTruth` and `EscalationShows` for one loop per shop, which is
also the instance of their run.

## What is left out

- The rules of escalation: a message matches them or not.
- What the language model is told: timestamps, the history and the prompt. The
  messages of one fetch share a timestamp, so that their order in the history is up
  to the database.
- In `WorkerManager`: errors of `process.start`. One at `worker_manager.py:335` ends
  the listener thread like a command that a fresh queue refuses, but with the shops
  of that worker in no map; one in `assign_shop` fails the request.
- In `ShopRuntime`: the steps inside the engine, which are in `BrowserEngine`. The
  exit of a worker (`ExitWorker`) loses no cancellation: `asyncio.run` would wait
  for such a loop without a limit, and the manager kills the process.
- In `MessagePipeline`: texts of the platform's robot and of the system, cards,
  messages of a fetch that cannot be parsed, messages without an index that are
  counted by their place among those loaded, ids of sessions that are made from the
  name of the buyer or of the place in the list (`pdd.py:130-132`), which give a
  message two records when they change, and which no query may find (the effect of
  `Misses`), a chat that is still loading when it is read, a second session row that two loops
  may create for a new buyer, and rows of sessions that are deleted. A cycle takes
  its sessions in any order, and with several loops an update of the escalation
  log may take the row of another loop even if it is older. An escalation without
  a notice is not in the instances, only in the proofs.
- In `ShopConsole`: a second worker and the window of a recovery, which are in
  `WorkerManager`; a turn of the listener is one step; writes of rows succeed.
- In `BrowserEngine`: the driver sends its messages in order, and ends its browsers
  without announcing it. Pages, `cleanup_extra_pages` and `get_memory_info` change
  no state of the engine.
- In `TimedShop`: the notification about a code sent by SMS has the shape of the
  one about a captcha; those about the online switch and the session timeout the
  shape of the others. A step takes no time or all it may, nothing in between,
  which is where sums of timeouts differ most. The formats of the three webhooks
  and the switch to online status are left out.
- Failures of the database: writes of rows succeed.
- The `proxy` argument of `open_shop` and what `force_online` does to the page.
- The race of `asyncio.wait_for` in Python before 3.12 that may swallow a
  cancellation which arrives together with the result.
- `put(timeout=1)` on a full command queue is an instant test of its length.
- `MAX_SHOPS`, which no code enforces.
- Front end, migrations, seeds, crypto and developer tools have no state that
  these questions are about.

## The plan

1. `WorkerManager`, its runs and proofs. *Done.*
2. `ShopRuntime`, its runs and proofs. *Done.*
3. `MessagePipeline` and `MessageLedger`, their runs and proofs. *Done.* Left:
   two rows of one session, and the order of the history for the language model.
4. `Notifier`, `LlmClient`, `ShopLogin`, composed in `TimedShop`, with proofs. *Done.*
5. `BrowserEngine`: open, close, restart, stop and the late close event, with
   proofs. *Done.*
6. `ShopConsole`: the status queue with its bound, heartbeats, the listener, and
   `is_online` as written by the API and the runtime, with proofs. *Done.*
7. `EscalationRules` as functions, checked against a reference over bounded inputs.
8. `Pddcs`: the manager, workers with a reduced runtime and the rows composed
   beyond one shop and one worker; `ShopAssignment`, the abstract promise of
   the manager to its callers, as a refinement of `WorkerManager` outside the
   window of a recovery.
9. Proofs: every invariant that a passing run checks. *Done.* Left: the refinement
   of `ShopAssignment`, once it is written; `LogTellsTheTruth` and
   `EscalationShows` with several loops, under a condition on how they overlap.
