--------------------------- MODULE BrowserEngine ---------------------------
(***************************************************************************)
(* backend/engines/playwright_engine.py: the Chrome windows of one worker  *)
(* process, for each shop one persistent context and profile directory.    *)
(* Its callers run in one event loop: the loops of the shops, which open,  *)
(* restart and in the end close the browser of their shop, and the command *)
(* loop, which closes browsers and stops the engine.                       *)
(*                                                                         *)
(* Every call may be cut off where it waits: by the timeout its caller     *)
(* puts around it (70 s around open_shop, restart_shop and stop; 15 s      *)
(* around close_shop, which is less than close_shop itself allows), or by  *)
(* the cancellation of its loop.  What it asked of the driver goes on.     *)
(*                                                                         *)
(* A step runs from one await to the next.  The driver and the browsers    *)
(* are external.  What the driver sends arrives in the order it was sent,  *)
(* so the close event of a context precedes the answer to a later request. *)
(***************************************************************************)
EXTENDS Integers, FiniteSets, SequencesExt

CONSTANTS
    Shops,
    Loops,          \* bound: the loops that run at the same time, old ones too
    Commands,       \* the command loop
    ShopOf,         \* the shop of each loop
    MaxBrowsers,    \* bound: the browsers that are ever launched
    MaxOpening      \* MAX_CONCURRENT_SHOPS

ASSUME ParametersAssumption ==
    /\ ShopOf \in [Loops -> Shops]
    /\ Commands \notin Loops
    /\ MaxBrowsers \in Nat
    /\ MaxOpening \in Nat \ {0}

VARIABLES
    \* the engine
    contexts,       \* _contexts: the browser registered for a shop, or None
    playwright,     \* _playwright is set
    permits,        \* the value of _semaphore
    waiters,        \* its queue
    \* the driver and its browsers
    driver,         \* the driver process runs
    chrome,         \* the browsers: their shop and state, "launching", "open",
                    \* "unheard" without a listener, or "gone"
    closeEvents,    \* those whose close event has not been handled
    \* the callers
    loop,           \* "off", "setup" before open_shop, "up" after it, "ending",
                    \* or "cancelled" and thereby forgotten
    call,           \* what each caller waits for
    \* history variables: they record, and no action reads them
    lost,           \* browsers whose call was cut off, whose close failed, or
                    \* which the close event of such a browser unregistered
    stale           \* browsers that ended with the driver

engine  == <<contexts, playwright, permits, waiters>>
system  == <<driver, chrome, closeEvents>>
history == <<lost, stale>>
vars == <<engine, system, loop, call, history>>

-----------------------------------------------------------------------------
(* Helpers *)

None == 0
Callers == Loops \cup {Commands}
Browsers == DOMAIN chrome

Alive(b) == chrome[b].state # "gone"

Tracked(s) == \E l \in Loops : ShopOf[l] = s /\ loop[l] \in {"setup", "up", "ending"}

At(c, place) == call[c].at = place

Idle == [at |-> "idle"]

\* The caller waits at a place of a call for a shop, and does then what is next;
\* a stop of the engine has shops left to close.
Place(place, s, b, next, left) ==
    [at |-> place, shop |-> s, browser |-> b, next |-> next, left |-> left]

Set(b, state) == chrome' = [chrome EXCEPT ![b].state = state]

\* The call is over, and with close_shop of its finally clause the loop.
LoopAfter(c) ==
    loop' = IF call[c].next = "end" THEN [loop EXCEPT ![c] = "off"] ELSE loop

\* The driver is gone, and its browsers with it.
DriverEnds ==
    /\ driver' = FALSE
    /\ chrome' = [b \in Browsers |-> IF Alive(b) THEN [chrome[b] EXCEPT !.state = "gone"]
                                                ELSE chrome[b]]
    /\ stale' = stale \cup {b \in Browsers : Alive(b)}

-----------------------------------------------------------------------------
Init ==
    /\ contexts = [s \in Shops |-> None]
    /\ playwright = FALSE
    /\ permits = MaxOpening
    /\ waiters = <<>>
    /\ driver = FALSE
    /\ chrome = <<>>
    /\ closeEvents = {}
    /\ loop = [l \in Loops |-> "off"]
    /\ call = [c \in Callers |-> Idle]
    /\ lost = {}
    /\ stale = {}

-----------------------------------------------------------------------------
(* The loops of the shops *)

\* start_shop refuses while the loop of the shop is tracked.
Begin(l) ==
    /\ loop[l] = "off"
    /\ ~Tracked(ShopOf[l])
    /\ loop' = [loop EXCEPT ![l] = "setup"]
    /\ UNCHANGED <<engine, system, call, history>>

\* _ensure_engine_started goes by _playwright.
Start(l) ==
    /\ loop[l] = "setup" /\ At(l, "idle")
    /\ ~playwright
    /\ playwright' = TRUE
    /\ driver' = TRUE
    /\ UNCHANGED <<contexts, permits, waiters, chrome, closeEvents, loop, call, history>>

-----------------------------------------------------------------------------
(* open_shop *)

Raise(c) ==
    /\ call' = [call EXCEPT ![c] = Idle]
    /\ UNCHANGED <<permits, chrome>>

\* Inside the semaphore, which a return leaves again.  By now the engine may have
\* been stopped.  At the bound a launch raises.
Launch(c, s) ==
    IF playwright /\ Len(chrome) < MaxBrowsers
      THEN /\ permits' = permits - 1
           /\ chrome' = Append(chrome, [shop |-> s, state |-> "launching"])
           /\ call' = [call EXCEPT ![c] = Place("launching", s, Len(chrome'), "return", {})]
      ELSE Raise(c)

\* A free semaphore does not suspend its caller.
Acquire(c, s) ==
    IF permits > 0 /\ waiters = <<>>
      THEN /\ Launch(c, s)
           /\ UNCHANGED waiters
      ELSE /\ waiters' = Append(waiters, c)
           /\ call' = [call EXCEPT ![c] = Place("waiting", s, None, "return", {})]
           /\ UNCHANGED <<permits, chrome>>

\* Mutant: the registry is not read.
EnterUnread(c, s) ==
    IF playwright THEN Acquire(c, s) ELSE Raise(c) /\ UNCHANGED waiters

\* The first part: a registered context is returned, with the page it has or
\* gets, and a stopped engine raises.
Enter(c, s) ==
    IF contexts[s] # None
      THEN /\ call' = [call EXCEPT ![c] = Place("page", s, contexts[s], "return", {})]
           /\ UNCHANGED <<permits, waiters, chrome>>
    ELSE IF playwright THEN Acquire(c, s) ELSE Raise(c) /\ UNCHANGED waiters

Open(l) ==
    /\ loop[l] = "setup" /\ At(l, "idle")
    /\ playwright
    /\ loop' = [loop EXCEPT ![l] = "up"]
    /\ Enter(l, ShopOf[l])
    /\ UNCHANGED <<contexts, playwright, driver, closeEvents, history>>

\* The semaphore admits its first waiter, which reads the registry again.
Admit ==
    /\ waiters # <<>> /\ permits > 0
    /\ waiters' = Tail(waiters)
    /\ LET c == Head(waiters)
           s == call[c].shop
       IN  IF contexts[s] # None
             THEN /\ permits' = permits - 1
                  /\ call' = [call EXCEPT ![c] = Place("preparing", s, contexts[s], "return", {})]
                  /\ UNCHANGED chrome
             ELSE Launch(c, s)
    /\ UNCHANGED <<contexts, playwright, driver, closeEvents, loop, history>>

\* The context is registered, its cookies are loaded and a page is made, all
\* inside the semaphore.
Launched(c) ==
    /\ At(c, "launching")
    /\ driver
    /\ chrome[call[c].browser].state = "launching"
    /\ Set(call[c].browser, "open")
    /\ contexts' = [contexts EXCEPT ![call[c].shop] = call[c].browser]
    /\ call' = [call EXCEPT ![c].at = "preparing"]
    /\ UNCHANGED <<playwright, permits, waiters, driver, closeEvents, loop, history>>

\* Mutant: the semaphore is taken and given back by hand, not by async with.
LaunchFailsInside(c) ==
    /\ At(c, "launching")
    /\ Set(call[c].browser, "gone")
    /\ call' = [call EXCEPT ![c] = Idle]
    /\ UNCHANGED <<contexts, playwright, permits, waiters, driver, closeEvents, loop, history>>

\* The launch raises, and there is no browser.
LaunchFails(c) ==
    /\ At(c, "launching")
    /\ Set(call[c].browser, "gone")
    /\ permits' = permits + 1
    /\ call' = [call EXCEPT ![c] = Idle]
    /\ UNCHANGED <<contexts, playwright, waiters, driver, closeEvents, loop, history>>

\* Mutant: a page that cannot be made unregisters its context.
PreparedOrForgotten(c) ==
    /\ At(c, "preparing")
    /\ contexts' = [contexts EXCEPT ![call[c].shop] = None]
    /\ permits' = permits + 1
    /\ call' = [call EXCEPT ![c] = Idle]
    /\ UNCHANGED <<playwright, waiters, system, loop, history>>

\* The page is there or its creation raised; errors of the cookies are logged.
Prepared(c) ==
    /\ At(c, "preparing")
    /\ permits' = permits + 1
    /\ call' = [call EXCEPT ![c] = Idle]
    /\ UNCHANGED <<contexts, playwright, waiters, system, loop, history>>

GotPage(c) ==
    /\ At(c, "page")
    /\ call' = [call EXCEPT ![c] = Idle]
    /\ UNCHANGED <<engine, system, loop, history>>

-----------------------------------------------------------------------------
(* close_shop, alone and as a part of restart_shop and stop *)

\* Where close_shop returns to: its caller, the five seconds of restart_shop, or
\* the list of shops that stop has taken.
Resume(c, s, next, left) ==
    CASE next = "reopen" -> Place("pausing", s, None, "return", {})
      [] next = "stop"   -> Place("stopping", s, None, "stop", left)
      [] OTHER           -> Idle

\* The context is unregistered first; then its cookies are saved.
Close(c, s, next, left) ==
    /\ contexts' = [contexts EXCEPT ![s] = None]
    /\ call' = [call EXCEPT ![c] = IF contexts[s] = None
                                     THEN Resume(c, s, next, left)
                                     ELSE Place("saving", s, contexts[s], next, left)]

\* The crash recovery of a loop, which may have crashed before open_shop.
Restart(l) ==
    /\ loop[l] \in {"setup", "up"} /\ At(l, "idle")
    /\ loop' = [loop EXCEPT ![l] = "setup"]
    /\ Close(l, ShopOf[l], "reopen", {})
    /\ UNCHANGED <<playwright, permits, waiters, system, history>>

Reopen(c) ==
    /\ At(c, "pausing")
    /\ Enter(c, call[c].shop)
    /\ UNCHANGED <<contexts, playwright, driver, closeEvents, loop, history>>

\* The finally clause of a loop that comes to its end or was cancelled.
Finally(l) ==
    /\ loop[l] \in {"setup", "up", "cancelled"} /\ At(l, "idle")
    /\ Close(l, ShopOf[l], "end", {})
    /\ loop' = [loop EXCEPT ![l] = IF contexts[ShopOf[l]] = None THEN "off"
                                   ELSE IF @ = "cancelled" THEN @ ELSE "ending"]
    /\ UNCHANGED <<playwright, permits, waiters, system, history>>

\* stop_shop of the runtime, if no loop is tracked or a cancelled one does not
\* end in time.
CloseShop(s) ==
    /\ At(Commands, "idle")
    /\ ~Tracked(s) \/ \E l \in Loops : ShopOf[l] = s /\ loop[l] = "cancelled"
    /\ Close(Commands, s, "return", {})
    /\ UNCHANGED <<playwright, permits, waiters, system, loop, history>>

\* Mutant: the close is requested and not awaited.
SavedOnly(c) ==
    /\ At(c, "saving")
    /\ call' = [call EXCEPT ![c] = Resume(c, call[c].shop, call[c].next, call[c].left)]
    /\ LoopAfter(c)
    /\ UNCHANGED <<engine, system, history>>

\* The cookies are saved, or an error of that is logged.
Saved(c) ==
    /\ At(c, "saving")
    /\ call' = [call EXCEPT ![c].at = "closing"]
    /\ UNCHANGED <<engine, system, loop, history>>

\* The context has closed; its close event was handled before.
Closed(c) ==
    /\ At(c, "closing")
    /\ chrome[call[c].browser].state = "gone"
    /\ call[c].browser \notin closeEvents
    /\ call' = [call EXCEPT ![c] = Resume(c, call[c].shop, call[c].next, call[c].left)]
    /\ LoopAfter(c)
    /\ UNCHANGED <<engine, system, history>>

\* It raises or takes too long: this is logged as a forced kill, and nothing is
\* killed.
CloseFails(c) ==
    /\ At(c, "closing")
    /\ lost' = lost \cup {call[c].browser}
    /\ call' = [call EXCEPT ![c] = Resume(c, call[c].shop, call[c].next, call[c].left)]
    /\ LoopAfter(c)
    /\ UNCHANGED <<engine, system, stale>>

-----------------------------------------------------------------------------
(* stop *)

\* The runtime stops the engine when it tracks no loop.
Stop ==
    /\ At(Commands, "idle")
    /\ playwright
    /\ \A s \in Shops : ~Tracked(s)
    /\ call' = [call EXCEPT ![Commands] =
                  Place("stopping", CHOOSE s \in Shops : TRUE, None, "stop",
                        {s \in Shops : contexts[s] # None})]
    /\ UNCHANGED <<engine, system, loop, history>>

CloseNext ==
    /\ At(Commands, "stopping")
    /\ \E s \in call[Commands].left : Close(Commands, s, "stop", call[Commands].left \ {s})
    /\ UNCHANGED <<playwright, permits, waiters, system, loop, history>>

\* The driver ends its browsers, and does not announce it.
Stopped ==
    /\ At(Commands, "stopping")
    /\ call[Commands].left = {}
    /\ playwright' = FALSE
    /\ DriverEnds
    /\ call' = [call EXCEPT ![Commands] = Idle]
    /\ UNCHANGED <<contexts, permits, waiters, closeEvents, loop, lost>>

-----------------------------------------------------------------------------
(* Calls that are cut off *)

\* The semaphore is left in any case.  A launch, the saving of cookies and a
\* close leave a browser behind; a stop may leave a driver that has ended, with
\* _playwright set.
CutOff(c) ==
    /\ ~At(c, "idle")
    /\ call' = [call EXCEPT ![c] = Idle]
    /\ waiters' = RemoveFirst(waiters, c)
    /\ permits' = IF call[c].at \in {"launching", "preparing"} THEN permits + 1 ELSE permits
    /\ lost' = IF call[c].at \in {"launching", "saving", "closing"}
                 THEN lost \cup {call[c].browser} ELSE lost
    /\ IF At(c, "stopping") /\ call[c].left = {}
         THEN DriverEnds \/ UNCHANGED <<driver, chrome, stale>>
         ELSE UNCHANGED <<driver, chrome, stale>>
    /\ UNCHANGED <<contexts, playwright, closeEvents>>

\* A timeout of the caller.
TimesOut(c) ==
    /\ CutOff(c)
    /\ LoopAfter(c)

\* stop_shop cancels the loop, which is not tracked any more.
Cancel(l) ==
    /\ loop[l] \in {"setup", "up", "ending"}
    /\ IF At(l, "idle") THEN UNCHANGED <<engine, system, call, history>> ELSE CutOff(l)
    /\ loop' = [loop EXCEPT ![l] = IF @ = "ending" THEN "off" ELSE "cancelled"]

-----------------------------------------------------------------------------
(* The driver and the browsers *)

\* A launch that was cut off succeeds; the engine does not listen to its browser.
Appears(b) ==
    /\ chrome[b].state = "launching" /\ b \in lost
    /\ Set(b, "unheard")
    /\ UNCHANGED <<engine, driver, closeEvents, loop, call, history>>

\* A browser closes: it was asked to, its user closed it, or it crashed.
Ends(b) ==
    /\ chrome[b].state \in {"open", "unheard"}
    /\ Set(b, "gone")
    /\ closeEvents' = IF chrome[b].state = "open" THEN closeEvents \cup {b} ELSE closeEvents
    /\ UNCHANGED <<engine, driver, loop, call, history>>

\* Mutant: the handler is never connected to the event.
ContextClosedUnheard(b) ==
    /\ b \in closeEvents
    /\ closeEvents' = closeEvents \ {b}
    /\ UNCHANGED <<engine, driver, chrome, loop, call, history>>

\* _on_context_closed unregisters the context of the shop, whichever it is.
ContextClosed(b) ==
    /\ b \in closeEvents
    /\ closeEvents' = closeEvents \ {b}
    /\ contexts' = [contexts EXCEPT ![chrome[b].shop] = None]
    /\ lost' = lost \cup ({contexts[chrome[b].shop]} \ {None, b})
    /\ UNCHANGED <<playwright, permits, waiters, driver, chrome, loop, call, stale>>

-----------------------------------------------------------------------------
LoopStep(l) == Begin(l) \/ Start(l) \/ Open(l) \/ Restart(l) \/ Finally(l) \/ Cancel(l)

CallStep(c) ==
    \/ Launched(c) \/ LaunchFails(c) \/ Prepared(c) \/ GotPage(c)
    \/ Reopen(c) \/ Saved(c) \/ Closed(c) \/ CloseFails(c)
    \/ TimesOut(c)

CommandStep == Stop \/ CloseNext \/ Stopped \/ \E s \in Shops : CloseShop(s)

BrowserStep(b) == Appears(b) \/ Ends(b) \/ ContextClosed(b)

Next ==
    \/ \E l \in Loops : LoopStep(l)
    \/ \E c \in Callers : CallStep(c)
    \/ Admit
    \/ CommandStep
    \/ \E b \in Browsers : BrowserStep(b)

Spec == Init /\ [][Next]_vars

-----------------------------------------------------------------------------
(* Properties *)

TypeOK ==
    /\ contexts \in [Shops -> 0..MaxBrowsers]
    /\ {playwright, driver} \subseteq BOOLEAN
    /\ permits \in 0..MaxOpening
    /\ waiters \in Seq(Loops)
    /\ chrome \in Seq([shop : Shops, state : {"launching", "open", "unheard", "gone"}])
    /\ Len(chrome) <= MaxBrowsers
    /\ closeEvents \cup lost \cup stale \subseteq Browsers
    /\ loop \in [Loops -> {"off", "setup", "up", "ending", "cancelled"}]
    /\ \A c \in Callers : call[c].at \in {"launching", "saving", "closing"} =>
          call[c].browser \in Browsers

\* A call has the browser in its hands, until its outcome is known.
Held(b) == \E c \in Callers : ~At(c, "idle") /\ call[c].browser = b

Closing(b) == \E c \in Callers : (At(c, "saving") \/ At(c, "closing")) /\ call[c].browser = b

\* No Chrome window runs on unnoticed: the browser of every launch is
\* registered or in the hands of a call, unless the call was cut off, its close
\* failed, or the close event of such a browser unregistered it.
BrowsersAreReachable ==
    \A b \in Browsers : Alive(b) => b \in lost \/ Held(b) \/ contexts[chrome[b].shop] = b

\* A profile directory has one Chrome at a time, but for these and for one that
\* is being closed: a restart or the next loop of a shop launches no second one,
\* though the next loop does not wait until its predecessor has closed.
OneBrowserPerProfile ==
    \A b, d \in {b \in Browsers \ lost : Alive(b) /\ ~Closing(b)} :
        chrome[b].shop = chrome[d].shop => b = d

\* A registered browser runs, or its close event will unregister it, unless it
\* ended with the driver under an engine that was being stopped.
RegisteredBrowsersRun ==
    \A s \in Shops : LET b == contexts[s] IN
        b # None => chrome[b].state = "open" \/ b \in closeEvents \cup stale

\* The close event of an old context unregisters a new one only while a call is
\* still closing the old one, or after such a call was cut off or failed: a
\* restart never loses the context it opens to the event of the one it closed.
OnlyLateClosesDisplace ==
    \A b \in closeEvents :
        contexts[chrome[b].shop] \in {None, b} \/ Closing(b) \/ b \in lost \cup stale

\* The semaphore never loses a permit, which would block the opening of every shop
\* of the worker, nor gains one: those that are free and the calls that will return
\* theirs make up all, through failures, timeouts and cancellations, also of a call
\* that waited and was just admitted.
Insiders == {c \in Callers : At(c, "launching") \/ At(c, "preparing")}

PermitsAddUp == permits + Cardinality(Insiders) = MaxOpening
=============================================================================
