------------------------ MODULE BrowserEngineProofs ------------------------
(***************************************************************************)
(* Theorems about BrowserEngine, for any shops and loops, any number of    *)
(* permits and any bound of browsers.                                      *)
(***************************************************************************)
EXTENDS BrowserEngine, SequenceTheorems, FiniteSetTheorems, TLAPS

-----------------------------------------------------------------------------
(* Types, and what the loops are at *)

Openings == {"page", "waiting", "launching", "preparing"}
Closings == {"saving", "closing"}
Holding  == {"launching", "saving", "closing"}
Inside   == {"launching", "preparing"}
TrackedAt == {"setup", "up", "ending"}

\* Stop names a shop that nobody reads.
Named == Shops \cup {CHOOSE s \in Shops : TRUE}

Calls == {Idle} \cup [at : Openings \cup Closings \cup {"pausing", "stopping"},
                      shop : Named, browser : Nat,
                      next : {"return", "reopen", "end", "stop"}, left : SUBSET Shops]

TypeInv ==
    /\ contexts \in [Shops -> Nat]
    /\ playwright \in BOOLEAN /\ driver \in BOOLEAN
    /\ chrome \in Seq([shop : Shops, state : {"launching", "open", "unheard", "gone"}])
    /\ Len(chrome) <= MaxBrowsers
    /\ loop \in [Loops -> {"off", "setup", "up", "ending", "cancelled"}]
    /\ call \in [Callers -> Calls]

\* Only a tracked loop opens; a loop that is ending or was cancelled closes.
LoopAt(l) ==
    \/ call[l].at = "idle" /\ loop[l] # "ending"
    \/ /\ call[l].at \in Openings \cup {"pausing"}
       /\ call[l].next = "return"
       /\ loop[l] \in {"setup", "up"}
       /\ call[l].shop = ShopOf[l]
    \/ /\ call[l].at \in Closings
       /\ \/ call[l].next = "reopen" /\ loop[l] = "setup"
          \/ call[l].next = "end" /\ loop[l] \in {"ending", "cancelled"}
       /\ call[l].shop = ShopOf[l]

CommandsAt ==
    \/ call[Commands].at \in {"idle", "stopping"}
    \/ call[Commands].at \in Closings /\ call[Commands].next \in {"return", "stop"}

OneTracked ==
    \A l, m \in Loops :
        ShopOf[l] = ShopOf[m] /\ loop[l] \in TrackedAt /\ loop[m] \in TrackedAt => l = m

LoopInv == OneTracked /\ CommandsAt /\ \A l \in Loops : LoopAt(l)

Distinct(q) == \A i, j \in 1..Len(q) : q[i] = q[j] => i = j

\* Those who wait for the semaphore wait once.
QueueInv ==
    /\ waiters \in Seq(Loops)
    /\ \A i \in 1..Len(waiters) : call[waiters[i]].at = "waiting"
    /\ Distinct(waiters)

\* Calls and registry refer to browsers of their shop, and who launches one has found
\* none registered.
RefsInv ==
    /\ \A c \in Callers : call[c].at \in Holding =>
          call[c].browser \in Browsers /\ chrome[call[c].browser].shop = call[c].shop
    /\ \A l \in Loops : call[l].at = "launching" => contexts[ShopOf[l]] = None
    /\ \A s \in Shops : contexts[s] # None =>
          contexts[s] \in Browsers /\ chrome[contexts[s]].shop = s
    /\ closeEvents \cup lost \cup stale \subseteq Browsers

\* Only one caller moves.
Only(c) == \A d \in Callers \ {c} : call'[d] = call[d]

LEMMA Places ==
  ASSUME NEW at, NEW s, NEW b, NEW next, NEW left
  PROVE  LET p == Place(at, s, b, next, left)
         IN  p.at = at /\ p.shop = s /\ p.browser = b /\ p.next = next /\ p.left = left
BY DEF Place

LEMMA Typed ==
  ASSUME NEW at \in Openings \cup Closings \cup {"pausing", "stopping"}, NEW s \in Named,
         NEW b \in Nat, NEW next \in {"return", "reopen", "end", "stop"},
         NEW left \in SUBSET Shops
  PROVE  Place(at, s, b, next, left) \in Calls
BY DEF Place, Calls

LEMMA Callable == Loops \subseteq Callers /\ Commands \in Callers /\ Commands \notin Loops
BY ParametersAssumption DEF Callers

\* A caller changes its place.
LEMMA Moved ==
  ASSUME TypeInv, NEW c \in Callers, NEW p \in Calls, call' = [call EXCEPT ![c] = p]
  PROVE  call' \in [Callers -> Calls] /\ call'[c] = p /\ Only(c)
BY DEF TypeInv, Only

\* A launch adds a browser.
LEMMA Added ==
  ASSUME TypeInv, NEW s \in Shops, Len(chrome) < MaxBrowsers,
         chrome' = Append(chrome, [shop |-> s, state |-> "launching"])
  PROVE  /\ chrome' \in Seq([shop : Shops, state : {"launching", "open", "unheard", "gone"}])
         /\ Len(chrome) \in Nat /\ Len(chrome') = Len(chrome) + 1 /\ Len(chrome') <= MaxBrowsers
         /\ Browsers = 1..Len(chrome) /\ Browsers' = 1..Len(chrome) + 1
         /\ \A b \in Browsers : chrome'[b] = chrome[b]
         /\ chrome'[Len(chrome) + 1] = [shop |-> s, state |-> "launching"]
<1>1. [shop |-> s, state |-> "launching"]
        \in [shop : Shops, state : {"launching", "open", "unheard", "gone"}]
  OBVIOUS
<1> QED BY <1>1, AppendProperties, LenProperties, ParametersAssumption DEF TypeInv, Browsers

\* The part of open_shop up to its first await.
LEMMA LaunchTaken ==
  ASSUME TypeInv, NEW c \in Callers, NEW s \in Shops, Launch(c, s)
  PROVE  /\ call' \in [Callers -> Calls] /\ Only(c)
         /\ \/ call'[c] = Idle /\ UNCHANGED <<chrome, permits>>
            \/ /\ playwright /\ Len(chrome) < MaxBrowsers
               /\ permits' = permits - 1
               /\ chrome' = Append(chrome, [shop |-> s, state |-> "launching"])
               /\ call'[c].at = "launching" /\ call'[c].shop = s /\ call'[c].next = "return"
               /\ call'[c].browser = Len(chrome) + 1
<1>1. CASE playwright /\ Len(chrome) < MaxBrowsers
  <2>1. Len(chrome') = Len(chrome) + 1 /\ Len(chrome') \in Nat
    BY <1>1, Added DEF Launch
  <2>2. Place("launching", s, Len(chrome'), "return", {}) \in Calls
    BY <2>1, Typed DEF Named, Openings
  <2> QED BY <1>1, <2>1, <2>2, Moved, Places DEF Launch
<1>2. CASE ~(playwright /\ Len(chrome) < MaxBrowsers)
  <2>1. Idle \in Calls
    BY DEF Calls
  <2> QED BY <1>2, <2>1, Moved DEF Launch, Raise
<1> QED BY <1>1, <1>2

LEMMA Entered ==
  ASSUME TypeInv, NEW c \in Callers, NEW s \in Shops, Enter(c, s)
  PROVE  /\ call' \in [Callers -> Calls] /\ Only(c)
         /\ \/ call'[c] = Idle /\ UNCHANGED <<chrome, permits, waiters>>
            \/ /\ call'[c].at \in {"page", "waiting"}
               /\ call'[c].shop = s /\ call'[c].next = "return"
               /\ waiters' = IF call'[c].at = "waiting" THEN Append(waiters, c) ELSE waiters
               /\ UNCHANGED <<chrome, permits>>
            \/ /\ contexts[s] = None /\ permits > 0
               /\ playwright /\ Len(chrome) < MaxBrowsers
               /\ permits' = permits - 1 /\ UNCHANGED waiters
               /\ chrome' = Append(chrome, [shop |-> s, state |-> "launching"])
               /\ call'[c].at = "launching" /\ call'[c].shop = s /\ call'[c].next = "return"
               /\ call'[c].browser = Len(chrome) + 1
<1>1. CASE contexts[s] # None
  <2>1. Place("page", s, contexts[s], "return", {}) \in Calls
    BY Typed DEF Named, Openings, TypeInv
  <2> QED BY <1>1, <2>1, Moved, Places DEF Enter
<1>2. CASE contexts[s] = None /\ ~playwright
  <2>1. Idle \in Calls
    BY DEF Calls
  <2> QED BY <1>2, <2>1, Moved DEF Enter, Raise
<1>3. CASE contexts[s] = None /\ playwright /\ permits > 0 /\ waiters = <<>>
  BY <1>3, LaunchTaken DEF Enter, Acquire
<1>4. CASE contexts[s] = None /\ playwright /\ ~(permits > 0 /\ waiters = <<>>)
  <2>1. Place("waiting", s, None, "return", {}) \in Calls
    BY Typed DEF Named, Openings, None
  <2> QED BY <1>4, <2>1, Moved, Places DEF Enter, Acquire
<1> QED BY <1>1, <1>2, <1>3, <1>4

\* Where close_shop returns to.
LEMMA Resumed ==
  ASSUME NEW c, NEW s \in Named, NEW next \in {"return", "reopen", "end", "stop"},
         NEW left \in SUBSET Shops
  PROVE  LET p == Resume(c, s, next, left)
         IN  /\ p \in Calls
             /\ next = "reopen" => p.at = "pausing" /\ p.shop = s /\ p.next = "return"
             /\ next = "stop" => p.at = "stopping"
             /\ next \in {"return", "end"} => p = Idle
<1>1. CASE next = "reopen"
  <2>1. Place("pausing", s, None, "return", {}) \in Calls
    BY Typed DEF None
  <2>2. Resume(c, s, next, left) = Place("pausing", s, None, "return", {})
    BY <1>1 DEF Resume
  <2> QED BY <1>1, <2>1, <2>2 DEF Place
<1>2. CASE next = "stop"
  <2>1. Place("stopping", s, None, "stop", left) \in Calls
    BY Typed DEF None
  <2>2. Resume(c, s, next, left) = Place("stopping", s, None, "stop", left)
    BY <1>2 DEF Resume
  <2> QED BY <1>2, <2>1, <2>2 DEF Place
<1>3. CASE next \in {"return", "end"}
  BY <1>3 DEF Resume, Calls
<1> QED BY <1>1, <1>2, <1>3

\* The part of close_shop up to its first await.
LEMMA Closes ==
  ASSUME TypeInv, NEW c \in Callers, NEW s \in Shops,
         NEW next \in {"return", "reopen", "end", "stop"}, NEW left \in SUBSET Shops,
         Close(c, s, next, left)
  PROVE  /\ call' \in [Callers -> Calls] /\ Only(c)
         /\ contexts' = [contexts EXCEPT ![s] = None] /\ contexts' \in [Shops -> Nat]
         /\ contexts[s] = None => call'[c] = Resume(c, s, next, left)
         /\ contexts[s] # None => /\ call'[c].at = "saving" /\ call'[c].shop = s
                                  /\ call'[c].browser = contexts[s] /\ call'[c].next = next
<1>1. contexts' = [contexts EXCEPT ![s] = None] /\ contexts' \in [Shops -> Nat]
  BY DEF Close, TypeInv, None
<1>2. CASE contexts[s] = None
  <2>1. Resume(c, s, next, left) \in Calls
    BY Resumed DEF Named
  <2>2. call' = [call EXCEPT ![c] = Resume(c, s, next, left)]
    BY <1>2 DEF Close
  <2> HIDE DEF Close
  <2> QED BY <1>1, <1>2, <2>1, <2>2, Moved
<1>3. CASE contexts[s] # None
  <2>1. Place("saving", s, contexts[s], next, left) \in Calls
    BY Typed DEF Named, Closings, TypeInv
  <2>2. call' = [call EXCEPT ![c] = Place("saving", s, contexts[s], next, left)]
    BY <1>3 DEF Close
  <2>3. call' \in [Callers -> Calls] /\ Only(c) /\ call'[c] = Place("saving", s, contexts[s], next, left)
    BY <2>1, <2>2, Moved
  <2> QED BY <1>1, <1>3, <2>3 DEF Place
<1> QED BY <1>2, <1>3

LEMMA CutOffAt ==
  ASSUME TypeInv, NEW c \in Callers, CutOff(c)
  PROVE  /\ call' \in [Callers -> Calls] /\ Only(c) /\ call'[c] = Idle /\ call[c].at # "idle"
         /\ lost' = IF call[c].at \in Holding THEN lost \cup {call[c].browser} ELSE lost
         /\ UNCHANGED <<contexts, playwright, closeEvents>>
         /\ DriverEnds \/ UNCHANGED <<driver, chrome, stale>>
<1>1. Idle \in Calls
  BY DEF Calls
<1>2. call' \in [Callers -> Calls] /\ Only(c) /\ call'[c] = Idle
  BY <1>1, Moved DEF CutOff
<1> QED BY <1>2 DEF CutOff, At, Holding

LEMMA DriverGone ==
  ASSUME TypeInv, DriverEnds
  PROVE  /\ chrome' \in Seq([shop : Shops, state : {"launching", "open", "unheard", "gone"}])
         /\ Len(chrome') = Len(chrome) /\ Browsers' = Browsers /\ driver' = FALSE
         /\ \A b \in Browsers : chrome'[b].shop = chrome[b].shop /\ chrome'[b].state = "gone"
         /\ stale' = stale \cup {b \in Browsers : Alive(b)}
<1>1. DOMAIN chrome = 1..Len(chrome) /\ Len(chrome) \in Nat
  BY LenProperties DEF TypeInv
<1>2. \A b \in Browsers : chrome'[b] = IF Alive(b) THEN [chrome[b] EXCEPT !.state = "gone"] ELSE chrome[b]
  BY DEF DriverEnds
<1>3. \A b \in Browsers : chrome[b] \in [shop : Shops, state : {"launching", "open", "unheard", "gone"}]
  BY <1>1, ElementOfSeq DEF TypeInv, Browsers
<1>4. \A b \in Browsers :
         /\ chrome'[b] \in [shop : Shops, state : {"launching", "open", "unheard", "gone"}]
         /\ chrome'[b].shop = chrome[b].shop /\ chrome'[b].state = "gone"
  BY <1>2, <1>3 DEF Alive
<1>5. chrome' = [b \in Browsers |-> chrome'[b]] /\ DOMAIN chrome' = 1..Len(chrome)
  BY <1>1 DEF DriverEnds, Browsers
<1>6. /\ chrome' \in Seq([shop : Shops, state : {"launching", "open", "unheard", "gone"}])
      /\ Len(chrome') = Len(chrome)
  <2>1. \A i \in 1..Len(chrome) :
           chrome'[i] \in [shop : Shops, state : {"launching", "open", "unheard", "gone"}]
    BY <1>1, <1>4 DEF Browsers
  <2>2. chrome' = [i \in 1..Len(chrome) |-> chrome'[i]]
    BY <1>1, <1>5 DEF Browsers
  <2> DEFINE f == [i \in 1..Len(chrome) |-> chrome'[i]]
  <2>3. f \in Seq([shop : Shops, state : {"launching", "open", "unheard", "gone"}])
        /\ Len(f) = Len(chrome)
    BY <1>1, <2>1, IsASeq
  <2> QED BY <2>2, <2>3
<1> QED BY <1>1, <1>4, <1>5, <1>6 DEF DriverEnds, Browsers

\* A browser changes its state.
LEMMA StateSet ==
  ASSUME TypeInv, NEW b \in Browsers, NEW state \in {"open", "unheard", "gone"}, Set(b, state)
  PROVE  /\ chrome' \in Seq([shop : Shops, state : {"launching", "open", "unheard", "gone"}])
         /\ Len(chrome') = Len(chrome) /\ Browsers' = Browsers
         /\ chrome'[b].shop = chrome[b].shop /\ chrome'[b].state = state
         /\ \A d \in Browsers \ {b} : chrome'[d] = chrome[d]
<1>1. chrome[b] \in [shop : Shops, state : {"launching", "open", "unheard", "gone"}]
      /\ Browsers = 1..Len(chrome) /\ Len(chrome) \in Nat
  <2>1. DOMAIN chrome = 1..Len(chrome) /\ Len(chrome) \in Nat
    BY LenProperties DEF TypeInv
  <2> QED BY <2>1, ElementOfSeq DEF TypeInv, Browsers
<1> DEFINE r == [chrome[b] EXCEPT !.state = state]
<1>2. r \in [shop : Shops, state : {"launching", "open", "unheard", "gone"}]
      /\ r.shop = chrome[b].shop /\ r.state = state
  BY <1>1
<1>3. chrome' = [chrome EXCEPT ![b] = r]
  BY DEF Set
<1> HIDE DEF r
<1> QED BY <1>1, <1>2, <1>3, ExceptSeq DEF TypeInv, Browsers

\* What a call that is under way refers to.
LEMMA InCall ==
  ASSUME TypeInv, NEW c \in Callers, call[c].at # "idle"
  PROVE  call[c] \in [at : Openings \cup Closings \cup {"pausing", "stopping"},
                      shop : Named, browser : Nat,
                      next : {"return", "reopen", "end", "stop"}, left : SUBSET Shops]
BY DEF TypeInv, Calls, Idle

LEMMA CanIdle ==
  ASSUME TypeInv, NEW c \in Callers, call' = [call EXCEPT ![c] = Idle]
  PROVE  call' \in [Callers -> Calls] /\ call'[c] = Idle /\ Only(c)
<1>1. Idle \in Calls
  BY DEF Calls
<1> QED BY <1>1, Moved

LEMMA CanResume ==
  ASSUME TypeInv, NEW c \in Callers, call[c].at \in Closings,
         call' = [call EXCEPT ![c] = Resume(c, call[c].shop, call[c].next, call[c].left)]
  PROVE  /\ call' \in [Callers -> Calls] /\ Only(c)
         /\ call[c].next = "reopen" =>
              call'[c].at = "pausing" /\ call'[c].shop = call[c].shop /\ call'[c].next = "return"
         /\ call[c].next = "stop" => call'[c].at = "stopping"
         /\ call[c].next \in {"return", "end"} => call'[c].at = "idle"
         /\ call'[c].at \in {"pausing", "stopping", "idle"}
<1>1. call[c] \in [at : Openings \cup Closings \cup {"pausing", "stopping"},
                   shop : Named, browser : Nat,
                   next : {"return", "reopen", "end", "stop"}, left : SUBSET Shops]
  BY InCall DEF Closings
<1> DEFINE p == Resume(c, call[c].shop, call[c].next, call[c].left)
<1>2. /\ p \in Calls
      /\ call[c].next = "reopen" => p.at = "pausing" /\ p.shop = call[c].shop /\ p.next = "return"
      /\ call[c].next = "stop" => p.at = "stopping"
      /\ call[c].next \in {"return", "end"} => p = Idle
  BY <1>1, Resumed
<1> HIDE DEF p
<1>3. call' = [call EXCEPT ![c] = p]
  BY DEF p
<1>4. call' \in [Callers -> Calls] /\ call'[c] = p /\ Only(c)
  BY <1>2, <1>3, Moved
<1> QED BY <1>1, <1>2, <1>4 DEF Idle

\* The steps of a caller, with the place it goes to.
LEMMA PlaceKept ==
  ASSUME TypeInv, NEW c \in Callers, NEW at \in {"preparing", "closing"}, call[c].at # "idle",
         call' = [call EXCEPT ![c].at = at]
  PROVE  /\ call' \in [Callers -> Calls] /\ Only(c)
         /\ call'[c].at = at /\ call'[c].shop = call[c].shop /\ call'[c].next = call[c].next
         /\ call'[c].browser = call[c].browser
<1>1. call[c] \in [at : Openings \cup Closings \cup {"pausing", "stopping"},
                   shop : Named, browser : Nat,
                   next : {"return", "reopen", "end", "stop"}, left : SUBSET Shops]
  BY InCall
<1> DEFINE p == [call[c] EXCEPT !.at = at]
<1>2. /\ p \in Calls /\ p.at = at /\ p.shop = call[c].shop /\ p.next = call[c].next
      /\ p.browser = call[c].browser
  BY <1>1 DEF Calls, Openings, Closings
<1>3. call' = [call EXCEPT ![c] = p]
  OBVIOUS
<1> HIDE DEF p
<1> QED BY <1>2, <1>3, Moved

\* Everyone who opens a browser is a loop, for its shop.
LEMMA Opener ==
  ASSUME LoopInv, NEW c \in Callers, call[c].at \in Openings \cup {"pausing"}
  PROVE  c \in Loops /\ call[c].shop = ShopOf[c] /\ ShopOf[c] \in Shops /\ call[c].next = "return"
         /\ loop[c] \in {"setup", "up"}
BY ParametersAssumption DEF LoopInv, LoopAt, CommandsAt, Callers, Openings, Closings

\* The semaphore admits a loop, for its shop.
LEMMA Waiter ==
  ASSUME LoopInv, QueueInv, waiters # <<>>
  PROVE  LET c == Head(waiters)
         IN  /\ c \in Loops /\ c \in Callers /\ call[c].at = "waiting"
             /\ call[c].shop = ShopOf[c] /\ ShopOf[c] \in Shops
             /\ loop[c] \in {"setup", "up"}
<1>1. Len(waiters) \in Nat \ {0} /\ Head(waiters) = waiters[1]
  BY EmptySeq DEF QueueInv
<1>2. Head(waiters) \in Loops /\ call[Head(waiters)].at = "waiting"
  BY <1>1, ElementOfSeq DEF QueueInv
<1> QED BY <1>2, Opener, Callable DEF Openings

\* What the semaphore lets its first waiter do.
LEMMA Admitted ==
  ASSUME TypeInv, LoopInv, QueueInv, Admit,
         NEW c, c = Head(waiters), NEW s, s = ShopOf[c]
  PROVE  /\ waiters # <<>> /\ permits > 0 /\ waiters' = Tail(waiters)
         /\ c \in Loops /\ s \in Shops /\ call[c].at = "waiting" /\ loop[c] \in {"setup", "up"}
         /\ call' \in [Callers -> Calls] /\ Only(c)
         /\ \/ call'[c].at = "idle" /\ UNCHANGED <<chrome, permits>>
            \/ /\ call'[c].at = "preparing" /\ call'[c].shop = s /\ call'[c].next = "return"
               /\ permits' = permits - 1 /\ UNCHANGED chrome
            \/ /\ contexts[s] = None /\ Len(chrome) < MaxBrowsers
               /\ permits' = permits - 1
               /\ chrome' = Append(chrome, [shop |-> s, state |-> "launching"])
               /\ call'[c].at = "launching" /\ call'[c].shop = s /\ call'[c].next = "return"
               /\ call'[c].browser = Len(chrome) + 1
         /\ UNCHANGED <<contexts, playwright, driver, closeEvents, loop, lost, stale>>
<1>1. waiters # <<>> /\ permits > 0 /\ waiters' = Tail(waiters)
      /\ UNCHANGED <<contexts, playwright, driver, closeEvents, loop, lost, stale>>
  BY DEF Admit, history
<1>2. /\ c \in Loops /\ c \in Callers /\ call[c].at = "waiting" /\ call[c].shop = s /\ s \in Shops
      /\ loop[c] \in {"setup", "up"}
  BY <1>1, Waiter
<1>3. CASE contexts[s] # None
  <2>1. /\ permits' = permits - 1 /\ UNCHANGED chrome
        /\ call' = [call EXCEPT ![c] = Place("preparing", s, contexts[s], "return", {})]
    BY <1>2, <1>3 DEF Admit
  <2>2. Place("preparing", s, contexts[s], "return", {}) \in Calls
    BY <1>2, Typed DEF Named, Openings, TypeInv
  <2>3. /\ call' \in [Callers -> Calls] /\ Only(c)
        /\ call'[c] = Place("preparing", s, contexts[s], "return", {})
    BY <1>2, <2>1, <2>2, Moved
  <2> QED BY <1>1, <1>2, <2>1, <2>3 DEF Place
<1>4. CASE contexts[s] = None
  <2>1. Launch(c, s)
    BY <1>2, <1>4 DEF Admit
  <2> QED BY <1>1, <1>2, <1>4, <2>1, LaunchTaken DEF Idle
<1> QED BY <1>3, <1>4

LEMMA TypeStep == ASSUME TypeInv, LoopInv, QueueInv, RefsInv, [Next]_vars PROVE TypeInv'
<1> USE ParametersAssumption
<1>1. CASE UNCHANGED vars
  BY <1>1 DEF TypeInv, vars, engine, system, history
<1>2. ASSUME NEW l \in Loops, LoopStep(l) PROVE TypeInv'
  <2>0. l \in Callers /\ ShopOf[l] \in Shops
    BY DEF Callers
  <2>1. CASE Begin(l)
    BY <2>1 DEF Begin, TypeInv, engine, system
  <2>2. CASE Start(l)
    BY <2>2 DEF Start, TypeInv
  <2>3. CASE Open(l)
    <3>1. Enter(l, ShopOf[l]) /\ UNCHANGED <<contexts, playwright, driver>>
      BY <2>3 DEF Open
    <3>2. /\ call' \in [Callers -> Calls]
          /\ \/ UNCHANGED chrome
             \/ /\ Len(chrome) < MaxBrowsers
                /\ chrome' = Append(chrome, [shop |-> ShopOf[l], state |-> "launching"])
      BY <2>0, <3>1, Entered
    <3>3. /\ chrome' \in Seq([shop : Shops, state : {"launching", "open", "unheard", "gone"}])
          /\ Len(chrome') <= MaxBrowsers
      BY <2>0, <3>2, Added DEF TypeInv
    <3>4. loop' \in [Loops -> {"off", "setup", "up", "ending", "cancelled"}]
      BY <2>3 DEF Open, TypeInv
    <3> QED BY <3>1, <3>2, <3>3, <3>4 DEF TypeInv
  <2>4. CASE Restart(l)
    <3>1. Close(l, ShopOf[l], "reopen", {}) /\ UNCHANGED <<playwright, driver, chrome>>
      BY <2>4 DEF Restart, system
    <3>2. call' \in [Callers -> Calls] /\ contexts' \in [Shops -> Nat]
      BY <2>0, <3>1, Closes
    <3> QED BY <2>4, <3>1, <3>2 DEF Restart, TypeInv
  <2>5. CASE Finally(l)
    <3>1. Close(l, ShopOf[l], "end", {}) /\ UNCHANGED <<playwright, driver, chrome>>
      BY <2>5 DEF Finally, system
    <3>2. call' \in [Callers -> Calls] /\ contexts' \in [Shops -> Nat]
      BY <2>0, <3>1, Closes
    <3> QED BY <2>5, <3>1, <3>2 DEF Finally, TypeInv
  <2>6. CASE Cancel(l)
    <3>1. loop' \in [Loops -> {"off", "setup", "up", "ending", "cancelled"}]
      BY <2>6 DEF Cancel, TypeInv
    <3>2. CASE At(l, "idle")
      BY <2>6, <3>1, <3>2 DEF Cancel, TypeInv, engine, system
    <3>3. CASE ~At(l, "idle")
      <4>1. CutOff(l)
        BY <2>6, <3>3 DEF Cancel
      <4>2. /\ call' \in [Callers -> Calls] /\ UNCHANGED <<contexts, playwright>>
            /\ DriverEnds \/ UNCHANGED <<driver, chrome>>
        BY <2>0, <4>1, CutOffAt
      <4> QED BY <3>1, <4>2, DriverGone DEF TypeInv
    <3> QED BY <3>2, <3>3
  <2> QED BY <1>2, <2>1, <2>2, <2>3, <2>4, <2>5, <2>6 DEF LoopStep
<1>3. ASSUME NEW c \in Callers, CallStep(c) PROVE TypeInv'
  <2>1. CASE Launched(c)
    <3>1. call[c].at = "launching" /\ call[c].browser \in Browsers /\ call[c].browser \in Nat
      BY <2>1, InCall DEF Launched, At, RefsInv, Holding
    <3>2. call' \in [Callers -> Calls]
      BY <2>1, <3>1, PlaceKept DEF Launched
    <3> QED BY <2>1, <3>1, <3>2, StateSet DEF Launched, TypeInv
  <2>2. CASE LaunchFails(c)
    <3>1. call[c].at = "launching" /\ call[c].browser \in Browsers
      BY <2>2 DEF LaunchFails, At, RefsInv, Holding
    <3>2. call' \in [Callers -> Calls]
      BY <2>2, CanIdle DEF LaunchFails
    <3> QED BY <2>2, <3>1, <3>2, StateSet DEF LaunchFails, TypeInv
  <2>3. CASE Prepared(c) \/ GotPage(c)
    <3>1. call' \in [Callers -> Calls]
      BY <2>3, CanIdle DEF Prepared, GotPage
    <3> QED BY <2>3, <3>1 DEF Prepared, GotPage, TypeInv, engine, system
  <2>4. CASE Reopen(c)
    <3>1. call[c].at = "pausing" /\ Enter(c, call[c].shop)
          /\ UNCHANGED <<contexts, playwright, driver, loop>>
      BY <2>4 DEF Reopen, At
    <3>2. call[c].shop \in Shops
      BY <3>1, Opener
    <3>3. /\ call' \in [Callers -> Calls]
          /\ \/ UNCHANGED chrome
             \/ /\ Len(chrome) < MaxBrowsers
                /\ chrome' = Append(chrome, [shop |-> call[c].shop, state |-> "launching"])
      BY <3>1, <3>2, Entered
    <3>4. /\ chrome' \in Seq([shop : Shops, state : {"launching", "open", "unheard", "gone"}])
          /\ Len(chrome') <= MaxBrowsers
      BY <3>2, <3>3, Added DEF TypeInv
    <3> QED BY <3>1, <3>3, <3>4 DEF TypeInv
  <2>5. CASE Saved(c)
    <3>1. call' \in [Callers -> Calls]
      BY <2>5, PlaceKept DEF Saved, At
    <3> QED BY <2>5, <3>1 DEF Saved, TypeInv, engine, system
  <2>6. CASE Closed(c) \/ CloseFails(c)
    <3>1. call' \in [Callers -> Calls]
      BY <2>6, CanResume DEF Closed, CloseFails, At, Closings
    <3> QED BY <2>6, <3>1 DEF Closed, CloseFails, LoopAfter, TypeInv, engine, system
  <2>7. CASE TimesOut(c)
    <3>1. /\ call' \in [Callers -> Calls] /\ UNCHANGED <<contexts, playwright>>
          /\ DriverEnds \/ UNCHANGED <<driver, chrome>>
      BY <2>7, CutOffAt DEF TimesOut
    <3>2. loop' \in [Loops -> {"off", "setup", "up", "ending", "cancelled"}]
      BY <2>7 DEF TimesOut, LoopAfter, TypeInv
    <3> QED BY <3>1, <3>2, DriverGone DEF TypeInv
  <2> QED BY <1>3, <2>1, <2>2, <2>3, <2>4, <2>5, <2>6, <2>7 DEF CallStep
<1>4. CASE Admit
  <2> DEFINE c == Head(waiters)
  <2>1. /\ ShopOf[c] \in Shops
        /\ call' \in [Callers -> Calls]
        /\ \/ UNCHANGED chrome
           \/ /\ Len(chrome) < MaxBrowsers
              /\ chrome' = Append(chrome, [shop |-> ShopOf[c], state |-> "launching"])
        /\ UNCHANGED <<contexts, playwright, driver, loop>>
    BY <1>4, Admitted
  <2>2. /\ chrome' \in Seq([shop : Shops, state : {"launching", "open", "unheard", "gone"}])
        /\ Len(chrome') <= MaxBrowsers
    BY <2>1, Added DEF TypeInv
  <2> QED BY <2>1, <2>2 DEF TypeInv
<1>5. CASE CommandStep
  <2>1. CASE Stop
    <3>1. Place("stopping", CHOOSE s \in Shops : TRUE, None, "stop", {s \in Shops : contexts[s] # None})
            \in Calls
      BY Typed DEF Named, None
    <3>2. call' \in [Callers -> Calls]
      BY <2>1, <3>1, Moved, Callable DEF Stop
    <3> QED BY <2>1, <3>2 DEF Stop, TypeInv, engine, system
  <2>2. CASE CloseNext
    <3>1. call[Commands].at = "stopping" /\ call[Commands].left \in SUBSET Shops
      BY <2>2, InCall, Callable DEF CloseNext, At
    <3>2. PICK s \in call[Commands].left : Close(Commands, s, "stop", call[Commands].left \ {s})
      BY <2>2 DEF CloseNext
    <3>3. call' \in [Callers -> Calls] /\ contexts' \in [Shops -> Nat]
      BY <3>1, <3>2, Closes, Callable
    <3> QED BY <2>2, <3>3 DEF CloseNext, TypeInv, system
  <2>3. CASE Stopped
    <3>1. call' \in [Callers -> Calls]
      BY <2>3, CanIdle, Callable DEF Stopped
    <3> QED BY <2>3, <3>1, DriverGone DEF Stopped, TypeInv
  <2>4. ASSUME NEW s \in Shops, CloseShop(s) PROVE TypeInv'
    <3>1. call' \in [Callers -> Calls] /\ contexts' \in [Shops -> Nat]
      BY <2>4, Closes, Callable DEF CloseShop
    <3> QED BY <2>4, <3>1 DEF CloseShop, TypeInv, system
  <2> QED BY <1>5, <2>1, <2>2, <2>3, <2>4 DEF CommandStep
<1>6. ASSUME NEW b \in Browsers, BrowserStep(b) PROVE TypeInv'
  <2>1. CASE Appears(b)
    BY <2>1, StateSet DEF Appears, TypeInv, engine
  <2>2. CASE Ends(b)
    BY <2>2, StateSet DEF Ends, TypeInv, engine
  <2>3. CASE ContextClosed(b)
    <3>1. contexts' \in [Shops -> Nat]
      BY <2>3 DEF ContextClosed, TypeInv, None
    <3> QED BY <2>3, <3>1 DEF ContextClosed, TypeInv
  <2> QED BY <1>6, <2>1, <2>2, <2>3 DEF BrowserStep
<1> QED BY <1>1, <1>2, <1>3, <1>4, <1>5, <1>6 DEF Next

-----------------------------------------------------------------------------
(* The loops *)

LEMMA LoopFrame ==
  ASSUME LoopInv, NEW c \in Callers, Only(c),
         \A m \in Loops \ {c} : loop'[m] = loop[m],
         c \in Loops => LoopAt(c)' /\ (loop'[c] \in TrackedAt => loop[c] \in TrackedAt),
         c = Commands => CommandsAt'
  PROVE  LoopInv'
<1>1. OneTracked'
  BY DEF LoopInv, OneTracked
<1>2. CommandsAt'
  BY Callable DEF LoopInv, CommandsAt, Only
<1>3. \A m \in Loops : LoopAt(m)'
  BY Callable DEF LoopInv, LoopAt, Only
<1> QED BY <1>1, <1>2, <1>3 DEF LoopInv

LEMMA LoopsLoop ==
  ASSUME TypeInv, LoopInv, NEW l \in Loops, LoopStep(l) PROVE LoopInv'
<1>0. l \in Callers /\ ShopOf[l] \in Shops /\ loop \in [Loops -> {"off", "setup", "up", "ending", "cancelled"}]
      /\ LoopAt(l) /\ l # Commands
  BY ParametersAssumption DEF Callers, TypeInv, LoopInv
<1>1. CASE Begin(l)
  <2>1. \A m \in Loops : ShopOf[m] = ShopOf[l] => loop[m] \notin TrackedAt
    BY <1>1 DEF Begin, Tracked, TrackedAt
  <2>2. OneTracked'
    BY <1>0, <1>1, <2>1 DEF Begin, LoopInv, OneTracked
  <2> QED BY <1>0, <1>1, <2>2 DEF Begin, LoopInv, LoopAt, CommandsAt, Openings, Closings
<1>2. CASE Start(l)
  BY <1>2 DEF Start, LoopInv, OneTracked, LoopAt, CommandsAt
<1>3. CASE Open(l)
  <2>1. /\ Enter(l, ShopOf[l]) /\ loop' = [loop EXCEPT ![l] = "up"] /\ loop[l] = "setup"
    BY <1>3 DEF Open
  <2>2. /\ Only(l)
        /\ \/ call'[l] = Idle
           \/ call'[l].at \in Openings /\ call'[l].shop = ShopOf[l] /\ call'[l].next = "return"
    BY <1>0, <2>1, Entered DEF Openings
  <2>3. LoopAt(l)' /\ (loop'[l] \in TrackedAt => loop[l] \in TrackedAt)
    BY <1>0, <2>1, <2>2 DEF LoopAt, TrackedAt, Idle
  <2> QED BY <1>0, <2>1, <2>2, <2>3, LoopFrame
<1>4. CASE Restart(l)
  <2>1. /\ Close(l, ShopOf[l], "reopen", {}) /\ loop' = [loop EXCEPT ![l] = "setup"]
        /\ loop[l] \in {"setup", "up"}
    BY <1>4 DEF Restart
  <2>2. /\ Only(l)
        /\ contexts[ShopOf[l]] = None => call'[l] = Resume(l, ShopOf[l], "reopen", {})
        /\ contexts[ShopOf[l]] # None =>
             call'[l].at = "saving" /\ call'[l].shop = ShopOf[l] /\ call'[l].next = "reopen"
    BY <1>0, <2>1, Closes
  <2>3. LET p == Resume(l, ShopOf[l], "reopen", {})
        IN  p.at = "pausing" /\ p.shop = ShopOf[l] /\ p.next = "return"
    BY <1>0, Resumed DEF Named
  <2>4. LoopAt(l)' /\ (loop'[l] \in TrackedAt => loop[l] \in TrackedAt)
    BY <1>0, <2>1, <2>2, <2>3 DEF LoopAt, TrackedAt, Closings
  <2> QED BY <1>0, <2>1, <2>2, <2>4, LoopFrame
<1>5. CASE Finally(l)
  <2>1. /\ Close(l, ShopOf[l], "end", {}) /\ loop[l] \in {"setup", "up", "cancelled"}
        /\ loop' = [loop EXCEPT ![l] = IF contexts[ShopOf[l]] = None THEN "off"
                                       ELSE IF @ = "cancelled" THEN @ ELSE "ending"]
    BY <1>5 DEF Finally
  <2>2. /\ Only(l)
        /\ contexts[ShopOf[l]] = None => call'[l] = Resume(l, ShopOf[l], "end", {})
        /\ contexts[ShopOf[l]] # None =>
             call'[l].at = "saving" /\ call'[l].shop = ShopOf[l] /\ call'[l].next = "end"
    BY <1>0, <2>1, Closes
  <2>3. Resume(l, ShopOf[l], "end", {}) = Idle
    BY <1>0, Resumed DEF Named
  <2>4. LoopAt(l)' /\ (loop'[l] \in TrackedAt => loop[l] \in TrackedAt)
    BY <1>0, <2>1, <2>2, <2>3 DEF LoopAt, TrackedAt, Closings, Idle
  <2> QED BY <1>0, <2>1, <2>2, <2>4, LoopFrame
<1>6. CASE Cancel(l)
  <2>1. /\ loop' = [loop EXCEPT ![l] = IF @ = "ending" THEN "off" ELSE "cancelled"]
        /\ \/ At(l, "idle") /\ UNCHANGED call
           \/ CutOff(l)
    BY <1>6 DEF Cancel
  <2>2. Only(l) /\ call'[l].at = "idle"
    <3>1. CASE At(l, "idle") /\ UNCHANGED call
      BY <3>1 DEF At, Only
    <3>2. CASE CutOff(l)
      BY <1>0, <3>2, CutOffAt DEF Idle
    <3> QED BY <2>1, <3>1, <3>2
  <2>3. LoopAt(l)' /\ (loop'[l] \in TrackedAt => loop[l] \in TrackedAt)
    BY <1>0, <2>1, <2>2 DEF LoopAt, TrackedAt
  <2> QED BY <1>0, <2>1, <2>2, <2>3, LoopFrame
<1> QED BY <1>1, <1>2, <1>3, <1>4, <1>5, <1>6 DEF LoopStep

LEMMA CallsLoop ==
  ASSUME TypeInv, LoopInv, NEW c \in Callers, CallStep(c) PROVE LoopInv'
<1>0. /\ loop \in [Loops -> {"off", "setup", "up", "ending", "cancelled"}]
      /\ c \in Loops => LoopAt(c) /\ ShopOf[c] \in Shops
      /\ c = Commands => CommandsAt /\ c \notin Loops
      /\ c \in Loops \/ c = Commands
  BY ParametersAssumption DEF Callers, TypeInv, LoopInv
<1>1. CASE Launched(c)
  <2>1. /\ Only(c) /\ call[c].at = "launching" /\ UNCHANGED loop
        /\ call'[c].at = "preparing" /\ call'[c].shop = call[c].shop /\ call'[c].next = call[c].next
    BY <1>1, PlaceKept DEF Launched, At
  <2>2. c \in Loops /\ LoopAt(c)'
    BY <1>0, <2>1 DEF LoopAt, CommandsAt, Openings, Closings
  <2> QED BY <1>0, <2>1, <2>2, LoopFrame
<1>2. CASE LaunchFails(c) \/ Prepared(c) \/ GotPage(c)
  <2>1. Only(c) /\ call'[c] = Idle /\ UNCHANGED loop /\ call[c].at \in Openings
    BY <1>2, CanIdle DEF LaunchFails, Prepared, GotPage, At, Openings
  <2>2. c \in Loops /\ LoopAt(c)'
    BY <1>0, <2>1, Opener DEF LoopAt, Idle
  <2> QED BY <1>0, <2>1, <2>2, LoopFrame
<1>3. CASE Reopen(c)
  <2>1. call[c].at = "pausing" /\ Enter(c, call[c].shop) /\ UNCHANGED loop
    BY <1>3 DEF Reopen, At
  <2>2. c \in Loops /\ call[c].shop = ShopOf[c] /\ ShopOf[c] \in Shops /\ loop[c] \in {"setup", "up"}
    BY <2>1, Opener
  <2>3. /\ Only(c)
        /\ \/ call'[c] = Idle
           \/ call'[c].at \in Openings /\ call'[c].shop = ShopOf[c] /\ call'[c].next = "return"
    BY <2>1, <2>2, Entered DEF Openings
  <2>4. LoopAt(c)'
    BY <2>1, <2>2, <2>3 DEF LoopAt, Idle
  <2> QED BY <1>0, <2>1, <2>2, <2>3, <2>4, LoopFrame
<1>4. CASE Saved(c)
  <2>1. /\ Only(c) /\ call[c].at = "saving" /\ UNCHANGED loop
        /\ call'[c].at = "closing" /\ call'[c].shop = call[c].shop /\ call'[c].next = call[c].next
    BY <1>4, PlaceKept DEF Saved, At
  <2>2. (c \in Loops => LoopAt(c)') /\ (c = Commands => CommandsAt')
    BY <1>0, <2>1 DEF LoopAt, CommandsAt, Openings, Closings
  <2> QED BY <1>0, <2>1, <2>2, LoopFrame
<1>5. CASE Closed(c) \/ CloseFails(c)
  <2>1. /\ call[c].at \in Closings /\ LoopAfter(c)
        /\ call' = [call EXCEPT ![c] = Resume(c, call[c].shop, call[c].next, call[c].left)]
    BY <1>5 DEF Closed, CloseFails, At, Closings
  <2>2. /\ Only(c)
        /\ call[c].next = "reopen" =>
             call'[c].at = "pausing" /\ call'[c].shop = call[c].shop /\ call'[c].next = "return"
        /\ call[c].next = "stop" => call'[c].at = "stopping"
        /\ call[c].next \in {"return", "end"} => call'[c].at = "idle"
    BY <2>1, CanResume
  <2>3. CASE c \in Loops
    <3>1. LoopAt(c)' /\ (loop'[c] \in TrackedAt => loop[c] \in TrackedAt)
      BY <1>0, <2>1, <2>2, <2>3 DEF LoopAfter, LoopAt, Openings, Closings, TrackedAt
    <3>2. \A m \in Loops \ {c} : loop'[m] = loop[m]
      BY <1>0, <2>1 DEF LoopAfter
    <3> QED BY <1>0, <2>2, <2>3, <3>1, <3>2, LoopFrame
  <2>4. CASE c = Commands
    <3>1. CommandsAt'
      BY <1>0, <2>1, <2>2, <2>4 DEF CommandsAt, Closings
    <3>2. UNCHANGED loop
      BY <1>0, <2>1, <2>4 DEF LoopAfter, CommandsAt, Closings
    <3> QED BY <1>0, <2>2, <2>4, <3>1, <3>2, LoopFrame
  <2> QED BY <1>0, <2>3, <2>4
<1>6. CASE TimesOut(c)
  <2>1. Only(c) /\ call'[c] = Idle /\ call[c].at # "idle" /\ LoopAfter(c)
    BY <1>6, CutOffAt DEF TimesOut
  <2>2. \A m \in Loops \ {c} : loop'[m] = loop[m]
    BY <1>0, <2>1 DEF LoopAfter
  <2>3. c \in Loops => LoopAt(c)' /\ (loop'[c] \in TrackedAt => loop[c] \in TrackedAt)
    BY <1>0, <2>1 DEF LoopAfter, LoopAt, Openings, Closings, TrackedAt, Idle
  <2>4. c = Commands => CommandsAt'
    BY <2>1 DEF CommandsAt, Idle
  <2> QED BY <2>1, <2>2, <2>3, <2>4, LoopFrame
<1> QED BY <1>1, <1>2, <1>3, <1>4, <1>5, <1>6 DEF CallStep

LEMMA LoopInvStep == ASSUME TypeInv, LoopInv, QueueInv, [Next]_vars PROVE LoopInv'
<1>1. CASE UNCHANGED vars
  BY <1>1 DEF vars, LoopInv, OneTracked, CommandsAt, LoopAt
<1>2. CASE Admit
  <2>0. PICK c : c = Head(waiters)
    OBVIOUS
  <2>1. /\ c \in Loops /\ c \in Callers /\ c # Commands /\ loop[c] \in {"setup", "up"} /\ Only(c)
        /\ \/ call'[c].at = "idle"
           \/ call'[c].at \in Openings /\ call'[c].shop = ShopOf[c] /\ call'[c].next = "return"
        /\ UNCHANGED loop
    BY <1>2, <2>0, Admitted, Callable DEF Openings
  <2>2. LoopAt(c)'
    BY <2>1 DEF LoopAt
  <2> QED BY <2>1, <2>2, LoopFrame
<1>3. CASE CommandStep
  <2>1. Commands \in Callers /\ Commands \notin Loops
    BY Callable
  <2>2. CASE Stop
    <3>1. Place("stopping", CHOOSE s \in Shops : TRUE, None, "stop", {s \in Shops : contexts[s] # None})
            \in Calls
      BY Typed DEF Named, None
    <3>2. Only(Commands) /\ call'[Commands].at = "stopping" /\ UNCHANGED loop
      BY <2>1, <2>2, <3>1, Moved, Places DEF Stop
    <3> QED BY <2>1, <3>2, LoopFrame DEF CommandsAt
  <2>3. CASE CloseNext
    <3>1. call[Commands].left \in SUBSET Shops /\ UNCHANGED loop
      BY <2>1, <2>3, InCall DEF CloseNext, At
    <3>2. PICK s \in call[Commands].left : Close(Commands, s, "stop", call[Commands].left \ {s})
      BY <2>3 DEF CloseNext
    <3>3. /\ Only(Commands)
          /\ contexts[s] = None =>
               call'[Commands] = Resume(Commands, s, "stop", call[Commands].left \ {s})
          /\ contexts[s] # None => call'[Commands].at = "saving" /\ call'[Commands].next = "stop"
      BY <2>1, <3>1, <3>2, Closes
    <3>4. Resume(Commands, s, "stop", call[Commands].left \ {s}).at = "stopping"
      BY <3>1, <3>2, Resumed DEF Named
    <3>5. CommandsAt'
      BY <3>3, <3>4 DEF CommandsAt, Closings
    <3> QED BY <2>1, <3>1, <3>3, <3>5, LoopFrame
  <2>4. CASE Stopped
    <3>1. Only(Commands) /\ call'[Commands] = Idle /\ UNCHANGED loop
      BY <2>1, <2>4, CanIdle DEF Stopped
    <3> QED BY <2>1, <3>1, LoopFrame DEF CommandsAt, Idle
  <2>5. ASSUME NEW s \in Shops, CloseShop(s) PROVE LoopInv'
    <3>1. /\ Only(Commands) /\ UNCHANGED loop
          /\ contexts[s] = None => call'[Commands] = Resume(Commands, s, "return", {})
          /\ contexts[s] # None => call'[Commands].at = "saving" /\ call'[Commands].next = "return"
      BY <2>1, <2>5, Closes DEF CloseShop
    <3>2. Resume(Commands, s, "return", {}) = Idle
      BY Resumed DEF Named
    <3>3. CommandsAt'
      BY <3>1, <3>2 DEF CommandsAt, Closings, Idle
    <3> QED BY <2>1, <3>1, <3>3, LoopFrame
  <2> QED BY <1>3, <2>2, <2>3, <2>4, <2>5 DEF CommandStep
<1>4. ASSUME NEW b \in Browsers, BrowserStep(b) PROVE LoopInv'
  <2>1. UNCHANGED <<loop, call>>
    BY <1>4 DEF BrowserStep, Appears, Ends, ContextClosed
  <2> QED BY <2>1 DEF LoopInv, OneTracked, CommandsAt, LoopAt
<1> QED BY <1>1, <1>2, <1>3, <1>4, LoopsLoop, CallsLoop DEF Next

-----------------------------------------------------------------------------
(* The kinds of steps: what they do to the registry, the browsers and the semaphore *)

Free(at) == at \notin Inside \cup Holding \cup {"waiting"}

registry == <<contexts, chrome, closeEvents, history>>

\* A caller is not concerned with a browser or the semaphore, before and after.
Turns(c) ==
    /\ Only(c) /\ Free(call[c].at) /\ Free(call'[c].at)
    /\ UNCHANGED <<registry, waiters, permits>>

Waits(c) ==
    /\ c \in Loops /\ Only(c) /\ Free(call[c].at) /\ call'[c].at = "waiting"
    /\ waiters' = Append(waiters, c)
    /\ UNCHANGED <<registry, permits>>

\* A caller leaves the queue, or did not have to wait.
Passes(c) ==
    /\ c \in Loops /\ Only(c)
    /\ \/ Free(call[c].at) /\ UNCHANGED waiters
       \/ /\ call[c].at = "waiting" /\ waiters # <<>> /\ c = Head(waiters)
          /\ waiters' = Tail(waiters)

GivesUp(c) ==
    /\ Passes(c)
    /\ call'[c].at = "idle"
    /\ UNCHANGED <<registry, permits>>

Prepares(c) ==
    /\ Passes(c)
    /\ call'[c].at = "preparing"
    /\ permits > 0 /\ permits' = permits - 1
    /\ UNCHANGED registry

Launches(c) ==
    /\ Passes(c)
    /\ call'[c].at = "launching" /\ call'[c].shop = ShopOf[c] /\ call'[c].browser = Len(chrome) + 1
    /\ permits > 0 /\ permits' = permits - 1
    /\ contexts[ShopOf[c]] = None
    /\ Len(chrome) < MaxBrowsers
    /\ chrome' = Append(chrome, [shop |-> ShopOf[c], state |-> "launching"])
    /\ UNCHANGED <<contexts, closeEvents, history>>

Unregisters(c, s) ==
    /\ Only(c) /\ Free(call[c].at)
    /\ contexts' = [contexts EXCEPT ![s] = None]
    /\ \/ contexts[s] = None /\ Free(call'[c].at)
       \/ /\ contexts[s] # None
          /\ call'[c].at = "saving" /\ call'[c].shop = s /\ call'[c].browser = contexts[s]
    /\ UNCHANGED <<chrome, closeEvents, history, waiters, permits>>

\* A call ends without its browser being closed, or the driver ends.
Loses(c) ==
    /\ Only(c) /\ Free(call'[c].at)
    /\ lost' = IF call[c].at \in Holding THEN lost \cup {call[c].browser} ELSE lost
    /\ DriverEnds \/ UNCHANGED <<chrome, stale>>
    /\ \/ waiters' = RemoveFirst(waiters, c)
       \/ UNCHANGED waiters /\ call[c].at # "waiting"
    /\ permits' = IF call[c].at \in Inside THEN permits + 1 ELSE permits
    /\ UNCHANGED <<contexts, closeEvents>>

Rests == UNCHANGED <<registry, waiters, permits, call>>

Kind ==
    \/ Rests
    \/ \E c \in Callers :
          \/ Turns(c) \/ Waits(c) \/ GivesUp(c) \/ Prepares(c) \/ Launches(c)
          \/ Launched(c) \/ LaunchFails(c) \/ Prepared(c) \/ Saved(c) \/ Closed(c) \/ Loses(c)
          \/ \E s \in Shops : Unregisters(c, s)
    \/ \E b \in Browsers : BrowserStep(b)

LEMMA EnterKind ==
  ASSUME TypeInv, NEW c \in Loops, Enter(c, ShopOf[c]), Free(call[c].at),
         UNCHANGED <<contexts, closeEvents, history>>
  PROVE  Kind
<1>1. c \in Callers /\ ShopOf[c] \in Shops
  BY ParametersAssumption DEF Callers
<1>2. /\ Only(c)
      /\ \/ call'[c] = Idle /\ UNCHANGED <<chrome, permits, waiters>>
         \/ /\ call'[c].at \in {"page", "waiting"}
            /\ waiters' = IF call'[c].at = "waiting" THEN Append(waiters, c) ELSE waiters
            /\ UNCHANGED <<chrome, permits>>
         \/ /\ contexts[ShopOf[c]] = None /\ permits > 0
            /\ Len(chrome) < MaxBrowsers
            /\ permits' = permits - 1 /\ UNCHANGED waiters
            /\ chrome' = Append(chrome, [shop |-> ShopOf[c], state |-> "launching"])
            /\ call'[c].at = "launching" /\ call'[c].shop = ShopOf[c]
            /\ call'[c].browser = Len(chrome) + 1
  BY <1>1, Entered
<1>3. Turns(c) \/ Waits(c) \/ Launches(c)
  BY <1>2 DEF Turns, Waits, Launches, Passes, Free, Inside, Holding, Idle, registry
<1> QED BY <1>1, <1>3 DEF Kind

LEMMA CloseKind ==
  ASSUME TypeInv, NEW c \in Callers, NEW s \in Shops,
         NEW next \in {"return", "reopen", "end", "stop"}, NEW left \in SUBSET Shops,
         Close(c, s, next, left), Free(call[c].at),
         UNCHANGED <<chrome, closeEvents, history, waiters, permits>>
  PROVE  Kind
<1>1. /\ Only(c)
      /\ contexts' = [contexts EXCEPT ![s] = None]
      /\ contexts[s] = None => call'[c] = Resume(c, s, next, left)
      /\ contexts[s] # None => /\ call'[c].at = "saving" /\ call'[c].shop = s
                               /\ call'[c].browser = contexts[s]
  BY Closes
<1>2. Free(Resume(c, s, next, left).at)
  BY Resumed DEF Named, Free, Inside, Holding, Idle
<1> QED BY <1>1, <1>2 DEF Kind, Unregisters

LEMMA CutOffKind == ASSUME TypeInv, NEW c \in Callers, CutOff(c) PROVE Loses(c)
BY CutOffAt DEF Loses, CutOff, Free, Inside, Holding, Idle

LEMMA Kinds == ASSUME TypeInv, LoopInv, QueueInv, [Next]_vars PROVE Kind
<1> USE Callable
<1>1. CASE UNCHANGED vars
  BY <1>1 DEF Kind, Rests, vars, engine, system, registry
<1>2. ASSUME NEW l \in Loops, LoopStep(l) PROVE Kind
  <2>0. ShopOf[l] \in Shops
    BY ParametersAssumption
  <2>1. CASE Begin(l) \/ Start(l)
    BY <2>1 DEF Begin, Start, Kind, Rests, engine, system, history, registry
  <2>2. CASE Open(l)
    BY <2>2, EnterKind DEF Open, At, Free, Inside, Holding
  <2>3. CASE Restart(l)
    BY <2>0, <2>3, CloseKind DEF Restart, At, Free, Inside, Holding, system
  <2>4. CASE Finally(l)
    BY <2>0, <2>4, CloseKind DEF Finally, At, Free, Inside, Holding, system
  <2>5. CASE Cancel(l)
    BY <2>5, CutOffKind DEF Cancel, Kind, Rests, engine, system, history, registry
  <2> QED BY <1>2, <2>1, <2>2, <2>3, <2>4, <2>5 DEF LoopStep
<1>3. ASSUME NEW c \in Callers, CallStep(c) PROVE Kind
  <2>1. CASE GotPage(c)
    BY <2>1, CanIdle DEF GotPage, At, Kind, Turns, Free, Inside, Holding, Idle, engine, system, registry
  <2>2. CASE Reopen(c)
    <3>1. /\ call[c].at = "pausing" /\ Enter(c, call[c].shop)
          /\ UNCHANGED <<contexts, closeEvents, history>>
      BY <2>2 DEF Reopen, At
    <3>2. c \in Loops /\ call[c].shop = ShopOf[c]
      BY <3>1, Opener
    <3> QED BY <3>1, <3>2, EnterKind DEF Free, Inside, Holding
  <2>3. CASE CloseFails(c)
    <3>1. /\ call[c].at = "closing" /\ lost' = lost \cup {call[c].browser}
          /\ call' = [call EXCEPT ![c] = Resume(c, call[c].shop, call[c].next, call[c].left)]
          /\ UNCHANGED <<contexts, permits, waiters, chrome, closeEvents, stale>>
      BY <2>3 DEF CloseFails, At, engine, system
    <3>2. Only(c) /\ call'[c].at \in {"pausing", "stopping", "idle"}
      BY <3>1, CanResume DEF Closings
    <3>3. Loses(c)
      BY <3>1, <3>2 DEF Loses, Free, Inside, Holding
    <3> QED BY <3>3 DEF Kind
  <2>4. CASE TimesOut(c)
    BY <2>4, CutOffKind DEF TimesOut, Kind
  <2> QED BY <1>3, <2>1, <2>2, <2>3, <2>4 DEF CallStep, Kind
<1>4. CASE Admit
  <2>0. PICK c : c = Head(waiters)
    OBVIOUS
  <2>1. /\ waiters # <<>> /\ permits > 0 /\ waiters' = Tail(waiters)
        /\ c \in Loops /\ call[c].at = "waiting" /\ Only(c)
        /\ \/ call'[c].at = "idle" /\ UNCHANGED <<chrome, permits>>
           \/ /\ call'[c].at = "preparing"
              /\ permits' = permits - 1 /\ UNCHANGED chrome
           \/ /\ contexts[ShopOf[c]] = None /\ Len(chrome) < MaxBrowsers
              /\ permits' = permits - 1
              /\ chrome' = Append(chrome, [shop |-> ShopOf[c], state |-> "launching"])
              /\ call'[c].at = "launching" /\ call'[c].shop = ShopOf[c]
              /\ call'[c].browser = Len(chrome) + 1
        /\ UNCHANGED <<contexts, closeEvents, lost, stale>>
    BY <1>4, <2>0, Admitted
  <2>2. Passes(c)
    BY <2>0, <2>1 DEF Passes
  <2>3. GivesUp(c) \/ Prepares(c) \/ Launches(c)
    BY <2>1, <2>2 DEF GivesUp, Prepares, Launches, registry, history
  <2> QED BY <2>1, <2>3 DEF Kind
<1>5. CASE CommandStep
  <2>1. CASE Stop
    <3>1. Place("stopping", CHOOSE s \in Shops : TRUE, None, "stop", {s \in Shops : contexts[s] # None})
            \in Calls
      BY Typed DEF Named, None
    <3>2. Only(Commands) /\ call'[Commands].at = "stopping"
      BY <2>1, <3>1, Moved, Places DEF Stop
    <3>3. Turns(Commands)
      BY <2>1, <3>2 DEF Stop, At, Turns, Free, Inside, Holding, engine, system, registry
    <3> QED BY <3>3 DEF Kind
  <2>2. CASE CloseNext
    <3>1. /\ call[Commands].at = "stopping" /\ call[Commands].left \in SUBSET Shops
          /\ UNCHANGED <<chrome, closeEvents, history, waiters, permits>>
      BY <2>2, InCall DEF CloseNext, At, system
    <3>2. PICK s \in call[Commands].left : Close(Commands, s, "stop", call[Commands].left \ {s})
      BY <2>2 DEF CloseNext
    <3> QED BY <3>1, <3>2, CloseKind DEF Free, Inside, Holding
  <2>3. CASE Stopped
    <3>1. Only(Commands) /\ call'[Commands] = Idle /\ call[Commands].at = "stopping" /\ DriverEnds
          /\ UNCHANGED <<contexts, permits, waiters, closeEvents, lost>>
      BY <2>3, CanIdle DEF Stopped, At
    <3>2. Loses(Commands)
      BY <3>1 DEF Loses, Free, Inside, Holding, Idle
    <3> QED BY <3>2 DEF Kind
  <2>4. ASSUME NEW s \in Shops, CloseShop(s) PROVE Kind
    BY <2>4, CloseKind DEF CloseShop, At, Free, Inside, Holding, system
  <2> QED BY <1>5, <2>1, <2>2, <2>3, <2>4 DEF CommandStep
<1> QED BY <1>1, <1>2, <1>3, <1>4, <1>5 DEF Next, Kind

-----------------------------------------------------------------------------
(* The queue of the semaphore *)

\* RemoveFirst removes what occurs once.
LEMMA Removed ==
  ASSUME NEW S, NEW q \in Seq(S), NEW c, Distinct(q)
  PROVE  /\ RemoveFirst(q, c) \in Seq(S) /\ Distinct(RemoveFirst(q, c))
         /\ \A i \in 1..Len(RemoveFirst(q, c)) :
              \E j \in 1..Len(q) : q[j] # c /\ RemoveFirst(q, c)[i] = q[j]
<1>1. CASE ~\E i \in 1..Len(q) : q[i] = c
  <2>1. RemoveFirst(q, c) = q
    BY <1>1 DEF RemoveFirst, SelectInSeq
  <2> QED BY <1>1, <2>1
<1>2. ASSUME NEW k \in 1..Len(q), q[k] = c
      PROVE  RemoveFirst(q, c) = SubSeq(q, 1, k-1) \o SubSeq(q, k+1, Len(q))
  <2>1. {i \in 1..Len(q) : q[i] = c} = {k}
    BY <1>2 DEF Distinct
  <2>2. Min({k}) = k
    BY DEF Min
  <2>3. (LET I == {i \in 1..Len(q) : q[i] = c} IN IF I # {} THEN Min(I) ELSE 0) = k
    BY <2>1, <2>2
  <2> QED BY <1>2, <2>3 DEF RemoveFirst, RemoveAt, SelectInSeq
<1>3. ASSUME NEW k \in 1..Len(q), q[k] = c
      PROVE  /\ RemoveFirst(q, c) \in Seq(S) /\ Distinct(RemoveFirst(q, c))
             /\ \A i \in 1..Len(RemoveFirst(q, c)) :
                  \E j \in 1..Len(q) : j # k /\ RemoveFirst(q, c)[i] = q[j]
  <2>1. Len(q) \in Nat /\ k \in Nat /\ \A i \in 1..Len(q) : q[i] \in S
    BY ElementOfSeq
  <2>2. /\ SubSeq(q, 1, k-1) \in Seq(S) /\ Len(SubSeq(q, 1, k-1)) = k-1
        /\ \A i \in 1..k-1 : SubSeq(q, 1, k-1)[i] = q[i]
    BY <2>1, SubSeqProperties
  <2>3. /\ SubSeq(q, k+1, Len(q)) \in Seq(S) /\ Len(SubSeq(q, k+1, Len(q))) = Len(q)-k
        /\ \A i \in 1..Len(q)-k : SubSeq(q, k+1, Len(q))[i] = q[k+i]
    BY <2>1, SubSeqProperties
  <2>4. PICK u \in Seq(S) : u = SubSeq(q, 1, k-1)
    BY <2>2
  <2>5. PICK v \in Seq(S) : v = SubSeq(q, k+1, Len(q))
    BY <2>3
  <2>6. RemoveFirst(q, c) = u \o v
    BY <1>2, <1>3, <2>4, <2>5
  <2>7. Len(u) = k-1 /\ \A i \in 1..k-1 : u[i] = q[i]
    BY <2>2, <2>4
  <2>8. Len(v) = Len(q)-k /\ \A i \in 1..Len(q)-k : v[i] = q[k+i]
    BY <2>3, <2>5
  <2>9. PICK r : r = u \o v
    OBVIOUS
  <2>10. /\ r \in Seq(S) /\ Len(r) = Len(u) + Len(v)
         /\ \A i \in 1..Len(u)+Len(v) : r[i] = IF i <= Len(u) THEN u[i] ELSE v[i - Len(u)]
    BY <2>9, ConcatProperties
  <2>11. Len(r) = Len(q) - 1 /\ Len(r) \in Nat
    BY <2>1, <2>7, <2>8, <2>10
  <2>12. ASSUME NEW i \in 1..Len(r) PROVE r[i] = IF i < k THEN q[i] ELSE q[i+1]
    <3>1. CASE i < k
      <4>1. i \in 1..k-1 /\ i <= Len(u) /\ i \in 1..Len(u)+Len(v)
        BY <2>1, <2>7, <2>8, <2>11, <3>1
      <4> QED BY <2>7, <2>10, <3>1, <4>1
    <3>2. CASE ~(i < k)
      <4> DEFINE n == i - Len(u)
      <4>1. /\ n \in 1..Len(q)-k /\ k + n = i + 1
            /\ ~(i <= Len(u)) /\ i \in 1..Len(u)+Len(v)
        BY <2>1, <2>7, <2>8, <2>11, <3>2
      <4>2. r[i] = v[n]
        BY <2>10, <4>1
      <4>3. v[n] = q[k+n]
        BY <2>8, <4>1
      <4> QED BY <3>2, <4>1, <4>2, <4>3
    <3> QED BY <3>1, <3>2
  <2>13. Distinct(r)
    <3> SUFFICES ASSUME NEW i \in 1..Len(r), NEW j \in 1..Len(r), r[i] = r[j] PROVE i = j
      BY DEF Distinct
    <3>1. PICK m \in 1..Len(q) : r[i] = q[m] /\ m = (IF i < k THEN i ELSE i+1)
      BY <2>1, <2>11, <2>12
    <3>2. PICK n \in 1..Len(q) : r[j] = q[n] /\ n = (IF j < k THEN j ELSE j+1)
      BY <2>1, <2>11, <2>12
    <3>3. m = n
      BY <3>1, <3>2 DEF Distinct
    <3> QED BY <2>1, <2>11, <3>1, <3>2, <3>3
  <2>14. ASSUME NEW i \in 1..Len(r) PROVE \E j \in 1..Len(q) : j # k /\ r[i] = q[j]
    <3>1. i < k => i \in 1..Len(q) /\ i # k
      BY <2>1, <2>11
    <3>2. ~(i < k) => i+1 \in 1..Len(q) /\ i+1 # k
      BY <2>1, <2>11
    <3> QED BY <2>12, <3>1, <3>2
  <2> QED BY <2>6, <2>9, <2>10, <2>13, <2>14
<1>4. \A k, j \in 1..Len(q) : q[k] = c /\ j # k => q[j] # c
  BY DEF Distinct
<1> QED BY <1>1, <1>3, <1>4

LEMMA QueueFrame ==
  ASSUME QueueInv, UNCHANGED waiters, NEW c, Only(c), call[c].at # "waiting"
  PROVE  QueueInv'
<1>1. \A i \in 1..Len(waiters) : waiters[i] \in Callers \ {c} /\ call[waiters[i]].at = "waiting"
  BY ElementOfSeq, Callable DEF QueueInv
<1> QED BY <1>1 DEF QueueInv, Only, Distinct

LEMMA QueuePassed == ASSUME QueueInv, NEW c \in Loops, Passes(c) PROVE QueueInv'
<1>1. CASE Free(call[c].at) /\ UNCHANGED waiters
  BY <1>1, QueueFrame DEF Free, Passes
<1>2. CASE waiters # <<>> /\ c = Head(waiters) /\ waiters' = Tail(waiters)
  <2>1. Len(waiters) \in Nat /\ c = waiters[1] /\ Len(waiters) # 0
    BY <1>2, EmptySeq DEF QueueInv
  <2>2. /\ waiters' \in Seq(Loops) /\ Len(waiters') = Len(waiters) - 1
        /\ \A i \in 1..Len(waiters') : waiters'[i] = waiters[i+1]
    BY <1>2, HeadTailProperties DEF QueueInv
  <2>3. \A i \in 1..Len(waiters') : i+1 \in 1..Len(waiters) /\ i+1 # 1
    BY <2>1, <2>2
  <2>4. \A i \in 1..Len(waiters') : waiters'[i] \in Callers \ {c} /\ call[waiters'[i]].at = "waiting"
    BY <2>1, <2>2, <2>3, ElementOfSeq, Callable DEF QueueInv, Distinct
  <2>5. \A i, j \in 1..Len(waiters') : waiters'[i] = waiters'[j] => i = j
    <3> SUFFICES ASSUME NEW i \in 1..Len(waiters'), NEW j \in 1..Len(waiters'), waiters'[i] = waiters'[j]
                 PROVE  i = j
      OBVIOUS
    <3>1. i+1 = j+1
      BY <2>2, <2>3 DEF QueueInv, Distinct
    <3> QED BY <2>1, <2>2, <3>1
  <2> QED BY <2>2, <2>4, <2>5 DEF QueueInv, Distinct, Passes, Only
<1> QED BY <1>1, <1>2 DEF Passes

LEMMA QueueStep == ASSUME TypeInv, LoopInv, QueueInv, [Next]_vars PROVE QueueInv'
<1>1. CASE Rests
  BY <1>1 DEF Rests, QueueInv, Distinct
<1>2. ASSUME NEW c \in Callers,
             \/ Turns(c) \/ Waits(c) \/ GivesUp(c) \/ Prepares(c) \/ Launches(c)
             \/ Launched(c) \/ LaunchFails(c) \/ Prepared(c) \/ Saved(c) \/ Closed(c) \/ Loses(c)
             \/ \E s \in Shops : Unregisters(c, s)
      PROVE  QueueInv'
  <2>1. CASE Turns(c) \/ \E s \in Shops : Unregisters(c, s)
    BY <2>1, QueueFrame DEF Turns, Unregisters, Free
  <2>2. CASE Waits(c)
    <3>1. \A i \in 1..Len(waiters) : waiters[i] \in Callers \ {c} /\ call[waiters[i]].at = "waiting"
      BY <2>2, ElementOfSeq, Callable DEF QueueInv, Waits, Free
    <3>2. /\ waiters' \in Seq(Loops) /\ Len(waiters') = Len(waiters) + 1 /\ Len(waiters) \in Nat
          /\ \A i \in 1..Len(waiters) : waiters'[i] = waiters[i]
          /\ waiters'[Len(waiters) + 1] = c
      BY <2>2, AppendProperties, LenProperties DEF QueueInv, Waits
    <3>3. \A i \in 1..Len(waiters') : call'[waiters'[i]].at = "waiting"
      BY <2>2, <3>1, <3>2 DEF Waits, Only
    <3>4. \A i, j \in 1..Len(waiters') : waiters'[i] = waiters'[j] => i = j
      BY <3>1, <3>2 DEF QueueInv, Distinct
    <3> QED BY <3>2, <3>3, <3>4 DEF QueueInv, Distinct
  <2>3. CASE GivesUp(c) \/ Prepares(c) \/ Launches(c)
    BY <2>3, QueuePassed DEF GivesUp, Prepares, Launches, Passes
  <2>4. CASE Launched(c)
    BY <2>4, QueueFrame, PlaceKept DEF Launched, At
  <2>5. CASE LaunchFails(c) \/ Prepared(c)
    BY <2>5, QueueFrame, CanIdle DEF LaunchFails, Prepared, At
  <2>6. CASE Saved(c)
    BY <2>6, QueueFrame, PlaceKept DEF Saved, At, engine
  <2>7. CASE Closed(c)
    BY <2>7, QueueFrame, CanResume DEF Closed, At, Closings, engine
  <2>8. CASE Loses(c)
    <3>1. CASE UNCHANGED waiters /\ call[c].at # "waiting"
      BY <2>8, <3>1, QueueFrame DEF Loses
    <3>2. CASE waiters' = RemoveFirst(waiters, c)
      <4>1. /\ waiters' \in Seq(Loops) /\ Distinct(waiters')
            /\ \A i \in 1..Len(waiters') : \E j \in 1..Len(waiters) :
                  waiters[j] # c /\ waiters'[i] = waiters[j]
        BY <3>2, Removed DEF QueueInv
      <4>2. \A j \in 1..Len(waiters) : waiters[j] \in Callers
        BY ElementOfSeq, Callable DEF QueueInv
      <4>3. \A i \in 1..Len(waiters') : call'[waiters'[i]].at = "waiting"
        BY <2>8, <4>1, <4>2 DEF Loses, Only, QueueInv
      <4> QED BY <4>1, <4>3 DEF QueueInv, Distinct
    <3> QED BY <2>8, <3>1, <3>2 DEF Loses
  <2> QED BY <1>2, <2>1, <2>2, <2>3, <2>4, <2>5, <2>6, <2>7, <2>8
<1>3. ASSUME NEW b \in Browsers, BrowserStep(b) PROVE QueueInv'
  <2>1. UNCHANGED <<waiters, call>>
    BY <1>3 DEF BrowserStep, Appears, Ends, ContextClosed, engine
  <2> QED BY <2>1 DEF QueueInv, Distinct
<1> QED BY <1>1, <1>2, <1>3, Kinds DEF Kind

-----------------------------------------------------------------------------
(* What calls and registry refer to *)

LEMMA RefsFrame ==
  ASSUME RefsInv, UNCHANGED registry, NEW c, Only(c), call'[c].at \notin Holding
  PROVE  RefsInv'
<1>1. \A d \in Callers : call'[d].at \in Holding => d # c /\ call'[d] = call[d]
  BY DEF Only
<1>2. \A l \in Loops : call'[l].at = "launching" => call[l].at = "launching"
  BY <1>1, Callable DEF Holding
<1> QED BY <1>1, <1>2 DEF RefsInv, registry, history, Browsers

LEMMA BrowserDomain == ASSUME TypeInv PROVE Browsers = 1..Len(chrome) /\ Len(chrome) \in Nat
BY LenProperties DEF TypeInv, Browsers

LEMMA BrowserType ==
  ASSUME TypeInv, NEW b \in Browsers
  PROVE  chrome[b] \in [shop : Shops, state : {"launching", "open", "unheard", "gone"}]
<1>1. b \in 1..Len(chrome)
  BY BrowserDomain
<1> QED BY <1>1, ElementOfSeq DEF TypeInv

\* Two loops of one shop do not launch at the same time.
LEMMA OneLauncher ==
  ASSUME LoopInv, NEW l \in Loops, NEW m \in Loops, call[l].at \in Openings, call[m].at \in Openings,
         ShopOf[l] = ShopOf[m]
  PROVE  l = m
<1>1. loop[l] \in TrackedAt /\ loop[m] \in TrackedAt
  BY Opener, Callable DEF TrackedAt
<1> QED BY <1>1 DEF LoopInv, OneTracked

LEMMA RefsCalls ==
  ASSUME TypeInv, LoopInv, RefsInv, NEW c \in Callers
  PROVE  /\ Launches(c) => RefsInv'
         /\ Launched(c) => RefsInv'
         /\ LaunchFails(c) => RefsInv'
         /\ Saved(c) => RefsInv'
         /\ Loses(c) => RefsInv'
<1>0. Browsers = 1..Len(chrome) /\ Len(chrome) \in Nat
  BY BrowserDomain
<1>1. ASSUME Launches(c) PROVE RefsInv'
  <2>1. /\ c \in Loops /\ ShopOf[c] \in Shops /\ Only(c)
        /\ call'[c].at = "launching" /\ call'[c].shop = ShopOf[c] /\ call'[c].browser = Len(chrome) + 1
        /\ contexts[ShopOf[c]] = None
        /\ UNCHANGED <<contexts, closeEvents, lost, stale>>
    BY <1>1, ParametersAssumption DEF Launches, Passes, history
  <2>2. /\ Browsers' = 1..Len(chrome) + 1
        /\ \A b \in Browsers : chrome'[b] = chrome[b]
        /\ chrome'[Len(chrome) + 1] = [shop |-> ShopOf[c], state |-> "launching"]
    BY <1>1, <2>1, Added DEF Launches
  <2>3. Browsers \subseteq Browsers' /\ Len(chrome) + 1 \in Browsers'
    BY <1>0, <2>2
  <2>4. \A d \in Callers : call'[d].at \in Holding =>
          call'[d].browser \in Browsers' /\ chrome'[call'[d].browser].shop = call'[d].shop
    <3> SUFFICES ASSUME NEW d \in Callers, call'[d].at \in Holding
                 PROVE  call'[d].browser \in Browsers' /\ chrome'[call'[d].browser].shop = call'[d].shop
      OBVIOUS
    <3>1. CASE d = c
      BY <2>1, <2>2, <2>3, <3>1
    <3>2. CASE d # c
      <4>1. call'[d] = call[d]
        BY <2>1, <3>2 DEF Only
      <4>2. call[d].browser \in Browsers /\ chrome[call[d].browser].shop = call[d].shop
        BY <4>1 DEF RefsInv
      <4> QED BY <2>2, <2>3, <4>1, <4>2
    <3> QED BY <3>1, <3>2
  <2>5. \A l \in Loops : call'[l].at = "launching" => contexts'[ShopOf[l]] = None
    BY <2>1, Callable DEF RefsInv, Only
  <2>6. \A s \in Shops : contexts'[s] # None => contexts'[s] \in Browsers' /\ chrome'[contexts'[s]].shop = s
    BY <2>1, <2>2, <2>3 DEF RefsInv
  <2>7. (closeEvents \cup lost \cup stale)' \subseteq Browsers'
    BY <2>1, <2>3 DEF RefsInv
  <2> QED BY <2>4, <2>5, <2>6, <2>7 DEF RefsInv
<1>2. ASSUME Launched(c) PROVE RefsInv'
  <2>1. /\ call[c].at = "launching" /\ Set(call[c].browser, "open")
        /\ contexts' = [contexts EXCEPT ![call[c].shop] = call[c].browser]
        /\ UNCHANGED <<closeEvents, lost, stale>>
        /\ Only(c) /\ call'[c].at = "preparing"
    BY <1>2, PlaceKept DEF Launched, At, history
  <2>2. c \in Loops /\ call[c].shop = ShopOf[c] /\ ShopOf[c] \in Shops
    BY <2>1, Opener DEF Openings
  <2>3. call[c].browser \in Browsers /\ chrome[call[c].browser].shop = ShopOf[c]
    BY <2>1, <2>2 DEF RefsInv, Holding
  <2>4. Browsers' = Browsers /\ \A b \in Browsers : chrome'[b].shop = chrome[b].shop
    BY <2>1, <2>3, StateSet
  <2>5. \A d \in Callers : call'[d].at \in Holding =>
          call'[d].browser \in Browsers' /\ chrome'[call'[d].browser].shop = call'[d].shop
    BY <2>1, <2>4 DEF RefsInv, Only, Holding
  <2>6. ASSUME NEW l \in Loops, call'[l].at = "launching" PROVE contexts'[ShopOf[l]] = None
    <3>1. l # c /\ call[l].at = "launching"
      BY <2>1, <2>6, Callable DEF Only
    <3>2. ShopOf[l] # ShopOf[c]
      BY <2>1, <2>2, <3>1, OneLauncher DEF Openings
    <3> QED BY <2>1, <2>2, <3>1, <3>2, ParametersAssumption DEF RefsInv, TypeInv
  <2>7. \A s \in Shops : contexts'[s] # None => contexts'[s] \in Browsers' /\ chrome'[contexts'[s]].shop = s
    BY <2>1, <2>2, <2>3, <2>4 DEF RefsInv, TypeInv
  <2> QED BY <2>1, <2>4, <2>5, <2>6, <2>7 DEF RefsInv
<1>3. ASSUME LaunchFails(c) PROVE RefsInv'
  <2>1. /\ call[c].at = "launching" /\ Set(call[c].browser, "gone")
        /\ UNCHANGED <<contexts, closeEvents, lost, stale>> /\ Only(c) /\ call'[c].at = "idle"
    BY <1>3, CanIdle DEF LaunchFails, At, history, Idle
  <2>2. Browsers' = Browsers /\ \A b \in Browsers : chrome'[b].shop = chrome[b].shop
    BY <2>1, StateSet DEF RefsInv, Holding
  <2>3. \A d \in Callers : call'[d].at \in Holding => call'[d] = call[d]
    BY <2>1 DEF Only, Holding
  <2>4. \A l \in Loops : call'[l].at = "launching" => call[l].at = "launching"
    BY <2>1, Callable DEF Only
  <2> QED BY <2>1, <2>2, <2>3, <2>4 DEF RefsInv
<1>4. ASSUME Saved(c) PROVE RefsInv'
  <2>1. /\ call[c].at = "saving" /\ call'[c].at = "closing" /\ call'[c].shop = call[c].shop
        /\ call'[c].browser = call[c].browser /\ Only(c) /\ UNCHANGED registry
    BY <1>4, PlaceKept DEF Saved, At, engine, system, registry
  <2>2. \A l \in Loops : call'[l].at = "launching" => call[l].at = "launching"
    BY <2>1, Callable DEF Only
  <2>3. \A d \in Callers : call'[d].at \in Holding =>
          call[d].at \in Holding /\ call'[d].shop = call[d].shop /\ call'[d].browser = call[d].browser
    BY <2>1 DEF Only, Holding
  <2> QED BY <2>1, <2>2, <2>3 DEF RefsInv, registry, history, Browsers
<1>5. ASSUME Loses(c) PROVE RefsInv'
  <2>1. /\ Only(c) /\ call'[c].at \notin Holding /\ UNCHANGED <<contexts, closeEvents>>
        /\ DriverEnds \/ UNCHANGED <<chrome, stale>>
    BY <1>5 DEF Loses, Free
  <2>2. Browsers' = Browsers /\ (\A b \in Browsers : chrome'[b].shop = chrome[b].shop) /\ stale' \subseteq Browsers
    BY <2>1, DriverGone DEF RefsInv, Browsers
  <2>3. \A d \in Callers : call'[d].at \in Holding => call'[d] = call[d]
    BY <2>1 DEF Only
  <2>4. \A l \in Loops : call'[l].at = "launching" => call[l].at = "launching"
    BY <2>3, Callable DEF Holding
  <2>5. lost' \subseteq Browsers
    BY <1>5 DEF Loses, RefsInv
  <2> QED BY <2>1, <2>2, <2>3, <2>4, <2>5 DEF RefsInv
<1> QED BY <1>1, <1>2, <1>3, <1>4, <1>5

LEMMA RefsUnregistered ==
  ASSUME TypeInv, RefsInv, NEW c \in Callers, NEW s \in Shops, Unregisters(c, s) PROVE RefsInv'
<1>1. /\ Only(c) /\ UNCHANGED <<chrome, closeEvents, lost, stale>>
      /\ call'[c].at \notin Holding \/ /\ contexts[s] # None /\ call'[c].at = "saving"
                                       /\ call'[c].shop = s /\ call'[c].browser = contexts[s]
  BY DEF Unregisters, Free, history
<1>2. \A t \in Shops : contexts'[t] = IF t = s THEN None ELSE contexts[t]
  BY DEF Unregisters, TypeInv
<1>3. \A d \in Callers : call'[d].at \in Holding =>
        call'[d].browser \in Browsers /\ chrome[call'[d].browser].shop = call'[d].shop
  BY <1>1 DEF RefsInv, Only
<1>4. \A l \in Loops : call'[l].at = "launching" => contexts'[ShopOf[l]] = None
  BY <1>1, <1>2, Callable, ParametersAssumption DEF RefsInv, Only, Holding
<1> QED BY <1>1, <1>2, <1>3, <1>4 DEF RefsInv, Browsers

LEMMA RefsBrowser ==
  ASSUME TypeInv, RefsInv, NEW b \in Browsers, BrowserStep(b) PROVE RefsInv'
<1>1. CASE Appears(b) \/ Ends(b)
  <2>1. Browsers' = Browsers /\ \A d \in Browsers : chrome'[d].shop = chrome[d].shop
    BY <1>1, StateSet DEF Appears, Ends
  <2>2. UNCHANGED <<contexts, lost, stale, call>> /\ closeEvents' \subseteq closeEvents \cup {b}
    BY <1>1 DEF Appears, Ends, engine, history
  <2> QED BY <2>1, <2>2 DEF RefsInv
<1>2. CASE ContextClosed(b)
  <2>1. \A t \in Shops : contexts'[t] = IF t = chrome[b].shop THEN None ELSE contexts[t]
    BY <1>2 DEF ContextClosed, TypeInv
  <2>2. /\ UNCHANGED <<chrome, stale, call>> /\ closeEvents' \subseteq closeEvents
        /\ lost' = lost \cup ({contexts[chrome[b].shop]} \ {None, b})
    BY <1>2 DEF ContextClosed
  <2>3. chrome[b].shop \in Shops
    BY BrowserType
  <2> QED BY <2>1, <2>2, <2>3, ParametersAssumption DEF RefsInv, Browsers
<1> QED BY <1>1, <1>2 DEF BrowserStep

LEMMA RefsStep == ASSUME TypeInv, LoopInv, QueueInv, RefsInv, [Next]_vars PROVE RefsInv'
<1>1. CASE Rests
  BY <1>1 DEF Rests, RefsInv, registry, history, Browsers
<1>2. ASSUME NEW c \in Callers,
             \/ Turns(c) \/ Waits(c) \/ GivesUp(c) \/ Prepares(c) \/ Launches(c)
             \/ Launched(c) \/ LaunchFails(c) \/ Prepared(c) \/ Saved(c) \/ Closed(c) \/ Loses(c)
             \/ \E s \in Shops : Unregisters(c, s)
      PROVE  RefsInv'
  <2>1. CASE Turns(c) \/ Waits(c) \/ GivesUp(c) \/ Prepares(c)
    BY <2>1, RefsFrame DEF Turns, Waits, GivesUp, Prepares, Passes, Free, Holding
  <2>2. CASE Prepared(c)
    BY <2>2, RefsFrame, CanIdle DEF Prepared, Idle, Holding, registry, system
  <2>3. CASE Closed(c)
    BY <2>3, RefsFrame, CanResume DEF Closed, At, Closings, Holding, registry, engine, system
  <2> QED BY <1>2, <2>1, <2>2, <2>3, RefsCalls, RefsUnregistered
<1> QED BY <1>1, <1>2, RefsBrowser, Kinds DEF Kind

-----------------------------------------------------------------------------
(* Who answers for a browser *)

\* A browser is being launched by a loop, registered, being closed, or lost; and a
\* close event is of a browser that has ended, which was registered last or is still
\* being closed.
OwnerAt(b) ==
    /\ chrome[b].state = "launching" /\ b \notin lost =>
         \E l \in Loops : call[l].at = "launching" /\ call[l].browser = b
    /\ chrome[b].state = "open" /\ b \notin lost => contexts[chrome[b].shop] = b \/ Closing(b)
    /\ chrome[b].state = "unheard" => b \in lost
    /\ b \in closeEvents => /\ chrome[b].state = "gone"
                            /\ contexts[chrome[b].shop] = b \/ Closing(b) \/ b \in lost

OwnersInv == RegisteredBrowsersRun /\ \A b \in Browsers : OwnerAt(b)

IInv == TypeInv /\ LoopInv /\ QueueInv /\ RefsInv /\ OwnersInv

\* What a caller closes that does not move is still being closed.
LEMMA StillClosing ==
  ASSUME NEW c, Only(c), NEW b, Closing(b),
         \/ call[c].at \notin Closings
         \/ call[c].browser # b
         \/ call'[c].at \in Closings /\ call'[c].browser = call[c].browser
  PROVE  Closing(b)'
<1>1. PICK d \in Callers : call[d].at \in Closings /\ call[d].browser = b
  BY DEF Closing, At, Closings
<1>2. call'[d].at \in Closings /\ call'[d].browser = b
  BY <1>1 DEF Only
<1> QED BY <1>1, <1>2 DEF Closing, At, Closings

LEMMA OwnersFrame ==
  ASSUME RefsInv, OwnersInv, UNCHANGED registry, NEW c, Only(c),
         call[c].at \notin Holding \/ /\ call[c].at = "saving" /\ call'[c].at = "closing"
                                      /\ call'[c].browser = call[c].browser
  PROVE  OwnersInv'
<1>1. RegisteredBrowsersRun'
  BY DEF OwnersInv, RegisteredBrowsersRun, registry, history
<1>2. ASSUME NEW b \in Browsers PROVE OwnerAt(b)'
  <2>1. OwnerAt(b)
    BY DEF OwnersInv
  <2>2. Closing(b) => Closing(b)'
    BY StillClosing DEF Holding, Closings
  <2>3. \A l \in Loops : call[l].at = "launching" => call'[l] = call[l]
    BY Callable DEF Only, Holding
  <2> QED BY <2>1, <2>2, <2>3 DEF OwnerAt, registry, history
<1> QED BY <1>1, <1>2 DEF OwnersInv, registry, Browsers

LEMMA OwnersLaunch ==
  ASSUME TypeInv, LoopInv, RefsInv, OwnersInv, NEW c \in Callers, Launches(c) PROVE OwnersInv'
<1>1. /\ c \in Loops /\ ShopOf[c] \in Shops /\ Only(c) /\ call[c].at \notin Holding
      /\ call'[c].at = "launching" /\ call'[c].browser = Len(chrome) + 1
      /\ UNCHANGED <<contexts, closeEvents, lost, stale>>
  BY ParametersAssumption DEF Launches, Passes, history, Free, Holding
<1>2. /\ Browsers = 1..Len(chrome) /\ Len(chrome) \in Nat /\ Browsers' = 1..Len(chrome) + 1
      /\ \A b \in Browsers : chrome'[b] = chrome[b]
      /\ chrome'[Len(chrome) + 1] = [shop |-> ShopOf[c], state |-> "launching"]
  BY <1>1, Added DEF Launches
<1>3. RegisteredBrowsersRun'
  BY <1>1, <1>2 DEF OwnersInv, RegisteredBrowsersRun, RefsInv
<1>4. ASSUME NEW b \in Browsers PROVE OwnerAt(b)'
  <2>1. OwnerAt(b) /\ chrome'[b] = chrome[b]
    BY <1>2 DEF OwnersInv
  <2>2. Closing(b) => Closing(b)'
    BY <1>1, StillClosing DEF Holding, Closings
  <2>3. \A l \in Loops : call[l].at = "launching" => call'[l] = call[l]
    BY <1>1, Callable DEF Only, Holding
  <2> QED BY <1>1, <2>1, <2>2, <2>3 DEF OwnerAt
<1>5. ASSUME NEW n, n = Len(chrome) + 1 PROVE OwnerAt(n)'
  <2>1. n \notin closeEvents
    BY <1>2, <1>5 DEF RefsInv
  <2> QED BY <1>1, <1>2, <1>5, <2>1 DEF OwnerAt
<1>6. \A b \in Browsers' : b \in Browsers \/ b = Len(chrome) + 1
  BY <1>2
<1> QED BY <1>3, <1>4, <1>5, <1>6 DEF OwnersInv

LEMMA OwnersLaunched ==
  ASSUME TypeInv, LoopInv, RefsInv, OwnersInv, NEW c \in Callers, Launched(c) PROVE OwnersInv'
<1> DEFINE b == call[c].browser
<1>1. /\ call[c].at = "launching" /\ Set(b, "open") /\ chrome[b].state = "launching"
      /\ contexts' = [contexts EXCEPT ![call[c].shop] = b]
      /\ UNCHANGED <<closeEvents, lost, stale>> /\ Only(c)
  BY PlaceKept DEF Launched, At, history
<1>2. c \in Loops /\ call[c].shop = ShopOf[c] /\ ShopOf[c] \in Shops
  BY <1>1, Opener DEF Openings
<1>3. b \in Browsers /\ chrome[b].shop = ShopOf[c] /\ contexts[ShopOf[c]] = None
  BY <1>1, <1>2 DEF RefsInv, Holding
<1>4. /\ Browsers' = Browsers /\ chrome'[b].shop = ShopOf[c] /\ chrome'[b].state = "open"
      /\ \A d \in Browsers \ {b} : chrome'[d] = chrome[d]
  BY <1>1, <1>3, StateSet
<1>5. \A s \in Shops : contexts'[s] = IF s = ShopOf[c] THEN b ELSE contexts[s]
  BY <1>1, <1>2 DEF TypeInv
<1>6. RegisteredBrowsersRun'
  <2> SUFFICES ASSUME NEW s \in Shops, contexts'[s] # None
               PROVE  chrome'[contexts'[s]].state = "open" \/ contexts'[s] \in (closeEvents \cup stale)'
    BY DEF RegisteredBrowsersRun, None
  <2>1. CASE s = ShopOf[c]
    BY <1>4, <1>5, <2>1
  <2>2. CASE s # ShopOf[c]
    BY <1>1, <1>3, <1>4, <1>5, <2>2 DEF OwnersInv, RegisteredBrowsersRun, RefsInv
  <2> QED BY <2>1, <2>2
<1>7. ASSUME NEW d \in Browsers PROVE OwnerAt(d)'
  <2>1. OwnerAt(d) /\ OwnerAt(b)
    BY <1>3 DEF OwnersInv
  <2>2. CASE d = b
    <3>1. contexts'[chrome'[b].shop] = b /\ b \notin closeEvents'
      BY <1>1, <1>2, <1>4, <1>5, <2>1 DEF OwnerAt
    <3> QED BY <1>4, <2>2, <3>1 DEF OwnerAt
  <2>3. CASE d # b
    <3>1. chrome'[d] = chrome[d] /\ chrome[d].shop \in Shops /\ d # None
      BY <1>4, <2>3, BrowserType, BrowserDomain DEF None
    <3>2. contexts[chrome[d].shop] = d => contexts'[chrome'[d].shop] = d
      BY <1>3, <1>5, <3>1
    <3>3. Closing(d) => Closing(d)'
      BY <1>1, StillClosing DEF Closings
    <3>4. \A l \in Loops : call[l].at = "launching" /\ call[l].browser = d => call'[l] = call[l]
      BY <1>1, <2>3, Callable DEF Only
    <3> QED BY <1>1, <2>1, <3>1, <3>2, <3>3, <3>4 DEF OwnerAt
  <2> QED BY <2>2, <2>3
<1> QED BY <1>4, <1>6, <1>7 DEF OwnersInv

LEMMA OwnersFailed ==
  ASSUME TypeInv, LoopInv, RefsInv, OwnersInv, NEW c \in Callers, LaunchFails(c) PROVE OwnersInv'
<1> DEFINE b == call[c].browser
<1>1. /\ call[c].at = "launching" /\ Set(b, "gone")
      /\ UNCHANGED <<contexts, closeEvents, lost, stale>> /\ Only(c)
  BY CanIdle DEF LaunchFails, At, history
<1>2. c \in Loops /\ call[c].shop = ShopOf[c] /\ ShopOf[c] \in Shops
  BY <1>1, Opener DEF Openings
<1>3. b \in Browsers /\ chrome[b].shop = ShopOf[c] /\ contexts[ShopOf[c]] = None
  BY <1>1, <1>2 DEF RefsInv, Holding
<1>4. /\ Browsers' = Browsers /\ chrome'[b].shop = ShopOf[c] /\ chrome'[b].state = "gone"
      /\ \A d \in Browsers \ {b} : chrome'[d] = chrome[d]
  BY <1>1, <1>3, StateSet
<1>5. \A s \in Shops : contexts[s] # None => contexts[s] # b
  BY <1>3 DEF RefsInv
<1>6. RegisteredBrowsersRun'
  BY <1>1, <1>4, <1>5 DEF OwnersInv, RegisteredBrowsersRun, RefsInv
<1>7. ASSUME NEW d \in Browsers PROVE OwnerAt(d)'
  <2>1. OwnerAt(d) /\ (Closing(d) => Closing(d)')
    BY <1>1, StillClosing DEF OwnersInv, Closings
  <2>2. \A l \in Loops : call[l].at = "launching" /\ call[l].browser # b => call'[l] = call[l]
    BY <1>1, Callable DEF Only
  <2>3. CASE d = b
    BY <1>1, <1>3, <1>4, <2>1, <2>3 DEF OwnerAt
  <2>4. CASE d # b
    BY <1>1, <1>4, <2>1, <2>2, <2>4 DEF OwnerAt
  <2> QED BY <2>3, <2>4
<1> QED BY <1>4, <1>6, <1>7 DEF OwnersInv

LEMMA OwnersClosed ==
  ASSUME TypeInv, RefsInv, OwnersInv, NEW c \in Callers, Closed(c) PROVE OwnersInv'
<1> DEFINE b == call[c].browser
<1>1. /\ call[c].at = "closing" /\ chrome[b].state = "gone" /\ b \notin closeEvents
      /\ UNCHANGED registry /\ Only(c)
  BY CanResume DEF Closed, At, Closings, engine, system, registry
<1>2. RegisteredBrowsersRun'
  BY <1>1 DEF OwnersInv, RegisteredBrowsersRun, registry, history
<1>3. ASSUME NEW d \in Browsers PROVE OwnerAt(d)'
  <2>1. OwnerAt(d)
    BY DEF OwnersInv
  <2>2. CASE d = b
    BY <1>1, <2>1, <2>2 DEF OwnerAt, registry, history
  <2>3. CASE d # b
    <3>1. Closing(d) => Closing(d)'
      BY <1>1, <2>3, StillClosing
    <3>2. \A l \in Loops : call[l].at = "launching" => call'[l] = call[l]
      BY <1>1, Callable DEF Only
    <3> QED BY <1>1, <2>1, <3>1, <3>2 DEF OwnerAt, registry, history
  <2> QED BY <2>2, <2>3
<1> QED BY <1>1, <1>2, <1>3 DEF OwnersInv, registry, Browsers

LEMMA OwnersUnregistered ==
  ASSUME TypeInv, RefsInv, OwnersInv, NEW c \in Callers, NEW s \in Shops, Unregisters(c, s)
  PROVE  OwnersInv'
<1>1. /\ Only(c) /\ UNCHANGED <<chrome, closeEvents, lost, stale>> /\ call[c].at \notin Holding
      /\ contexts[s] = None \/ (call'[c].at = "saving" /\ call'[c].browser = contexts[s])
  BY DEF Unregisters, Free, history
<1>2. \A t \in Shops : contexts'[t] = IF t = s THEN None ELSE contexts[t]
  BY DEF Unregisters, TypeInv
<1>3. RegisteredBrowsersRun'
  BY <1>1, <1>2 DEF OwnersInv, RegisteredBrowsersRun
<1>4. ASSUME NEW d \in Browsers PROVE OwnerAt(d)'
  <2>1. OwnerAt(d) /\ chrome[d].shop \in Shops /\ d # None
    BY BrowserType, BrowserDomain DEF OwnersInv, None
  <2>2. Closing(d) => Closing(d)'
    BY <1>1, StillClosing DEF Closings, Holding
  <2>3. contexts[chrome[d].shop] = d => contexts'[chrome[d].shop] = d \/ Closing(d)'
    BY <1>1, <1>2, <2>1 DEF Closing, At
  <2>4. \A l \in Loops : call[l].at = "launching" => call'[l] = call[l]
    BY <1>1, Callable DEF Only, Holding
  <2> QED BY <1>1, <2>1, <2>2, <2>3, <2>4 DEF OwnerAt
<1> QED BY <1>1, <1>3, <1>4 DEF OwnersInv, Browsers

LEMMA OwnersLost ==
  ASSUME TypeInv, RefsInv, OwnersInv, NEW c \in Callers, Loses(c) PROVE OwnersInv'
<1> DEFINE b == call[c].browser
<1>1. /\ Only(c) /\ UNCHANGED <<contexts, closeEvents>>
      /\ lost' = IF call[c].at \in Holding THEN lost \cup {b} ELSE lost
      /\ DriverEnds \/ UNCHANGED <<chrome, stale>>
  BY DEF Loses
<1>2. /\ Browsers' = Browsers /\ (\A d \in Browsers : chrome'[d].shop = chrome[d].shop)
      /\ \A d \in Browsers : \/ chrome'[d].state = chrome[d].state
                             \/ chrome'[d].state = "gone"
      /\ \A d \in Browsers : chrome[d].state = "open" => chrome'[d].state = "open" \/ d \in stale'
      /\ stale \subseteq stale'
  BY <1>1, DriverGone DEF Browsers, Alive
<1>3. RegisteredBrowsersRun'
  BY <1>1, <1>2 DEF OwnersInv, RegisteredBrowsersRun, RefsInv
<1>4. ASSUME NEW d \in Browsers PROVE OwnerAt(d)'
  <2>1. OwnerAt(d)
    BY DEF OwnersInv
  <2>2. CASE d \in lost'
    BY <1>1, <1>2, <2>1, <2>2 DEF OwnerAt
  <2>3. CASE d \notin lost'
    <3>1. d \notin lost /\ (call[c].at \in Holding => b # d)
      BY <1>1, <2>3
    <3>2. Closing(d) => Closing(d)'
      BY <1>1, <3>1, StillClosing DEF Closings, Holding
    <3>3. \A l \in Loops : call[l].at = "launching" /\ call[l].browser = d => call'[l] = call[l]
      BY <1>1, <3>1, Callable DEF Only, Holding
    <3> QED BY <1>1, <1>2, <2>1, <3>1, <3>2, <3>3 DEF OwnerAt
  <2> QED BY <2>2, <2>3
<1> QED BY <1>2, <1>3, <1>4 DEF OwnersInv

LEMMA OwnersBrowser ==
  ASSUME TypeInv, RefsInv, OwnersInv, NEW b \in Browsers, BrowserStep(b) PROVE OwnersInv'
<1>0. /\ OwnerAt(b) /\ chrome[b].shop \in Shops /\ b # None
      /\ UNCHANGED call /\ \A d \in Browsers : UNCHANGED Closing(d)
  BY BrowserType, BrowserDomain
     DEF OwnersInv, BrowserStep, Appears, Ends, ContextClosed, Closing, At, None
<1>1. CASE Appears(b)
  <2>1. /\ UNCHANGED <<contexts, closeEvents, lost, stale>>
        /\ chrome[b].state = "launching" /\ b \in lost /\ Set(b, "unheard")
    BY <1>1 DEF Appears, engine, history
  <2>2. /\ Browsers' = Browsers /\ chrome'[b].shop = chrome[b].shop /\ chrome'[b].state = "unheard"
        /\ \A d \in Browsers \ {b} : chrome'[d] = chrome[d]
    BY <2>1, StateSet
  <2>3. RegisteredBrowsersRun'
    BY <2>1, <2>2 DEF OwnersInv, RegisteredBrowsersRun, RefsInv
  <2>4. ASSUME NEW d \in Browsers PROVE OwnerAt(d)'
    BY <1>0, <2>1, <2>2 DEF OwnersInv, OwnerAt
  <2> QED BY <2>2, <2>3, <2>4 DEF OwnersInv
<1>2. CASE Ends(b)
  <2>1. /\ UNCHANGED <<contexts, lost, stale>> /\ Set(b, "gone")
        /\ chrome[b].state \in {"open", "unheard"}
        /\ closeEvents' = IF chrome[b].state = "open" THEN closeEvents \cup {b} ELSE closeEvents
    BY <1>2 DEF Ends, engine, history
  <2>2. /\ Browsers' = Browsers /\ chrome'[b].shop = chrome[b].shop /\ chrome'[b].state = "gone"
        /\ \A d \in Browsers \ {b} : chrome'[d] = chrome[d]
    BY <2>1, StateSet
  <2>3. RegisteredBrowsersRun'
    BY <2>1, <2>2 DEF OwnersInv, RegisteredBrowsersRun, RefsInv
  <2>4. ASSUME NEW d \in Browsers PROVE OwnerAt(d)'
    BY <1>0, <2>1, <2>2 DEF OwnersInv, OwnerAt
  <2> QED BY <2>2, <2>3, <2>4 DEF OwnersInv
<1>3. CASE ContextClosed(b)
  <2>1. /\ UNCHANGED <<chrome, stale>> /\ b \in closeEvents /\ closeEvents' = closeEvents \ {b}
        /\ lost' = lost \cup ({contexts[chrome[b].shop]} \ {None, b})
    BY <1>3 DEF ContextClosed
  <2>2. \A t \in Shops : contexts'[t] = IF t = chrome[b].shop THEN None ELSE contexts[t]
    BY <1>3 DEF ContextClosed, TypeInv
  <2>3. RegisteredBrowsersRun'
    BY <2>1, <2>2 DEF OwnersInv, RegisteredBrowsersRun, RefsInv
  <2>4. ASSUME NEW d \in Browsers PROVE OwnerAt(d)'
    <3>1. OwnerAt(d) /\ chrome[d].shop \in Shops /\ d # None
      BY BrowserType, BrowserDomain DEF OwnersInv, None
    <3>2. CASE d = b
      BY <1>0, <2>1, <3>2 DEF OwnerAt
    <3>3. CASE d # b
      <4>1. contexts[chrome[d].shop] = d => contexts'[chrome[d].shop] = d \/ d \in lost'
        BY <2>1, <2>2, <3>1, <3>3
      <4> QED BY <1>0, <2>1, <3>1, <3>3, <4>1 DEF OwnerAt
    <3> QED BY <3>2, <3>3
  <2> QED BY <2>1, <2>3, <2>4 DEF OwnersInv, Browsers
<1> QED BY <1>1, <1>2, <1>3 DEF BrowserStep

LEMMA OwnersStep == ASSUME TypeInv, LoopInv, QueueInv, RefsInv, OwnersInv, [Next]_vars PROVE OwnersInv'
<1>1. CASE Rests
  <2>1. UNCHANGED <<registry, call>> /\ Commands \in Callers
    BY <1>1, Callable DEF Rests
  <2> QED BY <2>1 DEF OwnersInv, RegisteredBrowsersRun, OwnerAt, Closing, At, registry, history, Browsers
<1>2. ASSUME NEW c \in Callers,
             \/ Turns(c) \/ Waits(c) \/ GivesUp(c) \/ Prepares(c) \/ Launches(c)
             \/ Launched(c) \/ LaunchFails(c) \/ Prepared(c) \/ Saved(c) \/ Closed(c) \/ Loses(c)
             \/ \E s \in Shops : Unregisters(c, s)
      PROVE  OwnersInv'
  <2>1. CASE Turns(c) \/ Waits(c) \/ GivesUp(c) \/ Prepares(c)
    BY <2>1, OwnersFrame DEF Turns, Waits, GivesUp, Prepares, Passes, Free, Holding
  <2>2. CASE Prepared(c)
    BY <2>2, OwnersFrame, CanIdle DEF Prepared, At, Holding, registry, system
  <2>3. CASE Saved(c)
    BY <2>3, OwnersFrame, PlaceKept DEF Saved, At, registry, engine, system
  <2> QED BY <1>2, <2>1, <2>2, <2>3, OwnersLaunch, OwnersLaunched, OwnersFailed, OwnersClosed,
             OwnersUnregistered, OwnersLost
<1> QED BY <1>1, <1>2, OwnersBrowser, Kinds DEF Kind

-----------------------------------------------------------------------------
(* The theorems *)

LEMMA InitIInv == Init => IInv
<1> SUFFICES ASSUME Init PROVE IInv
  OBVIOUS
<1>1. TypeInv
  <2>1. chrome \in Seq([shop : Shops, state : {"launching", "open", "unheard", "gone"}]) /\ Len(chrome) = 0
    BY EmptySeq DEF Init
  <2>2. [c \in Callers |-> Idle] \in [Callers -> Calls]
    BY DEF Calls
  <2>3. contexts \in [Shops -> Nat]
    BY DEF Init, None
  <2>4. Len(chrome) <= MaxBrowsers
    BY <2>1, ParametersAssumption
  <2>5. loop \in [Loops -> {"off", "setup", "up", "ending", "cancelled"}]
    BY DEF Init
  <2>6. playwright \in BOOLEAN /\ driver \in BOOLEAN
    BY DEF Init
  <2>7. call \in [Callers -> Calls]
    BY <2>2 DEF Init
  <2> QED BY <2>1, <2>3, <2>4, <2>5, <2>6, <2>7 DEF TypeInv
<1>2. \A c \in Callers : call[c].at = "idle"
  BY DEF Init, Idle
<1>3. LoopInv
  BY <1>2, Callable DEF Init, LoopInv, OneTracked, TrackedAt, CommandsAt, LoopAt
<1>4. QueueInv
  <2>1. waiters \in Seq(Loops) /\ Len(waiters) = 0
    BY EmptySeq DEF Init
  <2> QED BY <2>1 DEF QueueInv, Distinct
<1>5. Browsers = {}
  BY DEF Init, Browsers
<1>6. RefsInv
  BY <1>2, Callable DEF Init, RefsInv, Holding
<1>7. OwnersInv
  BY <1>5 DEF Init, OwnersInv, RegisteredBrowsersRun
<1> QED BY <1>1, <1>3, <1>4, <1>6, <1>7 DEF IInv

LEMMA Invariance == Spec => []IInv
<1>1. IInv /\ [Next]_vars => IInv'
  BY TypeStep, LoopInvStep, QueueStep, RefsStep, OwnersStep DEF IInv
<1> QED BY <1>1, InitIInv, PTL DEF Spec

\* No Chrome window runs on unnoticed: whatever is launched is registered or in the
\* hands of a call, unless a call was cut off or failed.
THEOREM BrowsersReachable == Spec => []BrowsersAreReachable
<1>1. IInv => BrowsersAreReachable
  <2> SUFFICES ASSUME IInv, NEW b \in Browsers, Alive(b), b \notin lost
               PROVE  Held(b) \/ contexts[chrome[b].shop] = b
    BY DEF BrowsersAreReachable
  <2>1. OwnerAt(b) /\ chrome[b].state \in {"launching", "open", "unheard"}
    BY BrowserType DEF IInv, OwnersInv, Alive
  <2>2. Closing(b) => Held(b)
    BY DEF Closing, Held, At
  <2>3. (\E l \in Loops : call[l].at = "launching" /\ call[l].browser = b) => Held(b)
    BY Callable DEF Held, At
  <2> QED BY <2>1, <2>2, <2>3 DEF OwnerAt
<1> QED BY <1>1, Invariance, PTL

\* A profile directory has one Chrome at a time, but for those that are being closed
\* and those that a failure has lost.
THEOREM OneBrowser == Spec => []OneBrowserPerProfile
<1>1. IInv => OneBrowserPerProfile
  <2> SUFFICES ASSUME IInv,
                      NEW b \in Browsers, b \notin lost, Alive(b), ~Closing(b),
                      NEW d \in Browsers, d \notin lost, Alive(d), ~Closing(d),
                      chrome[b].shop = chrome[d].shop
               PROVE  b = d
    BY DEF OneBrowserPerProfile
  <2>1. ASSUME NEW x \in Browsers, x \notin lost, Alive(x), ~Closing(x)
        PROVE  \/ contexts[chrome[x].shop] = x
               \/ \E l \in Loops : call[l].at = "launching" /\ call[l].browser = x
    <3>1. OwnerAt(x) /\ chrome[x].state \in {"launching", "open", "unheard"}
      BY <2>1, BrowserType DEF IInv, OwnersInv, Alive
    <3> QED BY <2>1, <3>1 DEF OwnerAt
  <2>2. ASSUME NEW x \in Browsers, NEW l \in Loops, call[l].at = "launching", call[l].browser = x
        PROVE  contexts[chrome[x].shop] = None /\ chrome[x].shop = ShopOf[l]
    BY <2>2, Opener, Callable DEF IInv, RefsInv, Holding, Openings
  <2>3. b # None /\ d # None
    BY BrowserDomain DEF IInv, None
  <2>4. CASE contexts[chrome[b].shop] = b
    BY <2>1, <2>2, <2>3, <2>4
  <2>5. CASE contexts[chrome[b].shop] # b
    <3>1. PICK l \in Loops : call[l].at = "launching" /\ call[l].browser = b
      BY <2>1, <2>5
    <3>2. PICK m \in Loops : call[m].at = "launching" /\ call[m].browser = d
      BY <2>1, <2>2, <2>3, <3>1
    <3>3. ShopOf[l] = ShopOf[m]
      BY <2>2, <3>1, <3>2
    <3>4. l = m
      BY <3>1, <3>2, <3>3, OneLauncher DEF IInv, Openings
    <3> QED BY <3>1, <3>2, <3>4
  <2> QED BY <2>4, <2>5
<1> QED BY <1>1, Invariance, PTL

\* A registered browser runs, or its close event is to come, or it ended with the
\* driver.
THEOREM RegisteredRun == Spec => []RegisteredBrowsersRun
<1>1. IInv => RegisteredBrowsersRun
  BY DEF IInv, OwnersInv
<1> QED BY <1>1, Invariance, PTL

\* The close event of an old browser finds another one of its shop registered only
\* while the old one is being closed, or after it was lost.
THEOREM OnlyLateCloses == Spec => []OnlyLateClosesDisplace
<1>1. IInv => OnlyLateClosesDisplace
  BY DEF IInv, OwnersInv, OwnerAt, RefsInv, OnlyLateClosesDisplace
<1> QED BY <1>1, Invariance, PTL

-----------------------------------------------------------------------------
(* The permits *)

\* Every permit that is not free is with a call that will give it back.
PermitInv ==
    /\ permits \in Nat
    /\ IsFiniteSet(Insiders)
    /\ PermitsAddUp

LEMMA PermitFrame ==
  ASSUME PermitInv, UNCHANGED permits, NEW c \in Callers, Only(c),
         call[c].at \notin Inside, call'[c].at \notin Inside
  PROVE  PermitInv'
<1>1. Insiders' = Insiders
  BY DEF Insiders, At, Inside, Only
<1> QED BY <1>1 DEF PermitInv, PermitsAddUp

LEMMA PermitTaken ==
  ASSUME PermitInv, permits > 0, permits' = permits - 1, NEW c \in Callers, Only(c),
         call[c].at \notin Inside, call'[c].at \in Inside
  PROVE  PermitInv'
<1>1. Insiders' = Insiders \cup {c} /\ c \notin Insiders
  BY DEF Insiders, At, Inside, Only
<1>2. IsFiniteSet(Insiders') /\ Cardinality(Insiders') = Cardinality(Insiders) + 1
  BY <1>1, FS_AddElement DEF PermitInv, PermitsAddUp
<1>3. Cardinality(Insiders) \in Nat
  BY FS_CardinalityType DEF PermitInv, PermitsAddUp
<1> QED BY <1>2, <1>3, ParametersAssumption DEF PermitInv, PermitsAddUp

LEMMA PermitGiven ==
  ASSUME PermitInv, permits' = permits + 1, NEW c \in Callers, Only(c),
         call[c].at \in Inside, call'[c].at \notin Inside
  PROVE  PermitInv'
<1>1. Insiders' = Insiders \ {c} /\ c \in Insiders
  BY DEF Insiders, At, Inside, Only
<1>2. IsFiniteSet(Insiders') /\ Cardinality(Insiders') = Cardinality(Insiders) - 1
  BY <1>1, FS_RemoveElement DEF PermitInv, PermitsAddUp
<1>3. Cardinality(Insiders) \in Nat
  BY FS_CardinalityType DEF PermitInv, PermitsAddUp
<1> QED BY <1>2, <1>3, ParametersAssumption DEF PermitInv, PermitsAddUp

LEMMA PermitStep == ASSUME IInv, PermitInv, [Next]_vars PROVE PermitInv'
<1>1. CASE Rests
  <2>1. UNCHANGED <<permits, call>>
    BY <1>1 DEF Rests
  <2> QED BY <2>1 DEF PermitInv, PermitsAddUp, Insiders, At
<1>2. ASSUME NEW c \in Callers,
             \/ Turns(c) \/ Waits(c) \/ GivesUp(c) \/ Prepares(c) \/ Launches(c)
             \/ Launched(c) \/ LaunchFails(c) \/ Prepared(c) \/ Saved(c) \/ Closed(c) \/ Loses(c)
             \/ \E s \in Shops : Unregisters(c, s)
      PROVE  PermitInv'
  <2>1. CASE Turns(c) \/ Waits(c) \/ GivesUp(c) \/ \E s \in Shops : Unregisters(c, s)
    BY <2>1, PermitFrame DEF Turns, Waits, GivesUp, Passes, Unregisters, Free, Inside
  <2>2. CASE Prepares(c) \/ Launches(c)
    BY <2>2, PermitTaken DEF Prepares, Launches, Passes, Free, Inside
  <2>3. CASE Launched(c)
    <3>1. Only(c) /\ call[c].at \in Inside /\ call'[c].at \in Inside /\ UNCHANGED permits
      BY <2>3, PlaceKept DEF Launched, At, Inside, IInv
    <3>2. Insiders' = Insiders
      BY <3>1 DEF Insiders, At, Inside, Only
    <3> QED BY <3>1, <3>2 DEF PermitInv, PermitsAddUp
  <2>4. CASE LaunchFails(c) \/ Prepared(c)
    BY <2>4, PermitGiven, CanIdle DEF LaunchFails, Prepared, At, Inside, Idle, IInv
  <2>5. CASE Saved(c)
    BY <2>5, PermitFrame, PlaceKept DEF Saved, At, Inside, engine, IInv
  <2>6. CASE Closed(c)
    BY <2>6, PermitFrame, CanResume DEF Closed, At, Inside, Closings, engine, IInv
  <2>7. CASE Loses(c)
    BY <2>7, PermitFrame, PermitGiven DEF Loses, Free
  <2> QED BY <1>2, <2>1, <2>2, <2>3, <2>4, <2>5, <2>6, <2>7
<1>3. ASSUME NEW b \in Browsers, BrowserStep(b) PROVE PermitInv'
  <2>1. UNCHANGED <<permits, call>>
    BY <1>3 DEF BrowserStep, Appears, Ends, ContextClosed, engine
  <2> QED BY <2>1 DEF PermitInv, PermitsAddUp, Insiders, At
<1> QED BY <1>1, <1>2, <1>3, Kinds DEF Kind, IInv

LEMMA PermitInvariant == Spec => []PermitInv
<1>1. Init => PermitInv
  <2> SUFFICES ASSUME Init PROVE PermitInv
    OBVIOUS
  <2>1. Insiders = {}
    BY DEF Init, Insiders, At, Idle
  <2> QED BY <2>1, FS_EmptySet, ParametersAssumption DEF Init, PermitInv, PermitsAddUp
<1>2. IInv /\ PermitInv /\ [Next]_vars => PermitInv'
  BY PermitStep
<1> QED BY <1>1, <1>2, Invariance, PTL DEF Spec

\* The semaphore neither loses a permit nor gains one, however calls fail, are cut
\* off or cancelled: the free ones and those of the calls inside make up all.
THEOREM PermitsAreAccounted == Spec => []PermitsAddUp
<1>1. PermitInv => PermitsAddUp
  BY DEF PermitInv
<1> QED BY <1>1, PermitInvariant, PTL

\* The types: the registry has browsers that exist, the semaphore no more permits than
\* it was made with, and only loops wait for it.
THEOREM EngineTypeCorrect == Spec => []TypeOK
<1>1. IInv /\ PermitInv => TypeOK
  <2> SUFFICES ASSUME IInv, PermitInv PROVE TypeOK
    OBVIOUS
  <2>1. TypeInv /\ Browsers = 1..Len(chrome) /\ Len(chrome) \in Nat
    BY BrowserDomain DEF IInv
  <2>2. contexts \in [Shops -> 0..MaxBrowsers]
    <3>1. ASSUME NEW s \in Shops PROVE contexts[s] \in 0..MaxBrowsers
      <4>1. CASE contexts[s] = None
        BY <4>1, ParametersAssumption DEF None
      <4>2. CASE contexts[s] # None
        <5>1. contexts[s] \in 1..Len(chrome)
          BY <2>1, <4>2 DEF IInv, RefsInv
        <5>2. Len(chrome) <= MaxBrowsers
          BY <2>1 DEF TypeInv
        <5> QED BY <2>1, <5>1, <5>2, ParametersAssumption
      <4> QED BY <4>1, <4>2
    <3> QED BY <2>1, <3>1 DEF TypeInv
  <2>3. permits \in 0..MaxOpening
    BY FS_CardinalityType, ParametersAssumption DEF PermitInv, PermitsAddUp
  <2>4. waiters \in Seq(Loops) /\ closeEvents \cup lost \cup stale \subseteq Browsers
    BY DEF IInv, QueueInv, RefsInv
  <2>5. \A c \in Callers : call[c].at \in {"launching", "saving", "closing"} =>
          call[c].browser \in Browsers
    BY DEF IInv, RefsInv, Holding
  <2>6. {playwright, driver} \subseteq BOOLEAN
    BY <2>1 DEF TypeInv
  <2>7. /\ chrome \in Seq([shop : Shops, state : {"launching", "open", "unheard", "gone"}])
        /\ Len(chrome) <= MaxBrowsers
        /\ loop \in [Loops -> {"off", "setup", "up", "ending", "cancelled"}]
    BY <2>1 DEF TypeInv
  <2> QED BY <2>2, <2>3, <2>4, <2>5, <2>6, <2>7 DEF TypeOK
<1> QED BY <1>1, Invariance, PermitInvariant, PTL
=============================================================================
