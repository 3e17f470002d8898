------------------------- MODULE ShopConsoleProofs -------------------------
(***************************************************************************)
(* Theorems about ShopConsole, for any sizes of its queues and any bounds. *)
(***************************************************************************)
EXTENDS ShopConsole, SequenceTheorems, TLAPS

-----------------------------------------------------------------------------
(* The types, and what a dead worker leaves behind *)

Commands == {"StartShop", "StopShop"}
Events   == {"online", "offline", "other"}

\* A flag needs a row, and the loops of a worker die with it.
StateInv ==
    /\ online \/ policy => hasRow
    /\ commands \in Seq(Commands)
    /\ statusQueue \in Seq(Events)
    /\ Len(statusQueue) <= StatusMax
    /\ stragglers \in Nat
    /\ timers \in Nat
    /\ worker \in {"none", "dead"} => loop = "off" /\ stragglers = 0 /\ timers = 0

\* What Emit does to the queue.
LEMMA Emitted ==
  ASSUME StateInv, NEW events \in Seq(Events), Emit(events)
  PROVE  /\ statusQueue' \in Seq(Events)
         /\ Len(statusQueue') <= StatusMax
         /\ Len(statusQueue) <= Len(statusQueue')
         /\ ~Dropped(events) => Len(statusQueue') = Len(statusQueue) + Len(events)
         /\ \A i \in 1..Len(statusQueue) : statusQueue'[i] = statusQueue[i]
         /\ \A i \in 1..Len(statusQueue') :
              i > Len(statusQueue) => /\ i - Len(statusQueue) \in 1..Len(events)
                                      /\ statusQueue'[i] = events[i - Len(statusQueue)]
<1> DEFINE room == StatusMax - Len(statusQueue)
           n    == IF Len(events) < room THEN Len(events) ELSE room
           sent == SubSeq(events, 1, n)
<1>1. Len(statusQueue) \in Nat /\ Len(events) \in Nat /\ StatusMax \in Nat
  BY BoundsAssumption, LenProperties DEF StateInv
<1>2. n \in 0..Len(events) /\ n <= room /\ (~Dropped(events) => n = Len(events))
  BY <1>1 DEF StateInv, Dropped
<1> HIDE DEF n
<1>3. /\ sent \in Seq(Events)
      /\ Len(sent) = n
      /\ \A i \in 1..n : sent[i] = events[i]
  <2>1. \A i \in 1..n : events[i] \in Events
    BY <1>1, <1>2, ElementOfSeq
  <2>2. /\ sent \in Seq(Events)
        /\ Len(sent) = IF 1 <= n THEN n - 1 + 1 ELSE 0
        /\ \A i \in 1..n - 1 + 1 : sent[i] = events[1 + i - 1]
    BY <1>1, <1>2, <2>1, SubSeqProperties
  <2> QED BY <1>1, <1>2, <2>2
<1> HIDE DEF sent
<1>4. statusQueue' = statusQueue \o sent
  BY DEF Emit, sent, n
<1>5. /\ statusQueue' \in Seq(Events)
      /\ Len(statusQueue') = Len(statusQueue) + n
      /\ \A i \in 1..Len(statusQueue) + n :
           statusQueue'[i] = IF i <= Len(statusQueue) THEN statusQueue[i]
                                                      ELSE sent[i - Len(statusQueue)]
  BY <1>3, <1>4, ConcatProperties DEF StateInv
<1>6. room \in Int /\ n \in Nat /\ Len(statusQueue) + n <= StatusMax
  BY <1>1, <1>2
<1> HIDE DEF room
<1>7. ASSUME NEW i \in 1..Len(statusQueue') , i > Len(statusQueue)
      PROVE  i - Len(statusQueue) \in 1..n
  BY <1>1, <1>5, <1>6, <1>7
<1>8. ASSUME NEW i \in 1..Len(statusQueue') , i > Len(statusQueue)
      PROVE  /\ i - Len(statusQueue) \in 1..Len(events)
             /\ statusQueue'[i] = events[i - Len(statusQueue)]
  BY <1>1, <1>2, <1>3, <1>5, <1>6, <1>7, <1>8
<1>9. \A i \in 1..Len(statusQueue) : statusQueue'[i] = statusQueue[i]
  BY <1>1, <1>5, <1>6
<1> QED BY <1>1, <1>2, <1>5, <1>6, <1>8, <1>9

LEMMA Publications ==
  /\ <<"online">> \in Seq(Events) /\ <<"other">> \in Seq(Events)
  /\ <<"offline">> \in Seq(Events) /\ <<"offline", "offline">> \in Seq(Events)
  /\ <<"other", "offline">> \in Seq(Events)
BY DEF Events

LEMMA StateStep == ASSUME StateInv, [Next]_vars PROVE StateInv'
<1>0. CASE UNCHANGED vars
  BY <1>0 DEF StateInv, vars, database, manager, runtime, history
<1>1. ASSUME NEW events \in Seq(Events), Emit(events)
      PROVE  statusQueue' \in Seq(Events) /\ Len(statusQueue') <= StatusMax
  BY <1>1, Emitted
<1>2. ASSUME NEW c \in Commands
      PROVE  Append(commands, c) \in Seq(Commands) /\ <<c>> \in Seq(Commands)
  BY <1>2, AppendProperties DEF StateInv
<1>3. commands # <<>> => Tail(commands) \in Seq(Commands)
  BY HeadTailProperties DEF StateInv
<1>4. "StartShop" \in Commands /\ "StopShop" \in Commands /\ <<>> \in Seq(Commands)
  BY DEF Commands
<1>5. CASE Route
  <2>1. CASE StartRequested
    BY <2>1 DEF StartRequested, StateInv, runtime
  <2>2. CASE StartAllRequested
    BY <2>2 DEF StartAllRequested, StateInv, database, runtime
  <2>3. CASE AssignRequested
    BY <2>3, <1>2, <1>4 DEF AssignRequested, Assign, Refuse, Alive, StateInv, database, runtime
  <2>4. CASE StopRequested
    BY <2>4, <1>2, <1>4 DEF StopRequested, Remove, StateInv, database, runtime
  <2>5. CASE FlagCleared
    BY <2>5 DEF FlagCleared, Clear, StateInv, runtime
  <2>6. CASE ToggledOff
    BY <2>6 DEF ToggledOff, Clear, StateInv, runtime
  <2>7. CASE RemoveRequested
    BY <2>7, <1>2, <1>4 DEF RemoveRequested, Remove, StateInv, database, runtime
  <2>8. CASE StopAllRequested
    BY <2>8, <1>2, <1>4 DEF StopAllRequested, Remove, StateInv, database, runtime
  <2>9. CASE DeleteRequested
    BY <2>9 DEF DeleteRequested, StateInv, manager, runtime
  <2>10. CASE PolicyChanged
    BY <2>10 DEF PolicyChanged, StateInv, manager, runtime
  <2> QED BY <1>5, <2>1, <2>2, <2>3, <2>4, <2>5, <2>6, <2>7, <2>8, <2>9, <2>10 DEF Route
<1>6. CASE StatusListener
  <2>1. statusQueue' \in Seq(Events) /\ Len(statusQueue') <= StatusMax
    <3>1. Len(statusQueue) \in Nat /\ StatusMax \in Nat
      BY LenProperties, BoundsAssumption DEF StateInv
    <3>2. CASE statusQueue = <<>>
      BY <1>6, <3>2 DEF StatusListener, HandleStatusEvent, StateInv
    <3>3. CASE statusQueue # <<>>
      <4>1. statusQueue' = Tail(statusQueue)
        BY <1>6, <3>3 DEF StatusListener, HandleStatusEvent
      <4>2. Tail(statusQueue) \in Seq(Events) /\ Len(Tail(statusQueue)) = Len(statusQueue) - 1
        BY <3>3, HeadTailProperties DEF StateInv
      <4> QED BY <3>1, <4>1, <4>2 DEF StateInv
    <3> QED BY <3>2, <3>3
  <2>2. online' => hasRow
    BY <1>6 DEF StatusListener, HandleStatusEvent, StateInv
  <2> QED BY <1>6, <2>1, <2>2, <1>2, <1>4 DEF StatusListener, MonitorWorkers, StateInv, runtime
<1>7. CASE CommandLoop
  <2>1. CASE EmitHeartbeat
    <3>1. Append(statusQueue, "other") \in Seq(Events)
          /\ Len(Append(statusQueue, "other")) = Len(statusQueue) + 1
      BY AppendProperties DEF StateInv, Events
    <3>2. Len(statusQueue) \in Nat /\ StatusMax \in Nat
      BY LenProperties, BoundsAssumption DEF StateInv
    <3>3. statusQueue' \in Seq(Events) /\ Len(statusQueue') <= StatusMax
      <4>1. CASE Len(statusQueue) < StatusMax
        BY <2>1, <3>1, <3>2, <4>1 DEF EmitHeartbeat
      <4>2. CASE ~(Len(statusQueue) < StatusMax)
        BY <2>1, <4>2 DEF EmitHeartbeat, StateInv
      <4> QED BY <4>1, <4>2
    <3> QED BY <2>1, <3>3 DEF EmitHeartbeat, StateInv, database, runtime
  <2>2. CASE NoCommand
    BY <2>2 DEF NoCommand, StateInv, database, runtime
  <2>3. CASE HandleStart
    BY <2>3, <1>3 DEF HandleStart, NextTurn, StartLoop, StateInv, database
  <2>4. CASE HandleStop
    BY <2>4, <1>3 DEF HandleStop, NextTurn, StateInv, database
  <2>5. CASE StopEnds
    BY <2>5, <1>1, Publications DEF StopEnds, PublishOffline, NextTurn, StateInv, runtime
  <2>6. CASE CommandFails
    BY <2>6, <1>3 DEF CommandFails, StateInv, database, runtime
  <2>7. CASE EndWorker
    <3>1. PICK n \in stragglers..(stragglers + 1) :
            /\ online' = (online /\ n = 0 /\ loop = "off")
            /\ Emit([i \in 1..n |-> "offline"])
      BY <2>7 DEF EndWorker
    <3>2. [i \in 1..n |-> "offline"] \in Seq(Events)
      BY <3>1 DEF StateInv, Events
    <3> QED BY <2>7, <3>1, <3>2, <1>1 DEF EndWorker, Die, StateInv
  <2> QED BY <1>7, <2>1, <2>2, <2>3, <2>4, <2>5, <2>6, <2>7 DEF CommandLoop
<1>8. CASE Crash
  <2>1. PICK n \in 0..Len(statusQueue) : statusQueue' = SubSeq(statusQueue, 1, n)
    BY <1>8 DEF Crash
  <2>2. statusQueue' \in Seq(Events) /\ Len(statusQueue') <= StatusMax
    BY <2>1, SubSeqProperties, LenProperties, ElementOfSeq, BoundsAssumption DEF StateInv
  <2> QED BY <1>8, <2>2 DEF Crash, Die, StateInv, database
<1>9. CASE ShopLoop
  <2>1. CASE AwaitManualLogin
    BY <2>1 DEF AwaitManualLogin, StateInv, runtime
  <2>2. CASE GoOnline
    BY <2>2, <1>1, Publications DEF GoOnline, PublishOnline, Alive, StateInv
  <2>3. CASE LoggedInAgain
    BY <2>3, <1>1, Publications DEF LoggedInAgain, PublishOnline, StateInv, database, runtime
  <2>4. CASE CrashRecovery
    BY <2>4, <1>1, Publications DEF CrashRecovery, Alive, StateInv, database
  <2>5. CASE GiveUp
    BY <2>5, <1>1, Publications DEF GiveUp, PublishOffline, Alive, StateInv
  <2>6. CASE OnTaskDone
    <3>1. statusQueue' \in Seq(Events) /\ Len(statusQueue') <= StatusMax
      BY <2>6, <1>1, Publications DEF OnTaskDone, PublishOffline, StateInv
    <3>2. /\ ~online' /\ UNCHANGED <<hasRow, policy, commands, worker, stragglers>>
          /\ worker \notin {"none", "dead"}
      BY <2>6 DEF OnTaskDone, PublishOffline, Alive
    <3>3. timers' \in Nat
      BY <2>6 DEF OnTaskDone, StateInv
    <3> QED BY <3>1, <3>2, <3>3 DEF StateInv
  <2>7. CASE CancelledTaskDone
    <3>1. statusQueue' \in Seq(Events) /\ Len(statusQueue') <= StatusMax
      BY <2>7, <1>1, Publications DEF CancelledTaskDone, PublishOffline
    <3>2. stragglers' \in Nat /\ worker \notin {"none", "dead"}
      BY <2>7 DEF CancelledTaskDone, StateInv
    <3> QED BY <2>7, <3>1, <3>2 DEF CancelledTaskDone, PublishOffline, StateInv
  <2>8. CASE AutoRestartShop
    BY <2>8 DEF AutoRestartShop, StartLoop, StateInv, database
  <2> QED BY <1>9, <2>1, <2>2, <2>3, <2>4, <2>5, <2>6, <2>7, <2>8 DEF ShopLoop
<1>10. CASE OtherShopEmits
  BY <1>10, <1>1, Publications DEF OtherShopEmits, StateInv, database, runtime
<1> QED BY <1>0, <1>5, <1>6, <1>7, <1>8, <1>9, <1>10 DEF Next

-----------------------------------------------------------------------------
(* The list of running shops *)

\* The last command about a shop in the list is its StartShop.
ListInv ==
    /\ mapped /\ commands # <<>> => commands[Len(commands)] = "StartShop"
    /\ ShownShopIsServed

LEMMA CommandAdded ==
  ASSUME StateInv, NEW c \in Commands, commands' = Append(commands, c)
  PROVE  /\ commands' # <<>>
         /\ commands'[Len(commands')] = c
         /\ Sent(c)'
         /\ \A d \in Commands : Sent(d) => Sent(d)'
<1>1. /\ Len(commands) \in Nat /\ DOMAIN commands = 1..Len(commands)
      /\ commands' \in Seq(Commands) /\ commands' # <<>>
      /\ Len(commands') = Len(commands) + 1
      /\ \A i \in 1..Len(commands) : commands'[i] = commands[i]
      /\ commands'[Len(commands) + 1] = c
  BY LenProperties, AppendProperties DEF StateInv
<1>2. DOMAIN commands' = 1..Len(commands')
  BY <1>1, LenProperties
<1> QED BY <1>1, <1>2 DEF Sent

LEMMA CommandTaken ==
  ASSUME StateInv, commands # <<>>, commands' = Tail(commands)
  PROVE  /\ commands' # <<>> => commands'[Len(commands')] = commands[Len(commands)]
         /\ \A d \in Commands : Sent(d) /\ Head(commands) # d => Sent(d)'
         /\ \A d \in Commands : Sent(d)' => Sent(d)
         /\ Sent(commands[Len(commands)])
<1>1. /\ Len(commands) \in Nat \ {0} /\ DOMAIN commands = 1..Len(commands)
      /\ Tail(commands) \in Seq(Commands)
      /\ Len(Tail(commands)) = Len(commands) - 1
      /\ \A i \in 1..Len(Tail(commands)) : Tail(commands)[i] = commands[i + 1]
      /\ Head(commands) = commands[1]
  BY LenProperties, EmptySeq, HeadTailProperties DEF StateInv
<1>2. DOMAIN commands' = 1..(Len(commands) - 1)
  BY <1>1, LenProperties
<1>3. commands' # <<>> => Len(commands') >= 1
  BY <1>1, EmptySeq
<1>4. \A i \in 1..Len(commands) : i # 1 => /\ i - 1 \in 1..(Len(commands) - 1)
                                          /\ commands'[i - 1] = commands[i]
  BY <1>1
<1>5. \A i \in 1..(Len(commands) - 1) : /\ i + 1 \in 1..Len(commands)
                                        /\ commands'[i] = commands[i + 1]
  BY <1>1
<1>6. commands' # <<>> => commands'[Len(commands')] = commands[Len(commands)]
  BY <1>1, <1>3
<1>7. \A d \in Commands : Sent(d) /\ Head(commands) # d => Sent(d)'
  BY <1>1, <1>2, <1>4 DEF Sent
<1>8. \A d \in Commands : Sent(d)' => Sent(d)
  BY <1>1, <1>2, <1>5 DEF Sent
<1>9. Sent(commands[Len(commands)])
  BY <1>1 DEF Sent
<1> QED BY <1>6, <1>7, <1>8, <1>9

LEMMA RestartSent ==
  ASSUME commands' = <<"StartShop">>
  PROVE  Sent("StartShop")' /\ commands'[Len(commands')] = "StartShop"
BY DEF Sent

\* A step that leaves the list and the queue alone, and no loop without a trace.
LEMMA ListFrame ==
  ASSUME ListInv, UNCHANGED <<mapped, commands>>,
         \/ worker' \in {"ending", "dead"}
         \/ worker \notin {"ending", "dead"} /\ (loop # "off" \/ timers > 0 \/ ended =>
                                               loop' # "off" \/ timers' > 0 \/ ended')
  PROVE  ListInv'
BY DEF ListInv, ShownShopIsServed, Sent

LEMMA RoutesList == ASSUME StateInv, ListInv, Route PROVE ListInv'
<1> USE DEF Commands
<1>1. ASSUME UNCHANGED <<mapped, commands, worker, loop, timers, ended>> PROVE ListInv'
  BY <1>1 DEF ListInv, ShownShopIsServed, Sent
<1>2. ASSUME Remove, UNCHANGED <<worker, loop, timers>> PROVE ListInv'
  BY <1>2 DEF Remove, ListInv, ShownShopIsServed
<1>3. CASE StartRequested
  BY <1>3, <1>1 DEF StartRequested, runtime, history
<1>4. CASE StartAllRequested
  BY <1>4, <1>1 DEF StartAllRequested, runtime, history
<1>5. CASE AssignRequested
  <2>1. CASE Assign /\ Alive
    BY <2>1, CommandAdded DEF Assign, ListInv, ShownShopIsServed
  <2>2. CASE Assign /\ ~Alive
    BY <2>2, RestartSent DEF Assign, ListInv, ShownShopIsServed
  <2>3. CASE Refuse
    BY <1>5, <2>3, <1>1 DEF AssignRequested, Refuse, runtime
  <2> QED BY <1>5, <2>1, <2>2, <2>3 DEF AssignRequested
<1>6. CASE StopRequested
  BY <1>6, <1>2 DEF StopRequested, runtime
<1>7. CASE FlagCleared
  BY <1>7, <1>1 DEF FlagCleared, Clear, runtime
<1>8. CASE ToggledOff
  BY <1>8, <1>1 DEF ToggledOff, Clear, runtime
<1>9. CASE RemoveRequested
  BY <1>9, <1>2 DEF RemoveRequested, runtime
<1>10. CASE StopAllRequested
  BY <1>10, <1>2 DEF StopAllRequested, runtime
<1>11. CASE DeleteRequested
  BY <1>11, <1>1 DEF DeleteRequested, manager, runtime, history
<1>12. CASE PolicyChanged
  BY <1>12, <1>1 DEF PolicyChanged, manager, runtime, history
<1> QED BY <1>3, <1>4, <1>5, <1>6, <1>7, <1>8, <1>9, <1>10, <1>11, <1>12, Zenon DEF Route

LEMMA WorkerList == ASSUME StateInv, ListInv, CommandLoop PROVE ListInv'
<1> USE DEF Commands
<1>1. CASE EmitHeartbeat
  BY <1>1, ListFrame DEF EmitHeartbeat, manager, runtime, history
<1>2. CASE NoCommand
  BY <1>2, ListFrame DEF NoCommand, manager, runtime, history
<1>3. CASE HandleStart
  <2>1. mapped' = mapped /\ timers' = timers /\ commands # <<>> /\ commands' = Tail(commands)
    BY <1>3 DEF HandleStart, manager
  <2>2. mapped => loop' # "off" \/ ended'
    BY <1>3 DEF HandleStart, StartLoop
  <2> QED BY <2>1, <2>2, CommandTaken DEF ListInv, ShownShopIsServed
<1>4. CASE HandleStop
  <2>1. /\ UNCHANGED <<mapped, ended, timers>>
        /\ commands # <<>> /\ commands' = Tail(commands) /\ Head(commands) = "StopShop"
    BY <1>4 DEF HandleStop, manager
  <2>2. mapped => Sent("StartShop")'
    <3>1. mapped => commands[Len(commands)] = "StartShop"
      BY <2>1 DEF ListInv
    <3> QED BY <2>1, <3>1, CommandTaken
  <2> QED BY <2>1, <2>2, CommandTaken DEF ListInv, ShownShopIsServed
<1>5. CASE StopEnds
  BY <1>5, ListFrame DEF StopEnds, manager, runtime
<1>6. CASE CommandFails
  <2>1. /\ mapped' = mapped /\ worker' = "ending"
        /\ commands # <<>> /\ commands' = Tail(commands)
    BY <1>6 DEF CommandFails, manager
  <2> QED BY <2>1, CommandTaken DEF ListInv, ShownShopIsServed
<1>7. CASE EndWorker
  BY <1>7, ListFrame DEF EndWorker, Die, manager
<1> QED BY <1>1, <1>2, <1>3, <1>4, <1>5, <1>6, <1>7 DEF CommandLoop

LEMMA LoopList == ASSUME StateInv, ListInv, ShopLoop PROVE ListInv'
<1>1. CASE worker \in {"ending", "dead"}
  <2>1. UNCHANGED <<mapped, commands, worker>>
    BY DEF ShopLoop, AwaitManualLogin, GoOnline, LoggedInAgain, CrashRecovery, GiveUp, OnTaskDone,
           CancelledTaskDone, AutoRestartShop, manager
  <2> QED BY <1>1, <2>1 DEF ListInv, ShownShopIsServed
<1>2. CASE worker \notin {"ending", "dead"}
  <2>1. UNCHANGED <<mapped, commands, worker>>
    BY DEF ShopLoop, AwaitManualLogin, GoOnline, LoggedInAgain, CrashRecovery, GiveUp, OnTaskDone,
           CancelledTaskDone, AutoRestartShop, manager
  <2>2. CASE AwaitManualLogin \/ GoOnline \/ LoggedInAgain \/ CrashRecovery \/ GiveUp
    BY <2>1, <2>2 DEF AwaitManualLogin, GoOnline, LoggedInAgain, CrashRecovery, GiveUp, runtime,
           ListInv, ShownShopIsServed, Sent
  <2>3. CASE OnTaskDone
    <3>1. timers' > 0 \/ ended' = mapped
      BY <2>3 DEF OnTaskDone, StateInv
    <3> QED BY <2>1, <3>1 DEF ListInv, ShownShopIsServed, Sent
  <2>4. CASE CancelledTaskDone
    BY <1>2, <2>1, <2>4, ListFrame DEF CancelledTaskDone
  <2>5. CASE AutoRestartShop
    BY <2>1, <2>5 DEF AutoRestartShop, StartLoop, ListInv, ShownShopIsServed, Sent
  <2> QED BY <2>2, <2>3, <2>4, <2>5 DEF ShopLoop
<1> QED BY <1>1, <1>2

LEMMA ListStep == ASSUME StateInv, ListInv, [Next]_vars PROVE ListInv'
<1>1. CASE UNCHANGED vars
  BY <1>1 DEF ListInv, ShownShopIsServed, Sent, vars, manager, runtime, history
<1>2. CASE StatusListener
  <2>1. UNCHANGED <<mapped, loop, timers, ended>>
    BY <1>2 DEF StatusListener, manager, runtime, history
  <2>2. CASE worker = "dead" /\ mapped
    BY <1>2, <2>1, <2>2, RestartSent DEF StatusListener, MonitorWorkers, ListInv, ShownShopIsServed
  <2>3. CASE worker = "dead" /\ ~mapped
    BY <2>1, <2>3 DEF ListInv, ShownShopIsServed
  <2>4. CASE worker # "dead"
    BY <1>2, <2>1, <2>4 DEF StatusListener, MonitorWorkers, ListInv, ShownShopIsServed, Sent
  <2> QED BY <2>2, <2>3, <2>4
<1>3. CASE Crash
  BY <1>3, ListFrame DEF Crash, Die, manager
<1>4. CASE OtherShopEmits
  BY <1>4, ListFrame DEF OtherShopEmits, manager, runtime, history
<1> QED BY <1>1, <1>2, <1>3, <1>4, RoutesList, WorkerList, LoopList DEF Next

-----------------------------------------------------------------------------
(* The flag of a shop without a loop *)

\* Every event on its way that says online is followed by one that says offline.
Overruled ==
    \A i \in DOMAIN statusQueue : statusQueue[i] = "online" =>
        \E j \in DOMAIN statusQueue : j > i /\ statusQueue[j] = "offline"

\* Every event on its way that says offline is followed by one that says online.
Renewed ==
    \A i \in DOMAIN statusQueue : statusQueue[i] = "offline" =>
        \E j \in DOMAIN statusQueue : j > i /\ statusQueue[j] = "online"

\* No "offline" is still to come from a stop, a cancelled loop or the end of the
\* worker.
Silent == worker \notin {"stopping", "ending"} /\ stragglers = 0

\* The flag of a shop whose loop is over cannot come to be set by an event, and is
\* not set when no start is on its way: unless it is so without reason.
FlagInv ==
    /\ loop \in {"off", "ending"} /\ Silent => falseOnline \/ Overruled
    /\ /\ loop = "off" /\ Silent /\ api # "assigning"
       /\ ~Sent("StartShop") \/ worker = "dead"
       => falseOnline \/ ~online \/ Pending("offline")

Farewells == {<<"offline">>, <<"offline", "offline">>, <<"other", "offline">>}

LEMMA Published ==
  ASSUME StateInv, NEW events \in Farewells, PublishOffline(events)
  PROVE  ~online' /\ (falseOnline' \/ Overruled')
<1>1. /\ events \in Seq(Events) /\ Len(events) \in Nat \ {0}
      /\ events[Len(events)] = "offline"
      /\ \A i \in 1..Len(events) : events[i] # "online"
  <2>1. CASE events = <<"offline">>
    BY <2>1, Publications
  <2>2. CASE events = <<"offline", "offline">>
    BY <2>2, Publications
  <2>3. CASE events = <<"other", "offline">>
    BY <2>3, Publications
  <2> QED BY <2>1, <2>2, <2>3 DEF Farewells
<1>2. /\ ~online' /\ Emit(events)
      /\ falseOnline' = (Dropped(events) /\ Pending("online"))
  BY DEF PublishOffline
<1>3. /\ Len(statusQueue) \in Nat /\ DOMAIN statusQueue = 1..Len(statusQueue)
      /\ Len(statusQueue') \in Nat /\ DOMAIN statusQueue' = 1..Len(statusQueue')
  BY <1>1, <1>2, Emitted, LenProperties DEF StateInv
<1>4. CASE ~Dropped(events)
  <2>1. /\ Len(statusQueue') = Len(statusQueue) + Len(events)
        /\ statusQueue'[Len(statusQueue')] = "offline"
    <3>1. Len(statusQueue') = Len(statusQueue) + Len(events)
      BY <1>1, <1>2, <1>4, Emitted
    <3>2. Len(statusQueue') \in 1..Len(statusQueue') /\ Len(statusQueue') > Len(statusQueue)
      BY <1>1, <1>3, <3>1
    <3>3. statusQueue'[Len(statusQueue')] = events[Len(statusQueue') - Len(statusQueue)]
      BY <1>1, <1>2, <3>2, Emitted
    <3>4. Len(statusQueue') - Len(statusQueue) = Len(events)
      BY <1>1, <1>3, <3>1
    <3> QED BY <1>1, <3>1, <3>3, <3>4
  <2> QED BY <1>2, <1>3, <2>1 DEF Overruled
<1>5. CASE ~Pending("online")
  <2>1. \A i \in 1..Len(statusQueue') : statusQueue'[i] # "online"
    <3>1. ASSUME NEW i \in 1..Len(statusQueue'), i <= Len(statusQueue)
          PROVE  statusQueue'[i] # "online"
      <4>1. i \in DOMAIN statusQueue /\ i \in 1..Len(statusQueue)
        BY <1>3, <3>1
      <4>2. statusQueue'[i] = statusQueue[i]
        BY <1>1, <1>2, <4>1, Emitted
      <4> QED BY <1>5, <4>1, <4>2 DEF Pending
    <3>2. ASSUME NEW i \in 1..Len(statusQueue'), i > Len(statusQueue)
          PROVE  statusQueue'[i] # "online"
      BY <1>1, <1>2, <1>3, <3>2, Emitted
    <3> QED BY <1>3, <3>1, <3>2
  <2> QED BY <1>2, <1>3, <2>1 DEF Overruled
<1>6. CASE Dropped(events) /\ Pending("online")
  BY <1>2, <1>6
<1> QED BY <1>4, <1>5, <1>6

\* An event of another shop.
LEMMA OtherEmitted ==
  ASSUME StateInv, Emit(<<"other">>)
  PROVE  /\ Overruled => Overruled'
         /\ Renewed => Renewed'
         /\ \A e \in Events : Pending(e) => Pending(e)'
<1> DEFINE other == <<"other">>
<1>1. other \in Seq(Events) /\ Len(other) = 1 /\ other[1] = "other"
  BY Publications
<1> HIDE DEF other
<1>2. Emit(other)
  BY DEF other
<1>3. /\ Len(statusQueue) \in Nat /\ DOMAIN statusQueue = 1..Len(statusQueue)
      /\ Len(statusQueue') \in Nat /\ DOMAIN statusQueue' = 1..Len(statusQueue')
      /\ Len(statusQueue) <= Len(statusQueue')
  BY <1>1, <1>2, Emitted, LenProperties DEF StateInv
<1>4. \A i \in 1..Len(statusQueue) : statusQueue'[i] = statusQueue[i]
  BY <1>1, <1>2, Emitted
<1>5. \A i \in 1..Len(statusQueue') : i > Len(statusQueue) => statusQueue'[i] = "other"
  <2> SUFFICES ASSUME NEW i \in 1..Len(statusQueue'), i > Len(statusQueue)
               PROVE  statusQueue'[i] = "other"
    OBVIOUS
  <2>1. i - Len(statusQueue) \in 1..Len(other) /\ statusQueue'[i] = other[i - Len(statusQueue)]
    BY <1>1, <1>2, Emitted
  <2>2. i - Len(statusQueue) = 1
    BY <1>1, <1>3, <2>1
  <2> QED BY <1>1, <2>1, <2>2
<1>6. \A e \in Events : Pending(e) => Pending(e)'
  BY <1>3, <1>4 DEF Pending
<1>7. Overruled => Overruled'
  BY <1>3, <1>4, <1>5 DEF Overruled
<1>8. Renewed => Renewed'
  BY <1>3, <1>4, <1>5 DEF Renewed
<1> QED BY <1>6, <1>7, <1>8

\* The listener takes an event.
LEMMA EventTaken ==
  ASSUME StateInv, HandleStatusEvent, UNCHANGED hasRow
  PROVE  /\ Overruled => Overruled'
         /\ Overruled /\ (~online \/ Pending("offline")) => ~online' \/ Pending("offline")'
<1>1. CASE statusQueue = <<>>
  BY <1>1 DEF HandleStatusEvent, Overruled, Pending
<1>2. CASE statusQueue # <<>>
  <2> DEFINE n == Len(statusQueue)
  <2>1. /\ n \in Nat \ {0} /\ DOMAIN statusQueue = 1..n
        /\ statusQueue' = Tail(statusQueue) /\ Tail(statusQueue) \in Seq(Events)
        /\ Len(Tail(statusQueue)) = n - 1
        /\ \A i \in 1..Len(Tail(statusQueue)) : Tail(statusQueue)[i] = statusQueue[i + 1]
        /\ Head(statusQueue) = statusQueue[1]
    BY <1>2, LenProperties, EmptySeq, HeadTailProperties DEF HandleStatusEvent, StateInv
  <2>2. DOMAIN statusQueue' = 1..(n - 1)
    BY <2>1, LenProperties
  <2> HIDE DEF n
  <2>3. \A i \in 1..n : i # 1 => i - 1 \in 1..(n - 1) /\ statusQueue'[i - 1] = statusQueue[i]
    BY <2>1
  <2>4. \A i \in 1..(n - 1) : i + 1 \in 1..n /\ statusQueue'[i] = statusQueue[i + 1]
    BY <2>1
  <2>5. ASSUME Overruled, NEW i \in 1..(n - 1), statusQueue'[i] = "online"
        PROVE  \E j \in 1..(n - 1) : j > i /\ statusQueue'[j] = "offline"
    <3>1. PICK j \in 1..n : j > i + 1 /\ statusQueue[j] = "offline"
      BY <2>1, <2>4, <2>5 DEF Overruled
    <3>2. j - 1 \in 1..(n - 1) /\ j - 1 > i /\ statusQueue'[j - 1] = "offline"
      BY <2>1, <2>3, <3>1
    <3> QED BY <3>2
  <2>6. Overruled => Overruled'
    BY <2>2, <2>5 DEF Overruled
  <2>7. ASSUME Overruled, ~online \/ Pending("offline"), online'
        PROVE  Pending("offline")'
    <3>1. CASE Head(statusQueue) = "online"
      <4>1. PICK j \in 1..n : j > 1 /\ statusQueue[j] = "offline"
        BY <2>1, <2>7, <3>1 DEF Overruled
      <4> QED BY <2>2, <2>3, <4>1 DEF Pending
    <3>2. CASE Head(statusQueue) = "offline"
      BY <1>2, <2>7, <3>2 DEF HandleStatusEvent
    <3>3. CASE Head(statusQueue) \notin {"online", "offline"}
      <4>1. online' = online
        BY <1>2, <3>3 DEF HandleStatusEvent
      <4>2. PICK j \in 1..n : statusQueue[j] = "offline"
        BY <2>1, <2>7, <4>1 DEF Pending
      <4>3. j # 1
        BY <2>1, <3>3, <4>2
      <4> QED BY <2>2, <2>3, <4>2, <4>3 DEF Pending
    <3> QED BY <3>1, <3>2, <3>3
  <2> QED BY <2>6, <2>7
<1> QED BY <1>1, <1>2

\* A step that only drops reasons for the flag to be set.
LEMMA FlagFrame ==
  ASSUME FlagInv,
         UNCHANGED <<loop, stragglers, statusQueue>>,
         worker' = worker \/ {worker, worker'} \subseteq {"none", "fresh", "due", "ready"},
         \/ UNCHANGED falseOnline
         \/ falseOnline' = (falseOnline /\ Pending("online")) /\ ~online',
         \/ ~online'
         \/ api' = "assigning"
         \/ UNCHANGED online /\ api # "assigning" /\ (Sent("StartShop") => Sent("StartShop")')
  PROVE  FlagInv'
<1>1. ~Pending("online") => Overruled
  BY DEF Pending, Overruled
<1>2. UNCHANGED Overruled /\ UNCHANGED Pending("offline") /\ UNCHANGED Pending("online")
  BY DEF Overruled, Pending
<1>3. Silent' => Silent
  BY DEF Silent
<1>4. loop' \in {"off", "ending"} /\ Silent' => falseOnline' \/ Overruled'
  BY <1>1, <1>2, <1>3 DEF FlagInv
<1>5. worker' = "dead" => worker = "dead"
  OBVIOUS
<1> QED BY <1>2, <1>3, <1>4, <1>5 DEF FlagInv

LEMMA RoutesFlag == ASSUME StateInv, FlagInv, Route PROVE FlagInv'
<1> USE DEF Commands
<1>1. ASSUME Remove PROVE Sent("StartShop") => Sent("StartShop")'
  <2>1. CASE UNCHANGED commands
    BY <2>1 DEF Sent
  <2>2. CASE commands' = Append(commands, "StopShop")
    BY <2>2, CommandAdded
  <2> QED BY <1>1, <2>1, <2>2 DEF Remove
<1>2. CASE StartRequested
  BY <1>2, FlagFrame DEF StartRequested, runtime, history
<1>3. CASE StartAllRequested
  BY <1>3, FlagFrame DEF StartAllRequested, runtime, history
<1>4. CASE AssignRequested
  <2>1. UNCHANGED <<loop, stragglers, statusQueue, online>>
    BY <1>4 DEF AssignRequested, database, runtime
  <2>2. UNCHANGED Overruled
    BY <2>1 DEF Overruled
  <2>3. CASE Assign
    <3>1. Sent("StartShop")' /\ worker' # "dead"
      <4>1. CASE Alive
        BY <2>3, <4>1, CommandAdded DEF Assign, Alive
      <4>2. CASE ~Alive
        BY <2>3, <4>2, RestartSent DEF Assign
      <4> QED BY <4>1, <4>2
    <3>2. (Silent' => Silent) /\ UNCHANGED falseOnline
      BY <2>1, <2>3 DEF Assign, Alive, Silent
    <3> QED BY <2>1, <2>2, <3>1, <3>2 DEF FlagInv
  <2>4. CASE Refuse
    BY <2>4 DEF Refuse, FlagInv
  <2> QED BY <1>4, <2>3, <2>4 DEF AssignRequested
<1>5. CASE StopRequested
  BY <1>5, <1>1, FlagFrame DEF StopRequested, database, runtime
<1>6. CASE FlagCleared
  BY <1>6, FlagFrame DEF FlagCleared, Clear, runtime
<1>7. CASE ToggledOff
  BY <1>7, FlagFrame DEF ToggledOff, Clear, runtime
<1>8. CASE RemoveRequested
  BY <1>8, <1>1, FlagFrame DEF RemoveRequested, database, runtime
<1>9. CASE StopAllRequested
  <2>1. CASE api # "assigning"
    BY <1>9, <2>1, <1>1, FlagFrame DEF StopAllRequested, database, runtime
  <2>2. CASE api = "assigning"
    BY <1>9, <2>2, FlagFrame DEF StopAllRequested, database, runtime
  <2> QED BY <2>1, <2>2
<1>10. CASE DeleteRequested
  BY <1>10, FlagFrame DEF DeleteRequested, manager, runtime, history
<1>11. CASE PolicyChanged
  BY <1>11, FlagFrame DEF PolicyChanged, manager, runtime, history, Sent
<1> QED BY <1>2, <1>3, <1>4, <1>5, <1>6, <1>7, <1>8, <1>9, <1>10, <1>11, Zenon DEF Route

LEMMA OtherAppended ==
  ASSUME StateInv, statusQueue' = Append(statusQueue, "other")
  PROVE  /\ Overruled => Overruled'
         /\ Renewed => Renewed'
         /\ \A e \in Events : Pending(e) => Pending(e)'
<1>1. /\ Len(statusQueue) \in Nat /\ DOMAIN statusQueue = 1..Len(statusQueue)
      /\ statusQueue' \in Seq(Events)
      /\ Len(statusQueue') = Len(statusQueue) + 1
      /\ \A i \in 1..Len(statusQueue) : statusQueue'[i] = statusQueue[i]
      /\ statusQueue'[Len(statusQueue) + 1] = "other"
  BY LenProperties, AppendProperties DEF StateInv, Events
<1>2. DOMAIN statusQueue' = 1..(Len(statusQueue) + 1)
  BY <1>1, LenProperties
<1>3. \A e \in Events : Pending(e) => Pending(e)'
  BY <1>1, <1>2 DEF Pending
<1>4. Overruled => Overruled'
  BY <1>1, <1>2 DEF Overruled
<1>5. Renewed => Renewed'
  BY <1>1, <1>2 DEF Renewed
<1> QED BY <1>3, <1>4, <1>5

\* A step that leaves everything but the queue as it is.
LEMMA QueueFrame ==
  ASSUME FlagInv, UNCHANGED <<loop, stragglers, online, api, falseOnline, commands>>,
         \/ worker' = worker
         \/ worker' \in {"due", "ready"} /\ worker \in {"fresh", "due", "ready"},
         Overruled => Overruled',
         Pending("offline") => Pending("offline")'
  PROVE  FlagInv'
<1>1. Silent' => Silent
  BY DEF Silent
<1>2. UNCHANGED Sent("StartShop")
  BY DEF Sent
<1>3. worker' = "dead" => worker = "dead"
  OBVIOUS
<1> QED BY <1>1, <1>2, <1>3 DEF FlagInv

\* The runtime takes the shop offline.
LEMMA OfflineFrame == ASSUME StateInv, NEW events \in Farewells, PublishOffline(events)
                      PROVE  FlagInv'
BY Published DEF FlagInv

LEMMA WorkerFlag == ASSUME StateInv, FlagInv, CommandLoop PROVE FlagInv'
<1> USE DEF Commands
<1>1. CASE EmitHeartbeat
  <2>1. CASE worker' = "ending"
    BY <2>1 DEF FlagInv, Silent
  <2>2. CASE worker' = "ready" /\ statusQueue' = Append(statusQueue, "other")
    BY <1>1, <2>2, OtherAppended, QueueFrame
       DEF Events, EmitHeartbeat, database, manager, runtime, history
  <2> QED BY <1>1, <2>1, <2>2 DEF EmitHeartbeat
<1>2. CASE NoCommand
  BY <1>2, QueueFrame DEF NoCommand, database, manager, runtime, history, Overruled, Pending
<1>3. CASE HandleStart
  <2>1. CASE loop = "off" /\ hasRow
    BY <1>3, <2>1 DEF HandleStart, StartLoop, FlagInv
  <2>2. CASE ~(loop = "off" /\ hasRow)
    <3>1. /\ UNCHANGED <<loop, stragglers, online, api, falseOnline, statusQueue>>
          /\ worker = "ready" /\ worker' \in {"due", "ready"}
      BY <1>3, <2>2 DEF HandleStart, NextTurn, database, manager
    <3>2. UNCHANGED Overruled /\ UNCHANGED Silent
      BY <3>1 DEF Overruled, Silent
    <3>3. loop = "off" => ~online
      BY <2>2 DEF StateInv
    <3> QED BY <3>1, <3>2, <3>3 DEF FlagInv
  <2> QED BY <2>1, <2>2
<1>4. CASE HandleStop
  <2>1. CASE loop = "off"
    <3>1. /\ UNCHANGED <<loop, stragglers, online, api, falseOnline, statusQueue>>
          /\ worker = "ready" /\ worker' \in {"due", "ready"}
          /\ commands # <<>> /\ commands' = Tail(commands) /\ Head(commands) = "StopShop"
      BY <1>4, <2>1 DEF HandleStop, NextTurn, database, manager
    <3>2. Sent("StartShop") => Sent("StartShop")'
      BY <3>1, CommandTaken
    <3>3. UNCHANGED Overruled /\ UNCHANGED Silent /\ UNCHANGED Pending("offline")
      BY <3>1 DEF Overruled, Silent, Pending
    <3> QED BY <3>1, <3>2, <3>3 DEF FlagInv
  <2>2. CASE loop # "off"
    BY <1>4, <2>2 DEF HandleStop, FlagInv, Silent
  <2> QED BY <2>1, <2>2
<1>5. CASE StopEnds
  BY <1>5, OfflineFrame DEF StopEnds, Farewells
<1>6. CASE CommandFails
  BY <1>6 DEF CommandFails, FlagInv, Silent
<1>7. CASE EndWorker
  BY <1>7 DEF EndWorker, Die, FlagInv
<1> QED BY <1>1, <1>2, <1>3, <1>4, <1>5, <1>6, <1>7 DEF CommandLoop

LEMMA LoopFlag == ASSUME StateInv, FlagInv, ShopLoop PROVE FlagInv'
<1>1. CASE AwaitManualLogin
  BY <1>1 DEF AwaitManualLogin, runtime, FlagInv
<1>2. CASE GoOnline
  BY <1>2 DEF GoOnline, FlagInv
<1>3. CASE LoggedInAgain
  BY <1>3 DEF LoggedInAgain, runtime, FlagInv
<1>4. CASE CrashRecovery
  BY <1>4 DEF CrashRecovery, FlagInv
<1>5. CASE GiveUp
  BY <1>5, OfflineFrame DEF GiveUp, Farewells
<1>6. CASE OnTaskDone
  <2>1. CASE policy
    <3>1. /\ loop = "ending" /\ ~online'
          /\ falseOnline' = (falseOnline /\ Pending("online"))
          /\ UNCHANGED <<statusQueue, worker, stragglers>>
      BY <1>6, <2>1 DEF OnTaskDone
    <3>2. UNCHANGED Overruled /\ UNCHANGED Silent
      BY <3>1 DEF Overruled, Silent
    <3>3. ~Pending("online") => Overruled
      BY DEF Pending, Overruled
    <3> QED BY <3>1, <3>2, <3>3 DEF FlagInv
  <2>2. CASE ~policy
    BY <1>6, <2>2, OfflineFrame DEF OnTaskDone, Farewells
  <2> QED BY <2>1, <2>2
<1>7. CASE CancelledTaskDone
  BY <1>7, OfflineFrame DEF CancelledTaskDone, Farewells
<1>8. CASE AutoRestartShop
  <2>1. CASE loop' = "starting"
    BY <2>1 DEF FlagInv
  <2>2. CASE UNCHANGED loop
    <3>1. UNCHANGED <<stragglers, online, api, falseOnline, commands, worker, statusQueue>>
      BY <1>8 DEF AutoRestartShop, database, manager
    <3>2. UNCHANGED Overruled /\ UNCHANGED Pending("offline")
      BY <3>1 DEF Overruled, Pending
    <3>3. UNCHANGED Sent("StartShop") /\ UNCHANGED Silent
      BY <3>1 DEF Sent, Silent
    <3> QED BY <2>2, <3>1, <3>2, <3>3 DEF FlagInv
  <2> QED BY <1>8, <2>1, <2>2 DEF AutoRestartShop, StartLoop
<1> QED BY <1>1, <1>2, <1>3, <1>4, <1>5, <1>6, <1>7, <1>8 DEF ShopLoop

LEMMA ListenerFlag == ASSUME StateInv, FlagInv, StatusListener PROVE FlagInv'
<1>1. UNCHANGED <<hasRow, loop, stragglers, falseOnline, api>> /\ HandleStatusEvent
  BY DEF StatusListener, manager, runtime, history
<1>2. /\ Overruled => Overruled'
      /\ Overruled /\ (~online \/ Pending("offline")) => ~online' \/ Pending("offline")'
  BY <1>1, EventTaken
<1>3. /\ worker' # "dead"
      /\ UNCHANGED Silent
      /\ worker = "dead" \/ UNCHANGED Sent("StartShop")
  BY <1>1 DEF StatusListener, MonitorWorkers, Silent, Sent
<1> QED BY <1>1, <1>2, <1>3 DEF FlagInv

LEMMA FlagStep == ASSUME StateInv, FlagInv, [Next]_vars PROVE FlagInv'
<1>1. CASE UNCHANGED vars
  BY <1>1 DEF FlagInv, Silent, Overruled, Sent, Pending, vars, database, manager, runtime, history
<1>2. CASE Crash
  BY <1>2 DEF Crash, Die, FlagInv
<1>3. CASE OtherShopEmits
  <2>1. /\ Emit(<<"other">>)
        /\ UNCHANGED <<loop, stragglers, online, api, falseOnline, commands, worker>>
    BY <1>3 DEF OtherShopEmits, database, manager, runtime, history
  <2>2. (Overruled => Overruled') /\ (Pending("offline") => Pending("offline")')
    BY <2>1, OtherEmitted DEF Events
  <2>3. UNCHANGED Sent("StartShop") /\ UNCHANGED Silent
    BY <2>1 DEF Sent, Silent
  <2> QED BY <2>1, <2>2, <2>3 DEF FlagInv
<1> QED BY <1>1, <1>2, <1>3, RoutesFlag, ListenerFlag, WorkerFlag, LoopFlag DEF Next

-----------------------------------------------------------------------------
(* The flag of a shop that is served *)

\* A loop that has to do with an older one knows it, a route that clears the flag
\* has removed the shop, and a loop that polls leaves no "offline" behind its last
\* "online": its flag is cleared only by a route that goes on to remove the shop.
ServedInv ==
    /\ loop # "off" /\ (stragglers > 0 \/ worker = "stopping") => falseOffline
    /\ api = "clearing" => ~mapped
    /\ loop = "on" /\ hasRow /\ ~falseOffline =>
          /\ Renewed
          /\ \/ online \/ Pending("online")
             \/ api = "removing"
             \/ ~mapped /\ api # "assigning"

\* The event of a login that is dropped leaves an "offline" behind it only with the
\* loop marked.
LEMMA PublishedOnline ==
  ASSUME StateInv, PublishOnline
  PROVE  /\ falseOffline' \/ Renewed'
         /\ falseOffline => falseOffline'
         /\ Pending("online") => Pending("online")'
<1> DEFINE event == <<"online">>
<1>1. event \in Seq(Events) /\ Len(event) = 1 /\ event[1] = "online"
  BY Publications
<1> HIDE DEF event
<1>2. Emit(event) /\ falseOffline' = (falseOffline \/ (Dropped(event) /\ Pending("offline")))
  BY DEF event, PublishOnline
<1>3. /\ Len(statusQueue) \in Nat /\ DOMAIN statusQueue = 1..Len(statusQueue)
      /\ Len(statusQueue') \in Nat /\ DOMAIN statusQueue' = 1..Len(statusQueue')
      /\ Len(statusQueue) <= Len(statusQueue')
  BY <1>1, <1>2, Emitted, LenProperties DEF StateInv
<1>4. \A i \in 1..Len(statusQueue) : statusQueue'[i] = statusQueue[i]
  BY <1>1, <1>2, Emitted
<1>5. \A i \in 1..Len(statusQueue') : i > Len(statusQueue) =>
        i = Len(statusQueue) + 1 /\ statusQueue'[i] = "online"
  <2> SUFFICES ASSUME NEW i \in 1..Len(statusQueue'), i > Len(statusQueue)
               PROVE  i = Len(statusQueue) + 1 /\ statusQueue'[i] = "online"
    OBVIOUS
  <2>1. i - Len(statusQueue) \in 1..Len(event) /\ statusQueue'[i] = event[i - Len(statusQueue)]
    BY <1>1, <1>2, Emitted
  <2>2. i - Len(statusQueue) = 1
    BY <1>1, <1>3, <2>1
  <2> QED BY <1>1, <1>3, <2>1, <2>2
<1>6. Pending("online") => Pending("online")'
  BY <1>3, <1>4 DEF Pending
<1>7. CASE ~Dropped(event)
  <2>1. Len(statusQueue') = Len(statusQueue) + 1
    BY <1>1, <1>2, <1>7, Emitted
  <2>2. Renewed'
    BY <1>3, <1>5, <2>1 DEF Renewed
  <2> QED BY <1>2, <1>6, <2>2
<1>8. CASE ~Pending("offline")
  <2>1. \A i \in 1..Len(statusQueue') : statusQueue'[i] # "offline"
    BY <1>3, <1>4, <1>5, <1>8 DEF Pending
  <2>2. Renewed'
    BY <1>3, <2>1 DEF Renewed
  <2> QED BY <1>2, <1>6, <2>2
<1> QED BY <1>2, <1>6, <1>7, <1>8

\* The listener takes an event about a loop that polls.
LEMMA RenewalTaken ==
  ASSUME StateInv, hasRow, Renewed, HandleStatusEvent
  PROVE  Renewed' /\ (online \/ Pending("online") => online' \/ Pending("online")')
<1>1. CASE statusQueue = <<>>
  BY <1>1 DEF HandleStatusEvent, Renewed, Pending
<1>2. CASE statusQueue # <<>>
  <2> DEFINE n == Len(statusQueue)
  <2>1. /\ n \in Nat \ {0} /\ DOMAIN statusQueue = 1..n
        /\ statusQueue' = Tail(statusQueue) /\ Tail(statusQueue) \in Seq(Events)
        /\ Len(Tail(statusQueue)) = n - 1
        /\ \A i \in 1..Len(Tail(statusQueue)) : Tail(statusQueue)[i] = statusQueue[i + 1]
        /\ Head(statusQueue) = statusQueue[1]
    BY <1>2, LenProperties, EmptySeq, HeadTailProperties DEF HandleStatusEvent, StateInv
  <2>2. DOMAIN statusQueue' = 1..(n - 1)
    BY <2>1, LenProperties
  <2> HIDE DEF n
  <2>3. \A i \in 1..n : i # 1 => i - 1 \in 1..(n - 1) /\ statusQueue'[i - 1] = statusQueue[i]
    BY <2>1
  <2>4. \A i \in 1..(n - 1) : i + 1 \in 1..n /\ statusQueue'[i] = statusQueue[i + 1]
    BY <2>1
  <2>5. ASSUME NEW i \in 1..(n - 1), statusQueue'[i] = "offline"
        PROVE  \E j \in 1..(n - 1) : j > i /\ statusQueue'[j] = "online"
    <3>1. PICK j \in 1..n : j > i + 1 /\ statusQueue[j] = "online"
      BY <2>1, <2>4, <2>5 DEF Renewed
    <3>2. j - 1 \in 1..(n - 1) /\ j - 1 > i /\ statusQueue'[j - 1] = "online"
      BY <2>1, <2>3, <3>1
    <3> QED BY <3>2
  <2>6. Renewed'
    BY <2>2, <2>5 DEF Renewed
  <2>7. ASSUME online \/ Pending("online"), ~online'
        PROVE  Pending("online")'
    <3>1. CASE Head(statusQueue) = "offline"
      <4>1. PICK j \in 1..n : j > 1 /\ statusQueue[j] = "online"
        BY <2>1, <3>1 DEF Renewed
      <4> QED BY <2>2, <2>3, <4>1 DEF Pending
    <3>2. CASE Head(statusQueue) = "online"
      BY <1>2, <2>7, <3>2 DEF HandleStatusEvent
    <3>3. CASE Head(statusQueue) \notin {"online", "offline"}
      <4>1. online' = online
        BY <1>2, <3>3 DEF HandleStatusEvent
      <4>2. PICK j \in 1..n : statusQueue[j] = "online"
        BY <2>1, <2>7, <4>1 DEF Pending
      <4>3. j # 1
        BY <2>1, <3>3, <4>2
      <4> QED BY <2>2, <2>3, <4>2, <4>3 DEF Pending
    <3> QED BY <3>1, <3>2, <3>3
  <2> QED BY <2>6, <2>7
<1> QED BY <1>1, <1>2

\* A step without a loop, or of one that does not poll.
LEMMA ServedAway ==
  ASSUME ServedInv, UNCHANGED <<mapped, api>>, loop' # "on" \/ falseOffline',
         \/ loop' = "off"
         \/ falseOffline'
         \/ UNCHANGED <<stragglers, falseOffline>> /\ loop # "off"
            /\ (worker' = "stopping" => worker = "stopping")
  PROVE  ServedInv'
BY DEF ServedInv

\* A step of others, which leaves the queue alone.
LEMMA ServedFrame ==
  ASSUME ServedInv, UNCHANGED <<loop, stragglers, falseOffline, statusQueue>>,
         worker' = "stopping" => worker = "stopping",
         hasRow' => hasRow,
         api' = "clearing" => ~mapped',
         hasRow' /\ (online \/ Pending("online")) =>
             online' \/ Pending("online") \/ api' = "removing" \/ (~mapped' /\ api' # "assigning"),
         api = "removing" /\ ~online =>
             online' \/ api' = "removing" \/ (~mapped' /\ api' # "assigning"),
         ~mapped /\ api # "assigning" /\ ~online =>
             online' \/ api' = "removing" \/ (~mapped' /\ api' # "assigning")
  PROVE  ServedInv'
<1>1. UNCHANGED Renewed /\ UNCHANGED Pending("online")
  BY DEF Renewed, Pending
<1> QED BY <1>1 DEF ServedInv

LEMMA RoutesServed == ASSUME StateInv, ServedInv, Route PROVE ServedInv'
<1>1. CASE StartRequested
  BY <1>1, ServedFrame DEF StartRequested, runtime, history
<1>2. CASE StartAllRequested
  BY <1>2, ServedFrame DEF StartAllRequested, database, runtime, history
<1>3. CASE AssignRequested
  <2>1. CASE Assign
    BY <1>3, <2>1, ServedFrame DEF AssignRequested, Assign, Alive, database, runtime
  <2>2. CASE Refuse
    BY <1>3, <2>2, ServedFrame DEF AssignRequested, Refuse, database, runtime
  <2> QED BY <1>3, <2>1, <2>2 DEF AssignRequested
<1>4. CASE StopRequested
  BY <1>4, ServedFrame DEF StopRequested, Remove, database, runtime
<1>5. CASE FlagCleared
  BY <1>5, ServedFrame DEF FlagCleared, Clear, runtime, ServedInv
<1>6. CASE ToggledOff
  BY <1>6, ServedFrame DEF ToggledOff, Clear, runtime
<1>7. CASE RemoveRequested
  BY <1>7, ServedFrame DEF RemoveRequested, Remove, database, runtime
<1>8. CASE StopAllRequested
  BY <1>8, ServedFrame DEF StopAllRequested, Remove, database, runtime
<1>9. CASE DeleteRequested
  BY <1>9, ServedFrame DEF DeleteRequested, manager, runtime, history
<1>10. CASE PolicyChanged
  BY <1>10, ServedFrame DEF PolicyChanged, manager, runtime, history
<1> QED BY <1>1, <1>2, <1>3, <1>4, <1>5, <1>6, <1>7, <1>8, <1>9, <1>10, Zenon DEF Route

\* A step that adds an event of another shop, or nothing.
LEMMA ServedOther ==
  ASSUME ServedInv, UNCHANGED <<hasRow, online, manager, loop, stragglers, falseOffline>>,
         worker' # "stopping" \/ UNCHANGED worker,
         Renewed => Renewed', Pending("online") => Pending("online")'
  PROVE  ServedInv'
BY DEF ServedInv, manager

LEMMA WorkerServed == ASSUME StateInv, ServedInv, CommandLoop PROVE ServedInv'
<1>1. CASE EmitHeartbeat
  <2>1. (Renewed => Renewed') /\ (Pending("online") => Pending("online")')
    <3>1. CASE UNCHANGED statusQueue
      BY <3>1 DEF Renewed, Pending
    <3>2. CASE statusQueue' = Append(statusQueue, "other")
      BY <3>2, OtherAppended DEF Events
    <3> QED BY <1>1, <3>1, <3>2 DEF EmitHeartbeat
  <2> QED BY <1>1, <2>1, ServedOther DEF EmitHeartbeat, database, runtime, history
<1>2. CASE NoCommand
  BY <1>2, ServedFrame DEF NoCommand, database, manager, runtime, history, ServedInv
<1>3. CASE HandleStart
  <2>1. CASE loop = "off" /\ hasRow
    BY <1>3, <2>1 DEF HandleStart, StartLoop, NextTurn, manager, ServedInv
  <2>2. CASE ~(loop = "off" /\ hasRow)
    BY <1>3, <2>2, ServedFrame DEF HandleStart, NextTurn, database, manager, ServedInv
  <2> QED BY <2>1, <2>2
<1>4. CASE HandleStop
  BY <1>4, ServedAway DEF HandleStop, manager
<1>5. CASE StopEnds
  BY <1>5, ServedAway DEF StopEnds, NextTurn, manager, runtime, ServedInv
<1>6. CASE CommandFails
  BY <1>6, ServedFrame DEF CommandFails, database, manager, runtime, history, ServedInv
<1>7. CASE EndWorker
  BY <1>7, ServedAway DEF EndWorker, Die, manager
<1> QED BY <1>1, <1>2, <1>3, <1>4, <1>5, <1>6, <1>7 DEF CommandLoop

LEMMA LoopServed == ASSUME StateInv, ServedInv, ShopLoop PROVE ServedInv'
<1>1. CASE AwaitManualLogin
  BY <1>1, ServedAway DEF AwaitManualLogin, manager, runtime
<1>2. CASE GoOnline
  BY <1>2, PublishedOnline DEF GoOnline, manager, ServedInv
<1>3. CASE LoggedInAgain
  BY <1>3, PublishedOnline DEF LoggedInAgain, database, manager, runtime, ServedInv
<1>4. CASE CrashRecovery
  BY <1>4, ServedAway DEF CrashRecovery, manager, history
<1>5. CASE GiveUp
  BY <1>5, ServedAway DEF GiveUp, manager
<1>6. CASE OnTaskDone
  BY <1>6, ServedAway DEF OnTaskDone, manager
<1>7. CASE CancelledTaskDone
  <2>1. loop # "off" => falseOffline'
    BY <1>7 DEF CancelledTaskDone, StateInv, ServedInv
  <2> QED BY <1>7, <2>1, ServedAway DEF CancelledTaskDone, manager
<1>8. CASE AutoRestartShop
  <2>1. CASE policy /\ loop = "off"
    BY <1>8, <2>1 DEF AutoRestartShop, StartLoop, manager, ServedInv
  <2>2. CASE ~(policy /\ loop = "off")
    BY <1>8, <2>2, ServedFrame DEF AutoRestartShop, database, manager, ServedInv
  <2> QED BY <2>1, <2>2
<1> QED BY <1>1, <1>2, <1>3, <1>4, <1>5, <1>6, <1>7, <1>8 DEF ShopLoop

LEMMA ServedStep == ASSUME StateInv, ServedInv, [Next]_vars PROVE ServedInv'
<1>1. CASE UNCHANGED vars
  BY <1>1, ServedFrame DEF vars, database, manager, runtime, history, ServedInv
<1>2. CASE StatusListener
  <2>1. /\ UNCHANGED <<hasRow, mapped, api, loop, stragglers, falseOffline>> /\ HandleStatusEvent
        /\ worker' = "stopping" => worker = "stopping"
    BY <1>2 DEF StatusListener, MonitorWorkers, manager, runtime, history
  <2> QED BY <2>1, RenewalTaken DEF ServedInv
<1>3. CASE Crash
  BY <1>3, ServedAway DEF Crash, Die, manager
<1>4. CASE OtherShopEmits
  <2>1. Emit(<<"other">>) /\ UNCHANGED <<database, manager, worker, runtime, history>>
    BY <1>4 DEF OtherShopEmits
  <2>2. (Renewed => Renewed') /\ (Pending("online") => Pending("online")')
    BY <2>1, OtherEmitted DEF Events
  <2> QED BY <2>1, <2>2, ServedOther DEF database, runtime, history
<1> QED BY <1>1, <1>2, <1>3, <1>4, RoutesServed, WorkerServed, LoopServed DEF Next

-----------------------------------------------------------------------------
LEMMA InitState == Init => StateInv
BY BoundsAssumption DEF Init, StateInv, Commands, Events

\* A shop in the list of running shops is served, about to be served again, or its
\* loop has ended by itself.
THEOREM RunningShopsAreServed == Spec => []ShownShopIsServed
<1>1. Init => ListInv
  BY DEF Init, ListInv, ShownShopIsServed
<1>2. ListInv => ShownShopIsServed
  BY DEF ListInv
<1>3. StateInv /\ ListInv /\ [Next]_vars => (StateInv /\ ListInv)'
  BY StateStep, ListStep
<1> QED BY <1>1, <1>2, <1>3, InitState, PTL DEF Spec

\* Once all has arrived, a shop without a loop is not shown online, unless there was
\* a reason that the model names.
THEOREM QuietShopsAreOffline == Spec => []QuietShopIsOffline
<1>1. Init => FlagInv
  <2> SUFFICES ASSUME Init PROVE FlagInv
    OBVIOUS
  <2>1. statusQueue = <<>> /\ falseOnline = online /\ online \in BOOLEAN
    BY DEF Init
  <2>2. DOMAIN statusQueue = {}
    BY <2>1
  <2>3. Overruled
    BY <2>2 DEF Overruled
  <2> QED BY <2>1, <2>3 DEF FlagInv
<1>2. FlagInv => QuietShopIsOffline
  <2> SUFFICES ASSUME FlagInv, Settled, loop = "off" PROVE ~online \/ falseOnline
    BY DEF QuietShopIsOffline
  <2>1. ~Sent("StartShop") /\ Silent /\ api # "assigning" /\ ~Pending("offline")
    BY DEF Settled, Sent, Silent
  <2> QED BY <2>1 DEF FlagInv
<1>3. StateInv /\ FlagInv /\ [Next]_vars => (StateInv /\ FlagInv)'
  BY StateStep, FlagStep
<1> QED BY <1>1, <1>2, <1>3, InitState, PTL DEF Spec
\* Once all has arrived, a shop that is shown as running and whose loop polls is shown
\* online, unless its loop was started too early or its event was dropped.
THEOREM ServedShopsAreOnline == Spec => []ServedShopIsOnline
<1>1. Init => ServedInv
  BY DEF Init, ServedInv
<1>2. ServedInv => ServedShopIsOnline
  BY DEF ServedInv, ServedShopIsOnline, Settled
<1>3. StateInv /\ ServedInv /\ [Next]_vars => (StateInv /\ ServedInv)'
  BY StateStep, ServedStep
<1> QED BY <1>1, <1>2, <1>3, InitState, PTL DEF Spec
=============================================================================
