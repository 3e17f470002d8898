------------------------- MODULE PipelineChatProofs -------------------------
(***************************************************************************)
(* Theorems about MessagePipeline that concern the chats: what is written  *)
(* for a session is of its chat, for any number of loops; and what the log *)
(* of escalations and the status of a session say of a shop with one loop. *)
(***************************************************************************)
EXTENDS MessagePipelineProofs

-----------------------------------------------------------------------------
(* The course of a loop *)

\* The messages that a loop has in its hands.
InHand(l) == history[l] \cup ({pending[l]} \ {NoMessage})

\* From its click to the end of the session a loop has the chat of its session open
\* and messages of that chat in its hands, unless the chat has left the list or a
\* switch has missed it.
OnCourse(l) ==
    /\ todo[l] \subseteq listed \cup missed
    /\ pc[l] \in {"idle", "next", "fetching"} => InHand(l) = {}
    /\ pc[l] \notin {"idle", "next"} /\ cur[l] \notin missed =>
         /\ shown[l] = cur[l] /\ current[l] = cur[l]
         /\ \A m \in InHand(l) : m[1] = cur[l]

ChatInv == RightChat /\ \A l \in Loops : OnCourse(l)

\* The loops other than l keep what they have.
OthersKeep(l) ==
    /\ OthersStay(l)
    /\ \A k \in Loops \ {l} :
         todo'[k] = todo[k] /\ current'[k] = current[k] /\ history'[k] = history[k]

\* The session is over, or none has begun.
Leaves(l) == pc'[l] \in {"idle", "next"} /\ history'[l] = {} /\ pending'[l] = NoMessage

Turns(l) ==
    /\ pc[l] \in {"idle", "next"} /\ pc'[l] = "fetching"
    /\ cur'[l] \in todo[l]
    /\ cur'[l] \in listed /\ cur'[l] \notin missed' => shown'[l] = cur'[l] /\ current'[l] = cur'[l]
    /\ history'[l] = history[l] /\ pending'[l] = pending[l]

\* The adapter switches only if it must.
Trusts(l) == current[l] = cur[l] => shown'[l] = shown[l] /\ current'[l] = current[l]

\* The messages that are read are the buyer's, and the pending one is the last of them.
Reads(l) ==
    /\ pc[l] = "fetching" /\ pc'[l] \in {"storing", "saving"}
    /\ cur'[l] = cur[l] /\ Trusts(l)
    /\ \A m \in history'[l] : m[1] = shown'[l] /\ IsBuyers(m[1], m[2])
    /\ pending'[l] # NoMessage =>
         /\ pending'[l][1] = shown'[l] /\ IsBuyers(pending'[l][1], pending'[l][2])
         /\ \A i \in Nat : IsBuyers(shown'[l], i) => i <= pending'[l][2]

GoesOn(l) ==
    /\ pc[l] \notin {"idle", "next", "fetching"} /\ pc'[l] \notin {"idle", "next", "fetching"}
    /\ pc'[l] \in {"storing", "saving", "deciding"} => pc[l] \in {"storing", "saving"}
    /\ cur'[l] = cur[l] /\ Trusts(l)
    /\ history'[l] \subseteq history[l] /\ pending'[l] = pending[l]

\* A row of a message in the hands of the loop, a text in the chat that its page shows.
Stores(l) ==
    /\ pc[l] \in {"storing", "saving"}
    /\ \E m \in InHand(l) : saved' = saved \cup {[session |-> cur[l], message |-> m]}

Speaks(l) ==
    /\ pc[l] \in {"sending", "noticing"} /\ Trusts(l)
    /\ \E d : d.record = Pending(l) /\ d.chat = shown'[l] /\ Delivered' = Delivered \cup {d}

CourseStep(l) ==
    /\ OthersKeep(l)
    /\ UNCHANGED listed /\ missed \subseteq missed'
    /\ todo'[l] \subseteq todo[l] \cup listed
    /\ Leaves(l) \/ Turns(l) \/ Reads(l) \/ GoesOn(l)
    /\ UNCHANGED saved \/ Stores(l)
    /\ UNCHANGED Delivered \/ Speaks(l)

-----------------------------------------------------------------------------
(* The course of each step *)

LEMMA RealMessage == \A m \in Messages : m # NoMessage
BY DEF Messages, NoMessage

LEMMA Ended ==
    ASSUME LoopTypes, NEW l \in Loops, SessionOver(l)
    PROVE  Leaves(l) /\ \A k \in Loops \ {l} : history'[k] = history[k]
BY DEF SessionOver, Goto, LoopTypes, Leaves

LEMMA Switched ==
    ASSUME AdapterTypes, NEW l \in Loops, NEW s \in Sessions,
           Switches(l, s) \/ SwitchBreaks(l, s) \/ Misses(l, s)
    PROVE  \A k \in Loops \ {l} : current'[k] = current[k]
BY DEF Switches, SwitchBreaks, Misses, Opens, adapterVars, AdapterTypes

LEMMA Ensured ==
    ASSUME AdapterTypes, NEW l \in Loops, cur[l] \in Sessions,
           GetsOn(l) \/ GetsOnAndFails(l) \/ EnsureBreaks(l)
    PROVE  Trusts(l) /\ \A k \in Loops \ {l} : current'[k] = current[k]
<1>1. CASE UNCHANGED adapterVars
  BY <1>1 DEF Trusts, adapterVars
<1>2. CASE current[l] # cur[l] /\ (Switches(l, cur[l]) \/ SwitchBreaks(l, cur[l]) \/ Misses(l, cur[l]))
  BY <1>2, Switched DEF Trusts
<1> QED
  BY <1>1, <1>2 DEF GetsOn, GetsOnAndFails, Ensures, EnsureMisses, EnsureBreaks

LEMMA Booked == Fault \/ NoFault => UNCHANGED missed
BY DEF Fault, NoFault, bookVars

LEMMA BookedOn ==
    ASSUME NEW l, GetsOn(l) \/ GetsOnAndFails(l)
    PROVE  missed \subseteq missed'
BY Booked DEF GetsOn, GetsOnAndFails, EnsureMisses, Misses

\* The text that is typed is a delivery in the chat that the page shows.
LEMMA Spoken ==
    ASSUME PipelineAssumption, TypesInv, NEW l \in Loops, NEW kind \in {"reply", "notice"},
           Types(l, kind), shown'[l] \in Sessions, pc[l] \in {"sending", "noticing"}, Trusts(l)
    PROVE  Speaks(l)
<1> DEFINE t == [kind |-> kind, about |-> Pending(l)]
           d == [record |-> t.about, chat |-> shown'[l], place |-> Len(page[shown'[l]]) + 1]
<1>1. t \in Texts /\ t.kind \in SellerKinds /\ t.kind \in Own /\ t.about = Pending(l)
  BY PendingTypes DEF Texts, SellerKinds, Own, TypesInv
<1>2. page' = [page EXCEPT ![shown'[l]] = Append(@, t)]
  BY DEF Types
<1> HIDE DEF t
<1>3. Delivered' = Delivered \cup {d}
  BY <1>1, <1>2, DeliveredAppend DEF TypesInv, TypeOK
<1>4. d.record = Pending(l) /\ d.chat = shown'[l]
  BY <1>1
<1> QED
  BY <1>3, <1>4 DEF Speaks

\* A step that ends the session, and writes no row.
LEMMA Left ==
    ASSUME TypesInv, NEW l \in Loops, SessionOver(l), OthersStay(l),
           UNCHANGED <<listed, saved>>, missed \subseteq missed',
           todo'[l] \subseteq todo[l], \A k \in Loops \ {l} : todo'[k] = todo[k],
           \A k \in Loops \ {l} : current'[k] = current[k],
           UNCHANGED Delivered \/ Speaks(l)
    PROVE  CourseStep(l)
BY Ended DEF CourseStep, OthersKeep, TypesInv, TypeOK

LEMMA PollCourse ==
    ASSUME PipelineAssumption, TypesInv, ChatInv, NEW l \in Loops
    PROVE  /\ Poll(l) => CourseStep(l)
           /\ Reload(l) => CourseStep(l)
           /\ StartAnew(l) => CourseStep(l)
<1> USE DEF TypesInv, TypeOK
<1>1. CASE ListSessions(l)
  <2>1. OthersStay(l) /\ pc'[l] = "next" /\ pc[l] = "idle"
    BY <1>1, ListSessionsTypes DEF ListSessions, At
  <2>2. UNCHANGED <<page, listed, saved, current, history, pending>> /\ UNCHANGED missed
    BY <1>1, Booked DEF ListSessions, platformVars, listVars, dbVars, adapterVars
  <2>3. PICK found \in SUBSET listed : todo' = [todo EXCEPT ![l] = found]
    BY <1>1 DEF ListSessions
  <2>4. Leaves(l)
    BY <2>1, <2>2 DEF ChatInv, OnCourse, InHand, Leaves
  <2> QED
    BY <2>1, <2>2, <2>3, <2>4, StaysDelivered DEF CourseStep, OthersKeep, LoopTypes
<1>2. ASSUME NEW s \in Sessions, SwitchTo(l, s) PROVE CourseStep(l)
  <2>1. OthersStay(l) /\ pc[l] = "next" /\ pc'[l] = "fetching"
    BY <1>2, SwitchToTypes DEF SwitchTo, At
  <2>2. /\ UNCHANGED <<page, listed, saved, history, pending>>
        /\ todo' = [todo EXCEPT ![l] = @ \ {s}] /\ cur' = [cur EXCEPT ![l] = s] /\ s \in todo[l]
        /\ (Switches(l, s) /\ UNCHANGED missed) \/ Misses(l, s)
    BY <1>2, Booked DEF SwitchTo, platformVars, listVars, dbVars
  <2>3. s \in listed /\ s \notin missed' => shown'[l] = s /\ current'[l] = s
    BY <2>2 DEF Switches, Misses, Opens, AdapterTypes
  <2>6. missed \subseteq missed'
    BY <2>2 DEF Misses
  <2>4. Turns(l)
    BY <2>1, <2>2, <2>3 DEF Turns, LoopTypes
  <2>5. \A k \in Loops \ {l} : current'[k] = current[k]
    BY <2>2, Switched
  <2> QED
    BY <2>1, <2>2, <2>4, <2>5, <2>6, StaysDelivered DEF CourseStep, OthersKeep, LoopTypes
<1>3. ASSUME NEW s \in Sessions, SwitchFails(l, s) PROVE CourseStep(l)
  <2>1. OthersStay(l) /\ SessionOver(l)
    BY <1>3, SwitchFailsTypes DEF SwitchFails
  <2>2. /\ UNCHANGED <<page, listed, saved>> /\ UNCHANGED missed
        /\ todo' = [todo EXCEPT ![l] = @ \ {s}] /\ SwitchBreaks(l, s)
    BY <1>3, Booked DEF SwitchFails, platformVars, listVars, dbVars
  <2>3. todo'[l] \subseteq todo[l] /\ \A k \in Loops \ {l} : todo'[k] = todo[k]
    BY <2>2 DEF LoopTypes
  <2> QED
    BY <2>1, <2>2, <2>3, Switched, StaysDelivered, Left
<1>4. CASE Fetch(l) \/ FetchUnordered(l)
  <2>1. OthersStay(l) /\ pc[l] = "fetching" /\ cur[l] \in Sessions
    BY <1>4, FetchTypes DEF Fetch, FetchUnordered, At, PlacesInv
  <2>2. /\ UNCHANGED <<page, listed, saved, todo>> /\ missed \subseteq missed'
        /\ GetsOn(l) \/ GetsOnAndFails(l)
    BY <1>4, BookedOn DEF Fetch, FetchUnordered, platformVars, listVars, dbVars
  <2>3. Trusts(l) /\ \A k \in Loops \ {l} : current'[k] = current[k]
    BY <2>1, <2>2, Ensured
  <2>4. UNCHANGED Delivered
    BY <2>2, StaysDelivered
  <2>5. CASE SessionOver(l)
    BY <2>1, <2>2, <2>3, <2>4, <2>5, Left
  <2>6. ASSUME NEW last, NEW answered \in BOOLEAN, SplitsAs(l, shown'[l], last, answered)
        PROVE  CourseStep(l)
    <3> DEFINE chat == shown'[l]
               asked == {i \in DOMAIN page[chat] : page[chat][i].kind \in BuyerKinds}
               old == IF answered THEN asked ELSE asked \ {last}
    <3>1. /\ last \in asked /\ \A i \in asked : i <= last
          /\ history' = [history EXCEPT ![l] = {<<chat, i>> : i \in old}]
          /\ pending' = [pending EXCEPT ![l] = IF answered THEN NoMessage ELSE <<chat, last>>]
          /\ pc' = [pc EXCEPT ![l] = IF old # {} THEN "storing" ELSE "saving"]
          /\ UNCHANGED <<config, cur>>
      BY <2>6, Zenon DEF SplitsAs, Goto
    <3>2. old \subseteq asked
      OBVIOUS
    <3>3. \A i : IsBuyers(chat, i) <=> i \in asked
      BY DEF IsBuyers
    <3> HIDE DEF asked, old, chat
    <3>4. /\ history'[l] = {<<chat, i>> : i \in old} /\ \A k \in Loops \ {l} : history'[k] = history[k]
          /\ pending'[l] = IF answered THEN NoMessage ELSE <<chat, last>>
          /\ pc'[l] \in {"storing", "saving"}
      BY <3>1 DEF LoopTypes
    <3>5. \A m \in history'[l] : m[1] = chat /\ IsBuyers(m[1], m[2])
      BY <3>2, <3>3, <3>4
    <3>6. pending'[l] # NoMessage =>
            /\ pending'[l][1] = chat /\ IsBuyers(pending'[l][1], pending'[l][2])
            /\ \A i \in Nat : IsBuyers(chat, i) => i <= pending'[l][2]
      BY <3>1, <3>3, <3>4
    <3>7. Reads(l)
      BY <2>1, <2>3, <3>1, <3>4, <3>5, <3>6 DEF Reads, chat
    <3> QED
      BY <2>1, <2>2, <2>3, <2>4, <3>4, <3>7 DEF CourseStep, OthersKeep
  <2>7. SessionOver(l) \/ \E last : \E answered \in BOOLEAN : SplitsAs(l, shown'[l], last, answered)
    <3>1. \A chat, i : SellerAfter(chat, i) \in BOOLEAN
      BY DEF SellerAfter
    <3>2. CASE Fetch(l)
      BY <3>1, <3>2, Zenon DEF Fetch, Splits
    <3>3. CASE FetchUnordered(l)
      BY <3>1, <3>3, Zenon DEF FetchUnordered
    <3> QED
      BY <1>4, <3>2, <3>3
  <2> QED
    BY <2>5, <2>6, <2>7
<1>5. CASE FetchFails(l)
  <2>1. OthersStay(l) /\ SessionOver(l) /\ cur[l] \in Sessions
    BY <1>5, FetchFailsTypes DEF FetchFails, At, PlacesInv
  <2>2. UNCHANGED <<page, listed, saved, todo>> /\ UNCHANGED missed /\ EnsureBreaks(l)
    BY <1>5, Booked DEF FetchFails, platformVars, listVars, dbVars
  <2> QED
    BY <2>1, <2>2, Ensured, StaysDelivered, Left
<1>6. CASE Reload(l)
  <2>1. OthersStay(l) /\ pc[l] = "idle" /\ pc'[l] = "idle"
    BY <1>6, ReloadTypes DEF Reload, At
  <2>2. UNCHANGED <<page, listed, saved, todo, current, history, pending>> /\ UNCHANGED missed
    BY <1>6, Booked DEF Reload, platformVars, listVars, dbVars, loopVars
  <2>3. Leaves(l)
    BY <2>1, <2>2 DEF ChatInv, OnCourse, InHand, Leaves
  <2> QED
    BY <2>1, <2>2, <2>3, StaysDelivered DEF CourseStep, OthersKeep
<1>7. CASE StartAnew(l)
  <2>1. OthersStay(l) /\ pc'[l] = "idle"
    BY <1>7, StartAnewTypes
  <2>2. UNCHANGED <<page, listed, saved>> /\ UNCHANGED missed
    BY <1>7, Booked DEF StartAnew, platformVars, listVars, dbVars
  <2>3. /\ history'[l] = {} /\ pending'[l] = NoMessage /\ todo'[l] = {}
        /\ \A k \in Loops \ {l} :
             todo'[k] = todo[k] /\ current'[k] = current[k] /\ history'[k] = history[k]
    BY <1>7 DEF StartAnew, LoopTypes, AdapterTypes
  <2> QED
    BY <2>1, <2>2, <2>3, StaysDelivered DEF CourseStep, OthersKeep, Leaves
<1> QED
  BY <1>1, <1>2, <1>3, <1>4, <1>5, <1>6, <1>7 DEF Poll

LEMMA ProcessCourse ==
    ASSUME PipelineAssumption, TypesInv, NEW l \in Loops, Process(l)
    PROVE  CourseStep(l)
<1> USE DEF TypesInv, TypeOK
<1>1. /\ UNCHANGED <<page, listed, todo, current, shown>> /\ UNCHANGED missed /\ UNCHANGED Delivered
      /\ Trusts(l)
  BY Booked, StaysDelivered
     DEF Process, StoreNext, SavePending, Escalate, Reply, ProcessingFails, platformVars, listVars,
         adapterVars, Trusts
<1>2. CASE StoreNext(l)
  <2>1. OthersStay(l) /\ pc[l] = "storing"
    BY <1>2, StoreNextTypes DEF StoreNext, At
  <2>2. PICK m \in history[l] :
           /\ Save([session |-> cur[l], message |-> m])
           /\ \/ history' = [history EXCEPT ![l] = @ \ {m}] /\ UNCHANGED <<pc, config, cur, pending>>
              \/ /\ pending[l] # NoMessage
                 /\ history' = [history EXCEPT ![l] = {}]
                 /\ Goto(l, "saving")
                 /\ UNCHANGED <<config, cur, pending>>
              \/ SessionOver(l)
    BY <1>2, Zenon DEF StoreNext
  <2>3. Stores(l)
    BY <2>1, <2>2 DEF Stores, InHand, Save
  <2>4. (Leaves(l) \/ GoesOn(l)) /\ \A k \in Loops \ {l} : history'[k] = history[k]
    <3>1. CASE history' = [history EXCEPT ![l] = @ \ {m}] /\ UNCHANGED <<pc, config, cur, pending>>
      BY <1>1, <2>1, <3>1 DEF GoesOn, LoopTypes
    <3>2. CASE history' = [history EXCEPT ![l] = {}] /\ Goto(l, "saving") /\ UNCHANGED <<config, cur, pending>>
      BY <1>1, <2>1, <3>2 DEF GoesOn, Goto, LoopTypes
    <3>3. CASE SessionOver(l)
      BY <3>3, Ended
    <3> QED
      BY <2>2, <3>1, <3>2, <3>3
  <2> QED
    BY <1>1, <2>1, <2>3, <2>4 DEF CourseStep, OthersKeep
<1>3. CASE SavePending(l)
  <2>1. OthersStay(l) /\ pc[l] = "saving"
    BY <1>3, SavePendingTypes DEF SavePending, At
  <2>2. pending[l] \in InHand(l)
    BY <2>1, RealMessage DEF PlacesInv, InHand
  <2>3. CASE UNCHANGED dbVars /\ SessionOver(l)
    BY <1>1, <2>1, <2>3, Left DEF dbVars
  <2>4. CASE Save(Pending(l))
    <3>1. Stores(l)
      BY <2>1, <2>2, <2>4 DEF Stores, Save, Pending
    <3>2. (Leaves(l) \/ GoesOn(l)) /\ \A k \in Loops \ {l} : history'[k] = history[k]
      <4>1. CASE SessionOver(l)
        BY <4>1, Ended
      <4>2. CASE Goto(l, "deciding") /\ UNCHANGED <<config, cur, history, pending>>
        BY <1>1, <2>1, <4>2 DEF GoesOn, Goto, LoopTypes
      <4> QED
        BY <1>3, <4>1, <4>2 DEF SavePending
    <3> QED
      BY <1>1, <2>1, <3>1, <3>2 DEF CourseStep, OthersKeep
  <2> QED
    BY <1>3, <2>3, <2>4 DEF SavePending
<1>4. CASE Escalate(l)
  <2>1. /\ OthersStay(l) /\ pc[l] = "deciding" /\ pc'[l] \in {"noticing", "transferring"}
        /\ UNCHANGED <<saved, cur, history, pending>>
    BY <1>4, EscalateTypes DEF Escalate, At
  <2> QED
    BY <1>1, <2>1 DEF CourseStep, OthersKeep, GoesOn
<1>5. CASE Reply(l)
  <2>1. /\ OthersStay(l) /\ pc[l] = "deciding" /\ pc'[l] = "sending"
        /\ UNCHANGED <<saved, cur, history, pending>>
    BY <1>5, ReplyTypes DEF Reply, At
  <2> QED
    BY <1>1, <2>1 DEF CourseStep, OthersKeep, GoesOn
<1>6. CASE ProcessingFails(l)
  <2>1. OthersStay(l) /\ SessionOver(l) /\ UNCHANGED saved
    BY <1>6, ProcessingFailsTypes DEF ProcessingFails, dbVars
  <2> QED
    BY <1>1, <2>1, Left
<1> QED
  BY <1>2, <1>3, <1>4, <1>5, <1>6 DEF Process

LEMMA ActCourse ==
    ASSUME PipelineAssumption, TypesInv, NEW l \in Loops, Act(l)
    PROVE  CourseStep(l)
<1> USE DEF TypesInv, TypeOK
<1>1. UNCHANGED <<listed, todo>> /\ missed \subseteq missed'
  BY Booked, BookedOn DEF Act, Send, SendFails, SendNotice, NoticeFails, Transfer, TransferFails, listVars
<1>2. cur[l] \in Sessions
  BY DEF Act, Send, SendFails, SendNotice, NoticeFails, Transfer, TransferFails, At, PlacesInv
<1>3. Trusts(l) /\ \A k \in Loops \ {l} : current'[k] = current[k]
  <2>1. GetsOn(l) \/ GetsOnAndFails(l) \/ EnsureBreaks(l) \/ UNCHANGED adapterVars
    BY DEF Act, Send, SendFails, SendNotice, NoticeFails, Transfer, TransferFails
  <2> QED
    BY <1>2, <2>1, Ensured DEF adapterVars, Trusts
<1>4. CASE Send(l) \/ SendFails(l)
  <2>1. /\ OthersStay(l) /\ pc[l] = "sending" /\ UNCHANGED saved
        /\ UNCHANGED page \/ (Types(l, "reply") /\ shown'[l] \in Sessions)
    BY <1>4, SendTypes
  <2>2. UNCHANGED Delivered \/ Speaks(l)
    BY <1>3, <2>1, Spoken, StaysDelivered
  <2>3. SessionOver(l)
    BY <1>4 DEF Send, SendFails
  <2> QED
    BY <1>1, <1>3, <2>1, <2>2, <2>3, Left
<1>5. CASE SendNotice(l) \/ NoticeFails(l)
  <2>1. /\ OthersStay(l) /\ pc[l] = "noticing" /\ UNCHANGED saved
        /\ UNCHANGED page \/ (Types(l, "notice") /\ shown'[l] \in Sessions)
    BY <1>5, NoticeTypes
  <2>2. UNCHANGED Delivered \/ Speaks(l)
    BY <1>3, <2>1, Spoken, StaysDelivered
  <2>3. CASE SessionOver(l)
    BY <1>1, <1>3, <2>1, <2>2, <2>3, Left
  <2>4. CASE Goto(l, "transferring") /\ UNCHANGED <<cur, history, pending>>
    <3>1. GoesOn(l)
      BY <1>3, <2>1, <2>4 DEF GoesOn, Goto, LoopTypes
    <3> QED
      BY <1>1, <1>3, <2>1, <2>2, <2>4, <3>1 DEF CourseStep, OthersKeep
  <2> QED
    BY <1>5, <2>3, <2>4 DEF SendNotice, NoticeFails
<1>6. CASE Transfer(l) \/ TransferFails(l)
  <2>1. OthersStay(l) /\ UNCHANGED <<page, saved>>
    BY <1>6, TransferTypes
  <2>2. SessionOver(l)
    BY <1>6 DEF Transfer, TransferFails
  <2> QED
    BY <1>1, <1>3, <2>1, <2>2, StaysDelivered, Left
<1> QED
  BY <1>4, <1>5, <1>6 DEF Act

LEMMA Courses ==
    ASSUME PipelineAssumption, TypesInv, ChatInv, NEW l \in Loops,
           LoopStep(l) \/ Reload(l) \/ StartAnew(l)
    PROVE  CourseStep(l)
BY PollCourse, ProcessCourse, ActCourse DEF LoopStep

-----------------------------------------------------------------------------
(* Everything of its chat *)

LEMMA CourseKept ==
    ASSUME ChatInv, NEW l \in Loops, CourseStep(l)
    PROVE  \A k \in Loops : OnCourse(k)'
<1> SUFFICES ASSUME NEW k \in Loops PROVE OnCourse(k)'
  OBVIOUS
<1>1. OnCourse(k) /\ OnCourse(l) /\ UNCHANGED listed /\ missed \subseteq missed'
  BY DEF ChatInv, CourseStep
<1>2. CASE k # l
  BY <1>1, <1>2 DEF CourseStep, OthersKeep, OthersStay, OnCourse, InHand
<1>3. CASE k = l
  <2>1. todo'[l] \subseteq listed' \cup missed'
    BY <1>1 DEF CourseStep, OnCourse
  <2>2. CASE Leaves(l)
    BY <1>3, <2>1, <2>2 DEF OnCourse, InHand, Leaves
  <2>3. CASE Turns(l)
    BY <1>1, <1>3, <2>1, <2>3 DEF OnCourse, InHand, Turns
  <2>4. CASE Reads(l)
    BY <1>1, <1>3, <2>1, <2>4 DEF OnCourse, InHand, Reads, Trusts
  <2>5. CASE GoesOn(l)
    BY <1>1, <1>3, <2>1, <2>5 DEF OnCourse, InHand, GoesOn, Trusts
  <2> QED
    BY <2>2, <2>3, <2>4, <2>5 DEF CourseStep
<1> QED
  BY <1>2, <1>3

LEMMA RightChatStep ==
    ASSUME ChatInv, NEW l \in Loops, CourseStep(l)
    PROVE  RightChat'
<1>1. OnCourse(l) /\ missed \subseteq missed'
  BY DEF ChatInv, CourseStep
<1>2. \A r \in saved' : r.session \notin missed' => r.message[1] = r.session
  <2>1. CASE UNCHANGED saved
    BY <1>1, <2>1 DEF ChatInv, RightChat
  <2>2. CASE Stores(l)
    <3>1. PICK m \in InHand(l) : saved' = saved \cup {[session |-> cur[l], message |-> m]}
      BY <2>2 DEF Stores
    <3>2. cur[l] \notin missed => m[1] = cur[l]
      BY <1>1, <2>2, <3>1 DEF Stores, OnCourse
    <3> QED
      BY <1>1, <3>1, <3>2 DEF ChatInv, RightChat
  <2> QED
    BY <2>1, <2>2 DEF CourseStep
<1>3. \A d \in Delivered' : d.record.session \notin missed' => d.chat = d.record.session
  <2>1. CASE UNCHANGED Delivered
    BY <1>1, <2>1 DEF ChatInv, RightChat
  <2>2. CASE Speaks(l)
    <3>1. PICK d : d.record = Pending(l) /\ d.chat = shown'[l] /\ Delivered' = Delivered \cup {d}
      BY <2>2 DEF Speaks
    <3>2. d.record.session = cur[l]
      BY <3>1 DEF Pending
    <3>3. cur[l] \notin missed => shown'[l] = cur[l]
      BY <1>1, <2>2 DEF Speaks, Trusts, OnCourse
    <3> QED
      BY <1>1, <3>1, <3>2, <3>3 DEF ChatInv, RightChat
  <2> QED
    BY <2>1, <2>2 DEF CourseStep
<1> QED
  BY <1>2, <1>3 DEF RightChat

\* Buyers, agents, the platform and the API leave every loop alone, and a chat that
\* leaves the list is marked.
LEMMA OutsideCourse ==
    ASSUME PipelineAssumption, TypesInv, NEW s \in Sessions, Outside(s)
    PROVE  /\ UNCHANGED <<pc, cur, pending, shown, todo, current, history>>
           /\ missed \subseteq missed' /\ listed \cup missed \subseteq listed' \cup missed'
           /\ transferred' = transferred
<1>1. UNCHANGED <<pc, cur, pending, shown, todo, current, history>> /\ UNCHANGED transferred
  BY DEF Outside, BuyerWrites, AgentWrites, ChatCloses, Marks, Takeover, adapterVars, loopVars, platformVars
<1>2. CASE ChatCloses(s)
  BY <1>1, <1>2 DEF ChatCloses
<1>3. CASE BuyerWrites(s) \/ AgentWrites(s) \/ Marks(s) \/ Takeover(s)
  BY <1>1, <1>3, Booked DEF BuyerWrites, AgentWrites, Marks, Takeover, platformVars, listVars
<1> QED
  BY <1>2, <1>3 DEF Outside

LEMMA ChatStays ==
    ASSUME ChatInv, UNCHANGED <<pc, cur, pending, shown, todo, current, history>>,
           UNCHANGED <<saved, Delivered>>,
           missed \subseteq missed', listed \cup missed \subseteq listed' \cup missed'
    PROVE  ChatInv'
<1>1. RightChat'
  BY DEF ChatInv, RightChat
<1>2. \A l \in Loops : OnCourse(l)'
  BY DEF ChatInv, OnCourse, InHand
<1> QED
  BY <1>1, <1>2 DEF ChatInv

LEMMA ChatInit ==
    ASSUME Init
    PROVE  ChatInv
<1>1. Delivered = {}
  BY DEF Init, Delivered
<1>2. \A l \in Loops : OnCourse(l)
  BY DEF Init, OnCourse, InHand
<1> QED
  BY <1>1, <1>2 DEF Init, ChatInv, RightChat

LEMMA ChatStep ==
    ASSUME PipelineAssumption, TypesInv, ChatInv, [Next]_vars
    PROVE  ChatInv'
<1>1. ASSUME NEW l \in Loops, LoopStep(l) \/ Reload(l) \/ StartAnew(l) PROVE ChatInv'
  BY <1>1, Courses, CourseKept, RightChatStep DEF ChatInv
<1>2. ASSUME NEW s \in Sessions, Outside(s) PROVE ChatInv'
  BY <1>2, OutsideSteps, OutsideCourse, ChatStays
<1>3. CASE UNCHANGED vars
  BY <1>3, StaysDelivered, ChatStays
     DEF vars, platformVars, listVars, dbVars, adapterVars, loopVars, bookVars
<1> QED
  BY <1>1, <1>2, <1>3 DEF Next

-----------------------------------------------------------------------------
(* What is read was written by the buyer *)

ReadInv ==
    /\ \A r \in saved : IsBuyers(r.message[1], r.message[2])
    /\ \A l \in Loops : \A m \in InHand(l) : IsBuyers(m[1], m[2])

PageGrows == \A s \in Sessions : \A i : IsBuyers(s, i) => IsBuyers(s, i)'

LEMMA Appended ==
    ASSUME PipelineAssumption, PlatformTypes, NEW s \in Sessions, NEW t \in Texts,
           page' = [page EXCEPT ![s] = Append(@, t)],
           t.kind \in SellerKinds \/ Len(page[s]) < MaxLength
    PROVE  PageGrows
<1>1. /\ \A u \in Sessions \ {s} : page'[u] = page[u]
      /\ DOMAIN page[s] \subseteq DOMAIN page'[s]
      /\ \A i \in DOMAIN page[s] : page'[s][i] = page[s][i]
  BY AppendTypes
<1> QED
  BY <1>1 DEF PageGrows, IsBuyers

LEMMA PageKept == UNCHANGED page => PageGrows
BY DEF PageGrows, IsBuyers

LEMMA LoopsGrow ==
    ASSUME PipelineAssumption, TypesInv, NEW l \in Loops, LoopStep(l) \/ Reload(l) \/ StartAnew(l)
    PROVE  PageGrows
<1>1. ASSUME NEW kind \in {"reply", "notice"}, Types(l, kind), shown'[l] \in Sessions,
             pc[l] \in {"sending", "noticing"}
      PROVE  PageGrows
  <2> DEFINE t == [kind |-> kind, about |-> Pending(l)]
  <2>1. t \in Texts /\ t.kind \in SellerKinds
    BY <1>1, PendingTypes DEF Texts, SellerKinds, TypesInv
  <2>2. page' = [page EXCEPT ![shown'[l]] = Append(@, t)]
    BY <1>1 DEF Types
  <2> HIDE DEF t
  <2> QED
    BY <1>1, <2>1, <2>2, Appended DEF TypesInv, TypeOK
<1>2. CASE Send(l) \/ SendFails(l)
  BY <1>1, <1>2, SendTypes, PageKept
<1>3. CASE SendNotice(l) \/ NoticeFails(l)
  BY <1>1, <1>3, NoticeTypes, PageKept
<1>4. CASE Poll(l) \/ Process(l) \/ Transfer(l) \/ TransferFails(l) \/ Reload(l) \/ StartAnew(l)
  BY <1>4, PageKept
     DEF Poll, ListSessions, SwitchTo, SwitchFails, Fetch, FetchUnordered, FetchFails, Process, StoreNext,
         SavePending, Escalate, Reply, ProcessingFails, Transfer, TransferFails, Reload, StartAnew, platformVars
<1> QED
  BY <1>2, <1>3, <1>4 DEF LoopStep, Act

LEMMA OutsideGrows ==
    ASSUME PipelineAssumption, TypesInv, NEW s \in Sessions, Outside(s)
    PROVE  PageGrows
<1>1. ASSUME NEW kind \in BuyerKinds \cup {"agent"}, Writes(s, kind) PROVE PageGrows
  <2> DEFINE t == [kind |-> kind, about |-> NoRecord]
  <2>1. t \in Texts
    BY DEF Texts, SellerKinds
  <2>2. page' = [page EXCEPT ![s] = Append(@, t)] /\ Len(page[s]) < MaxLength
    BY <1>1 DEF Writes
  <2> HIDE DEF t
  <2> QED
    BY <2>1, <2>2, Appended DEF TypesInv, TypeOK
<1> QED
  BY <1>1, OutsideTypes, PageKept

LEMMA ReadStays ==
    ASSUME TypesInv, ReadInv, PageGrows, UNCHANGED <<saved, history, pending>>
    PROVE  ReadInv'
<1>1. \A r \in saved : r.message[1] \in Sessions
  BY DEF TypesInv, TypeOK, DbTypes, Records, Messages
<1>2. \A l \in Loops : \A m \in InHand(l) : m[1] \in Sessions
  BY DEF TypesInv, TypeOK, LoopTypes, InHand, Messages
<1> QED
  BY <1>1, <1>2 DEF ReadInv, PageGrows, InHand

LEMMA ReadStep ==
    ASSUME PipelineAssumption, TypesInv, ChatInv, ReadInv, [Next]_vars
    PROVE  ReadInv'
<1>1. ASSUME NEW l \in Loops, LoopStep(l) \/ Reload(l) \/ StartAnew(l) PROVE ReadInv'
  <2>1. CourseStep(l) /\ PageGrows /\ TypesInv'
    BY <1>1, Courses, LoopsGrow, LoopSteps
  <2>2. \A r \in saved' : r.message \in Messages /\ r.message[1] \in Sessions
    BY <2>1 DEF TypesInv, TypeOK, DbTypes, Records, Messages
  <2>3. \A k \in Loops : \A m \in InHand(k)' : m \in Messages /\ m[1] \in Sessions
    BY <2>1 DEF TypesInv, TypeOK, LoopTypes, InHand, Messages
  <2>4. \A r \in saved' : IsBuyers(r.message[1], r.message[2])
    <3>1. CASE UNCHANGED saved
      BY <3>1 DEF ReadInv
    <3>2. CASE Stores(l)
      BY <3>2 DEF Stores, ReadInv
    <3> QED
      BY <2>1, <3>1, <3>2 DEF CourseStep
  <2>5. \A k \in Loops : \A m \in InHand(k)' : IsBuyers(m[1], m[2])
    <3> SUFFICES ASSUME NEW k \in Loops, NEW m \in InHand(k)' PROVE IsBuyers(m[1], m[2])
      OBVIOUS
    <3>1. CASE k # l
      BY <2>1, <3>1 DEF CourseStep, OthersKeep, OthersStay, InHand, ReadInv
    <3>2. CASE k = l
      <4>1. CASE Leaves(l)
        BY <3>2, <4>1 DEF Leaves, InHand
      <4>2. CASE Turns(l) \/ GoesOn(l)
        BY <3>2, <4>2 DEF Turns, GoesOn, InHand, ReadInv
      <4>3. CASE Reads(l)
        BY <3>2, <4>3 DEF Reads, InHand
      <4> QED
        BY <2>1, <4>1, <4>2, <4>3 DEF CourseStep
    <3> QED
      BY <3>1, <3>2
  <2> QED
    BY <2>1, <2>2, <2>3, <2>4, <2>5 DEF ReadInv, PageGrows
<1>2. ASSUME NEW s \in Sessions, Outside(s) PROVE ReadInv'
  BY <1>2, OutsideSteps, OutsideCourse, OutsideGrows, ReadStays
<1>3. CASE UNCHANGED vars
  BY <1>3, PageKept, ReadStays DEF vars, platformVars, dbVars, loopVars
<1> QED
  BY <1>1, <1>2, <1>3 DEF Next


-----------------------------------------------------------------------------
(* The log of escalations of a shop with one loop *)

OneLoop == \A l, k \in Loops : l = k

\* The rows of escalations that a step of a loop leaves alone, adds or updates.
LEMMA LogKinds ==
    ASSUME PipelineAssumption, TypesInv, NEW l \in Loops, LoopStep(l) \/ Reload(l) \/ StartAnew(l)
    PROVE  /\ transferred \subseteq transferred'
           /\ \/ UNCHANGED escalations
              \/ escalations' = escalations \cup {[record |-> Pending(l), by |-> l, success |-> FALSE]}
              \/ pc[l] = "transferring" /\ UpdateLog(l, FALSE)
              \/ pc[l] = "transferring" /\ UpdateLog(l, TRUE) /\ Clicks(l) /\ Trusts(l)
<1>1. CASE Poll(l) \/ Reload(l) \/ StartAnew(l)
  BY <1>1 DEF Poll, ListSessions, SwitchTo, SwitchFails, Fetch, FetchUnordered, FetchFails, Reload, StartAnew,
              platformVars, dbVars
<1>2. CASE Process(l)
  BY <1>2 DEF Process, StoreNext, SavePending, Escalate, Reply, ProcessingFails, Save,
              platformVars, dbVars
<1>3. CASE Send(l) \/ SendFails(l) \/ SendNotice(l) \/ NoticeFails(l)
  BY <1>3 DEF Send, SendFails, SendNotice, NoticeFails, dbVars
<1>4. CASE Transfer(l) \/ TransferFails(l)
  <2>1. transferred \subseteq transferred'
    BY <1>4 DEF Transfer, TransferFails, Clicks
  <2>2. \/ UNCHANGED dbVars
        \/ UpdateLog(l, FALSE)
        \/ UpdateLog(l, TRUE) /\ Clicks(l) /\ GetsOn(l)
    BY <1>4 DEF Transfer, TransferFails
  <2>3. pc[l] = "transferring" /\ cur[l] \in Sessions
    BY <1>4 DEF Transfer, TransferFails, At, TypesInv, PlacesInv
  <2> QED
    BY <2>1, <2>2, <2>3, Ensured DEF dbVars, TypesInv, TypeOK
<1> QED
  BY <1>1, <1>2, <1>3, <1>4 DEF LoopStep, Act

LEMMA LogLoop ==
    ASSUME PipelineAssumption, TypesInv, OneLoop, ChatInv, LogTellsTheTruth, NEW l \in Loops,
           LoopStep(l) \/ Reload(l) \/ StartAnew(l)
    PROVE  LogTellsTheTruth'
<1>1. CourseStep(l) /\ missed \subseteq missed' /\ transferred \subseteq transferred'
  BY Courses, LogKinds DEF CourseStep
<1>2. CASE UNCHANGED escalations
  BY <1>1, <1>2 DEF LogTellsTheTruth
<1>3. CASE escalations' = escalations \cup {[record |-> Pending(l), by |-> l, success |-> FALSE]}
  BY <1>1, <1>3 DEF LogTellsTheTruth
<1>4. ASSUME NEW success \in BOOLEAN, UpdateLog(l, success), pc[l] = "transferring",
             success => Clicks(l) /\ Trusts(l)
      PROVE  LogTellsTheTruth'
  <2>1. PICK e \in escalations :
          /\ e.record = Pending(l) \/ e.by # l
          /\ escalations' = (escalations \ {e}) \cup {[e EXCEPT !.success = success]}
    BY <1>4 DEF UpdateLog
  <2>2. e \in [record : Records, by : Loops, success : BOOLEAN]
    BY DEF TypesInv, TypeOK, DbTypes
  <2>3. e.record = Pending(l) /\ e.record.session = cur[l]
    BY <2>1, <2>2 DEF OneLoop, Pending
  <2> DEFINE row == [e EXCEPT !.success = success]
  <2>4. row.record = e.record /\ row.success = success /\ escalations' = (escalations \ {e}) \cup {row}
    BY <2>1, <2>2
  <2> HIDE DEF row
  <2>5. success /\ cur[l] \notin missed =>
          [record |-> row.record, chat |-> row.record.session] \in transferred'
    <3>1. success => [record |-> Pending(l), chat |-> shown'[l]] \in transferred'
      BY <1>4 DEF Clicks
    <3>2. success /\ cur[l] \notin missed => shown'[l] = cur[l]
      BY <1>4 DEF ChatInv, OnCourse, Trusts
    <3> QED
      BY <2>3, <2>4, <3>1, <3>2
  <2> QED
    BY <1>1, <2>3, <2>4, <2>5 DEF LogTellsTheTruth
<1> QED
  BY <1>2, <1>3, <1>4, LogKinds

LEMMA LogStep ==
    ASSUME PipelineAssumption, TypesInv, OneLoop, ChatInv, LogTellsTheTruth, [Next]_vars
    PROVE  LogTellsTheTruth'
<1>1. ASSUME NEW s \in Sessions, Outside(s) PROVE LogTellsTheTruth'
  <2>1. UNCHANGED escalations /\ UNCHANGED transferred /\ missed \subseteq missed'
    BY <1>1, OutsideTypes, OutsideCourse
  <2> QED
    BY <2>1 DEF LogTellsTheTruth
<1>2. CASE UNCHANGED vars
  BY <1>2 DEF vars, platformVars, dbVars, bookVars, LogTellsTheTruth
<1> QED
  BY <1>1, <1>2, LogLoop DEF Next

-----------------------------------------------------------------------------
(* The status of a session with escalations, in a shop with one loop *)

\* A session with an escalation has a status, and one that says that the AI is at it
\* has a reply to a later message.
ShowsInv ==
    \A x \in Escalated :
        /\ status[x.session] # "none"
        /\ x.session \notin missed /\ status[x.session] = "ai_processing" =>
              \E r \in replies : r.session = x.session /\ r.message[2] > x.message[2]

\* Until its decision, no message of its session that was recorded comes after the
\* pending one.
AheadInv ==
    \A l \in Loops :
        /\ pc[l] \in {"storing", "saving", "deciding"}
        /\ cur[l] \notin missed /\ pending[l] # NoMessage
        => /\ \A r \in saved : r.session = cur[l] => r.message[2] <= pending[l][2]
           /\ \A m \in history[l] : m[2] <= pending[l][2]

LEMMA AheadStep ==
    ASSUME PipelineAssumption, TypesInv, OneLoop, ChatInv, ReadInv, AheadInv, [Next]_vars
    PROVE  AheadInv'
<1>1. ASSUME NEW l \in Loops, LoopStep(l) \/ Reload(l) \/ StartAnew(l) PROVE AheadInv'
  <2> SUFFICES ASSUME pc'[l] \in {"storing", "saving", "deciding"},
                      cur'[l] \notin missed', pending'[l] # NoMessage
               PROVE  /\ \A r \in saved' : r.session = cur'[l] => r.message[2] <= pending'[l][2]
                      /\ \A m \in history'[l] : m[2] <= pending'[l][2]
    BY DEF AheadInv, OneLoop
  <2>1. CourseStep(l) /\ missed \subseteq missed' /\ OnCourse(l)
    BY <1>1, Courses DEF CourseStep, ChatInv
  <2>2. CASE GoesOn(l)
    <3>1. /\ cur'[l] = cur[l] /\ pending'[l] = pending[l] /\ history'[l] \subseteq history[l]
          /\ pc[l] \in {"storing", "saving"}
      BY <2>2 DEF GoesOn
    <3>2. /\ \A r \in saved : r.session = cur[l] => r.message[2] <= pending[l][2]
          /\ \A m \in history[l] : m[2] <= pending[l][2]
      BY <2>1, <3>1 DEF AheadInv
    <3>3. pending[l] \in Messages
      BY <3>1 DEF TypesInv, TypeOK, LoopTypes
    <3>4. \A m \in InHand(l) : m[2] <= pending[l][2]
      BY <3>2, <3>3 DEF InHand, Messages
    <3>5. \A r \in saved' : r.session = cur[l] => r.message[2] <= pending[l][2]
      BY <2>1, <3>2, <3>4 DEF CourseStep, Stores
    <3> QED
      BY <3>1, <3>2, <3>5
  <2>3. CASE Reads(l)
    <3>1. UNCHANGED saved /\ cur'[l] = cur[l] /\ shown'[l] = cur[l]
      BY <2>1, <2>3 DEF CourseStep, Stores, Reads, Trusts, OnCourse
    <3>2. \A i \in Nat : IsBuyers(cur[l], i) => i <= pending'[l][2]
      BY <2>3, <3>1 DEF Reads
    <3>3. \A r \in saved : r.session = cur[l] => r.message[2] \in Nat /\ IsBuyers(cur[l], r.message[2])
      BY <2>1, <3>1 DEF ChatInv, RightChat, ReadInv, TypesInv, TypeOK, DbTypes, Records, Messages
    <3>4. TypesInv'
      BY <1>1, LoopSteps
    <3>5. \A m \in history'[l] : m[2] \in Nat /\ IsBuyers(cur[l], m[2])
      BY <2>3, <3>1, <3>4 DEF Reads, TypesInv, TypeOK, LoopTypes, Messages
    <3> QED
      BY <3>1, <3>2, <3>3, <3>5
  <2> QED
    BY <2>1, <2>2, <2>3 DEF CourseStep, Leaves, Turns
<1>2. ASSUME NEW s \in Sessions, Outside(s) PROVE AheadInv'
  BY <1>2, OutsideSteps, OutsideCourse DEF AheadInv
<1>3. CASE UNCHANGED vars
  BY <1>3 DEF vars, dbVars, loopVars, bookVars, AheadInv
<1> QED
  BY <1>1, <1>2, <1>3 DEF Next

\* What a step of a loop does to the decisions and to the status of the sessions.
StatusStep(l) ==
    \/ UNCHANGED <<replies, Escalated>> /\ \A s \in Sessions : status'[s] = status[s] \/ status[s] = "none"
    \/ /\ pc[l] = "deciding" /\ Escalated' = Escalated \cup {Pending(l)} /\ UNCHANGED replies
       /\ status' = [status EXCEPT ![cur[l]] = "escalated"]
    \/ /\ pc[l] = "deciding" /\ replies' = replies \cup {Pending(l)} /\ UNCHANGED Escalated
       /\ status' = [status EXCEPT ![cur[l]] = "ai_processing"]

LEMMA StatusKinds ==
    ASSUME PipelineAssumption, TypesInv, NEW l \in Loops, LoopStep(l) \/ Reload(l) \/ StartAnew(l)
    PROVE  StatusStep(l)
<1>1. ASSUME UNCHANGED dbVars PROVE StatusStep(l)
  BY <1>1, StaysEscalated DEF dbVars, StatusStep
<1>2. CASE Poll(l) \/ Reload(l) \/ StartAnew(l)
  BY <1>1, <1>2 DEF Poll, ListSessions, SwitchTo, SwitchFails, Fetch, FetchUnordered, FetchFails, Reload, StartAnew
<1>3. ASSUME NEW r, Save(r) PROVE StatusStep(l)
  BY <1>3, StaysEscalated DEF Save, StatusStep, TypesInv, TypeOK, DbTypes
<1>4. CASE StoreNext(l)
  BY <1>3, <1>4, StoreNextTypes
<1>5. CASE SavePending(l)
  BY <1>1, <1>3, <1>5 DEF SavePending
<1>6. CASE Escalate(l)
  <2> DEFINE row == [record |-> Pending(l), by |-> l, success |-> FALSE]
  <2>1. escalations' = escalations \cup {row} /\ row.record = Pending(l)
    BY <1>6 DEF Escalate
  <2> HIDE DEF row
  <2>2. Escalated' = Escalated \cup {Pending(l)}
    BY <2>1 DEF Escalated
  <2> QED
    BY <1>6, <2>2 DEF Escalate, At, StatusStep
<1>7. CASE Reply(l)
  BY <1>7, StaysEscalated DEF Reply, At, StatusStep
<1>8. CASE ProcessingFails(l) \/ Send(l) \/ SendFails(l) \/ SendNotice(l) \/ NoticeFails(l)
  BY <1>1, <1>8 DEF ProcessingFails, Send, SendFails, SendNotice, NoticeFails
<1>9. CASE Transfer(l) \/ TransferFails(l)
  <2>1. UNCHANGED <<replies, Escalated>>
    BY <1>9, TransferTypes
  <2>2. UNCHANGED status
    BY <1>9 DEF Transfer, TransferFails, UpdateLog, dbVars
  <2> QED
    BY <2>1, <2>2 DEF StatusStep
<1> QED
  BY <1>2, <1>4, <1>5, <1>6, <1>7, <1>8, <1>9 DEF LoopStep, Process, Act

LEMMA ShowsLoop ==
    ASSUME PipelineAssumption, TypesInv, LedgerInv, ChatInv, AheadInv, ShowsInv, NEW l \in Loops,
           LoopStep(l) \/ Reload(l) \/ StartAnew(l)
    PROVE  ShowsInv'
<1>1. StatusStep(l) /\ CourseStep(l) /\ missed \subseteq missed'
  BY StatusKinds, Courses DEF CourseStep
<1>2. \A x \in Escalated : x \in Records /\ x.session \in Sessions /\ x \in saved
  BY DEF LedgerInv, DecisionsInv, Decided, TypesInv, TypeOK, DbTypes, Escalated, Records
<1>3. status \in [Sessions -> {"none", "ai_processing", "escalated"}]
  BY DEF TypesInv, TypeOK, DbTypes
<1>4. CASE UNCHANGED <<replies, Escalated>> /\ \A s \in Sessions : status'[s] = status[s] \/ status[s] = "none"
  BY <1>1, <1>2, <1>4 DEF ShowsInv
<1>5. CASE /\ pc[l] = "deciding" /\ Escalated' = Escalated \cup {Pending(l)} /\ UNCHANGED replies
           /\ status' = [status EXCEPT ![cur[l]] = "escalated"]
  <2>1. Pending(l).session = cur[l] /\ cur[l] \in Sessions
    BY <1>5 DEF Pending, TypesInv, PlacesInv
  <2>2. \A s \in Sessions : status'[s] = IF s = cur[l] THEN "escalated" ELSE status[s]
    BY <1>3, <1>5
  <2> QED
    BY <1>1, <1>2, <1>5, <2>1, <2>2 DEF ShowsInv
<1>6. CASE /\ pc[l] = "deciding" /\ replies' = replies \cup {Pending(l)} /\ UNCHANGED Escalated
           /\ status' = [status EXCEPT ![cur[l]] = "ai_processing"]
  <2>1. \A s \in Sessions : status'[s] = IF s = cur[l] THEN "ai_processing" ELSE status[s]
    BY <1>3, <1>6
  <2>2. /\ Pending(l) \in replies' /\ Pending(l).session = cur[l] /\ Pending(l).message = pending[l]
        /\ pending[l] \in Messages /\ pending[l] # NoMessage
    BY <1>6, RealMessage DEF Pending, TypesInv, PlacesInv
  <2>3. ASSUME NEW x \in Escalated, x.session = cur[l], cur[l] \notin missed
        PROVE  pending[l][2] > x.message[2]
    <3>1. x.message[2] <= pending[l][2]
      BY <1>2, <1>6, <2>2, <2>3 DEF AheadInv
    <3>2. x # Pending(l)
      BY <1>6 DEF LedgerInv, DecisionsInv, Decided, At
    <3>3. x.message # pending[l]
      BY <1>2, <2>3, <3>2 DEF Records, Pending
    <3>4. x.message[1] = cur[l] /\ pending[l][1] = cur[l]
      BY <1>2, <1>6, <2>2, <2>3 DEF ChatInv, RightChat, OnCourse, InHand
    <3>5. x.message \in Messages
      BY <1>2 DEF Records
    <3>6. x.message[2] # pending[l][2]
      BY <2>2, <3>3, <3>4, <3>5 DEF Messages
    <3> QED
      BY <2>2, <3>1, <3>5, <3>6 DEF Messages
  <2> QED
    BY <1>1, <1>2, <1>6, <2>1, <2>2, <2>3 DEF ShowsInv
<1> QED
  BY <1>1, <1>4, <1>5, <1>6 DEF StatusStep

LEMMA ShowsStep ==
    ASSUME PipelineAssumption, TypesInv, LedgerInv, ChatInv, AheadInv, ShowsInv, [Next]_vars
    PROVE  ShowsInv'
<1>1. ASSUME NEW s \in Sessions, Outside(s) PROVE ShowsInv'
  <2>1. UNCHANGED <<replies, Escalated>> /\ missed \subseteq missed'
    BY <1>1, OutsideSteps, OutsideCourse
  <2>2. UNCHANGED status \/ status' = [status EXCEPT ![s] = "escalated"]
    BY <1>1 DEF Outside, BuyerWrites, AgentWrites, ChatCloses, Marks, Takeover, dbVars
  <2>3. \A u \in Sessions : status'[u] = status[u] \/ status'[u] = "escalated"
    BY <2>2 DEF TypesInv, TypeOK, DbTypes
  <2>4. \A x \in Escalated : x.session \in Sessions
    BY DEF TypesInv, TypeOK, DbTypes, Escalated, Records
  <2> QED
    BY <2>1, <2>3, <2>4 DEF ShowsInv
<1>2. CASE UNCHANGED vars
  BY <1>2, StaysEscalated DEF vars, dbVars, bookVars, ShowsInv
<1> QED
  BY <1>1, <1>2, ShowsLoop DEF Next

-----------------------------------------------------------------------------
(* The theorems *)

LEMMA PipelineInductive ==
    ASSUME PipelineAssumption
    PROVE  (Init => PipelineInv /\ ChatInv) /\ (PipelineInv /\ ChatInv /\ [Next]_vars => (PipelineInv /\ ChatInv)')
<1>1. PipelineInv => TypesInv
  BY DEF PipelineInv, TypesInv, LedgerInv
<1> QED
  BY <1>1, PipelineInvInit, PipelineInvStep, ChatInit, ChatStep

\* What a loop records for a session comes from the chat of that session, and what it
\* types about it goes into that chat, however clicks are broken off, pages reloaded
\* and loops started anew: all that takes it elsewhere is a switch that returns
\* without the chat, because the chat has left the list, or because the queries for
\* it were swallowed or the click went astray.  The session stays excepted from then
\* on: its rows and texts may be of another chat, and the code never tells.
THEOREM EverythingInItsChat == Spec => []RightChat
<1>1. Init => PipelineInv /\ ChatInv
  BY PipelineInductive, PipelineAssumption
<1>2. PipelineInv /\ ChatInv /\ [Next]_vars => (PipelineInv /\ ChatInv)'
  BY PipelineInductive, PipelineAssumption
<1>3. ChatInv => RightChat
  BY DEF ChatInv
<1> QED
  BY <1>1, <1>2, <1>3, PTL DEF Spec

\* With one loop, an escalation whose row says success has been transferred in the
\* chat of its session.
THEOREM SuccessIsTransferred ==
  ASSUME OneLoop
  PROVE  Spec => []LogTellsTheTruth
<1> DEFINE Inv == PipelineInv /\ ChatInv /\ LogTellsTheTruth
<1>1. Init => Inv
  BY PipelineInductive, PipelineAssumption DEF Init, LogTellsTheTruth
<1>2. Inv /\ [Next]_vars => Inv'
  <2>1. PipelineInv => TypesInv
    BY DEF PipelineInv, TypesInv, LedgerInv
  <2> QED
    BY <2>1, PipelineInductive, LogStep, PipelineAssumption
<1>3. Inv => LogTellsTheTruth
  OBVIOUS
<1> QED
  BY <1>1, <1>2, <1>3, PTL DEF Spec

\* With one loop, a session that has an escalation goes back to the AI only with a
\* reply to a message that came after it.
THEOREM EscalationsShow ==
  ASSUME OneLoop
  PROVE  Spec => []EscalationShows
<1> DEFINE Inv == PipelineInv /\ ChatInv /\ ReadInv /\ AheadInv /\ ShowsInv
<1>1. Init => Inv
  <2> SUFFICES ASSUME Init PROVE ReadInv /\ AheadInv /\ ShowsInv
    BY PipelineInductive, PipelineAssumption
  <2> QED
    BY DEF Init, ReadInv, InHand, AheadInv, ShowsInv, Escalated
<1>2. Inv /\ [Next]_vars => Inv'
  <2>1. PipelineInv => TypesInv /\ LedgerInv
    BY DEF PipelineInv, TypesInv, LedgerInv
  <2> QED
    BY <2>1, PipelineInductive, ReadStep, AheadStep, ShowsStep, PipelineAssumption
<1>3. Inv => EscalationShows
  BY DEF ShowsInv, EscalationShows, Escalated
<1> QED
  BY <1>1, <1>2, <1>3, PTL DEF Spec

=============================================================================
