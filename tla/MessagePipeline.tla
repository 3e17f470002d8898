-------------------------- MODULE MessagePipeline --------------------------
(***************************************************************************)
(* What a shop loop does with the chats of its shop in each poll:          *)
(* ShopRuntime._process_session (backend/workers/shop_worker.py) with      *)
(* process_buyer_message (backend/services/message_processor.py), the rows *)
(* they write and the page they read and type into                         *)
(* (backend/adapters/pdd.py).                                              *)
(*                                                                         *)
(* One action is the code from one await, or from one transaction, to the  *)
(* next: loops of other workers, the API, buyers and agents come between   *)
(* any two of them.                                                        *)
(***************************************************************************)
EXTENDS Naturals, Sequences

CONSTANTS
    Sessions,        \* the chats of the shop; a session row has the buyer of one
    NoSession,
    Loops,           \* the loops of the shop; more than one if workers share it
    Configurations,  \* the values the configuration of the shop takes
    Unwatchable,     \* bound: the chats that the platform may mark as un-watch
    MaxLength,       \* bound: buyers and agents write no more to a longer chat
    MaxFaults        \* bound: how often awaits fail or miss, loops end or chats close

ASSUME PipelineAssumption ==
    /\ NoSession \notin Sessions
    /\ Configurations \subseteq [ai : BOOLEAN, notice : BOOLEAN, target : BOOLEAN]
    /\ Unwatchable \subseteq Sessions
    /\ MaxLength \in Nat
    /\ MaxFaults \in Nat

(***************************************************************************)
(* A buyer's message is told by its chat and its place there, which is     *)
(* the index that the page gives it.  An "urgent" one is one that the      *)
(* rules of escalation match.                                              *)
(***************************************************************************)
BuyerKinds == {"buyer", "urgent"}

\* What the page shows as the seller's, and the adapter reads as "human":
\* texts of agents, the replies of the pipeline and its escalation notices.
SellerKinds == {"agent", "reply", "notice"}

Messages == Sessions \X (1..MaxLength)
NoMessage == <<>>

\* What a dedup key tells apart.
Records == [session : Sessions, message : Messages]
NoRecord == <<>>

\* Between two cycles, no configuration is loaded.
NoConfiguration == [ai |-> FALSE, notice |-> FALSE, target |-> FALSE]

VARIABLES
    \* The platform
    page,         \* [Sessions -> Seq of [kind, about]]: what each chat shows
    listed,       \* the chats that the list of sessions shows
    unwatched,    \* those of them that it marks as un-watch
    transferred,  \* the transfers that were clicked, [record, chat]
    \* The database
    saved,        \* the records of the buyers' rows of messages
    replies,      \* the records that have a row of an AI reply
    status,       \* [Sessions -> status of the session row, or "none"]
    escalations,  \* the rows of escalation_logs, [record, by, success]
    \* The loops, each with its adapter and its page
    pc,           \* [Loops -> where the loop waits]
    config,       \* [Loops -> shop_config as loaded for the cycle]
    todo,         \* [Loops -> the sessions of the cycle that are left]
    cur,          \* [Loops -> session_info of _process_session]
    current,      \* [Loops -> _current_session_id of the adapter]
    shown,        \* [Loops -> the chat that the page really shows]
    history,      \* [Loops -> history_messages that are left]
    pending,      \* [Loops -> pending_message]
    \* Bookkeeping
    faults,       \* what MaxFaults bounds
    missed        \* history: the chats that have ever left the list, or that a
                  \* switch has missed

listVars == <<listed, unwatched>>
platformVars == <<page, listVars, transferred>>
dbVars == <<saved, replies, status, escalations>>
adapterVars == <<current, shown>>
loopVars == <<pc, config, todo, cur, history, pending>>
bookVars == <<faults, missed>>
vars == <<platformVars, dbVars, adapterVars, loopVars, bookVars>>

Init ==
    /\ page = [s \in Sessions |-> <<>>]
    /\ listed = {} /\ unwatched = {}
    /\ transferred = {}
    /\ saved = {} /\ replies = {} /\ escalations = {}
    /\ status = [s \in Sessions |-> "none"]
    /\ pc = [l \in Loops |-> "idle"]
    /\ config = [l \in Loops |-> NoConfiguration]
    /\ todo = [l \in Loops |-> {}]
    /\ cur = [l \in Loops |-> NoSession]
    /\ current = [l \in Loops |-> NoSession]
    /\ shown = [l \in Loops |-> NoSession]
    /\ history = [l \in Loops |-> {}]
    /\ pending = [l \in Loops |-> NoMessage]
    /\ faults = 0 /\ missed = {}

-----------------------------------------------------------------------------
(* Helpers *)

At(l, place) == pc[l] = place
Goto(l, place) == pc' = [pc EXCEPT ![l] = place]

\* Something goes wrong, which it does MaxFaults times at most.
Fault == faults < MaxFaults /\ faults' = faults + 1 /\ UNCHANGED missed

NoFault == UNCHANGED bookVars

\* _process_session is over, in one way or another: on to the next session of
\* the cycle, or to the next cycle.
SessionOver(l) ==
    /\ Goto(l, IF todo'[l] = {} THEN "idle" ELSE "next")
    /\ config' = [config EXCEPT ![l] = IF todo'[l] = {} THEN NoConfiguration ELSE @]
    /\ cur' = [cur EXCEPT ![l] = NoSession]
    /\ history' = [history EXCEPT ![l] = {}]
    /\ pending' = [pending EXCEPT ![l] = NoMessage]

\* The record that the pending message of the loop has.
Pending(l) == [session |-> cur[l], message |-> pending[l]]

Opens(l, s) ==
    /\ current' = [current EXCEPT ![l] = s]
    /\ shown' = [shown EXCEPT ![l] = s]

\* adapter.switch_to_session returns: a session that is not in the list is
\* logged, and the page stays where it is.
Switches(l, s) == IF s \in listed THEN Opens(l, s) ELSE UNCHANGED adapterVars

\* A click is made where the chat stood when its place was read: it may open
\* another chat of the list, or none.
Clicked(l, c) == c \in listed \cup {shown[l]} /\ shown' = [shown EXCEPT ![l] = c]

\* It returns as well if it misses a chat that the list shows: its queries time
\* out, which they do not tell, so that the chat seems to be gone, or the click
\* goes astray.
Misses(l, s) ==
    /\ s \in listed /\ faults < MaxFaults
    /\ faults' = faults + 1
    /\ missed' = missed \cup {s}
    /\ \/ UNCHANGED adapterVars
       \/ /\ \E c \in Sessions \cup {NoSession} : c # s /\ Clicked(l, c)
          /\ current' = [current EXCEPT ![l] = s]

\* It is broken off: before the click, after it, or after _current_session_id
\* has been set.
SwitchBreaks(l, s) ==
    \/ UNCHANGED adapterVars
    \/ /\ s \in listed
       /\ \E c \in Sessions \cup {NoSession} : Clicked(l, c)
       /\ UNCHANGED current \/ current' = [current EXCEPT ![l] = s]

\* The other methods of the adapter switch only if they must.
Ensures(l) == IF current[l] = cur[l] THEN UNCHANGED adapterVars ELSE Switches(l, cur[l])
EnsureBreaks(l) == IF current[l] = cur[l] THEN UNCHANGED adapterVars ELSE SwitchBreaks(l, cur[l])
EnsureMisses(l) == current[l] # cur[l] /\ Misses(l, cur[l])

\* After that they go on, and may fail then.
GetsOn(l) == (Ensures(l) /\ NoFault) \/ EnsureMisses(l)
GetsOnAndFails(l) == (Ensures(l) /\ Fault) \/ EnsureMisses(l)

\* A text about a record appears in the chat that the page shows.
Types(l, kind) ==
    page' = [page EXCEPT ![shown'[l]] = Append(@, [kind |-> kind, about |-> Pending(l)])]

-----------------------------------------------------------------------------
(* A poll cycle *)

\* The chats whose buyer waits come alone, if there are any; of all these
\* _is_skipped_session takes out those marked as un-watch.
Waiting == {s \in listed : page[s] # <<>> /\ page[s][Len(page[s])].kind \in BuyerKinds}
SessionList == (IF Waiting # {} THEN Waiting ELSE {s \in listed : page[s] # <<>>}) \ unwatched

\* _load_runtime_configuration and get_session_list, which returns something:
\* any of the chats if some of its queries are swallowed.
ListSessions(l) ==
    /\ At(l, "idle")
    /\ Goto(l, "next")
    /\ \E found \in SUBSET listed :
         /\ found # {}
         /\ (found = SessionList /\ NoFault) \/ Fault
         /\ todo' = [todo EXCEPT ![l] = found]
    /\ \E c \in Configurations : config' = [config EXCEPT ![l] = c]
    /\ UNCHANGED <<platformVars, dbVars, adapterVars, cur, history, pending>>

\* detect_session_timeout reloads the page, and a re-login navigates away.
Reload(l) ==
    /\ At(l, "idle") /\ shown[l] # NoSession
    /\ shown' = [shown EXCEPT ![l] = NoSession]
    /\ UNCHANGED <<platformVars, dbVars, current, loopVars>>
    /\ NoFault

\* Mutant: it does not switch to the session that it takes for the current one.
SwitchToIfNeeded(l, s) ==
    /\ At(l, "next") /\ s \in todo[l]
    /\ IF current[l] = s
         THEN UNCHANGED adapterVars /\ NoFault
         ELSE (Switches(l, s) /\ NoFault) \/ Misses(l, s)
    /\ Goto(l, "fetching")
    /\ cur' = [cur EXCEPT ![l] = s]
    /\ todo' = [todo EXCEPT ![l] = @ \ {s}]
    /\ UNCHANGED <<platformVars, dbVars, config, history, pending>>

SwitchTo(l, s) ==
    /\ At(l, "next") /\ s \in todo[l]
    /\ (Switches(l, s) /\ NoFault) \/ Misses(l, s)
    /\ Goto(l, "fetching")
    /\ cur' = [cur EXCEPT ![l] = s]
    /\ todo' = [todo EXCEPT ![l] = @ \ {s}]
    /\ UNCHANGED <<platformVars, dbVars, config, history, pending>>

SwitchFails(l, s) ==
    /\ At(l, "next") /\ s \in todo[l]
    /\ Fault
    /\ SwitchBreaks(l, s)
    /\ todo' = [todo EXCEPT ![l] = @ \ {s}]
    /\ SessionOver(l)
    /\ UNCHANGED <<platformVars, dbVars>>

\* Mutant: messages before the last one are dropped.
SplitsLast(l, chat, last) ==
    LET texts == page[chat]
        asked == {i \in DOMAIN texts : texts[i].kind \in BuyerKinds}
        answered == \E i \in DOMAIN texts : i > last /\ texts[i].kind \in SellerKinds
    IN  /\ last \in asked /\ \A i \in asked : i <= last
        /\ history' = [history EXCEPT ![l] = IF answered THEN {<<chat, last>>} ELSE {}]
        /\ pending' = [pending EXCEPT ![l] = IF answered THEN NoMessage ELSE <<chat, last>>]
        /\ Goto(l, IF answered THEN "storing" ELSE "saving")
        /\ UNCHANGED <<config, cur>>

\* _split_session_buyer_messages tells the last message of the buyer, if it is
\* not answered, from those that are only to be stored.
SplitsAs(l, chat, last, answered) ==
    LET asked == {i \in DOMAIN page[chat] : page[chat][i].kind \in BuyerKinds}
        old == IF answered THEN asked ELSE asked \ {last}
    IN  /\ last \in asked /\ \A i \in asked : i <= last
        /\ history' = [history EXCEPT ![l] = {<<chat, i>> : i \in old}]
        /\ pending' = [pending EXCEPT ![l] = IF answered THEN NoMessage ELSE <<chat, last>>]
        /\ Goto(l, IF old # {} THEN "storing" ELSE "saving")
        /\ UNCHANGED <<config, cur>>

\* The seller has written after the place i.
SellerAfter(chat, i) == \E j \in DOMAIN page[chat] : j > i /\ page[chat][j].kind \in SellerKinds

\* Mutant: a text of the seller after the first message of the buyer counts.
SplitsAfterFirst(l, chat, last) ==
    \E first \in DOMAIN page[chat] :
        /\ page[chat][first].kind \in BuyerKinds
        /\ \A i \in 1..(first - 1) : page[chat][i].kind \notin BuyerKinds
        /\ SplitsAs(l, chat, last, SellerAfter(chat, first))

\* As fetch_messages reads the page in order, an answer stands after the message.
Splits(l, chat, last) == SplitsAs(l, chat, last, SellerAfter(chat, last))

\* A chat that the list has shown has a message of its buyer; a page that was
\* reloaded shows none.
Fetch(l) ==
    /\ At(l, "fetching")
    /\ GetsOn(l)
    /\ UNCHANGED <<platformVars, dbVars, todo>>
    /\ IF shown'[l] = NoSession
         THEN SessionOver(l)
         ELSE \E last \in DOMAIN page[shown'[l]] : Splits(l, shown'[l], last)

\* The query for the items in their order is swallowed, or the page has none:
\* the texts are read by sender, those of the seller after all of the buyer's,
\* so that any of them is an answer.  These queries may be swallowed too, and
\* then there is no answer, or nothing to do.
FetchUnordered(l) ==
    /\ At(l, "fetching")
    /\ GetsOnAndFails(l)
    /\ UNCHANGED <<platformVars, dbVars, todo>>
    /\ \/ SessionOver(l)
       \/ /\ shown'[l] # NoSession
          /\ \E last \in DOMAIN page[shown'[l]], answered \in {SellerAfter(shown'[l], 0), FALSE} :
               SplitsAs(l, shown'[l], last, answered)

FetchFails(l) ==
    /\ At(l, "fetching")
    /\ Fault
    /\ EnsureBreaks(l)
    /\ UNCHANGED <<platformVars, dbVars, todo>>
    /\ SessionOver(l)

-----------------------------------------------------------------------------
(* process_buyer_message *)

\* _get_or_create_session and _save_message, whose dedup key is unique.
Save(r) ==
    /\ saved' = saved \cup {r}
    /\ status' = [status EXCEPT ![r.session] = IF @ = "none" THEN "ai_processing" ELSE @]
    /\ UNCHANGED <<replies, escalations>>

\* With ai_enabled False, for one message of the history after the other.
StoreNext(l) ==
    /\ At(l, "storing")
    /\ UNCHANGED <<platformVars, adapterVars, todo>>
    /\ NoFault
    /\ \E m \in history[l] :
        /\ \A n \in history[l] : m[2] <= n[2]
        /\ Save([session |-> cur[l], message |-> m])
        /\ IF history[l] # {m}
             THEN /\ history' = [history EXCEPT ![l] = @ \ {m}]
                  /\ UNCHANGED <<pc, config, cur, pending>>
             ELSE IF pending[l] # NoMessage
               THEN /\ history' = [history EXCEPT ![l] = {}]
                    /\ Goto(l, "saving")
                    /\ UNCHANGED <<config, cur, pending>>
               ELSE SessionOver(l)

\* Mutant: only a message that has a reply counts as processed.
SavePendingUnlessReplied(l) ==
    /\ At(l, "saving")
    /\ UNCHANGED <<platformVars, adapterVars, todo>>
    /\ NoFault
    /\ \/ /\ Pending(l) \in replies
          /\ UNCHANGED dbVars
          /\ SessionOver(l)
       \/ /\ Pending(l) \notin replies
          /\ Save(Pending(l))
          /\ IF config[l].ai
               THEN Goto(l, "deciding") /\ UNCHANGED <<config, cur, history, pending>>
               ELSE SessionOver(l)

\* The pending message: "skip" if it is known, "stored" if the AI is off.
SavePending(l) ==
    /\ At(l, "saving")
    /\ UNCHANGED <<platformVars, adapterVars, todo>>
    /\ NoFault
    /\ \/ /\ Pending(l) \in saved
          /\ UNCHANGED dbVars
          /\ SessionOver(l)
       \/ /\ Pending(l) \notin saved
          /\ Save(Pending(l))
          /\ IF config[l].ai
               THEN Goto(l, "deciding") /\ UNCHANGED <<config, cur, history, pending>>
               ELSE SessionOver(l)

Matches(m) == page[m[1]][m[2]].kind = "urgent"

\* Mutant: the status of the session is left alone.
EscalateQuietly(l) ==
    /\ At(l, "deciding") /\ Matches(pending[l])
    /\ escalations' = escalations \cup {[record |-> Pending(l), by |-> l, success |-> FALSE]}
    /\ Goto(l, IF config[l].notice THEN "noticing" ELSE "transferring")
    /\ UNCHANGED <<platformVars, saved, replies, status, adapterVars, config, todo, cur, history, pending>>
    /\ NoFault

\* check_escalation says yes: _mark_escalated.
Escalate(l) ==
    /\ At(l, "deciding") /\ Matches(pending[l])
    /\ status' = [status EXCEPT ![cur[l]] = "escalated"]
    /\ escalations' = escalations \cup {[record |-> Pending(l), by |-> l, success |-> FALSE]}
    /\ Goto(l, IF config[l].notice THEN "noticing" ELSE "transferring")
    /\ UNCHANGED <<platformVars, saved, replies, adapterVars, config, todo, cur, history, pending>>
    /\ NoFault

\* Mutant: the reply is sent before its row is written.
ReplyUnrecorded(l) ==
    /\ At(l, "deciding") /\ ~Matches(pending[l])
    /\ status' = [status EXCEPT ![cur[l]] = "ai_processing"]
    /\ Goto(l, "sending")
    /\ UNCHANGED <<platformVars, saved, replies, escalations, adapterVars, config, todo, cur, history, pending>>
    /\ NoFault

\* It says no: the language model is asked, and its answer, or the fallback in
\* its place, comes in the end: _append_ai_reply.
Reply(l) ==
    /\ At(l, "deciding") /\ ~Matches(pending[l])
    /\ replies' = replies \cup {Pending(l)}
    /\ status' = [status EXCEPT ![cur[l]] = "ai_processing"]
    /\ Goto(l, "sending")
    /\ UNCHANGED <<platformVars, saved, escalations, adapterVars, config, todo, cur, history, pending>>
    /\ NoFault

\* A transaction fails, or the time for the whole message is over.
ProcessingFails(l) ==
    /\ pc[l] \in {"storing", "saving", "deciding"}
    /\ Fault
    /\ UNCHANGED <<platformVars, dbVars, adapterVars, todo>>
    /\ SessionOver(l)

-----------------------------------------------------------------------------
(* What is done about the message *)

Send(l) ==
    /\ At(l, "sending")
    /\ GetsOn(l)
    /\ Types(l, "reply")
    /\ UNCHANGED <<listVars, transferred, dbVars, todo>>
    /\ SessionOver(l)

\* False or an exception, before or after the text has gone out; both are logged.
SendFails(l) ==
    /\ At(l, "sending")
    /\ \/ Fault /\ EnsureBreaks(l) /\ UNCHANGED page
       \/ GetsOnAndFails(l) /\ UNCHANGED page
       \/ GetsOnAndFails(l) /\ Types(l, "reply")
    /\ UNCHANGED <<listVars, transferred, dbVars, todo>>
    /\ SessionOver(l)

\* The notice of an escalation; its result is ignored.
SendNotice(l) ==
    /\ At(l, "noticing")
    /\ \/ GetsOn(l) /\ Types(l, "notice")
       \/ GetsOnAndFails(l) /\ UNCHANGED page
    /\ Goto(l, "transferring")
    /\ UNCHANGED <<listVars, transferred, dbVars, config, todo, cur, history, pending>>

\* An exception ends the session, and nothing is transferred.
NoticeFails(l) ==
    /\ At(l, "noticing")
    /\ \/ Fault /\ EnsureBreaks(l) /\ UNCHANGED page
       \/ GetsOnAndFails(l) /\ Types(l, "notice")
    /\ UNCHANGED <<listVars, transferred, dbVars, todo>>
    /\ SessionOver(l)

\* _update_escalation_log: the latest row of the session, which is the one just
\* added unless another loop has added one.
UpdateLog(l, success) ==
    /\ \E e \in escalations :
        /\ \/ e.record = Pending(l)
           \/ e.record.session = cur[l] /\ e.by # l
        /\ escalations' = (escalations \ {e}) \cup {[e EXCEPT !.success = success]}
    /\ UNCHANGED <<saved, replies, status>>

Clicks(l) ==
    transferred' = transferred \cup {[record |-> Pending(l), chat |-> shown'[l]]}

\* Mutant: the log does not wait for the outcome.
TransferLogged(l) ==
    /\ At(l, "transferring")
    /\ IF config[l].target THEN GetsOn(l) ELSE UNCHANGED adapterVars /\ NoFault
    /\ \/ config[l].target /\ Clicks(l)
       \/ UNCHANGED transferred
    /\ UpdateLog(l, TRUE)
    /\ UNCHANGED <<page, listVars, todo>>
    /\ SessionOver(l)

\* trigger_escalation finds the agent or not; without a name it is not called.
Transfer(l) ==
    /\ At(l, "transferring")
    /\ IF config[l].target THEN GetsOn(l) ELSE UNCHANGED adapterVars /\ NoFault
    /\ \/ config[l].target /\ Clicks(l) /\ UpdateLog(l, TRUE)
       \/ UNCHANGED transferred /\ UpdateLog(l, FALSE)
    /\ UNCHANGED <<page, listVars, todo>>
    /\ SessionOver(l)

\* It is broken off, or it says False although the agent has been clicked.
TransferFails(l) ==
    /\ At(l, "transferring") /\ config[l].target
    /\ \/ Fault /\ EnsureBreaks(l) /\ UNCHANGED <<transferred, dbVars>>
       \/ GetsOnAndFails(l) /\ Clicks(l) /\ UNCHANGED dbVars
       \/ GetsOnAndFails(l) /\ Clicks(l) /\ UpdateLog(l, FALSE)
    /\ UNCHANGED <<page, listVars, todo>>
    /\ SessionOver(l)

\* The loop is cancelled, its browser crashes or its process is killed, and it
\* begins anew in a new browser: _shop_loop up to its first poll.
StartAnew(l) ==
    /\ Fault
    /\ Goto(l, "idle")
    /\ todo' = [todo EXCEPT ![l] = {}]
    /\ cur' = [cur EXCEPT ![l] = NoSession]
    /\ current' = [current EXCEPT ![l] = NoSession]
    /\ shown' = [shown EXCEPT ![l] = NoSession]
    /\ history' = [history EXCEPT ![l] = {}]
    /\ pending' = [pending EXCEPT ![l] = NoMessage]
    /\ config' = [config EXCEPT ![l] = NoConfiguration]
    /\ UNCHANGED <<platformVars, dbVars>>

-----------------------------------------------------------------------------
(* Buyers, agents and the API *)

Writes(s, kind) ==
    /\ Len(page[s]) < MaxLength
    /\ page' = [page EXCEPT ![s] = Append(@, [kind |-> kind, about |-> NoRecord])]

BuyerWrites(s) ==
    /\ \E kind \in BuyerKinds : Writes(s, kind)
    /\ listed' = listed \cup {s}
    /\ UNCHANGED <<unwatched, transferred, dbVars, adapterVars, loopVars>>
    /\ NoFault

AgentWrites(s) ==
    /\ page[s] # <<>> /\ Writes(s, "agent")
    /\ UNCHANGED <<listVars, transferred, dbVars, adapterVars, loopVars>>
    /\ NoFault

\* A chat leaves the list of sessions until its buyer writes again.
ChatCloses(s) ==
    /\ s \in listed /\ faults < MaxFaults
    /\ listed' = listed \ {s}
    /\ faults' = faults + 1
    /\ missed' = missed \cup {s}
    /\ UNCHANGED <<page, unwatched, transferred, dbVars, adapterVars, loopVars>>

\* The platform marks a chat as un-watch, or takes the mark away.
Marks(s) ==
    /\ s \in Unwatchable
    /\ unwatched' = IF s \in unwatched THEN unwatched \ {s} ELSE unwatched \cup {s}
    /\ UNCHANGED <<page, listed, transferred, dbVars, adapterVars, loopVars>>
    /\ NoFault

\* takeover_session
Takeover(s) ==
    /\ status[s] # "none"
    /\ status' = [status EXCEPT ![s] = "escalated"]
    /\ UNCHANGED <<platformVars, saved, replies, escalations, adapterVars, loopVars>>
    /\ NoFault

-----------------------------------------------------------------------------

Poll(l) ==
    \/ ListSessions(l) \/ Fetch(l) \/ FetchUnordered(l) \/ FetchFails(l)
    \/ \E s \in Sessions : SwitchTo(l, s) \/ SwitchFails(l, s)

Process(l) ==
    StoreNext(l) \/ SavePending(l) \/ Escalate(l) \/ Reply(l) \/ ProcessingFails(l)

Act(l) ==
    Send(l) \/ SendFails(l) \/ SendNotice(l) \/ NoticeFails(l) \/ Transfer(l) \/ TransferFails(l)

LoopStep(l) == Poll(l) \/ Process(l) \/ Act(l)

Outside(s) ==
    BuyerWrites(s) \/ AgentWrites(s) \/ ChatCloses(s) \/ Marks(s) \/ Takeover(s)

Next ==
    \/ \E l \in Loops : LoopStep(l) \/ Reload(l) \/ StartAnew(l)
    \/ \E s \in Sessions : Outside(s)

Spec == Init /\ [][Next]_vars

\* Every await ends, by a timeout if by nothing else.
FairSpec == Spec /\ \A l \in Loops : WF_vars(LoopStep(l))

-----------------------------------------------------------------------------
(* Properties *)

Places == {"idle", "next", "fetching", "storing", "saving", "deciding", "sending", "noticing",
           "transferring"}

Texts == [kind : BuyerKinds \cup SellerKinds, about : Records \cup {NoRecord}]

PlatformTypes ==
    /\ page \in [Sessions -> Seq(Texts)]
    /\ \A s \in Sessions : \A i \in DOMAIN page[s] :
         page[s][i].kind \in BuyerKinds => i \in 1..MaxLength
    /\ listed \in SUBSET Sessions /\ unwatched \in SUBSET Sessions
    /\ transferred \subseteq [record : Records, chat : Sessions]

DbTypes ==
    /\ saved \subseteq Records /\ replies \subseteq Records
    /\ status \in [Sessions -> {"none", "ai_processing", "escalated"}]
    /\ escalations \subseteq [record : Records, by : Loops, success : BOOLEAN]

AdapterTypes ==
    /\ current \in [Loops -> Sessions \cup {NoSession}]
    /\ shown \in [Loops -> Sessions \cup {NoSession}]

LoopTypes ==
    /\ pc \in [Loops -> Places]
    /\ config \in [Loops -> Configurations \cup {NoConfiguration}]
    /\ todo \in [Loops -> SUBSET Sessions]
    /\ cur \in [Loops -> Sessions \cup {NoSession}]
    /\ history \in [Loops -> SUBSET Messages]
    /\ pending \in [Loops -> Messages \cup {NoMessage}]

BookTypes == faults \in 0..MaxFaults /\ missed \in SUBSET Sessions

TypeOK == PlatformTypes /\ DbTypes /\ AdapterTypes /\ LoopTypes /\ BookTypes

\* The texts in the chats that the pipeline has typed, each with its place.
Delivered ==
    UNION {{[record |-> page[s][i].about, chat |-> s, place |-> i] :
              i \in {j \in DOMAIN page[s] : page[s][j].kind \in {"reply", "notice"}}} : s \in Sessions}

Escalated == {e.record : e \in escalations}

Ledger == INSTANCE MessageLedger WITH
    recorded <- saved, replied <- replies,
    escalated <- Escalated, delivered <- Delivered

\* Whatever fails, and however many loops work on the shop, each record of a
\* buyer's message is decided at most once, after it was written, and gets one
\* text at most, after its decision was recorded: dedup keys, the order of the
\* transactions and the results of process_buyer_message see to it.  A message
\* that was filed under two sessions has two records, and a decision for each.
ImplementsLedger == Ledger!Spec

\* Where a loop knows its session, its page shows a chat, and it has a message.
PlacesInv ==
    \A l \in Loops :
        /\ pc[l] \notin {"idle", "next"} => cur[l] \in Sessions
        /\ pc[l] \notin {"idle", "next", "fetching"} => shown[l] \in Sessions
        /\ pc[l] \notin {"idle", "next", "fetching", "storing"} => pending[l] \in Messages

Decided == replies \cup Escalated

Handling == {"deciding", "sending", "noticing"}

DecisionsInv ==
    /\ Decided \subseteq saved
    /\ replies \cap Escalated = {}
    /\ \A l \in Loops : At(l, "deciding") => Pending(l) \in saved \ Decided
    /\ \A l \in Loops : At(l, "sending") => Pending(l) \in replies
    /\ \A l \in Loops : At(l, "noticing") => Pending(l) \in Escalated

DeliveriesInv ==
    /\ \A d \in Delivered : d.record \in Decided
    /\ \A l \in Loops : pc[l] \in {"sending", "noticing"} =>
         \A d \in Delivered : d.record # Pending(l)

OneHandlerInv ==
    \A l, k \in Loops :
        l # k /\ pc[l] \in Handling /\ pc[k] \in Handling => Pending(l) # Pending(k)

\* A message is in the hands of one loop at most from its dedup key to its
\* text, is recorded before it is decided and decided before it has a text, and
\* what a loop is about to decide or to send has not been decided or sent by
\* any other.  It is the inductive invariant behind ImplementsLedger.
LedgerInv == PlacesInv /\ DecisionsInv /\ DeliveriesInv /\ OneHandlerInv

\* What is written for a session comes from its chat and goes into its chat,
\* though clicks are broken off, sessions abandoned, pages reloaded and chats
\* read anew.  Only when switch_to_session returns without the chat, because it
\* has left the list, or by mistake, does the loop go on in another one.
RightChat ==
    /\ \A r \in saved : r.session \notin missed => r.message[1] = r.session
    /\ \A d \in Delivered : d.record.session \notin missed => d.chat = d.record.session

\* An escalation that the log calls a success has been transferred, in its own
\* chat unless that one was missed.  With one loop the row is the one of the
\* message that was transferred.
LogTellsTheTruth ==
    \A e \in escalations : e.success /\ e.record.session \notin missed =>
        [record |-> e.record, chat |-> e.record.session] \in transferred

\* A session with an escalation is shown as processed by the AI only if the AI
\* has answered a later message of it.  What was read of a chat that was missed
\* may be of another one, where what is later means nothing.
EscalationShows ==
    \A e \in escalations :
        LET s == e.record.session
        IN  s \notin missed /\ status[s] = "ai_processing" =>
              \E r \in replies : r.session = s /\ r.message[2] > e.record.message[2]

IsBuyers(s, i) == i \in DOMAIN page[s] /\ page[s][i].kind \in BuyerKinds

\* A message is recorded if its chat is opened again and again.
OpenedChatsAreRecorded ==
    \A s \in Sessions :
        []<>(\E l \in Loops : At(l, "fetching") /\ cur[l] = s) =>
            \A i \in 1..MaxLength : IsBuyers(s, i) ~>
                [session |-> s, message |-> <<s, i>>] \in saved

\* A text of the seller follows the message, or it or a later one is escalated.
Attended(s, i) ==
    \/ \E j \in DOMAIN page[s] : j > i /\ page[s][j].kind \in SellerKinds
    \/ \E e \in escalations : e.record.session = s /\ e.record.message[2] >= i

\* If the AI is on in every cycle and nothing fails, the ordered reading of the
\* page included, no buyer whose chat is never marked as un-watch is left without
\* any sign of the seller after the message.
BuyersGetAttention ==
    [](faults = 0 /\ \A l \in Loops : At(l, "idle") \/ config[l].ai) =>
        \A s \in Sessions : [](s \notin unwatched) =>
            \A i \in 1..MaxLength : IsBuyers(s, i) ~> Attended(s, i)
=============================================================================
