--------------------------- MODULE MessageLedger ---------------------------
(***************************************************************************)
(* What the message pipeline promises for each record, that is, for each   *)
(* row of a buyer's message: it is recorded first, then decided once, for  *)
(* a reply or for an escalation, and the buyer gets one text about it at   *)
(* most.  How many loops work, what fails and what is started anew does    *)
(* not matter.  MessagePipeline implements this specification.             *)
(***************************************************************************)
CONSTANT Records

VARIABLES
    recorded,   \* the records that exist
    replied,    \* those for which a reply has been recorded
    escalated,  \* those that have been escalated
    delivered   \* the texts in the chats, each with the record it is about

ledgerVars == <<recorded, replied, escalated, delivered>>

Init == recorded = {} /\ replied = {} /\ escalated = {} /\ delivered = {}

Undecided(r) == r \in recorded \ (replied \cup escalated)

Record(r) ==
    /\ r \notin recorded
    /\ recorded' = recorded \cup {r}
    /\ UNCHANGED <<replied, escalated, delivered>>

Reply(r) ==
    /\ Undecided(r)
    /\ replied' = replied \cup {r}
    /\ UNCHANGED <<recorded, escalated, delivered>>

Escalate(r) ==
    /\ Undecided(r)
    /\ escalated' = escalated \cup {r}
    /\ UNCHANGED <<recorded, replied, delivered>>

Deliver(r) ==
    /\ r \in replied \cup escalated
    /\ \A d \in delivered : d.record # r
    /\ \E d \in delivered' : d.record = r /\ delivered' = delivered \cup {d}
    /\ UNCHANGED <<recorded, replied, escalated>>

Next == \E r \in Records : Record(r) \/ Reply(r) \/ Escalate(r) \/ Deliver(r)

Spec == Init /\ [][Next]_ledgerVars
=============================================================================
