------------------------------ MODULE Notifier ------------------------------
(***************************************************************************)
(* backend/services/notifier.py: the webhook notifications that the loop   *)
(* of a shop sends, at most one of a kind (event_key) within a window.     *)
(* The webhook is configured.  Time is counted in units; a step that       *)
(* awaits takes no time or all that its timeout leaves it.                 *)
(***************************************************************************)
EXTENDS Integers

CONSTANTS
    Keys,       \* the event keys of the shop
    Window,     \* DEFAULT_NOTIFICATION_RATE_LIMIT_SECONDS
    PostLimit   \* DEFAULT_NOTIFICATION_TIMEOUT_SECONDS and 5 s more

ASSUME NotifierAssumption == PostLimit \in Nat \ {0} /\ Window \in Nat \ {0}

VARIABLES
    notes,      \* the reservations: the age of each, or Window if there is none;
                \* and, for the history, its fate, what became of the
                \* notification: "posting", "sent", "failed" or "cut off"
    post,       \* "idle", "posting", or "closing" the client
    key         \* of the notification being sent

notifier == <<notes, post, key>>

-----------------------------------------------------------------------------
Free == [age |-> Window, fate |-> "none"]

NotifierInit ==
    /\ notes = [k \in Keys |-> Free]
    /\ post = "idle"
    /\ key = "none"

\* Some time has passed.
Older(d) ==
    [k \in Keys |-> IF notes[k].age + d < Window THEN [notes[k] EXCEPT !.age = @ + d] ELSE Free]

Pass(d) == notes' = Older(d) /\ UNCHANGED <<post, key>>

Suppressed(k) == notes[k].age < Window

\* _reserve_event, for a notification that is not suppressed; then it is posted.
Reserve(k) ==
    /\ ~Suppressed(k)
    /\ notes' = [notes EXCEPT ![k] = [age |-> 0, fate |-> "posting"]]
    /\ key' = k
    /\ post' = "posting"

\* Mutant: a failure keeps the reservation.
PostedKept(d, sent) ==
    /\ post = "posting"
    /\ post' = "closing"
    /\ notes' = [Older(d) EXCEPT ![key].fate = IF sent THEN "sent" ELSE "failed"]
    /\ UNCHANGED key

\* The answer of the webhook; after an error or a timeout _release_event takes
\* the reservation back.
Posted(d, sent) ==
    /\ post = "posting"
    /\ post' = "closing"
    /\ notes' = [Older(d) EXCEPT ![key] = IF sent THEN [@ EXCEPT !.fate = "sent"] ELSE Free]
    /\ UNCHANGED key

\* The client is closed.
PostOver(d) ==
    /\ post = "closing"
    /\ post' = "idle"
    /\ key' = "none"
    /\ notes' = Older(d)

\* The caller is cut off meanwhile: the cancellation is no Exception, and the
\* reservation of a notification that may not have been sent stays.
PostCutOff(d) ==
    /\ post # "idle"
    /\ post' = "idle"
    /\ key' = "none"
    /\ notes' = IF post = "posting" THEN [Older(d) EXCEPT ![key].fate = "cut off"] ELSE Older(d)

-----------------------------------------------------------------------------
\* A notification is suppressed only for one of its kind that was sent within
\* the window, is being sent, or was cut off: a failure never silences the next.
SilenceIsExplained == \A k \in Keys : Suppressed(k) => notes[k].fate # "failed"
=============================================================================
