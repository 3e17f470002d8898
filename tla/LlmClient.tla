----------------------------- MODULE LlmClient -----------------------------
(***************************************************************************)
(* backend/ai/llm_client.py: a chat, its requests and retries, under the   *)
(* two deadlines of its callers.  Time is counted in units; an await takes *)
(* no time or all that its timeout allows.                                 *)
(*                                                                         *)
(* A deadline cancels the chat where it waits.  The client of a request is *)
(* then closed all the same, and an exception of that takes the place of   *)
(* the cancellation: it is caught like any failure of a request, and the   *)
(* chat goes on, under the next deadline.                                  *)
(***************************************************************************)
EXTENDS Integers

CONSTANTS
    RequestLimit,   \* LLM_REQUEST_TIMEOUT_SECONDS, of httpx
    Buffer,         \* DEFAULT_WAIT_TIMEOUT_BUFFER_SECONDS, of wait_for around it
    CloseLimit,     \* the timeout of aclose
    BackoffLimit,   \* the longest pause between two requests
    MaxRetries,     \* LLM_MAX_RETRIES
    ChatLimit,      \* MESSAGE_PROCESSOR_LLM_TIMEOUT_SECONDS
    ProcessLimit    \* SHOP_MESSAGE_PROCESS_TIMEOUT_SECONDS

ASSUME LlmAssumption ==
    /\ {RequestLimit, Buffer, CloseLimit, BackoffLimit} \subseteq Nat
    /\ MaxRetries \in Nat \ {0}
    /\ ChatLimit \in Nat /\ ProcessLimit \in Nat
    /\ ChatLimit < ProcessLimit

VARIABLES
    chat,       \* "idle", "request", "closing", "pausing", then "replied",
                \* with the content or the fallback, or "abandoned"
    attempt,    \* the request, counted from 0
    result,     \* of the request: "content", "nothing" to retry for, "failed",
                \* or "cancelled"
    clock,      \* the time spent
    expired,    \* the deadlines that have passed
    trouble     \* history: the closing of a client took its time or raised

llm == <<chat, attempt, result, clock, expired, trouble>>

-----------------------------------------------------------------------------
LlmInit ==
    /\ chat = "idle"
    /\ attempt = 0
    /\ result = "failed"
    /\ clock = 0
    /\ expired = 0
    /\ trouble = FALSE

Deadline == IF expired = 0 THEN ChatLimit ELSE ProcessLimit

\* The deadline comes before the time is over.
TooLate(d) == expired < 2 /\ clock + d > Deadline

Tick(d) ==
    /\ clock' = IF TooLate(d) THEN Deadline
                ELSE IF clock + d <= ProcessLimit THEN clock + d ELSE ProcessLimit
    /\ expired' = IF TooLate(d) THEN expired + 1 ELSE expired

Ask ==
    /\ chat = "idle"
    /\ chat' = "request"
    /\ UNCHANGED <<attempt, result, clock, expired, trouble>>

\* The post, its status and its content.
Respond ==
    /\ chat = "request"
    /\ chat' = "closing"
    /\ \E d \in {0, RequestLimit, RequestLimit + Buffer} :
         /\ Tick(d)
         /\ IF TooLate(d)
              THEN result' = "cancelled"
              ELSE result' \in IF d > RequestLimit THEN {"failed"}
                                                   ELSE {"content", "nothing", "failed"}
    /\ UNCHANGED <<attempt, trouble>>

\* Mutant: no except clause in process_buyer_message.
CancelledUncaught == chat' = IF expired' = 0 THEN "replied" ELSE "abandoned"

\* process_buyer_message replies with the fallback when its own deadline has
\* passed; the deadline of its caller ends it as well.
Cancelled == chat' = IF expired' = 1 THEN "replied" ELSE "abandoned"

\* The next request, or the fallback after the last one.
Retry ==
    IF attempt + 1 < MaxRetries
      THEN chat' = "pausing" /\ attempt' = attempt + 1
      ELSE chat' = "replied" /\ UNCHANGED attempt

CloseClient ==
    /\ chat = "closing"
    /\ \E d \in {0, CloseLimit}, raised \in BOOLEAN :
         /\ d = CloseLimit => raised
         /\ Tick(d)
         /\ trouble' = (trouble \/ raised)
         /\ CASE TooLate(d)                        -> Cancelled /\ UNCHANGED attempt
              [] ~TooLate(d) /\ raised             -> Retry
              [] ~raised /\ result = "failed"      -> Retry
              [] ~raised /\ result = "cancelled"   -> Cancelled /\ UNCHANGED attempt
              [] ~raised /\ result \in {"content", "nothing"} ->
                   chat' = "replied" /\ UNCHANGED attempt
    /\ UNCHANGED result

Pause ==
    /\ chat = "pausing"
    /\ \E d \in {0, BackoffLimit} :
         /\ Tick(d)
         /\ IF TooLate(d) THEN Cancelled ELSE chat' = "request"
    /\ UNCHANGED <<attempt, result, trouble>>

\* The message is dealt with, answered or not.
Done ==
    /\ chat \in {"replied", "abandoned"}
    /\ chat' = "idle"
    /\ attempt' = 0
    /\ result' = "failed"
    /\ clock' = 0
    /\ expired' = 0
    /\ trouble' = FALSE

ChatStep == Respond \/ CloseClient \/ Pause

-----------------------------------------------------------------------------
\* However often and long the model hangs, the buyer gets an answer, its own or
\* the fallback, before process_buyer_message is cut off; only the closing of a
\* client can take that away.
AnswerSurvivesHangs == chat = "abandoned" => trouble
=============================================================================
