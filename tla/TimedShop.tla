----------------------------- MODULE TimedShop -----------------------------
(***************************************************************************)
(* The loop of a shop through its timed calls: it logs in, and while it    *)
(* polls it has the language model answer the messages of buyers.  The     *)
(* chat counts its own time; for the notifications it is a part of the     *)
(* time that passes while the loop polls.                                  *)
(***************************************************************************)
EXTENDS ShopLogin, LlmClient

vars == <<login, notifier, llm>>

Init == NotifierInit /\ LoginInit /\ LlmInit

\* The loop waits for the answer.
Answering == chat # "idle"

LoginPart == ~Answering /\ LoginNext /\ UNCHANGED llm

MessagePart ==
    /\ at = "polling"
    /\ Ask \/ ChatStep \/ Done
    /\ UNCHANGED <<login, notifier>>

Next == LoginPart \/ MessagePart

Spec == Init /\ [][Next]_vars
=============================================================================
