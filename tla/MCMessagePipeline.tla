------------------------- MODULE MCMessagePipeline -------------------------
(***************************************************************************)
(* MessagePipeline for TLC: configurations, symmetry and the claim that    *)
(* the code does not keep.                                                 *)
(***************************************************************************)
EXTENDS MessagePipeline, TLC

\* The AI may be off; escalations have a notice and a target.
OnOrOff == [ai : BOOLEAN, notice : {TRUE}, target : {TRUE}]

\* The AI is on; escalations have a notice and no target.
AlwaysOn == {[ai |-> TRUE, notice |-> TRUE, target |-> FALSE]}

SessionSymmetry == Permutations(Sessions)

\* The reason that _process_session logs when it leaves a message unanswered,
\* "Skip auto reply for %s because human replied after the latest buyer
\* message", is true: somebody other than the pipeline has written after it.
\* Messages that have been dealt with before do not matter.
SkipsFollowAgents ==
    [][\A l \in Loops : \A m \in history'[l] :
        LET texts == page[m[1]]
        IN  /\ At(l, "fetching") /\ pending'[l] = NoMessage
            /\ [session |-> cur[l], message |-> m] \notin saved
            /\ \A n \in history'[l] : n[2] <= m[2]
            => \E i \in DOMAIN texts : i > m[2] /\ texts[i].kind = "agent"]_vars
=============================================================================
