------------------------------ MODULE Question ------------------------------
(***************************************************************************)
(* What the agent is promised for a question it asks with send_and_wait:   *)
(* one end, which never changes: the first answer that arrives in time, or *)
(* the end of its patience.                                                *)
(* InteractionDialog, the gateway with its web client, implements it.      *)
(***************************************************************************)
CONSTANT Requests

VARIABLE fate  \* what became of each question

Init == fate = [r \in Requests |-> "new"]

Becomes(r, f) == fate' = [fate EXCEPT ![r] = f]

Ask(r)    == fate[r] = "new" /\ Becomes(r, "waiting")
Answer(r) == fate[r] = "waiting" /\ Becomes(r, "answered")
Expire(r) == fate[r] = "waiting" /\ Becomes(r, "expired")

Next == \E r \in Requests : Ask(r) \/ Answer(r) \/ Expire(r)

Spec == Init /\ [][Next]_fate
=============================================================================
