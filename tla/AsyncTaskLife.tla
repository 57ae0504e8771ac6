--------------------------- MODULE AsyncTaskLife ---------------------------
(***************************************************************************)
(* What docs/ASYNC_TASK_SYSTEM.md promises of a background task: one life  *)
(* from submission to one final status, a start only after the tasks it    *)
(* needs have completed, and never more than MaxConcurrent running.  A     *)
(* cancellation shows at once; what it stops ends later.  AsyncTask, the   *)
(* manager's code, is checked and proved to implement it.                  *)
(***************************************************************************)
EXTENDS Naturals, FiniteSets

CONSTANTS
    Tasks, MaxConcurrent,
    CancelMayBeSwallowed    \* may a task end as if it had not been cancelled?

VARIABLES
    life,   \* the status of each task
    needs,  \* the tasks it was submitted to depend on
    body    \* its program: "absent", "waiting", "running" or "over"

Terminal  == {"completed", "failed", "timeout", "cancelled"}
Submitted == {t \in Tasks : life[t] # "absent"}
Running   == {t \in Tasks : body[t] = "running"}

Init == /\ life = [t \in Tasks |-> "absent"]
        /\ needs = [t \in Tasks |-> {}]
        /\ body = [t \in Tasks |-> "absent"]

Submit(t) ==
    /\ life[t] = "absent"
    /\ life' = [life EXCEPT ![t] = "pending"]
    /\ body' = [body EXCEPT ![t] = "waiting"]
    /\ \E D \in SUBSET Submitted : needs' = [needs EXCEPT ![t] = D]

(* A cancelled task does not begin. *)
Begin(t) ==
    /\ life[t] = "pending" /\ body[t] = "waiting"
    /\ \A d \in needs[t] : life[d] = "completed"
    /\ Cardinality(Running) < MaxConcurrent
    /\ life' = [life EXCEPT ![t] = "running"]
    /\ body' = [body EXCEPT ![t] = "running"]
    /\ UNCHANGED needs

Cancel(t) ==
    /\ life[t] \in {"pending", "running"}
    /\ life' = [life EXCEPT ![t] = "cancelled"]
    /\ UNCHANGED <<needs, body>>

(* A task that never ran cannot complete, and a cancelled one stays cancelled. *)
Outcomes(t) ==
    IF life[t] = "cancelled" /\ ~CancelMayBeSwallowed THEN {"cancelled"}
    ELSE IF body[t] = "waiting" THEN Terminal \ {"completed"}
    ELSE Terminal

Finish(t) ==
    /\ body[t] \in {"waiting", "running"}
    /\ \E s \in Outcomes(t) : life' = [life EXCEPT ![t] = s]
    /\ body' = [body EXCEPT ![t] = "over"]
    /\ UNCHANGED needs

Next == \E t \in Tasks : Submit(t) \/ Begin(t) \/ Cancel(t) \/ Finish(t)

Spec == Init /\ [][Next]_<<life, needs, body>>
=============================================================================
