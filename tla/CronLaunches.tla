---------------------------- MODULE CronLaunches ----------------------------
(***************************************************************************)
(* What the cron service promises of the launches of a job, with no table, *)
(* coroutine or lock: while the service is up each launch is executed      *)
(* once, or passed over when its job is gone; executions of a job follow   *)
(* one another; a dated trigger launches its job once; jobs outlive the    *)
(* service, and nothing else does.  Cron is checked and proved to          *)
(* implement it.                                                           *)
(***************************************************************************)
EXTENDS Naturals

CONSTANT Jobs

VARIABLES
    up,     \* is the service up?
    jobs,   \* the jobs there are
    dated,  \* those that run at one time
    armed,  \* those whose trigger will launch them
    owed,   \* launches that have not begun to execute, by job
    busy    \* jobs that are executed

Init ==
    /\ up = TRUE /\ jobs = {} /\ dated = {} /\ armed = {}
    /\ owed = [j \in Jobs |-> 0] /\ busy = {}

(* A job is created or edited, which sets its trigger anew. *)
Edit(j) ==
    /\ up /\ jobs' = jobs \cup {j}
    /\ dated' \in {dated \cup {j}, dated \ {j}}
    /\ armed' \in {armed \cup {j}, armed \ {j}}
    /\ UNCHANGED <<up, owed, busy>>

(* Executions go on when their job is deleted. *)
Delete(j) ==
    /\ up /\ j \in jobs
    /\ jobs' = jobs \ {j} /\ armed' = armed \ {j}
    /\ UNCHANGED <<up, dated, owed, busy>>

Ask(j) ==
    /\ up /\ j \in jobs
    /\ owed' = [owed EXCEPT ![j] = @ + 1]
    /\ UNCHANGED <<up, jobs, dated, armed, busy>>

Trigger(j) ==
    /\ up /\ j \in armed
    /\ owed' = [owed EXCEPT ![j] = @ + 1]
    /\ armed' = armed \ (dated \cap {j})
    /\ UNCHANGED <<up, jobs, dated, busy>>

(* A date that is missed is over. *)
Miss(j) ==
    /\ up /\ j \in armed \cap dated
    /\ armed' = armed \ {j}
    /\ UNCHANGED <<up, jobs, dated, owed, busy>>

Begin(j) ==
    /\ up /\ owed[j] > 0 /\ j \notin busy
    /\ owed' = [owed EXCEPT ![j] = @ - 1] /\ busy' = busy \cup {j}
    /\ UNCHANGED <<up, jobs, dated, armed>>

PassOver(j) ==
    /\ up /\ owed[j] > 0 /\ j \notin jobs
    /\ owed' = [owed EXCEPT ![j] = @ - 1]
    /\ UNCHANGED <<up, jobs, dated, armed, busy>>

(* A job may be there for one execution only. *)
End(j) ==
    /\ up /\ j \in busy
    /\ busy' = busy \ {j}
    /\ \/ UNCHANGED <<jobs, armed>>
       \/ jobs' = jobs \ {j} /\ armed' = armed \ {j}
    /\ UNCHANGED <<up, dated, owed>>

Stop ==
    /\ up /\ up' = FALSE
    /\ armed' = {} /\ owed' = [j \in Jobs |-> 0] /\ busy' = {}
    /\ UNCHANGED <<jobs, dated>>

Restart ==
    /\ ~up /\ up' = TRUE
    /\ armed' \in SUBSET jobs
    /\ UNCHANGED <<jobs, dated, owed, busy>>

Next ==
    \/ \E j \in Jobs : \/ Edit(j) \/ Delete(j) \/ Ask(j) \/ Trigger(j) \/ Miss(j)
                       \/ Begin(j) \/ PassOver(j) \/ End(j)
    \/ Stop \/ Restart

Spec == Init /\ [][Next]_<<up, jobs, dated, armed, owed, busy>>
=============================================================================
