-------------------------------- MODULE Cron --------------------------------
(***************************************************************************)
(* The cron service (derisk_serve/cron): jobs in a database, an APScheduler *)
(* in memory, and their executions on one event loop, through edits, manual *)
(* runs, crashes and restarts.                                              *)
(*                                                                         *)
(* A step is what runs between two awaits.  Database sessions are           *)
(* synchronous, so every request handler is one step; an execution yields   *)
(* at the lock of its job and while it starts the agent's turn.             *)
(***************************************************************************)
EXTENDS Naturals, Sequences, FiniteSets

CONSTANTS
    Jobs,            \* job ids
    Runs,            \* bound: executions under way at a time
    MaxInstances,    \* ServeConfig.max_instances
    MaxCrashes       \* bound: crashes of the process

ASSUME ConstantsAssumption ==
    /\ IsFiniteSet(Jobs) /\ IsFiniteSet(Runs)
    /\ MaxInstances \in Nat \ {0} /\ MaxCrashes \in Nat

VARIABLES
    rows, enabled, once, oneShot, running,
              \* the job table: the rows, and those with enabled, delete_after_run,
              \* schedule_kind = at, and running_at_ms set
    clock,    \* the time of an `at` schedule: ahead, due (within the grace), past
    sched,    \* the jobs APScheduler holds
    up, crashes,
    stage, job, timed, deletes, line
              \* executions: stage, job, submitted by the scheduler, snapshot of
              \* delete_after_run; the order in which they wait for a job's lock

table == <<rows, enabled, once, oneShot, running, clock>>
execs == <<stage, job, timed, deletes, line>>
vars  == <<table, sched, up, crashes, execs>>

Idle       == {r \in Runs : stage[r] = "idle"}
Holder(j)  == {r \in Runs : stage[r] = "executing" /\ job[r] = j}
Instances(j) == {r \in timed : stage[r] # "idle" /\ job[r] = j}

(* A column of a row, or of an execution, set to b. *)
Put(S, x, b) == IF b THEN S \cup {x} ELSE S \ {x}

Init ==
    /\ rows = {} /\ enabled = {} /\ once = {} /\ oneShot = {} /\ running = {}
    /\ clock = [j \in Jobs |-> "ahead"]
    /\ sched = {} /\ up = TRUE /\ crashes = 0
    /\ stage = [r \in Runs |-> "idle"] /\ job \in [Runs -> Jobs]
    /\ timed = {} /\ deletes = {} /\ line = [j \in Jobs |-> <<>>]

-----------------------------------------------------------------------------
(* Requests *)

(* add_job: saves the row and schedules it, enabled or not. *)
Add(j) ==
    /\ up /\ j \notin rows
    /\ \E e, o, a \in BOOLEAN, w \in {"ahead", "due", "past"} :
        /\ rows' = rows \cup {j}
        /\ enabled' = Put(enabled, j, e) /\ once' = Put(once, j, o)
        /\ oneShot' = Put(oneShot, j, a) /\ clock' = [clock EXCEPT ![j] = w]
    /\ sched' = sched \cup {j}
    /\ UNCHANGED <<running, up, crashes, execs>>

(* update_job: saves the row, unschedules it, and schedules it when enabled. *)
Update(j) ==
    /\ up /\ j \in rows
    /\ \E e, o \in BOOLEAN :
        /\ enabled' = Put(enabled, j, e) /\ once' = Put(once, j, o)
        /\ sched' = Put(sched, j, e)
    /\ \/ UNCHANGED <<oneShot, clock>>
       \/ \E a \in BOOLEAN, w \in {"ahead", "due", "past"} :
            /\ oneShot' = Put(oneShot, j, a) /\ clock' = [clock EXCEPT ![j] = w]
    /\ UNCHANGED <<rows, running, up, crashes, execs>>

(* remove_job: off the scheduler, out of the table. *)
Drop(j) ==
    /\ sched' = sched \ {j}
    /\ rows' = rows \ {j} /\ enabled' = enabled \ {j} /\ once' = once \ {j}
    /\ running' = running \ {j}

Remove(j) ==
    /\ up /\ j \in rows
    /\ Drop(j)
    /\ UNCHANGED <<oneShot, clock, up, crashes, execs>>

Launch(r, j) ==
    /\ stage' = [stage EXCEPT ![r] = "fired"]
    /\ job' = [job EXCEPT ![r] = j]
    /\ UNCHANGED <<deletes, line>>

(* run_job, with force or of an enabled job. *)
Manual(r, j) ==
    /\ up /\ j \in rows /\ r \in Idle
    /\ Launch(r, j) /\ timed' = timed \ {r}
    /\ UNCHANGED <<table, sched, up, crashes>>

-----------------------------------------------------------------------------
(* APScheduler *)

Due(j)    == up /\ j \in sched /\ (j \in oneShot => clock[j] # "ahead")
Missed(j) == \/ j \in oneShot /\ clock[j] = "past"
             \/ Cardinality(Instances(j)) >= MaxInstances

(* A date trigger is spent when it fires. *)
Fire(r, j) ==
    /\ Due(j) /\ ~Missed(j) /\ r \in Idle
    /\ Launch(r, j) /\ timed' = timed \cup {r}
    /\ sched' = sched \ (oneShot \cap {j})
    /\ UNCHANGED <<table, up, crashes>>

(* Too late, or an earlier instance still runs: a date trigger is spent too. *)
Misfire(j) ==
    /\ Due(j) /\ Missed(j) /\ j \in oneShot
    /\ sched' = sched \ {j}
    /\ UNCHANGED <<table, up, crashes, execs>>

Tick(j) ==
    /\ j \in rows \cap oneShot /\ clock[j] # "past"
    /\ clock' = [clock EXCEPT ![j] = IF @ = "ahead" THEN "due" ELSE "past"]
    /\ UNCHANGED <<rows, enabled, once, oneShot, running, sched, up, crashes, execs>>

-----------------------------------------------------------------------------
(* _execute_job_safe *)

Execute(r, j) ==
    /\ stage' = [stage EXCEPT ![r] = "executing"]
    /\ running' = running \cup (rows \cap {j})

End(r) == stage' = [stage EXCEPT ![r] = "idle"]

(* Bug: the lock is not waited for. *)
BeginUnlocked(r) ==
    /\ stage[r] = "fired"
    /\ IF job[r] \in rows THEN Execute(r, job[r]) ELSE End(r) /\ UNCHANGED running
    /\ UNCHANGED <<deletes, line, job, timed, rows, enabled, once, oneShot, clock,
                   sched, up, crashes>>

(* The job is read; then its lock is taken, at once or in order of arrival. *)
Begin(r) == LET j == job[r] IN
    /\ stage[r] = "fired"
    /\ \/ /\ j \notin rows
          /\ End(r)
          /\ UNCHANGED <<running, deletes, line>>
       \/ /\ j \in rows
          /\ deletes' = Put(deletes, r, j \in once)
          /\ IF Holder(j) = {} /\ line[j] = <<>>
             THEN Execute(r, j) /\ UNCHANGED line
             ELSE /\ stage' = [stage EXCEPT ![r] = "waiting"]
                  /\ line' = [line EXCEPT ![j] = Append(@, r)]
                  /\ UNCHANGED running
    /\ UNCHANGED <<job, timed, rows, enabled, once, oneShot, clock, sched, up, crashes>>

(* Bug: a release wakes no waiter. *)
AcquireNever(r) == FALSE

Acquire(r) == LET j == job[r] IN
    /\ stage[r] = "waiting" /\ Holder(j) = {} /\ line[j] # <<>> /\ Head(line[j]) = r
    /\ Execute(r, j)
    /\ line' = [line EXCEPT ![j] = Tail(@)]
    /\ UNCHANGED <<job, timed, deletes, rows, enabled, once, oneShot, clock, sched, up,
                   crashes>>

(* The turn has started, and goes on in the background; a delete_after_run job is
   removed. *)
Succeed(r) == LET j == job[r] IN
    /\ stage[r] = "executing"
    /\ IF r \in deletes
       THEN Drop(j)
       ELSE running' = running \ {j} /\ UNCHANGED <<rows, enabled, once, sched>>
    /\ End(r)
    /\ UNCHANGED <<job, timed, deletes, line, oneShot, clock, up, crashes>>

(* Bug: the error path leaves running_at_ms set. *)
FailLeavesRunning(r) ==
    /\ stage[r] = "executing"
    /\ End(r)
    /\ UNCHANGED <<table, job, timed, deletes, line, sched, up, crashes>>

Fail(r) ==
    /\ stage[r] = "executing"
    /\ running' = running \ {job[r]}
    /\ End(r)
    /\ UNCHANGED <<rows, enabled, once, oneShot, clock, job, timed, deletes, line, sched,
                   up, crashes>>

-----------------------------------------------------------------------------
(* Crash and restart *)

(* The memory of the process is gone: stop() and an exit, or a crash. *)
Lost ==
    /\ up /\ crashes < MaxCrashes
    /\ up' = FALSE /\ crashes' = crashes + 1 /\ sched' = {}
    /\ stage' = [r \in Runs |-> "idle"] /\ line' = [j \in Jobs |-> <<>>]
    /\ UNCHANGED <<rows, enabled, once, oneShot, clock, job, timed, deletes>>

Crash == Lost /\ UNCHANGED running

(* Between the commit of the result and the removal of the job. *)
CrashBeforeDelete(r) ==
    /\ stage[r] = "executing" /\ r \in deletes
    /\ Lost /\ running' = running \ {job[r]}

(* Bug: the jobs of the table are not recovered. *)
StartEmpty ==
    /\ ~up /\ up' = TRUE
    /\ UNCHANGED <<table, sched, crashes, execs>>

(* start, _recover_jobs. *)
Start ==
    /\ ~up /\ up' = TRUE
    /\ sched' = enabled
    /\ UNCHANGED <<table, crashes, execs>>

-----------------------------------------------------------------------------

Request(j) == Add(j) \/ Update(j) \/ Remove(j) \/ \E r \in Runs : Manual(r, j)
Scheduler(j) == Misfire(j) \/ \E r \in Runs : Fire(r, j)
AgentAnswers(r) == Succeed(r) \/ Fail(r)

Next == \/ \E j \in Jobs : Request(j) \/ Scheduler(j) \/ Tick(j)
        \/ \E r \in Runs : Begin(r) \/ Acquire(r) \/ AgentAnswers(r) \/ CrashBeforeDelete(r)
        \/ Crash \/ Start

Spec == Init /\ [][Next]_vars

(* The event loop runs what is ready, the process is restarted, triggers come due
   again and again (strongly: Runs bounds the executions, the code does not). *)
Fairness ==
    /\ \A r \in Runs : WF_vars(Begin(r)) /\ WF_vars(Acquire(r))
    /\ WF_vars(Start)
    /\ \A j \in Jobs : SF_vars(Scheduler(j))

(* And the call that starts an agent's turn returns, which no timeout enforces. *)
LiveSpec == Spec /\ Fairness /\ \A r \in Runs : WF_vars(AgentAnswers(r))

-----------------------------------------------------------------------------
(* Properties *)

(* Type invariant; the flags are columns of the rows, and memory is empty while
   the process is down. *)
TypeOK ==
    /\ rows \subseteq Jobs /\ enabled \subseteq rows /\ once \subseteq rows
    /\ oneShot \subseteq Jobs /\ running \subseteq rows /\ sched \subseteq rows
    /\ clock \in [Jobs -> {"ahead", "due", "past"}]
    /\ up \in BOOLEAN /\ crashes \in 0..MaxCrashes
    /\ stage \in [Runs -> {"idle", "fired", "waiting", "executing"}]
    /\ job \in [Runs -> Jobs] /\ timed \subseteq Runs /\ deletes \subseteq Runs
    /\ line \in [Jobs -> Seq(Runs)]
    /\ up \/ (sched = {} /\ Idle = Runs)

(* An execution waits for the lock exactly when it stands once in its job's line. *)
InLine(r) == \E i \in DOMAIN line[job[r]] : line[job[r]][i] = r
WaitersInLine ==
    /\ \A r \in Runs : stage[r] = "waiting" <=> InLine(r)
    /\ \A j \in Jobs : \A i, k \in DOMAIN line[j] :
        job[line[j][i]] = j /\ (line[j][i] = line[j][k] => i = k)

(* Nobody is overtaken: those before an execution in the line only become fewer,
   and who takes the lock was before all that waited for it. *)
Before(r) == LET q == line[job[r]] IN
    {s \in Runs : \E i, k \in DOMAIN q : i < k /\ q[i] = s /\ q[k] = r}
Takes(r) == stage[r] # "executing" /\ stage'[r] = "executing"
NoneOvertakes ==
    [][\A r \in Runs :
          /\ stage[r] = "waiting" /\ stage'[r] = "waiting" => Before(r)' \subseteq Before(r)
          /\ Takes(r) => \A s \in Runs \ {r} :
                stage[s] = "waiting" /\ job[s] = job[r] => r \in Before(s)]_vars

(* Executions of one job exclude each other: scheduled, manual, or of a row that
   was removed and created again under the same id. *)
OneAtATime == \A j \in Jobs : Cardinality(Holder(j)) <= 1

(* Until the first crash running_at_ms is set only while an execution holds the
   job's lock (derisk/cron/types.py:113); no restart clears what a crash leaves. *)
RunningIsTrue == crashes = 0 => \A j \in running : Holder(j) # {}

(* APScheduler holds a disabled job only as add_job has put it there, which does not
   look at the flag: no edit, run or restart schedules one or leaves one scheduled. *)
DisabledAsAdded ==
    [][\A j \in Jobs : j \in sched' \ enabled' => j \in sched \ enabled \/ j \notin rows]_vars

(* APScheduler holds every enabled job whose time is not over: none is lost. *)
NoneForgotten ==
    up => \A j \in enabled : (j \in oneShot => clock[j] = "ahead") => j \in sched

(* Launches of a job that have not reached their agent. *)
Owed(j) == {r \in Runs : stage[r] \in {"fired", "waiting"} /\ job[r] = j}

(* The service implements CronLaunches: no launch is lost, executed twice or beside
   another one of its job, whatever is edited, removed or created again meanwhile. *)
Promise == INSTANCE CronLaunches WITH
    jobs <- rows, dated <- oneShot, armed <- sched,
    owed <- [j \in Jobs |-> Cardinality(Owed(j))],
    busy <- {j \in Jobs : Holder(j) # {}}

KeepsPromise == Promise!Spec

(* Every execution ends: no waiter of the lock is forgotten. *)
RunsEnd == \A r \in Runs : stage[r] # "idle" ~> stage[r] = "idle"

(* An enabled repeating job is executed again, unless it is edited: a restart, a
   failure or a manual run does not stop it. *)
Repeats(j) == j \in enabled \ oneShot
RepeatingJobsRun == \A j \in Jobs : Repeats(j) ~> (~Repeats(j) \/ Holder(j) # {})
=============================================================================
