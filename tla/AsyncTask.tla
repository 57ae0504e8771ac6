----------------------------- MODULE AsyncTask -----------------------------
(***************************************************************************)
(* AsyncTaskManager (agent/core_v2/async_task_manager.py): background       *)
(* tasks of a ReAct agent on one asyncio event loop, and the agent that     *)
(* spawns, cancels, awaits and collects them.                               *)
(*                                                                         *)
(* A step is what one coroutine does between two awaits.  asyncio (the      *)
(* semaphore, wait_for, Event) is modelled by its behaviour; a cancellation *)
(* is delivered when the cancelled coroutine next runs (stop).              *)
(***************************************************************************)
EXTENDS Naturals, Sequences, FiniteSets, SequencesExt

CONSTANTS
    Tasks,               \* task ids
    Callers,             \* tool calls one round may run concurrently
    MaxConcurrent,       \* permits of the semaphore
    MaxDeps,             \* bound on the length of depend_on
    Callbacks,           \* is the manager built with on_complete / on_failed?
    CancelMayBeSwallowed \* Python 3.10 and 3.11: wait_for drops a cancellation
                         \* when the awaited future is already done

ASSUME ConstantsAssumption ==
    /\ IsFiniteSet(Tasks)
    /\ MaxConcurrent \in Nat \ {0} /\ MaxDeps \in Nat
    /\ Callbacks \in BOOLEAN /\ CancelMayBeSwallowed \in BOOLEAN

VARIABLES
    status,     \* AsyncTaskState.status, "absent" before the spawn
    deps,       \* AsyncTaskSpec.depend_on
    known,      \* history: the dependencies that existed at the spawn
    pc,         \* where the task's coroutine is
    idx,        \* the dependency it waits for
    outcome,    \* what delegate returned, before the coroutine resumes
    stop,       \* bg_task.cancel() called and not yet delivered
    queue,      \* coroutines waiting for the semaphore
    future,     \* tasks whose future is resolved
    consumed,   \* AsyncTaskState.consumed
    shown,      \* history: tasks the agent was given a final state of
    givenUp,    \* history: tasks an expired wait_all returned unfinished
    phase,      \* the agent's round: "think" or "act"
    call,       \* what each tool call of the round is doing
    ids,        \* the task_ids a wait_all waits for
    woken       \* wait_any calls whose completion event was set

coroutines == <<pc, idx, outcome, stop, queue>>
manager    == <<status, deps, known, future, consumed, shown, givenUp>>
agent      == <<phase, call, ids, woken>>
vars       == <<coroutines, manager, agent>>

Terminal == {"completed", "failed", "timeout", "cancelled"}
Spawned  == {t \in Tasks : status[t] # "absent"}
Final    == {t \in Tasks : status[t] \in Terminal}

(* The coroutines inside `async with self._semaphore`. *)
Holders == {t \in Tasks : pc[t] \in {"run", "ready", "callback"}}
Permit  == Cardinality(Holders) < MaxConcurrent

Init ==
    /\ status = [t \in Tasks |-> "absent"]
    /\ deps = [t \in Tasks |-> <<>>] /\ known = [t \in Tasks |-> {}]
    /\ pc = [t \in Tasks |-> "absent"] /\ idx = [t \in Tasks |-> 1]
    /\ outcome = [t \in Tasks |-> "failed"]
    /\ stop = [t \in Tasks |-> FALSE] /\ queue = <<>>
    /\ future = {} /\ consumed = {} /\ shown = {} /\ givenUp = {}
    /\ phase = "think" /\ call = [c \in Callers |-> "done"]
    /\ ids = [c \in Callers |-> {}] /\ woken = {}

-----------------------------------------------------------------------------
(* The coroutine of a task *)

(* Bug: the event is not set with the future. *)
ResolveQuietly(t) == future' = future \cup {t} /\ UNCHANGED woken

(* _resolve_future: resolves the future once, sets the event every time. *)
Resolve(t) ==
    /\ future' = future \cup {t}
    /\ woken' = woken \cup {c \in Callers : call[c] = "any"}

(* The coroutine ends with status s. *)
End(t, s) ==
    /\ status' = [status EXCEPT ![t] = s]
    /\ pc' = [pc EXCEPT ![t] = "done"]
    /\ idx' = [idx EXCEPT ![t] = 1]
    /\ Resolve(t)
    /\ UNCHANGED queue

(* _run_task up to its first await. *)
RunTask(t) ==
    \/ /\ status[t] = "cancelled"
       /\ End(t, "cancelled")
    \/ /\ status[t] # "cancelled" /\ Permit /\ queue = <<>>
       /\ status' = [status EXCEPT ![t] = "running"]
       /\ pc' = [pc EXCEPT ![t] = "run"]
       /\ idx' = [idx EXCEPT ![t] = 1]
       /\ UNCHANGED <<queue, future, woken>>
    \/ /\ status[t] # "cancelled" /\ ~(Permit /\ queue = <<>>)
       /\ pc' = [pc EXCEPT ![t] = "sem"]
       /\ idx' = [idx EXCEPT ![t] = 1]
       /\ queue' = Append(queue, t)
       /\ UNCHANGED <<status, future, woken>>

(* Bug: only a failed dependency stops its dependants. *)
BadIfFailed(d) == d \in Spawned /\ status[d] = "failed"

(* A dependency still to be waited for, and one that did not complete.  An id
   the manager does not know is neither: the task proceeds. *)
Open(d) == d \in Spawned \ future
Bad(d)  == d \in Spawned /\ status[d] # "completed"

Unmet(t, i) == {j \in i..Len(deps[t]) : Open(deps[t][j]) \/ Bad(deps[t][j])}

(* The loop of _wait_deps_then_run from dependency i to its next await. *)
Proceed(t, i) ==
    \/ /\ Unmet(t, i) = {}
       /\ RunTask(t)
    \/ \E j \in Unmet(t, i) :
        /\ \A k \in Unmet(t, i) : j <= k
        /\ IF Open(deps[t][j])
           THEN /\ pc' = [pc EXCEPT ![t] = "dep"]
                /\ idx' = [idx EXCEPT ![t] = j]
                /\ UNCHANGED <<status, queue, future, woken>>
           ELSE End(t, "failed")

Calm(t) == stop' = [stop EXCEPT ![t] = FALSE]

(* First step: a coroutine cancelled before it never runs its body. *)
Start(t) ==
    /\ pc[t] = "start"
    /\ IF stop[t]
       THEN pc' = [pc EXCEPT ![t] = "done"] /\ UNCHANGED <<status, idx, queue, future, woken>>
       ELSE Proceed(t, 1)
    /\ UNCHANGED <<deps, known, outcome, stop, consumed, shown, givenUp, phase, call, ids>>

(* A pending cancellation that wait_for lets pass. *)
Passes(t) == ~stop[t] \/ CancelMayBeSwallowed

DepResolved(t) ==
    /\ pc[t] = "dep" /\ deps[t][idx[t]] \in future
    /\ Passes(t) /\ Calm(t)
    /\ Proceed(t, idx[t])
    /\ UNCHANGED <<deps, known, outcome, consumed, shown, givenUp, phase, call, ids>>

(* Bug: the wait for a dependency has no timeout. *)
DepWaitsForever(t) == FALSE

DepTimeout(t) ==
    /\ pc[t] = "dep" /\ ~stop[t] /\ deps[t][idx[t]] \notin future
    /\ End(t, "timeout")
    /\ UNCHANGED <<deps, known, outcome, stop, consumed, shown, givenUp, phase, call, ids>>

(* The semaphore is handed over in the order of arrival. *)
Granted(t) ==
    /\ pc[t] = "sem" /\ ~stop[t] /\ Permit
    /\ queue # <<>> /\ Head(queue) = t
    /\ queue' = Tail(queue)
    /\ status' = [status EXCEPT ![t] = "running"]
    /\ pc' = [pc EXCEPT ![t] = "run"]
    /\ UNCHANGED <<idx, outcome, stop, deps, known, future, consumed, shown, givenUp, agent>>

(* delegate returns success, or returns a failure or raises. *)
DelegateEnds(t) ==
    /\ pc[t] = "run" /\ Passes(t)
    /\ \E o \in {"completed", "failed"} : outcome' = [outcome EXCEPT ![t] = o]
    /\ pc' = [pc EXCEPT ![t] = "ready"]
    /\ UNCHANGED <<idx, stop, queue, manager, agent>>

RunTimeout(t) ==
    /\ pc[t] = "run" /\ ~stop[t]
    /\ End(t, "timeout")
    /\ UNCHANGED <<deps, known, outcome, stop, consumed, shown, givenUp, phase, call, ids>>

(* The status is set before the callback is awaited, the future resolved after
   it; an exception of delegate skips the callback. *)
Resume(t) ==
    /\ pc[t] = "ready" /\ Passes(t) /\ Calm(t)
    /\ \/ /\ ~Callbacks \/ outcome[t] = "failed"
          /\ End(t, outcome[t])
       \/ /\ Callbacks
          /\ status' = [status EXCEPT ![t] = outcome[t]]
          /\ pc' = [pc EXCEPT ![t] = "callback"]
          /\ UNCHANGED <<idx, queue, future, woken>>
    /\ outcome' = [outcome EXCEPT ![t] = "failed"]
    /\ UNCHANGED <<deps, known, consumed, shown, givenUp, phase, call, ids>>

CallbackEnds(t) ==
    /\ pc[t] = "callback"
    /\ End(t, status[t])
    /\ UNCHANGED <<deps, known, outcome, stop, consumed, shown, givenUp, phase, call, ids>>

(* CancelledError.  Caught while waiting for a dependency or for delegate; out of
   the semaphore it ends the coroutine with nothing more done. *)
Interrupted(t) ==
    /\ stop[t]
    /\ \/ /\ \/ pc[t] = "run"
             \/ pc[t] = "ready" /\ ~CancelMayBeSwallowed
             \/ pc[t] = "dep" /\ (deps[t][idx[t]] \notin future \/ ~CancelMayBeSwallowed)
          /\ End(t, "cancelled")
       \/ /\ pc[t] = "sem"
          /\ pc' = [pc EXCEPT ![t] = "done"]
          /\ UNCHANGED <<status, idx, queue, future, woken>>
    /\ Calm(t)
    /\ outcome' = [outcome EXCEPT ![t] = "failed"]
    /\ UNCHANGED <<deps, known, consumed, shown, givenUp, phase, call, ids>>

-----------------------------------------------------------------------------
(* The agent and its tool calls *)

(* get_completed_results(consume=True). *)
Fresh == Final \ consumed
Collect == /\ consumed' = consumed \cup Fresh
           /\ shown' = shown \cup Fresh

Return(c) == call' = [call EXCEPT ![c] = "done"]

(* think(): the finished results go into the context; then the tools run. *)
Notify ==
    /\ phase = "think"
    /\ Collect
    /\ phase' = "act" /\ call' = [c \in Callers |-> "free"]
    /\ UNCHANGED <<coroutines, status, deps, known, future, givenUp, ids, woken>>

(* asyncio.gather over the round's tool calls has returned. *)
EndRound ==
    /\ phase = "act" /\ \A c \in Callers : call[c] \in {"free", "done"}
    /\ phase' = "think" /\ call' = [c \in Callers |-> "done"]
    /\ UNCHANGED <<coroutines, manager, ids, woken>>

DepLists(t) == {d \in SeqOf(Tasks \ {t}, MaxDeps) : IsInjective(d)}

(* spawn; depend_on may name ids that do not exist (yet). *)
Spawn(c, t) ==
    /\ call[c] = "free" /\ status[t] = "absent"
    /\ \E d \in DepLists(t) :
        /\ deps' = [deps EXCEPT ![t] = d]
        /\ known' = [known EXCEPT ![t] = ToSet(d) \cap Spawned]
    /\ status' = [status EXCEPT ![t] = "pending"]
    /\ pc' = [pc EXCEPT ![t] = "start"]
    /\ Return(c)
    /\ UNCHANGED <<idx, outcome, stop, queue, future, consumed, shown, givenUp, phase, ids, woken>>

(* A cancelled waiter leaves the queue of the semaphore. *)
Leave(t) ==
    \/ \E i \in DOMAIN queue : queue[i] = t /\ queue' = RemoveAt(queue, i)
    \/ t \notin ToSet(queue) /\ UNCHANGED queue

(* cancel of a task that is not final. *)
Cancel(c, t) ==
    /\ call[c] = "free" /\ t \in Spawned \ Final
    /\ status' = [status EXCEPT ![t] = "cancelled"]
    /\ stop' = [stop EXCEPT ![t] = TRUE]
    /\ Leave(t)
    /\ Resolve(t) /\ Return(c)
    /\ UNCHANGED <<pc, idx, outcome, deps, known, consumed, shown, givenUp, phase, ids>>

(* wait_any: results at once, or clear the event and wait for it. *)
WaitAny(c) ==
    /\ call[c] = "free"
    /\ IF Fresh # {}
       THEN Collect /\ Return(c)
       ELSE /\ call' = [call EXCEPT ![c] = "any"]
            /\ UNCHANGED <<consumed, shown>>
    /\ UNCHANGED <<coroutines, status, deps, known, future, givenUp, phase, ids, woken>>

(* It goes on when the event was set, or after its timeout. *)
WaitAnyReturns(c) ==
    /\ call[c] = "any"
    /\ Collect /\ Return(c)
    /\ woken' = woken \ {c}
    /\ UNCHANGED <<coroutines, status, deps, known, future, givenUp, phase, ids>>

(* The states wait_all returns, finished or not, are marked consumed. *)
HandOver(S) == /\ consumed' = consumed \cup S
               /\ shown' = shown \cup (S \cap Final)

WaitAll(c) ==
    /\ call[c] = "free"
    /\ \E S \in SUBSET Spawned \ {{}} :
        IF S \subseteq future
        THEN HandOver(S) /\ Return(c) /\ UNCHANGED ids
        ELSE /\ call' = [call EXCEPT ![c] = "all"]
             /\ ids' = [ids EXCEPT ![c] = S]
             /\ UNCHANGED <<consumed, shown>>
    /\ UNCHANGED <<coroutines, status, deps, known, future, givenUp, phase, woken>>

(* Bug: FIRST_COMPLETED; the call takes itself for complete. *)
WaitFirstReturns(c) ==
    /\ call[c] = "all"
    /\ HandOver(ids[c]) /\ Return(c)
    /\ givenUp' = IF ids[c] \cap future # {} THEN givenUp ELSE givenUp \cup ids[c]
    /\ ids' = [ids EXCEPT ![c] = {}]
    /\ UNCHANGED <<coroutines, status, deps, known, future, phase, woken>>

(* All futures are resolved, or the timeout has passed. *)
WaitAllReturns(c) ==
    /\ call[c] = "all"
    /\ HandOver(ids[c]) /\ Return(c)
    /\ givenUp' = IF ids[c] \subseteq future THEN givenUp ELSE givenUp \cup (ids[c] \ Final)
    /\ ids' = [ids EXCEPT ![c] = {}]
    /\ UNCHANGED <<coroutines, status, deps, known, future, phase, woken>>

-----------------------------------------------------------------------------

Coroutine(t) == \/ Start(t) \/ DepResolved(t) \/ Granted(t) \/ Resume(t)
                \/ CallbackEnds(t) \/ Interrupted(t)
Timers(t)    == DepTimeout(t) \/ RunTimeout(t)
Tool(c)      == \/ \E t \in Tasks : Spawn(c, t) \/ Cancel(c, t)
                \/ WaitAny(c) \/ WaitAll(c)
Waiting(c)   == WaitAnyReturns(c) \/ WaitAllReturns(c)

Next == \/ \E t \in Tasks : Coroutine(t) \/ Timers(t) \/ DelegateEnds(t)
        \/ \E c \in Callers : Tool(c) \/ Waiting(c)
        \/ Notify \/ EndRound

(* The event loop runs every ready coroutine, timers expire, and the agent goes
   on with its rounds.  That delegate ever returns is not assumed. *)
Fairness ==
    /\ \A t \in Tasks : WF_vars(Coroutine(t)) /\ WF_vars(Timers(t))
    /\ \A c \in Callers : WF_vars(Waiting(c))
    /\ WF_vars(Notify) /\ WF_vars(EndRound)

Spec     == Init /\ [][Next]_vars
LiveSpec == Spec /\ Fairness

-----------------------------------------------------------------------------
(* Properties *)

(* Type invariant; _tasks, _futures and _bg_tasks have the same keys. *)
TypeOK ==
    /\ \A t \in Tasks : pc[t] = "absent" <=> status[t] = "absent"
    /\ status \in [Tasks -> {"absent", "pending", "running"} \cup Terminal]
    /\ deps \in [Tasks -> Seq(Tasks)] /\ known \in [Tasks -> SUBSET Tasks]
    /\ pc \in [Tasks -> {"absent", "start", "dep", "sem", "run", "ready", "callback", "done"}]
    /\ idx \in [Tasks -> Nat \ {0}] /\ outcome \in [Tasks -> {"completed", "failed"}]
    /\ stop \in [Tasks -> BOOLEAN] /\ queue \in Seq(Tasks)
    /\ future \subseteq Tasks /\ consumed \subseteq Tasks /\ shown \subseteq Tasks
    /\ givenUp \subseteq Tasks
    /\ phase \in {"think", "act"} /\ call \in [Callers -> {"free", "any", "all", "done"}]
    /\ ids \in [Callers -> SUBSET Tasks] /\ woken \subseteq Callers

(* How far the program of a task has come whose coroutine is at p. *)
Body(p) == CASE p = "absent" -> "absent"
             [] p \in {"start", "dep", "sem"} -> "waiting"
             [] p \in {"run", "ready"} -> "running"
             [] p \in {"callback", "done"} -> "over"

(* The manager keeps the promise of ASYNC_TASK_SYSTEM.md: one final status, no start
   before the known dependencies completed, no more than MaxConcurrent running.  A
   cancelled status is final when the coroutine has ended: a cancellation that
   wait_for swallows is overwritten by the outcome of the task. *)
Promise == INSTANCE AsyncTaskLife
               WITH life <- status, needs <- known, body <- [t \in Tasks |-> Body(pc[t])]
KeepsPromise == Promise!Spec

(* Whoever waits for a future gets a final state. *)
FutureIsFinal == future \subseteq Final

(* A wait_any that sleeps has missed nothing: a result nobody collected belongs
   to a task whose future, and with it the event, is still to be set. *)
NoLostWakeup ==
    \A c \in Callers : call[c] = "any" /\ c \notin woken =>
        \A t \in Final \ consumed : t \notin future /\ pc[t] = "callback"

(* The next think() is given every finished result (ASYNC_TASK_SYSTEM.md:5), as it
   was when it was first final; only what an expired wait_all had returned unfinished
   is lost to the agent, which the manager does not say. *)
ResultsInjected == [][phase = "think" /\ phase' = "act" => Final \subseteq shown' \cup givenUp]_vars

(* A cancelled task does not start, even if its CancelledError got lost. *)
CancelledNeverStarts ==
    [][\A t \in Tasks : status[t] = "cancelled" => status'[t] # "running"]_vars

(* Every spawned task ends and its waiters are released, whatever delegate does
   and however the dependencies are wired: the timeouts cut cycles. *)
TasksEnd == \A t \in Tasks : status[t] # "absent" ~> t \in future /\ pc[t] = "done"

(* Every spawned task reaches the agent in a final state, unless a wait_all gave it up. *)
ResultsSurface == \A t \in Tasks : status[t] # "absent" ~> t \in shown \cup givenUp
=============================================================================
