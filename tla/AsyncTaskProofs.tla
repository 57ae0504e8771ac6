-------------------------- MODULE AsyncTaskProofs --------------------------
(***************************************************************************)
(* Theorems about the task manager, for every set of tasks, any number of   *)
(* concurrent tool calls and any semaphore, whether or not wait_for         *)
(* swallows cancellations: wake-ups, results, and that the manager          *)
(* implements AsyncTaskLife.                                                *)
(***************************************************************************)
EXTENDS AsyncTask, FiniteSetTheorems, SequenceTheorems, TLAPS

PCs      == {"absent", "start", "dep", "sem", "run", "ready", "callback", "done"}
Statuses == {"absent", "pending", "running"} \cup Terminal

(* A task that joins the queue of the semaphore. *)
LEMMA AppendType ==
    ASSUME NEW t \in Tasks, queue \in Seq(Tasks)
    PROVE  Append(queue, t) \in Seq(Tasks)
  OBVIOUS

(* A cancelled waiter of the semaphore leaves a queue of tasks behind. *)
LEMMA LeaveType ==
    ASSUME NEW t \in Tasks, queue \in Seq(Tasks), Leave(t)
    PROVE  queue' \in Seq(Tasks)
<1>1. CASE UNCHANGED queue
  BY <1>1
<1>2. ASSUME NEW i \in DOMAIN queue, queue' = RemoveAt(queue, i) PROVE queue' \in Seq(Tasks)
  <2>1. SubSeq(queue, 1, i-1) \in Seq(Tasks) /\ SubSeq(queue, i+1, Len(queue)) \in Seq(Tasks)
    BY <1>2, SubSeqProperties
  <2> QED
    BY <1>2, <2>1, ConcatProperties DEF RemoveAt
<1> QED
  BY <1>1, <1>2 DEF Leave

(* The part of TypeOK the coroutines write. *)
Loose ==
    /\ status \in [Tasks -> Statuses] /\ pc \in [Tasks -> PCs]
    /\ idx \in [Tasks -> Nat \ {0}] /\ queue \in Seq(Tasks)
    /\ future \subseteq Tasks /\ woken \subseteq Callers

(* A step of a coroutine keeps the types, and does not make a task appear or vanish. *)
LEMMA EndType ==
    ASSUME TypeOK, NEW t \in Tasks, NEW s \in Terminal, pc[t] # "absent", End(t, s)
    PROVE  /\ Loose'
           /\ \A u \in Tasks : pc'[u] = "absent" <=> status'[u] = "absent"
<1>1. /\ status \in [Tasks -> Statuses] /\ pc \in [Tasks -> PCs]
      /\ idx \in [Tasks -> Nat \ {0}] /\ queue \in Seq(Tasks)
      /\ future \subseteq Tasks /\ woken \subseteq Callers
      /\ \A u \in Tasks : pc[u] = "absent" <=> status[u] = "absent"
  BY DEF TypeOK, PCs, Statuses
<1>2. status' \in [Tasks -> Statuses] /\ pc' \in [Tasks -> PCs] /\ idx' \in [Tasks -> Nat \ {0}]
  BY <1>1 DEF End, Statuses, PCs
<1>3. queue' \in Seq(Tasks) /\ future' \subseteq Tasks /\ woken' \subseteq Callers
  BY <1>1 DEF End, Resolve
<1>4. \A u \in Tasks : pc'[u] = "absent" <=> status'[u] = "absent"
  BY <1>1 DEF End, Terminal
<1> QED
  BY <1>2, <1>3, <1>4 DEF Loose

(* So do the steps up to the first await of _run_task ... *)
LEMMA RunTaskType ==
    ASSUME TypeOK, NEW t \in Tasks, pc[t] # "absent", RunTask(t)
    PROVE  /\ Loose'
           /\ \A u \in Tasks : pc'[u] = "absent" <=> status'[u] = "absent"
<1>1. CASE End(t, "cancelled")
  BY <1>1, EndType DEF Terminal
<1>2. CASE ~End(t, "cancelled")
  <2>1. /\ status \in [Tasks -> Statuses] /\ pc \in [Tasks -> PCs]
        /\ idx \in [Tasks -> Nat \ {0}] /\ queue \in Seq(Tasks)
        /\ future \subseteq Tasks /\ woken \subseteq Callers
        /\ \A u \in Tasks : pc[u] = "absent" <=> status[u] = "absent"
    BY DEF TypeOK, PCs, Statuses
  <2>2. status' \in [Tasks -> Statuses]
    BY <1>2, <2>1 DEF RunTask, Statuses
  <2>5. pc' \in [Tasks -> PCs]
    BY <1>2, <2>1 DEF RunTask, PCs
  <2>6. idx' \in [Tasks -> Nat \ {0}]
    BY <1>2, <2>1 DEF RunTask
  <2>3. queue' \in Seq(Tasks) /\ future' \subseteq Tasks /\ woken' \subseteq Callers
    BY <1>2, <2>1, AppendType DEF RunTask
  <2>4. \A u \in Tasks : pc'[u] = "absent" <=> status'[u] = "absent"
    BY <1>2, <2>1 DEF RunTask
  <2> QED
    BY <2>2, <2>3, <2>4, <2>5, <2>6 DEF Loose
<1> QED
  BY <1>1, <1>2

(* ... and the loop over the dependencies. *)
LEMMA ProceedType ==
    ASSUME TypeOK, NEW t \in Tasks, NEW i \in Nat \ {0}, pc[t] # "absent", Proceed(t, i)
    PROVE  /\ Loose'
           /\ \A u \in Tasks : pc'[u] = "absent" <=> status'[u] = "absent"
<1>1. CASE RunTask(t)
  BY <1>1, RunTaskType
<1>2. CASE End(t, "failed")
  BY <1>2, EndType DEF Terminal
<1>3. ASSUME NEW j \in Unmet(t, i),
             pc' = [pc EXCEPT ![t] = "dep"], idx' = [idx EXCEPT ![t] = j],
             UNCHANGED <<status, queue, future, woken>>
      PROVE  /\ Loose'
             /\ \A u \in Tasks : pc'[u] = "absent" <=> status'[u] = "absent"
  <2>1. deps[t] \in Seq(Tasks)
    BY DEF TypeOK
  <2>2. j \in Nat \ {0}
    BY <2>1 DEF Unmet
  <2> QED
    BY <1>3, <2>2 DEF TypeOK, Loose, PCs, Statuses
<1> QED
  BY <1>1, <1>2, <1>3 DEF Proceed

-----------------------------------------------------------------------------
(* Types *)

(* The initial state has its types. *)
LEMMA TypeInit == Init => TypeOK
<1>1. <<>> \in Seq(Tasks)
  OBVIOUS
<1> QED
  BY <1>1 DEF Init, TypeOK, Terminal

(* What the coroutines write, put together with what they leave alone. *)
LEMMA CoroutineType ==
    ASSUME TypeOK, Loose', \A u \in Tasks : pc'[u] = "absent" <=> status'[u] = "absent",
           outcome' \in [Tasks -> {"completed", "failed"}], stop' \in [Tasks -> BOOLEAN],
           UNCHANGED <<deps, known, consumed, shown, givenUp, phase, call, ids>>
    PROVE  TypeOK'
  BY DEF TypeOK, Loose, Statuses, PCs

(* A callback is awaited after the final status is set. *)
CallbackIsLast == \A t \in Tasks : pc[t] = "callback" => status[t] \in Terminal

(* Every step keeps the types: one case per action. *)
LEMMA TypeStep == TypeOK /\ CallbackIsLast /\ [Next]_vars => TypeOK'
<1> SUFFICES ASSUME TypeOK, CallbackIsLast, [Next]_vars PROVE TypeOK'
  OBVIOUS
<1>0. /\ stop \in [Tasks -> BOOLEAN] /\ outcome \in [Tasks -> {"completed", "failed"}]
      /\ status \in [Tasks -> Statuses] /\ pc \in [Tasks -> PCs] /\ queue \in Seq(Tasks)
      /\ idx \in [Tasks -> Nat \ {0}] /\ future \subseteq Tasks /\ woken \subseteq Callers
      /\ \A u \in Tasks : pc[u] = "absent" <=> status[u] = "absent"
  BY DEF TypeOK, Statuses, PCs
<1>1. ASSUME NEW t \in Tasks, Start(t) PROVE TypeOK'
  <2>1. CASE stop[t]
    BY <1>0, <1>1, <2>1, CoroutineType DEF Start, Loose, PCs
  <2>2. CASE ~stop[t]
    BY <1>0, <1>1, <2>2, CoroutineType, ProceedType DEF Start
  <2> QED
    BY <2>1, <2>2
<1>2. ASSUME NEW t \in Tasks, DepResolved(t) PROVE TypeOK'
  BY <1>0, <1>2, CoroutineType, ProceedType DEF DepResolved, Calm
<1>3. ASSUME NEW t \in Tasks, DepTimeout(t) PROVE TypeOK'
  BY <1>0, <1>3, CoroutineType, EndType DEF DepTimeout, Terminal
<1>4. ASSUME NEW t \in Tasks, Granted(t) PROVE TypeOK'
  BY <1>0, <1>4, CoroutineType, HeadTailProperties DEF Granted, Loose, PCs, Statuses, agent
<1>5. ASSUME NEW t \in Tasks, DelegateEnds(t) PROVE TypeOK'
  BY <1>0, <1>5, CoroutineType DEF DelegateEnds, Loose, PCs, manager, agent
<1>6. ASSUME NEW t \in Tasks, RunTimeout(t) PROVE TypeOK'
  BY <1>0, <1>6, CoroutineType, EndType DEF RunTimeout, Terminal
<1>7. ASSUME NEW t \in Tasks, Resume(t) PROVE TypeOK'
  <2>1. outcome[t] \in {"completed", "failed"} /\ outcome[t] \in Terminal
    BY <1>0 DEF Terminal
  <2>2. CASE End(t, outcome[t])
    BY <1>0, <1>7, <2>1, <2>2, CoroutineType, EndType DEF Resume, Calm
  <2>3. CASE ~End(t, outcome[t])
    BY <1>0, <1>7, <2>1, <2>3, CoroutineType DEF Resume, Calm, Loose, PCs, Statuses
  <2> QED
    BY <2>2, <2>3
<1>8. ASSUME NEW t \in Tasks, CallbackEnds(t) PROVE TypeOK'
  BY <1>0, <1>8, CoroutineType, EndType DEF CallbackEnds, CallbackIsLast
<1>9. ASSUME NEW t \in Tasks, Interrupted(t) PROVE TypeOK'
  <2>1. CASE End(t, "cancelled")
    BY <1>0, <1>9, <2>1, CoroutineType, EndType DEF Interrupted, Calm, Terminal
  <2>2. CASE ~End(t, "cancelled")
    BY <1>0, <1>9, <2>2, CoroutineType DEF Interrupted, Calm, Loose, PCs
  <2> QED
    BY <2>1, <2>2
<1>10. CASE Notify \/ EndRound
  BY <1>10 DEF Notify, EndRound, Collect, Fresh, Final, TypeOK, coroutines, manager
<1>11. ASSUME NEW c \in Callers, NEW t \in Tasks, Spawn(c, t) PROVE TypeOK'
  <2>1. \A d \in DepLists(t) : d \in Seq(Tasks)
    BY DEF DepLists, SeqOf
  <2>2. deps' \in [Tasks -> Seq(Tasks)] /\ known' \in [Tasks -> SUBSET Tasks]
    BY <1>11, <2>1 DEF Spawn, TypeOK, Spawned
  <2>3. status' \in [Tasks -> Statuses] /\ pc' \in [Tasks -> PCs]
    BY <1>0, <1>11 DEF Spawn, Statuses, PCs
  <2>4. \A u \in Tasks : pc'[u] = "absent" <=> status'[u] = "absent"
    BY <1>0, <1>11 DEF Spawn
  <2>5. call' \in [Callers -> {"free", "any", "all", "done"}]
    BY <1>11 DEF Spawn, Return, TypeOK
  <2>6. UNCHANGED <<idx, outcome, stop, queue, future, consumed, shown, givenUp, phase, ids, woken>>
    BY <1>11 DEF Spawn
  <2> QED
    BY <2>2, <2>3, <2>4, <2>5, <2>6 DEF TypeOK, Statuses, PCs
<1>12. ASSUME NEW c \in Callers, NEW t \in Tasks, Cancel(c, t) PROVE TypeOK'
  BY <1>0, <1>12, LeaveType DEF Cancel, Return, Resolve, Spawned, Final, Terminal, TypeOK
<1>13. ASSUME NEW c \in Callers, WaitAny(c) \/ WaitAnyReturns(c) PROVE TypeOK'
  BY <1>13 DEF WaitAny, WaitAnyReturns, Return, Collect, Fresh, Final, TypeOK, coroutines
<1>14. ASSUME NEW c \in Callers, WaitAll(c) \/ WaitAllReturns(c) PROVE TypeOK'
  <2>1. CASE WaitAll(c)
    BY <1>14, <2>1 DEF WaitAll, Return, HandOver, Spawned, Final, TypeOK, coroutines
  <2>2. CASE WaitAllReturns(c)
    <3>1. ids[c] \subseteq Tasks /\ givenUp' \subseteq Tasks /\ HandOver(ids[c])
      BY <2>2 DEF WaitAllReturns, TypeOK
    <3> QED
      BY <2>2, <3>1 DEF WaitAllReturns, Return, HandOver, TypeOK, coroutines
  <2> QED
    BY <1>14, <2>1, <2>2
<1>15. CASE UNCHANGED vars
  BY <1>15 DEF vars, coroutines, manager, agent, TypeOK
<1> QED
  BY <1>1, <1>2, <1>3, <1>4, <1>5, <1>6, <1>7, <1>8, <1>9, <1>10, <1>11, <1>12, <1>13,
     <1>14, <1>15 DEF Next, Coroutine, Timers, Tool, Waiting

(* Whatever step is taken, only delegate's return enters the callback. *)
LEMMA CallbackStep == TypeOK /\ CallbackIsLast /\ [Next]_vars => CallbackIsLast'
<1> SUFFICES ASSUME TypeOK, CallbackIsLast, [Next]_vars PROVE CallbackIsLast'
  OBVIOUS
<1> USE DEF CallbackIsLast
<1>0. status \in [Tasks -> Statuses] /\ pc \in [Tasks -> PCs]
      /\ outcome \in [Tasks -> {"completed", "failed"}]
  BY DEF TypeOK, Statuses, PCs
<1>1. ASSUME NEW t \in Tasks, NEW s \in Terminal, End(t, s) PROVE CallbackIsLast'
  BY <1>0, <1>1 DEF End
<1>2. ASSUME NEW t \in Tasks, NEW p \in PCs, p # "callback", pc' = [pc EXCEPT ![t] = p],
             \A u \in Tasks : u # t => status'[u] = status[u]
      PROVE  CallbackIsLast'
  BY <1>0, <1>2
<1>3. ASSUME UNCHANGED <<pc, status>> PROVE CallbackIsLast'
  BY <1>3
<1>4. ASSUME NEW t \in Tasks, RunTask(t) PROVE CallbackIsLast'
  BY <1>0, <1>1, <1>2, <1>4 DEF RunTask, PCs, Terminal
<1>5. ASSUME NEW t \in Tasks, NEW i \in Nat, Proceed(t, i) PROVE CallbackIsLast'
  BY <1>0, <1>1, <1>2, <1>4, <1>5 DEF Proceed, PCs, Terminal
<1>6. ASSUME NEW t \in Tasks, Start(t) PROVE CallbackIsLast'
  BY <1>0, <1>2, <1>5, <1>6 DEF Start, PCs
<1>7. ASSUME NEW t \in Tasks, DepResolved(t) PROVE CallbackIsLast'
  BY <1>5, <1>7 DEF DepResolved, TypeOK
<1>8. ASSUME NEW t \in Tasks, DepTimeout(t) \/ RunTimeout(t) PROVE CallbackIsLast'
  BY <1>1, <1>8 DEF DepTimeout, RunTimeout, Terminal
<1>9. ASSUME NEW t \in Tasks, Granted(t) \/ DelegateEnds(t) PROVE CallbackIsLast'
  BY <1>0, <1>2, <1>9 DEF Granted, DelegateEnds, PCs, manager
<1>10. ASSUME NEW t \in Tasks, Resume(t) PROVE CallbackIsLast'
  BY <1>0, <1>1, <1>10 DEF Resume, Terminal
<1>11. ASSUME NEW t \in Tasks, CallbackEnds(t) PROVE CallbackIsLast'
  BY <1>1, <1>11 DEF CallbackEnds
<1>12. ASSUME NEW t \in Tasks, Interrupted(t) PROVE CallbackIsLast'
  BY <1>0, <1>1, <1>2, <1>12 DEF Interrupted, Terminal, PCs
<1>13. ASSUME NEW c \in Callers, NEW t \in Tasks, Spawn(c, t) PROVE CallbackIsLast'
  BY <1>0, <1>2, <1>13 DEF Spawn, PCs
<1>14. ASSUME NEW c \in Callers, NEW t \in Tasks, Cancel(c, t) PROVE CallbackIsLast'
  BY <1>0, <1>14 DEF Cancel, Spawned, Final, Terminal
<1>15. ASSUME NEW c \in Callers, WaitAny(c) \/ WaitAll(c) \/ Waiting(c)
       PROVE  CallbackIsLast'
  BY <1>3, <1>15 DEF WaitAny, WaitAll, Waiting, WaitAnyReturns, WaitAllReturns, coroutines
<1>16. CASE Notify \/ EndRound \/ UNCHANGED vars
  BY <1>3, <1>16 DEF Notify, EndRound, vars, coroutines, manager
<1> HIDE DEF CallbackIsLast
<1> QED
  BY <1>6, <1>7, <1>8, <1>9, <1>10, <1>11, <1>12, <1>13, <1>14, <1>15, <1>16
     DEF Next, Coroutine, Timers, Tool

(* Type correctness of the task manager, swallowed cancellations included. *)
THEOREM TypeCorrect == Spec => []TypeOK
<1>1. Init => CallbackIsLast
  BY DEF Init, CallbackIsLast
<1> QED
  BY <1>1, TypeInit, TypeStep, CallbackStep, PTL DEF Spec

-----------------------------------------------------------------------------
(* Cancelled tasks *)

(* A coroutine queued for a permit that is not about to be interrupted belongs to
   a task nobody has cancelled. *)
QueuedIsWanted == \A t \in Tasks : pc[t] = "sem" /\ ~stop[t] => status[t] # "cancelled"

StaysCancelled == \A t \in Tasks : status[t] = "cancelled" => status'[t] # "running"

(* The check at the head of _run_task keeps the queue clean, and the semaphore
   wakes only what is in the queue. *)
LEMMA CancelledStep ==
    ASSUME TypeOK, CallbackIsLast, QueuedIsWanted, [Next]_vars
    PROVE  QueuedIsWanted' /\ StaysCancelled
<1> USE DEF QueuedIsWanted, StaysCancelled
<1>0. /\ status \in [Tasks -> Statuses] /\ pc \in [Tasks -> PCs]
      /\ stop \in [Tasks -> BOOLEAN] /\ outcome \in [Tasks -> {"completed", "failed"}]
  BY DEF TypeOK, Statuses, PCs
<1>1. ASSUME NEW t \in Tasks, NEW s \in Terminal, End(t, s),
             \A u \in Tasks \ {t} : stop'[u] = stop[u]
      PROVE  QueuedIsWanted' /\ StaysCancelled
  BY <1>0, <1>1 DEF End, Terminal
<1>2. ASSUME NEW t \in Tasks, RunTask(t), \A u \in Tasks \ {t} : stop'[u] = stop[u]
      PROVE  QueuedIsWanted' /\ StaysCancelled
  BY <1>0, <1>1, <1>2 DEF RunTask, Terminal
<1>3. ASSUME NEW t \in Tasks, NEW p \in PCs, p # "sem", pc' = [pc EXCEPT ![t] = p],
             UNCHANGED status, \A u \in Tasks \ {t} : stop'[u] = stop[u]
      PROVE  QueuedIsWanted' /\ StaysCancelled
  BY <1>0, <1>3
<1>4. ASSUME NEW t \in Tasks, NEW i \in Nat, Proceed(t, i),
             \A u \in Tasks \ {t} : stop'[u] = stop[u]
      PROVE  QueuedIsWanted' /\ StaysCancelled
  BY <1>0, <1>1, <1>2, <1>3, <1>4 DEF Proceed, PCs, Terminal
<1>5. ASSUME NEW t \in Tasks, Start(t) PROVE QueuedIsWanted' /\ StaysCancelled
  BY <1>3, <1>4, <1>5 DEF Start, PCs
<1>6. ASSUME NEW t \in Tasks, DepResolved(t) PROVE QueuedIsWanted' /\ StaysCancelled
  BY <1>0, <1>4, <1>6 DEF DepResolved, Calm, TypeOK
<1>7. ASSUME NEW t \in Tasks, DepTimeout(t) \/ RunTimeout(t)
      PROVE  QueuedIsWanted' /\ StaysCancelled
  BY <1>1, <1>7 DEF DepTimeout, RunTimeout, Terminal
<1>8. ASSUME NEW t \in Tasks, Granted(t) PROVE QueuedIsWanted' /\ StaysCancelled
  BY <1>0, <1>8 DEF Granted
<1>9. ASSUME NEW t \in Tasks, DelegateEnds(t) PROVE QueuedIsWanted' /\ StaysCancelled
  BY <1>3, <1>9 DEF DelegateEnds, manager, PCs
<1>10. ASSUME NEW t \in Tasks, Resume(t) PROVE QueuedIsWanted' /\ StaysCancelled
  BY <1>0, <1>1, <1>10 DEF Resume, Calm, Terminal
<1>11. ASSUME NEW t \in Tasks, CallbackEnds(t) PROVE QueuedIsWanted' /\ StaysCancelled
  BY <1>1, <1>11 DEF CallbackEnds, CallbackIsLast
<1>12. ASSUME NEW t \in Tasks, Interrupted(t) PROVE QueuedIsWanted' /\ StaysCancelled
  BY <1>0, <1>1, <1>3, <1>12 DEF Interrupted, Calm, Terminal, PCs
<1>13. ASSUME NEW c \in Callers, NEW t \in Tasks, Spawn(c, t) \/ Cancel(c, t)
       PROVE  QueuedIsWanted' /\ StaysCancelled
  BY <1>0, <1>13 DEF Spawn, Cancel, Spawned, Final, Terminal
<1>14. ASSUME UNCHANGED <<coroutines, status>> PROVE QueuedIsWanted' /\ StaysCancelled
  BY <1>14 DEF coroutines
<1>15. ASSUME NEW c \in Callers, WaitAny(c) \/ WaitAll(c) \/ Waiting(c)
       PROVE  QueuedIsWanted' /\ StaysCancelled
  BY <1>14, <1>15 DEF WaitAny, WaitAll, Waiting, WaitAnyReturns, WaitAllReturns
<1>16. CASE Notify \/ EndRound \/ UNCHANGED vars
  BY <1>14, <1>16 DEF Notify, EndRound, vars, manager
<1> HIDE DEF QueuedIsWanted, StaysCancelled
<1> QED
  BY <1>5, <1>6, <1>7, <1>8, <1>9, <1>10, <1>11, <1>12, <1>13, <1>15, <1>16
     DEF Next, Coroutine, Timers, Tool

(* A cancelled task does not start afterwards, even if its cancellation is lost. *)
THEOREM NeverStartsCancelled == Spec => CancelledNeverStarts
<1>1. Init => CallbackIsLast /\ QueuedIsWanted
  BY DEF Init, CallbackIsLast, QueuedIsWanted
<1>2. TypeOK /\ CallbackIsLast /\ QueuedIsWanted /\ [Next]_vars
        => QueuedIsWanted' /\ StaysCancelled
  BY CancelledStep
<1>3. StaysCancelled => [\A t \in Tasks : status[t] = "cancelled" => status'[t] # "running"]_vars
  BY DEF StaysCancelled
<1> QED
  BY <1>1, <1>2, <1>3, TypeInit, TypeStep, CallbackStep, PTL DEF Spec, CancelledNeverStarts
-----------------------------------------------------------------------------
(* Results and those who wait for them *)

(* A coroutine that has not ended shows no final status but "cancelled". *)
Unfinished ==
    \A t \in Tasks : pc[t] \in {"start", "dep", "sem", "run", "ready"}
                        => status[t] \in {"pending", "running", "cancelled"}

(* Nobody gets a future of an unfinished task, and nobody sleeps through a result. *)
Settled == Unfinished /\ FutureIsFinal /\ NoLostWakeup

(* A coroutine that ends resolves its future, and with it wakes every wait_any. *)
LEMMA EndSettles ==
    ASSUME TypeOK, Settled, NEW t \in Tasks, NEW s \in Terminal, End(t, s),
           UNCHANGED call
    PROVE  Settled'
<1>1. status \in [Tasks -> Statuses] /\ pc \in [Tasks -> PCs]
  BY DEF TypeOK, Statuses, PCs
<1>2. /\ status' = [status EXCEPT ![t] = s] /\ pc' = [pc EXCEPT ![t] = "done"]
      /\ future' = future \cup {t} /\ woken' = woken \cup {c \in Callers : call[c] = "any"}
  BY DEF End, Resolve
<1>3. Unfinished'
  BY <1>1, <1>2 DEF Settled, Unfinished
<1>4. FutureIsFinal'
  BY <1>1, <1>2 DEF Settled, FutureIsFinal, Final
<1>5. NoLostWakeup'
  BY <1>2 DEF NoLostWakeup
<1> QED
  BY <1>3, <1>4, <1>5 DEF Settled

(* A coroutine moves on before its last await: its task was not final, or had been
   cancelled and everybody told. *)
LEMMA MoveSettles ==
    ASSUME TypeOK, Settled, NEW t \in Tasks, pc[t] # "callback",
           NEW p \in PCs \ {"callback"}, pc' = [pc EXCEPT ![t] = p],
           \/ UNCHANGED status /\ pc[t] \in {"start", "dep", "sem", "run"}
           \/ status[t] \notin Terminal /\ status' = [status EXCEPT ![t] = "running"]
           \/ status[t] = "absent" /\ status' = [status EXCEPT ![t] = "pending"],
           UNCHANGED <<future, woken, consumed>>,
           \A c \in Callers : call'[c] = "any" => call[c] = "any"
    PROVE  Settled'
<1>1. /\ status \in [Tasks -> Statuses] /\ pc \in [Tasks -> PCs] /\ future \subseteq Tasks
  BY DEF TypeOK, Statuses, PCs
<1>2. Unfinished'
  BY <1>1 DEF Settled, Unfinished
<1>3. \A u \in Tasks : u \in Final' => /\ u \in Final
                                       /\ u = t => UNCHANGED status
  BY <1>1 DEF Final, Terminal
<1>4. t \notin future \/ UNCHANGED status
  BY DEF Settled, FutureIsFinal, Final, Terminal
<1>5. FutureIsFinal'
  BY <1>1, <1>4 DEF Settled, FutureIsFinal, Final
<1>6. NoLostWakeup'
  <2> SUFFICES ASSUME NEW c \in Callers, call'[c] = "any", c \notin woken',
                      NEW u \in Final', u \notin consumed'
               PROVE  u \notin future' /\ pc'[u] = "callback"
    BY DEF NoLostWakeup
  <2>1. u \in Tasks /\ u \in Final \ consumed
    BY <1>3 DEF Final
  <2>2. u \notin future /\ pc[u] = "callback"
    BY <2>1 DEF Settled, NoLostWakeup
  <2> QED
    BY <1>1, <2>1, <2>2
<1> QED
  BY <1>2, <1>5, <1>6 DEF Settled

(* What has been cancelled or ended is not started; what has not is not final. *)
LEMMA RunTaskSettles ==
    ASSUME TypeOK, Settled, NEW t \in Tasks, RunTask(t), pc[t] \in {"start", "dep"},
           UNCHANGED <<consumed, call>>
    PROVE  Settled'
<1>1. CASE End(t, "cancelled")
  BY <1>1, EndSettles DEF Terminal
<1>2. CASE ~End(t, "cancelled")
  <2>1. status[t] \notin Terminal
    BY <1>2 DEF RunTask, Settled, Unfinished, Terminal
  <2> QED
    BY <1>2, <2>1, MoveSettles DEF RunTask, PCs
<1> QED
  BY <1>1, <1>2

(* So with the loop over the dependencies. *)
LEMMA ProceedSettles ==
    ASSUME TypeOK, Settled, NEW t \in Tasks, NEW i \in Nat \ {0}, Proceed(t, i),
           pc[t] \in {"start", "dep"}, UNCHANGED <<consumed, call>>
    PROVE  Settled'
<1>1. CASE RunTask(t)
  BY <1>1, RunTaskSettles
<1>2. CASE End(t, "failed")
  BY <1>2, EndSettles DEF Terminal
<1>3. CASE ~RunTask(t) /\ ~End(t, "failed")
  BY <1>3, MoveSettles DEF Proceed, PCs
<1> QED
  BY <1>1, <1>2, <1>3

(* The tool calls: who goes to sleep has just collected everything there was. *)
LEMMA CallSettles ==
    ASSUME TypeOK, Settled, UNCHANGED <<status, pc, future>>, consumed \subseteq consumed',
           \A c \in Callers : call'[c] = "any" =>
               \/ Final \subseteq consumed
               \/ call[c] = "any" /\ (c \in woken => c \in woken')
    PROVE  Settled'
<1>1. Unfinished' /\ FutureIsFinal'
  BY DEF Settled, Unfinished, FutureIsFinal, Final
<1>2. NoLostWakeup'
  BY DEF Settled, NoLostWakeup, Final
<1> QED
  BY <1>1, <1>2 DEF Settled

(* Every step: one case per action. *)
LEMMA SettledStep ==
    ASSUME TypeOK, CallbackIsLast, QueuedIsWanted, Settled, [Next]_vars
    PROVE  Settled'
<1>0. /\ status \in [Tasks -> Statuses] /\ pc \in [Tasks -> PCs]
      /\ outcome \in [Tasks -> {"completed", "failed"}]
      /\ call \in [Callers -> {"free", "any", "all", "done"}]
  BY DEF TypeOK, Statuses, PCs
<1>1. ASSUME NEW t \in Tasks, Start(t) PROVE Settled'
  BY <1>1, ProceedSettles, MoveSettles DEF Start, PCs
<1>2. ASSUME NEW t \in Tasks, DepResolved(t) PROVE Settled'
  <2>1. idx[t] \in Nat \ {0}
    BY DEF TypeOK
  <2> QED
    BY <1>2, <2>1, ProceedSettles DEF DepResolved
<1>3. ASSUME NEW t \in Tasks, DepTimeout(t) \/ RunTimeout(t) PROVE Settled'
  BY <1>3, EndSettles DEF DepTimeout, RunTimeout, Terminal
<1>4. ASSUME NEW t \in Tasks, Granted(t) PROVE Settled'
  <2>1. status[t] \notin Terminal
    BY <1>4 DEF Granted, QueuedIsWanted, Settled, Unfinished, Terminal
  <2> QED
    BY <1>4, <2>1, MoveSettles DEF Granted, PCs, agent
<1>5. ASSUME NEW t \in Tasks, DelegateEnds(t) PROVE Settled'
  BY <1>5, MoveSettles DEF DelegateEnds, PCs, manager, agent
<1>6. ASSUME NEW t \in Tasks, Resume(t) PROVE Settled'
  <2>1. outcome[t] \in Terminal
    BY <1>0 DEF Terminal
  <2>2. CASE End(t, outcome[t])
    BY <1>6, <2>1, <2>2, EndSettles DEF Resume
  <2>3. CASE ~End(t, outcome[t])
    <3>1. /\ status' = [status EXCEPT ![t] = outcome[t]] /\ pc' = [pc EXCEPT ![t] = "callback"]
          /\ UNCHANGED <<future, woken, consumed, call>> /\ pc[t] = "ready"
      BY <1>6, <2>3 DEF Resume
    <3>2. Unfinished'
      BY <1>0, <3>1 DEF Settled, Unfinished
    <3>3. FutureIsFinal'
      BY <1>0, <2>1, <3>1 DEF Settled, FutureIsFinal, Final
    <3>4. NoLostWakeup'
      <4> SUFFICES ASSUME NEW c \in Callers, call[c] = "any", c \notin woken,
                          NEW u \in Final', u \notin consumed
                   PROVE  u \notin future /\ pc'[u] = "callback"
        BY <3>1 DEF NoLostWakeup
      <4>1. CASE u # t
        <5>1. u \in Final \ consumed
          BY <1>0, <3>1, <4>1 DEF Final
        <5> QED
          BY <1>0, <3>1, <4>1, <5>1 DEF Settled, NoLostWakeup, Final
      <4>2. CASE u = t
        <5>1. u \notin future
          BY <3>1, <4>2 DEF Settled, NoLostWakeup, FutureIsFinal
        <5> QED
          BY <1>0, <3>1, <4>2, <5>1
      <4> QED
        BY <4>1, <4>2
    <3> QED
      BY <3>2, <3>3, <3>4 DEF Settled
  <2> QED
    BY <2>2, <2>3
<1>7. ASSUME NEW t \in Tasks, CallbackEnds(t) PROVE Settled'
  BY <1>7, EndSettles DEF CallbackEnds, CallbackIsLast
<1>8. ASSUME NEW t \in Tasks, Interrupted(t) PROVE Settled'
  <2>1. CASE End(t, "cancelled")
    BY <1>8, <2>1, EndSettles DEF Interrupted, Terminal
  <2>2. CASE ~End(t, "cancelled")
    BY <1>8, <2>2, MoveSettles DEF Interrupted, PCs
  <2> QED
    BY <2>1, <2>2
<1>9. ASSUME NEW c \in Callers, NEW t \in Tasks, Spawn(c, t) PROVE Settled'
  <2>1. pc[t] = "absent"
    BY <1>9 DEF Spawn, TypeOK
  <2> QED
    BY <1>0, <1>9, <2>1, MoveSettles DEF Spawn, Return, PCs
<1>10. ASSUME NEW c \in Callers, NEW t \in Tasks, Cancel(c, t) PROVE Settled'
  <2>1. /\ status' = [status EXCEPT ![t] = "cancelled"] /\ UNCHANGED <<pc, consumed>>
        /\ future' = future \cup {t} /\ woken' = woken \cup {b \in Callers : call[b] = "any"}
        /\ call' = [call EXCEPT ![c] = "done"]
    BY <1>10 DEF Cancel, Resolve, Return
  <2>2. Unfinished' /\ FutureIsFinal'
    BY <1>0, <2>1 DEF Settled, Unfinished, FutureIsFinal, Final, Terminal
  <2>3. NoLostWakeup'
    BY <1>0, <2>1 DEF NoLostWakeup
  <2> QED
    BY <2>2, <2>3 DEF Settled
<1>11. ASSUME NEW c \in Callers, WaitAny(c) \/ WaitAll(c) PROVE Settled'
  <2>1. UNCHANGED <<status, pc, future, woken>> /\ consumed \subseteq consumed'
    BY <1>11 DEF WaitAny, WaitAll, Collect, HandOver, coroutines
  <2>2. ASSUME NEW b \in Callers, call'[b] = "any"
        PROVE  Final \subseteq consumed \/ call[b] = "any"
    BY <1>0, <1>11, <2>2 DEF WaitAny, WaitAll, Return, Fresh
  <2> QED
    BY <2>1, <2>2, CallSettles
<1>12. ASSUME NEW c \in Callers, Waiting(c) PROVE Settled'
  <2>1. UNCHANGED <<status, pc, future>> /\ consumed \subseteq consumed'
        /\ call' = [call EXCEPT ![c] = "done"] /\ woken \ {c} \subseteq woken'
    BY <1>12 DEF Waiting, WaitAnyReturns, WaitAllReturns, Collect, HandOver, Return, coroutines
  <2> QED
    BY <1>0, <2>1, CallSettles
<1>13. CASE Notify \/ EndRound
  <2>1. UNCHANGED <<status, pc, future>> /\ consumed \subseteq consumed'
        /\ \A c \in Callers : call'[c] # "any"
    BY <1>13 DEF Notify, EndRound, Collect, coroutines, manager
  <2> QED
    BY <2>1, CallSettles
<1>14. CASE UNCHANGED vars
  BY <1>14, CallSettles DEF vars, coroutines, manager, agent
<1> QED
  BY <1>1, <1>2, <1>3, <1>4, <1>5, <1>6, <1>7, <1>8, <1>9, <1>10, <1>11, <1>12, <1>13, <1>14
     DEF Next, Coroutine, Timers, Tool

(* What the theorems on results rest on. *)
Grounds == TypeOK /\ CallbackIsLast /\ QueuedIsWanted /\ Settled

(* Grounds holds from the start and is kept by every step. *)
LEMMA GroundsHold == (Init => Grounds) /\ (Grounds /\ [Next]_vars => Grounds')
<1>1. Init => Settled
  BY DEF Init, Settled, Unfinished, FutureIsFinal, NoLostWakeup
<1>2. Init => CallbackIsLast /\ QueuedIsWanted
  BY DEF Init, CallbackIsLast, QueuedIsWanted
<1> QED
  BY <1>1, <1>2, TypeInit, TypeStep, CallbackStep, CancelledStep, SettledStep DEF Grounds

(* Whoever waits for a future gets a final state, swallowed cancellations included. *)
THEOREM ResolvedIsFinal == Spec => []FutureIsFinal
<1>1. Grounds => FutureIsFinal
  BY DEF Grounds, Settled
<1> QED
  BY <1>1, GroundsHold, PTL DEF Spec

(* A wait_any that sleeps has missed no result: the event is cleared only after
   looking for results, and every final status but the one whose callback is still
   running comes with the event. *)
THEOREM WakeupsArrive == Spec => []NoLostWakeup
<1>1. Grounds => NoLostWakeup
  BY DEF Grounds, Settled
<1> QED
  BY <1>1, GroundsHold, PTL DEF Spec

(* What is marked consumed was shown in a final state, or given up by a wait_all. *)
ConsumedIsShown == consumed \subseteq shown \cup givenUp

(* Every step keeps it: a wait_all knows which of its tasks it returns unfinished. *)
LEMMA ConsumedStep ==
    ASSUME FutureIsFinal, ConsumedIsShown, [Next]_vars
    PROVE  ConsumedIsShown'
<1> USE DEF ConsumedIsShown
<1>1. ASSUME Collect, UNCHANGED givenUp PROVE ConsumedIsShown'
  BY <1>1 DEF Collect
<1>2. ASSUME NEW S, HandOver(S), givenUp \cup (S \ Final) \subseteq givenUp'
      PROVE  ConsumedIsShown'
  BY <1>2 DEF HandOver
<1>3. ASSUME NEW c \in Callers, WaitAny(c) \/ WaitAll(c) PROVE ConsumedIsShown'
  BY <1>1, <1>2, <1>3 DEF WaitAny, WaitAll, FutureIsFinal
<1>4. ASSUME NEW c \in Callers, Waiting(c) PROVE ConsumedIsShown'
  <2>1. CASE WaitAnyReturns(c)
    BY <1>1, <2>1 DEF WaitAnyReturns
  <2>2. CASE WaitAllReturns(c)
    <3>1. HandOver(ids[c]) /\ givenUp \cup (ids[c] \ Final) \subseteq givenUp'
      BY <2>2 DEF WaitAllReturns, FutureIsFinal
    <3> QED
      BY <1>2, <3>1
  <2> QED
    BY <1>4, <2>1, <2>2 DEF Waiting
<1>5. CASE Notify \/ EndRound
  BY <1>1, <1>5 DEF Notify, EndRound, manager
<1>6. ASSUME NEW t \in Tasks, Coroutine(t) \/ Timers(t) \/ DelegateEnds(t)
      PROVE  ConsumedIsShown'
  BY <1>6 DEF Coroutine, Timers, Start, DepResolved, Granted, Resume, CallbackEnds,
              Interrupted, DepTimeout, RunTimeout, DelegateEnds, manager
<1>7. ASSUME NEW c \in Callers, NEW t \in Tasks, Spawn(c, t) \/ Cancel(c, t)
      PROVE  ConsumedIsShown'
  BY <1>7 DEF Spawn, Cancel
<1>8. CASE UNCHANGED vars
  BY <1>8 DEF vars, manager
<1> HIDE DEF ConsumedIsShown
<1> QED
  BY <1>3, <1>4, <1>5, <1>6, <1>7, <1>8 DEF Next, Tool

(* The think() that follows is given every finished result but those an expired
   wait_all had returned unfinished. *)
THEOREM ResultsReachTheAgent == Spec => ResultsInjected
<1> DEFINE Given == phase = "think" /\ phase' = "act" => Final \subseteq shown' \cup givenUp
<1>1. Grounds /\ ConsumedIsShown /\ [Next]_vars => ConsumedIsShown'
  BY ConsumedStep DEF Grounds, Settled
<1>2. ASSUME ConsumedIsShown, [Next]_vars, phase = "think", phase' = "act"
      PROVE  Final \subseteq shown' \cup givenUp
  <2>1. ASSUME NEW t \in Tasks, Coroutine(t) \/ Timers(t) \/ DelegateEnds(t)
        PROVE  UNCHANGED phase
    BY <2>1 DEF Coroutine, Timers, Start, DepResolved, Granted, Resume, CallbackEnds,
                Interrupted, DepTimeout, RunTimeout, DelegateEnds, agent
  <2>2. ASSUME NEW c \in Callers, Tool(c) \/ Waiting(c) PROVE UNCHANGED phase
    BY <2>2 DEF Tool, Waiting, Spawn, Cancel, WaitAny, WaitAll, WaitAnyReturns, WaitAllReturns
  <2>3. Notify
    BY <1>2, <2>1, <2>2 DEF Next, EndRound, vars, agent
  <2> QED
    BY <1>2, <2>3 DEF Notify, Collect, Fresh, ConsumedIsShown
<1>3. ConsumedIsShown /\ [Next]_vars => [Given]_vars
  BY <1>2
<1>4. Init => ConsumedIsShown
  BY DEF Init, ConsumedIsShown
<1> QED
  BY <1>1, <1>3, <1>4, GroundsHold, PTL DEF Spec, ResultsInjected

-----------------------------------------------------------------------------
(* The task manager implements AsyncTaskLife.  The invariant ties the status of a task
   to the place of its coroutine (Fit), and says which dependencies it has already
   seen completed (Met).  A cancelled task whose cancellation was swallowed is still
   waiting for a dependency, and never gets further than that. *)
Waits == {"start", "dep", "sem"}
Runs  == {"run", "ready"}

Fit(t) ==
    /\ pc[t] \in Waits => status[t] \in {"pending", "cancelled"}
    /\ pc[t] \in Runs => status[t] \in {"running", "cancelled"}
    /\ pc[t] \in Waits \cup Runs /\ status[t] = "cancelled"
         => stop[t] \/ (pc[t] = "dep" /\ CancelMayBeSwallowed)
    /\ stop[t] => status[t] = "cancelled"
    /\ status[t] = "absent" <=> pc[t] = "absent"
    /\ status[t] = "pending" => pc[t] \in Waits
    /\ status[t] = "running" => pc[t] \in Runs
    /\ pc[t] = "callback" => status[t] \in {"completed", "failed"}

Met(t) ==
    /\ \A d \in known[t] : /\ status[d] # "absent"
                           /\ \E j \in DOMAIN deps[t] : deps[t][j] = d
    /\ pc[t] = "sem" /\ status[t] = "pending" => \A d \in known[t] : status[d] = "completed"
    /\ pc[t] = "dep" =>
          \A j \in DOMAIN deps[t] : j < idx[t] /\ deps[t][j] \in known[t]
                                        => status[deps[t][j]] = "completed"

Order == /\ \A t \in Tasks : Fit(t) /\ Met(t)
         /\ FutureIsFinal

(* A step of task t: nobody else moves, a completed task stays completed, and no
   task vanishes. *)
Moves(t) ==
    /\ \A u \in Tasks \ {t} : /\ status'[u] = status[u] /\ pc'[u] = pc[u]
                              /\ stop'[u] = stop[u] /\ idx'[u] = idx[u]
                              /\ deps'[u] = deps[u] /\ known'[u] = known[u]
    /\ status[t] # "absent" => status'[t] # "absent"
    /\ status[t] = "completed" => status'[t] = "completed"
    /\ future' \subseteq future \cup {t}
    /\ t \in future' => status'[t] \in Terminal

(* The others keep their part of the invariant. *)
LEMMA OthersKeepOrder ==
    ASSUME TypeOK, TypeOK', Order, NEW t \in Tasks, Moves(t), Fit(t)', Met(t)'
    PROVE  Order'
<1>1. \A d \in Tasks : /\ status[d] = "completed" => status'[d] = "completed"
                       /\ status[d] # "absent" => status'[d] # "absent"
  BY DEF Moves
<1>2. ASSUME NEW u \in Tasks, u # t PROVE Fit(u)'
  BY <1>2 DEF Order, Fit, Moves
<1>3. ASSUME NEW u \in Tasks, u # t PROVE Met(u)'
  <2>1. Met(u) /\ known[u] \subseteq Tasks /\ deps[u] \in Seq(Tasks)
    BY DEF Order, TypeOK
  <2>2. /\ known'[u] = known[u] /\ deps'[u] = deps[u] /\ pc'[u] = pc[u]
        /\ stop'[u] = stop[u] /\ idx'[u] = idx[u] /\ status'[u] = status[u]
    BY <1>3 DEF Moves
  <2>3. \A j \in DOMAIN deps[u] : deps[u][j] \in Tasks
    BY <2>1
  <2> QED
    BY <1>1, <2>1, <2>2, <2>3 DEF Met
<1>4. ASSUME NEW u \in future' PROVE u \in Final'
  <2>1. u \in future \cup {t} /\ future \subseteq Tasks
    BY DEF Moves, TypeOK
  <2>2. CASE u = t
    BY <2>2 DEF Moves, Final
  <2>3. CASE u # t
    BY <2>1, <2>3 DEF Moves, Order, FutureIsFinal, Final
  <2> QED
    BY <2>2, <2>3
<1> QED
  BY <1>2, <1>3, <1>4 DEF Order, FutureIsFinal

-----------------------------------------------------------------------------
(* What the pieces of a coroutine do *)

Bodies   == [t \in Tasks |-> Body(pc[t])]
Abstract == [Promise!Next]_<<status, known, Bodies>>

(* Only t's coroutine moves, and a cancellation on its way stays on its way or is
   delivered. *)
Alone(t) ==
    /\ stop \in [Tasks -> BOOLEAN] /\ stop' \in [Tasks -> BOOLEAN]
    /\ \A u \in Tasks \ {t} : stop'[u] = stop[u]
    /\ UNCHANGED <<deps, known>>

(* Where the program of a task is follows from where its coroutine is. *)
LEMMA BodyMoves ==
    ASSUME NEW t \in Tasks, NEW p \in PCs, pc \in [Tasks -> PCs], pc' = [pc EXCEPT ![t] = p]
    PROVE  Bodies' = [Bodies EXCEPT ![t] = Body(p)]
  BY DEF Bodies

(* A step that leaves the status and the program alone shows nothing to the outside. *)
LEMMA Silent ==
    ASSUME UNCHANGED <<status, known, Bodies>> PROVE Abstract
  BY DEF Abstract

(* What may become of the task when its coroutine ends with s. *)
MayEnd(t, s) ==
    /\ pc[t] \in Waits \cup Runs
    /\ status[t] = "cancelled" => s = "cancelled" \/ CancelMayBeSwallowed
    /\ pc[t] \in Waits => s # "completed"

(* The promise lets a task finish that way. *)
LEMMA FinishKeeps ==
    ASSUME TypeOK, NEW t \in Tasks, NEW s \in Terminal, MayEnd(t, s), NEW p \in {"callback", "done"},
           status' = [status EXCEPT ![t] = s], pc' = [pc EXCEPT ![t] = p], UNCHANGED known
    PROVE  Abstract
<1>1. Bodies' = [Bodies EXCEPT ![t] = "over"]
  BY BodyMoves DEF TypeOK, PCs, Body
<1>2. Bodies[t] = IF pc[t] \in Waits THEN "waiting" ELSE "running"
  BY DEF Bodies, Body, MayEnd, Waits, Runs
<1>3. s \in Promise!Outcomes(t)
  BY <1>2 DEF Promise!Outcomes, Promise!Terminal, Terminal, MayEnd, Bodies
<1>4. Promise!Finish(t)
  BY <1>1, <1>2, <1>3 DEF Promise!Finish, Bodies
<1> QED
  BY <1>4 DEF Abstract, Promise!Next

(* The coroutine ends: its task finishes, or had finished before. *)
LEMMA EndKeeps ==
    ASSUME TypeOK, TypeOK', Order, NEW t \in Tasks, NEW s \in Terminal,
           End(t, s), Alone(t), ~stop'[t],
           \/ status[t] = s /\ pc[t] = "callback"
           \/ MayEnd(t, s)
    PROVE  Order' /\ Abstract
<1>1. /\ status \in [Tasks -> Statuses] /\ pc \in [Tasks -> PCs]
      /\ idx \in [Tasks -> Nat \ {0}]
  BY DEF TypeOK, Statuses, PCs
<1>2. /\ status' = [status EXCEPT ![t] = s] /\ pc' = [pc EXCEPT ![t] = "done"]
      /\ idx' = [idx EXCEPT ![t] = 1] /\ future' = future \cup {t}
  BY DEF End, Resolve
<1>3. Moves(t)
  <2>1. status[t] = "completed" => s = "completed"
    BY DEF Order, Fit, MayEnd
  <2> QED
    BY <1>1, <1>2, <2>1 DEF Moves, Alone, Terminal
<1>4. Fit(t)'
  BY <1>1, <1>2 DEF Fit, Terminal, Waits, Runs
<1>5. Met(t)'
  <2>1. Met(t) /\ known[t] \subseteq Tasks /\ known'[t] = known[t] /\ deps'[t] = deps[t]
    BY DEF Order, Alone, TypeOK
  <2>2. pc'[t] = "done" /\ \A d \in Tasks : status[d] # "absent" => status'[d] # "absent"
    BY <1>1, <1>2 DEF Terminal
  <2> QED
    BY <2>1, <2>2 DEF Met
<1>6. Abstract
  <2>1. CASE status[t] = s /\ pc[t] = "callback"
    <3>1. Bodies' = [Bodies EXCEPT ![t] = "over"] /\ Bodies[t] = "over"
      BY <1>1, <1>2, <2>1, BodyMoves DEF PCs, Body, Bodies
    <3>2. UNCHANGED <<status, known>>
      BY <1>1, <1>2, <2>1 DEF Alone
    <3>3. UNCHANGED Bodies
      BY <3>1 DEF Bodies
    <3> QED
      BY <3>2, <3>3, Silent
  <2>2. CASE MayEnd(t, s)
    BY <1>2, <2>2, FinishKeeps DEF Alone
  <2> QED
    BY <2>1, <2>2
<1> QED
  BY <1>3, <1>4, <1>5, <1>6, OthersKeepOrder

(* delegate starts: the promise lets it, because nobody runs without a permit. *)
LEMMA BeginKeeps ==
    ASSUME TypeOK, TypeOK', Order, NEW t \in Tasks, Alone(t), UNCHANGED future,
           status[t] = "pending", Permit, ~stop'[t],
           \A d \in known[t] : status[d] = "completed",
           status' = [status EXCEPT ![t] = "running"], pc' = [pc EXCEPT ![t] = "run"],
           \A u \in Tasks \ {t} : idx'[u] = idx[u]
    PROVE  Order' /\ Abstract
<1>1. /\ status \in [Tasks -> Statuses] /\ pc \in [Tasks -> PCs]
  BY DEF TypeOK, Statuses, PCs
<1>2. t \notin future
  BY DEF Order, FutureIsFinal, Final, Terminal
<1>3. Moves(t)
  BY <1>1, <1>2 DEF Moves, Alone
<1>4. Fit(t)'
  BY <1>1 DEF Fit, Waits, Runs
<1>5. Met(t)'
  <2>1. Met(t) /\ known[t] \subseteq Tasks /\ known'[t] = known[t] /\ deps'[t] = deps[t]
    BY DEF Order, Alone, TypeOK
  <2>2. pc'[t] = "run" /\ \A d \in Tasks : status[d] # "absent" => status'[d] # "absent"
    BY <1>1
  <2> QED
    BY <2>1, <2>2 DEF Met
<1>6. Cardinality(Promise!Running) < MaxConcurrent
  <2>1. Promise!Running \subseteq Holders
    BY <1>1 DEF Promise!Running, Holders, Body, PCs
  <2>2. IsFiniteSet(Holders)
    BY ConstantsAssumption, FS_Subset DEF Holders
  <2>3. /\ Cardinality(Promise!Running) <= Cardinality(Holders)
        /\ Cardinality(Promise!Running) \in Nat /\ Cardinality(Holders) \in Nat
    BY <2>1, <2>2, FS_Subset, FS_CardinalityType
  <2> QED
    BY <2>3, ConstantsAssumption DEF Permit
<1>7. Promise!Begin(t)
  <2>1. Promise!Cardinality(Promise!Running) = Cardinality(Promise!Running)
    BY DEF Promise!Cardinality, Cardinality
  <2>2. Bodies' = [Bodies EXCEPT ![t] = "running"] /\ Bodies[t] = "waiting"
    BY <1>1, BodyMoves DEF PCs, Body, Bodies, Order, Fit, Waits
  <2> QED
    BY <1>6, <2>1, <2>2 DEF Promise!Begin, Alone, Bodies
<1> QED
  BY <1>3, <1>4, <1>5, <1>7, OthersKeepOrder DEF Abstract, Promise!Next

(* The coroutine goes to another place in the same stretch of its life. *)
LEMMA PlaceKeeps ==
    ASSUME TypeOK, TypeOK', Order, NEW t \in Tasks, Alone(t), UNCHANGED <<status, future>>,
           NEW p \in PCs, pc' = [pc EXCEPT ![t] = p], Body(p) = Body(pc[t]),
           \A u \in Tasks \ {t} : idx'[u] = idx[u],
           Fit(t)', Met(t)'
    PROVE  Order' /\ Abstract
<1>1. t \in future' => status'[t] \in Terminal
  BY DEF Order, FutureIsFinal, Final
<1>2. pc \in [Tasks -> PCs]
  BY DEF TypeOK, PCs
<1>3. Moves(t)
  BY <1>1, <1>2 DEF Moves, Alone
<1>4. Bodies' = [Bodies EXCEPT ![t] = Body(p)] /\ Bodies[t] = Body(p)
  BY <1>2, BodyMoves DEF Bodies
<1>5. UNCHANGED Bodies
  BY <1>4 DEF Bodies
<1> QED
  BY <1>3, <1>5, OthersKeepOrder, Silent DEF Alone

(* A cancelled coroutine ends without doing anything more. *)
LEMMA QuitKeeps ==
    ASSUME TypeOK, TypeOK', Order, NEW t \in Tasks, Alone(t), UNCHANGED <<status, future, idx>>,
           status[t] = "cancelled", pc[t] \in Waits, pc' = [pc EXCEPT ![t] = "done"]
    PROVE  Order' /\ Abstract
<1>1. status \in [Tasks -> Statuses] /\ pc \in [Tasks -> PCs]
  BY DEF TypeOK, Statuses, PCs
<1>2. Moves(t)
  BY <1>1 DEF Moves, Alone, Terminal
<1>3. Fit(t)' /\ Met(t)'
  BY <1>1 DEF Order, Fit, Met, Alone, Waits, Runs
<1>4. Abstract
  <2>1. status' = [status EXCEPT ![t] = "cancelled"] /\ MayEnd(t, "cancelled")
    BY <1>1 DEF MayEnd
  <2> QED
    BY <2>1, FinishKeeps DEF Alone, Terminal
<1> QED
  BY <1>2, <1>3, <1>4, OthersKeepOrder

(* Past its dependencies the coroutine starts delegate or queues for a permit. *)
LEMMA RunTaskKeeps ==
    ASSUME TypeOK, TypeOK', Order, NEW t \in Tasks, RunTask(t), Alone(t),
           pc[t] \in {"start", "dep"}, ~stop'[t],
           \A d \in known[t] : status[d] = "completed"
    PROVE  Order' /\ Abstract
<1>1. /\ status \in [Tasks -> Statuses] /\ pc \in [Tasks -> PCs]
      /\ idx \in [Tasks -> Nat \ {0}] /\ status[t] \in {"pending", "cancelled"}
  BY DEF TypeOK, Statuses, PCs, Order, Fit, Waits
<1>2. CASE status[t] = "pending" /\ Permit /\ queue = <<>>
  BY <1>1, <1>2, BeginKeeps DEF RunTask
<1>3. CASE status[t] = "pending" /\ ~(Permit /\ queue = <<>>)
  <2>1. /\ pc' = [pc EXCEPT ![t] = "sem"] /\ idx' = [idx EXCEPT ![t] = 1]
        /\ UNCHANGED <<status, future>>
    BY <1>1, <1>3 DEF RunTask
  <2>2. Fit(t)'
    BY <1>1, <1>3, <2>1 DEF Fit, Waits, Runs
  <2>3. Met(t)'
    BY <1>1, <2>1 DEF Met, Order, Alone
  <2>4. Body("sem") = Body(pc[t]) /\ "sem" \in PCs
    BY DEF Body, PCs
  <2> QED
    BY <1>1, <2>1, <2>2, <2>3, <2>4, PlaceKeeps
<1>4. CASE status[t] = "cancelled"
  <2>1. End(t, "cancelled") /\ MayEnd(t, "cancelled")
    BY <1>4 DEF RunTask, MayEnd, Waits
  <2> QED
    BY <2>1, EndKeeps DEF Terminal
<1> QED
  BY <1>1, <1>2, <1>3, <1>4

(* The loop over the dependencies passes over none that it knows and that has not
   completed. *)
LEMMA ProceedKeeps ==
    ASSUME TypeOK, TypeOK', Order, NEW t \in Tasks, NEW i \in Nat \ {0},
           Proceed(t, i), Alone(t), pc[t] \in {"start", "dep"}, ~stop'[t],
           status[t] = "cancelled" => CancelMayBeSwallowed,
           \A j \in DOMAIN deps[t] :
               j < i /\ deps[t][j] \in known[t] => status[deps[t][j]] = "completed"
    PROVE  Order' /\ Abstract
<1>1. /\ status \in [Tasks -> Statuses] /\ pc \in [Tasks -> PCs]
      /\ idx \in [Tasks -> Nat \ {0}] /\ status[t] \in {"pending", "cancelled"}
  BY DEF TypeOK, Statuses, PCs, Order, Fit, Waits
<1>2. /\ deps[t] \in Seq(Tasks) /\ known[t] \subseteq Tasks /\ Met(t)
  BY DEF TypeOK, Order
<1>3. ASSUME NEW j \in DOMAIN deps[t], j \notin Unmet(t, i), deps[t][j] \in known[t]
      PROVE  status[deps[t][j]] = "completed"
  <2>1. CASE j < i
    BY <1>3, <2>1
  <2>2. CASE ~(j < i)
    <3>1. j \in i..Len(deps[t])
      BY <1>2, <2>2
    <3>2. ~Bad(deps[t][j])
      BY <1>3, <3>1 DEF Unmet
    <3> QED
      BY <1>2, <1>3, <3>2 DEF Bad, Spawned, Met
  <2> QED
    BY <2>1, <2>2
<1>4. CASE Unmet(t, i) = {} /\ RunTask(t)
  <2>1. \A d \in known[t] : status[d] = "completed"
    BY <1>2, <1>3, <1>4 DEF Met
  <2> QED
    BY <1>4, <2>1, RunTaskKeeps
<1>5. CASE End(t, "failed")
  BY <1>1, <1>5, EndKeeps DEF Terminal, MayEnd, Waits
<1>6. ASSUME NEW j \in Unmet(t, i), \A k \in Unmet(t, i) : j <= k,
             pc' = [pc EXCEPT ![t] = "dep"], idx' = [idx EXCEPT ![t] = j],
             UNCHANGED <<status, queue, future, woken>>
      PROVE  Order' /\ Abstract
  <2>1. Fit(t)'
    BY <1>1, <1>6 DEF Fit, Waits, Runs
  <2>2. \A k \in DOMAIN deps[t] : k < j /\ deps[t][k] \in known[t]
                                       => status[deps[t][k]] = "completed"
    <3> SUFFICES ASSUME NEW k \in DOMAIN deps[t], k < j, deps[t][k] \in known[t]
                 PROVE  status[deps[t][k]] = "completed"
      OBVIOUS
    <3>1. j \in Nat /\ k \in Nat
      BY <1>2 DEF Unmet
    <3>2. k \notin Unmet(t, i)
      BY <1>6, <3>1
    <3> QED
      BY <1>3, <3>2
  <2>3. /\ deps'[t] = deps[t] /\ known'[t] = known[t] /\ idx'[t] = j /\ pc'[t] = "dep"
    BY <1>1, <1>6 DEF Alone
  <2>4. Met(t)'
    BY <1>2, <1>6, <2>2, <2>3 DEF Met
  <2>5. Body("dep") = Body(pc[t]) /\ "dep" \in PCs
    BY DEF Body, PCs
  <2> QED
    BY <1>1, <1>6, <2>1, <2>4, <2>5, PlaceKeeps
<1> QED
  BY <1>4, <1>5, <1>6 DEF Proceed

-----------------------------------------------------------------------------
(* Every step of a coroutine, a timer, delegate or the agent. *)
LEMMA OrderStep ==
    ASSUME TypeOK, TypeOK', Order, [Next]_vars
    PROVE  Order' /\ Abstract
<1>0. /\ status \in [Tasks -> Statuses] /\ pc \in [Tasks -> PCs]
      /\ idx \in [Tasks -> Nat \ {0}] /\ stop \in [Tasks -> BOOLEAN]
      /\ stop' \in [Tasks -> BOOLEAN] /\ outcome \in [Tasks -> {"completed", "failed"}]
      /\ \A t \in Tasks : Fit(t) /\ Met(t)
      /\ \A t \in Tasks : Passes(t) /\ status[t] = "cancelled" /\ pc[t] \in Waits \cup Runs
                            => CancelMayBeSwallowed
  BY DEF TypeOK, Statuses, PCs, Order, Passes, Fit
<1>1. ASSUME NEW t \in Tasks, Start(t) PROVE Order' /\ Abstract
  <2>1. Alone(t)
    BY <1>0, <1>1 DEF Start, Alone
  <2>2. CASE stop[t]
    <3>1. pc' = [pc EXCEPT ![t] = "done"] /\ UNCHANGED <<status, idx, stop, future>>
      BY <1>1, <2>2 DEF Start
    <3>2. status[t] = "cancelled" /\ pc[t] \in Waits
      BY <1>0, <1>1, <2>2 DEF Start, Fit, Waits
    <3> QED
      BY <2>1, <3>1, <3>2, QuitKeeps
  <2>3. CASE ~stop[t]
    <3>1. Proceed(t, 1) /\ pc[t] = "start" /\ ~stop'[t]
      BY <1>1, <2>3 DEF Start
    <3>2. status[t] # "cancelled"
      BY <1>0, <2>3, <3>1 DEF Fit, Waits
    <3>3. \A j \in DOMAIN deps[t] : ~(j < 1)
      BY DEF TypeOK
    <3> QED
      BY <2>1, <3>1, <3>2, <3>3, ProceedKeeps
  <2> QED
    BY <2>2, <2>3
<1>2. ASSUME NEW t \in Tasks, DepResolved(t) PROVE Order' /\ Abstract
  <2>1. Alone(t) /\ ~stop'[t]
    BY <1>0, <1>2 DEF DepResolved, Calm, Alone
  <2>2. status[t] = "cancelled" => CancelMayBeSwallowed
    BY <1>0, <1>2 DEF DepResolved, Waits
  <2>3. Proceed(t, idx[t]) /\ pc[t] = "dep" /\ idx[t] \in Nat \ {0} /\ Met(t)
    BY <1>0, <1>2 DEF DepResolved
  <2> QED
    BY <2>1, <2>2, <2>3, ProceedKeeps DEF Met
<1>3. ASSUME NEW t \in Tasks, DepTimeout(t) \/ RunTimeout(t) PROVE Order' /\ Abstract
  <2>1. Alone(t) /\ End(t, "timeout") /\ ~stop'[t]
    BY <1>0, <1>3 DEF DepTimeout, RunTimeout, Alone
  <2>2. MayEnd(t, "timeout")
    BY <1>0, <1>3 DEF DepTimeout, RunTimeout, Fit, Waits, Runs, MayEnd
  <2> QED
    BY <2>1, <2>2, EndKeeps DEF Terminal
<1>4. ASSUME NEW t \in Tasks, Granted(t) PROVE Order' /\ Abstract
  BY <1>0, <1>4, BeginKeeps DEF Granted, Alone, agent, Fit, Met, Waits
<1>5. ASSUME NEW t \in Tasks, DelegateEnds(t) PROVE Order' /\ Abstract
  <2>1. Alone(t) /\ UNCHANGED <<status, future, idx>> /\ pc' = [pc EXCEPT ![t] = "ready"]
    BY <1>0, <1>5 DEF DelegateEnds, Alone, manager
  <2>2. Fit(t)' /\ Met(t)'
    BY <1>0, <1>5, <2>1 DEF DelegateEnds, Fit, Met, Waits, Runs, manager
  <2>3. Body("ready") = Body(pc[t]) /\ "ready" \in PCs
    BY <1>5 DEF DelegateEnds, Body, PCs
  <2> QED
    BY <2>1, <2>2, <2>3, PlaceKeeps
<1>6. ASSUME NEW t \in Tasks, Resume(t) PROVE Order' /\ Abstract
  <2>1. Alone(t) /\ ~stop'[t]
    BY <1>0, <1>6 DEF Resume, Calm, Alone
  <2>2. outcome[t] \in Terminal /\ MayEnd(t, outcome[t])
    BY <1>0, <1>6 DEF Resume, MayEnd, Waits, Runs, Terminal
  <2>3. CASE End(t, outcome[t])
    BY <2>1, <2>2, <2>3, EndKeeps
  <2>4. CASE ~End(t, outcome[t])
    <3>1. /\ status' = [status EXCEPT ![t] = outcome[t]] /\ pc' = [pc EXCEPT ![t] = "callback"]
          /\ UNCHANGED <<idx, future>>
      BY <1>6, <2>4 DEF Resume
    <3>2. outcome[t] \in {"completed", "failed"} /\ status[t] \in {"running", "cancelled"}
      BY <1>0, <1>6 DEF Resume, Fit, Runs
    <3>3. Moves(t)
      BY <1>0, <2>1, <3>1, <3>2 DEF Moves, Alone, Terminal
    <3>4. Fit(t)'
      BY <1>0, <2>1, <3>1, <3>2 DEF Fit, Waits, Runs
    <3>5. Met(t)'
      <4>1. Met(t) /\ known[t] \subseteq Tasks /\ known'[t] = known[t] /\ deps'[t] = deps[t]
        BY <2>1 DEF Order, Alone, TypeOK
      <4>2. pc'[t] = "callback" /\ \A d \in Tasks : status[d] # "absent" => status'[d] # "absent"
        BY <1>0, <3>1, <3>2
      <4> QED
        BY <4>1, <4>2 DEF Met
    <3>6. Abstract
      BY <2>1, <2>2, <3>1, FinishKeeps DEF Alone
    <3> QED
      BY <3>3, <3>4, <3>5, <3>6, OthersKeepOrder
  <2> QED
    BY <2>3, <2>4
<1>7. ASSUME NEW t \in Tasks, CallbackEnds(t) PROVE Order' /\ Abstract
  <2>1. /\ Alone(t) /\ End(t, status[t]) /\ status[t] \in Terminal /\ ~stop'[t]
        /\ pc[t] = "callback"
    BY <1>0, <1>7 DEF CallbackEnds, Alone, Fit, Terminal
  <2> QED
    BY <2>1, EndKeeps
<1>8. ASSUME NEW t \in Tasks, Interrupted(t) PROVE Order' /\ Abstract
  <2>1. Alone(t) /\ ~stop'[t] /\ status[t] = "cancelled"
    BY <1>0, <1>8 DEF Interrupted, Calm, Alone, Fit
  <2>2. CASE End(t, "cancelled")
    <3>1. MayEnd(t, "cancelled")
      BY <1>8 DEF Interrupted, MayEnd, Waits, Runs
    <3> QED
      BY <2>1, <2>2, <3>1, EndKeeps DEF Terminal
  <2>3. CASE ~End(t, "cancelled")
    <3>1. /\ pc[t] = "sem" /\ pc' = [pc EXCEPT ![t] = "done"]
          /\ UNCHANGED <<status, idx, future>>
      BY <1>8, <2>3 DEF Interrupted
    <3> QED
      BY <2>1, <3>1, QuitKeeps DEF Waits
  <2> QED
    BY <2>2, <2>3
<1>9. ASSUME NEW c \in Callers, NEW t \in Tasks, Spawn(c, t) PROVE Order' /\ Abstract
  <2>1. PICK d \in DepLists(t) : /\ deps' = [deps EXCEPT ![t] = d]
                                 /\ known' = [known EXCEPT ![t] = ToSet(d) \cap Spawned]
    BY <1>9 DEF Spawn
  <2>2. /\ status' = [status EXCEPT ![t] = "pending"] /\ pc' = [pc EXCEPT ![t] = "start"]
        /\ status[t] = "absent" /\ UNCHANGED <<idx, stop, future>>
    BY <1>9 DEF Spawn
  <2>3. /\ deps \in [Tasks -> Seq(Tasks)] /\ known \in [Tasks -> SUBSET Tasks]
        /\ t \notin future
    BY <2>2 DEF TypeOK, Order, FutureIsFinal, Final, Terminal
  <2>4. Moves(t)
    BY <1>0, <2>1, <2>2, <2>3 DEF Moves
  <2>5. Fit(t)'
    BY <1>0, <2>2 DEF Fit, Waits, Runs
  <2>6. Met(t)'
    <3>1. /\ deps'[t] = d /\ known'[t] = ToSet(d) \cap Spawned /\ pc'[t] = "start"
      BY <1>0, <2>1, <2>2, <2>3
    <3>2. \A e \in ToSet(d) : \E j \in DOMAIN d : d[j] = e
      BY DEF ToSet
    <3>3. \A e \in Spawned : status'[e] # "absent"
      BY <1>0, <2>2 DEF Spawned
    <3> QED
      BY <3>1, <3>2, <3>3 DEF Met
  <2>7. Promise!Submit(t)
    <3>1. ToSet(d) \cap Spawned \in SUBSET Promise!Submitted
      BY DEF Promise!Submitted, Spawned
    <3>2. Bodies' = [Bodies EXCEPT ![t] = "waiting"]
      BY <1>0, <2>2, BodyMoves DEF Body, PCs
    <3> QED
      BY <2>1, <2>2, <3>1, <3>2 DEF Promise!Submit, Bodies
  <2> QED
    BY <2>4, <2>5, <2>6, <2>7, OthersKeepOrder DEF Abstract, Promise!Next
<1>10. ASSUME NEW c \in Callers, NEW t \in Tasks, Cancel(c, t) PROVE Order' /\ Abstract
  <2>1. /\ status' = [status EXCEPT ![t] = "cancelled"] /\ stop' = [stop EXCEPT ![t] = TRUE]
        /\ future' = future \cup {t} /\ UNCHANGED <<pc, idx, deps, known>>
        /\ status[t] = "pending" \/ status[t] = "running"
    BY <1>0, <1>10 DEF Cancel, Resolve, Spawned, Final, Statuses
  <2>2. Moves(t)
    BY <1>0, <2>1 DEF Moves, Terminal
  <2>3. Fit(t)' /\ Met(t)'
    BY <1>0, <2>1 DEF Fit, Met, Waits, Runs
  <2>4. UNCHANGED Bodies
    BY <2>1 DEF Bodies
  <2>5. Promise!Cancel(t)
    BY <2>1, <2>4 DEF Promise!Cancel, Bodies
  <2> QED
    BY <2>2, <2>3, <2>5, OthersKeepOrder DEF Abstract, Promise!Next
<1>11. ASSUME UNCHANGED <<coroutines, status, deps, known, future>> PROVE Order' /\ Abstract
  BY <1>11, Silent DEF coroutines, Order, Fit, Met, FutureIsFinal, Final, Bodies
<1>12. ASSUME NEW c \in Callers, WaitAny(c) \/ WaitAll(c) \/ Waiting(c)
       PROVE  UNCHANGED <<coroutines, status, deps, known, future>>
  BY <1>12 DEF WaitAny, WaitAll, Waiting, WaitAnyReturns, WaitAllReturns
<1>13. CASE Notify \/ EndRound \/ UNCHANGED vars
  BY <1>11, <1>13 DEF Notify, EndRound, vars, manager
<1> QED
  BY <1>1, <1>2, <1>3, <1>4, <1>5, <1>6, <1>7, <1>8, <1>9, <1>10, <1>11, <1>12, <1>13
     DEF Next, Coroutine, Timers, Tool

(* The invariant and the promise start together. *)
LEMMA OrderInit == Init => Order /\ Promise!Init
  BY DEF Init, Order, Fit, Met, FutureIsFinal, Final, Promise!Init, Waits, Runs, Body

(* The manager implements what the documentation promises of a task: one final
   status, no start before the dependencies it knew have completed, and never more
   than MaxConcurrent running. *)
THEOREM ImplementsPromise == Spec => KeepsPromise
<1>1. TypeOK /\ TypeOK' /\ Order /\ [Next]_vars => Order' /\ Abstract
  BY OrderStep
<1> QED
  BY <1>1, OrderInit, TypeCorrect, PTL DEF Spec, KeepsPromise, Promise!Spec, Abstract, Bodies
=============================================================================
