------------------------- MODULE DeployLeaseProofs -------------------------
(***************************************************************************)
(* Proofs about DeployLease, for any set of brokers and requests and any    *)
(* number of faults.                                                        *)
(***************************************************************************)
EXTENDS DeployLease, FiniteSetTheorems, TLAPS

-----------------------------------------------------------------------------
(* Types *)

(* Removing an element keeps a sequence over the same set. *)
LEMMA RemoveAtType ==
    ASSUME NEW S, NEW q \in Seq(S), NEW i \in DOMAIN q
    PROVE  RemoveAt(q, i) \in Seq(S)
  BY DEF RemoveAt

(* cancel_ordinary leaves a queue of requests. *)
LEMMA UnqueueType ==
    ASSUME FilesOK, NEW r, Unqueue(r)
    PROVE  waiters' \in Seq(Requests \cup {Torn})
  BY RemoveAtType DEF Unqueue, FilesOK

(* A readable queue names requests only. *)
LEMMA ReadableWaiters ==
    ASSUME FilesOK, WaitersReadable
    PROVE  ToSet(waiters) \subseteq Requests
  BY DEF FilesOK, WaitersReadable, ToSet

(* The three ways a process moves keep the types of its local state. *)
LEMMA GotoType ==
    ASSUME ProcsOK, NEW b \in Brokers, NEW p, Goto(b, p),
           p \in {"down", "idle"} \cup DispatchPcs \cup FinishPcs \cup RecoverPcs
    PROVE  ProcsOK'
  BY DEF Goto, ProcsOK

(* The same for a process that ends. *)
LEMMA ExitType ==
    ASSUME ProcsOK, NEW b \in Brokers, NEW p, Exit(b, p),
           p \in {"down", "idle"} \cup DispatchPcs \cup FinishPcs \cup RecoverPcs
    PROVE  ProcsOK'
  BY DEF Exit, ProcsOK, NoHandle, Pending, Handle

(* The same for the end of finish_transaction, by success or by exception. *)
LEMMA FinishType ==
    ASSUME ProcsOK, NEW b \in Brokers, FinishRaises(b) \/ FinishReturns(b)
    PROVE  ProcsOK'
  BY GotoType, ExitType DEF FinishRaises, FinishReturns, DispatchPcs, RecoverPcs

(* A coordinator always works for a request, so nothing but request ids reaches
   the files and units it writes. *)
LEMMA FilesStep == TypeOK /\ JobsAreTyped /\ Next => FilesOK'
<1> SUFFICES ASSUME TypeOK, JobsAreTyped, Next PROVE FilesOK'
  OBVIOUS
<1> USE ConstantsAssumption DEF TypeOK, FilesOK, files
<1>1. ASSUME NEW b \in Brokers, NEW r \in Requests, Publish(b, r) PROVE FilesOK'
  BY <1>1 DEF Publish
<1>2. ASSUME NEW b \in Brokers, Enqueue(b) PROVE FilesOK'
  BY <1>2 DEF Enqueue, JobsAreTyped, InDispatch, DispatchPcs
<1>3. ASSUME NEW b \in Brokers, AcquireOrdinary(b) PROVE FilesOK'
  BY <1>3
     DEF AcquireOrdinary, JobsAreTyped, InDispatch, DispatchPcs, CanAcquire, LowestFree,
         FreeSlots
<1>4. ASSUME NEW b \in Brokers, OrdinaryTimeout(b) PROVE FilesOK'
  BY <1>4, UnqueueType DEF OrdinaryTimeout
<1>5. ASSUME NEW b \in Brokers, Announce(b) PROVE FilesOK'
  BY <1>5 DEF Announce, JobsAreTyped, InDispatch, DispatchPcs
<1>6. ASSUME NEW b \in Brokers, AcquireExclusive(b) PROVE FilesOK'
  BY <1>6 DEF AcquireExclusive, JobsAreTyped, InDispatch, DispatchPcs, CanExclude, Slots
<1>7. ASSUME NEW b \in Brokers, ExclusiveGivesUp(b) PROVE FilesOK'
  BY <1>7 DEF ExclusiveGivesUp
<1>8. ASSUME NEW b \in Brokers, Clean(b) PROVE FilesOK'
  BY <1>8 DEF Clean
<1>9. ASSUME NEW b \in Brokers, ReapOrCleanFails(b) PROVE FilesOK'
  BY <1>9 DEF ReapOrCleanFails
<1>10. ASSUME NEW b \in Brokers, Release(b) PROVE FilesOK'
  BY <1>10 DEF Release, Slots
<1>11. ASSUME NEW b \in Brokers, DropWaiter(b) PROVE FilesOK'
  BY <1>11, UnqueueType DEF DropWaiter
<1>12. ASSUME NEW b \in Brokers, DropClean(b) PROVE FilesOK'
  BY <1>12 DEF DropClean
<1>13. ASSUME NEW b \in Brokers, CheckWriter(b) PROVE FilesOK'
  BY <1>13 DEF CheckWriter
<1>14. ASSUME NEW b \in Brokers, CancelWriter(b) PROVE FilesOK'
  BY <1>14 DEF CancelWriter
<1>15. ASSUME NEW b \in Brokers, NextWaiter(b) PROVE FilesOK'
  BY <1>15 DEF NextWaiter
<1>16. ASSUME NEW b \in Brokers, UnlinkWaiter(b) PROVE FilesOK'
  BY <1>16, UnqueueType DEF UnlinkWaiter
<1>17. ASSUME NEW b \in Brokers, CrashInSection(b) PROVE FilesOK'
  <2>0. UNCHANGED requests
    BY <1>17 DEF CrashInSection
  <2>1. CASE HalfEnqueue(b)
    BY <2>0, <2>1 DEF HalfEnqueue
  <2>2. CASE HalfAcquire(b)
    BY <2>0, <2>2 DEF HalfAcquire, CanAcquire, JobsAreTyped, InDispatch, DispatchPcs
  <2>3. CASE HalfAnnounce(b)
    BY <2>0, <2>3 DEF HalfAnnounce
  <2>4. CASE HalfExclude(b)
    BY <2>0, <2>4 DEF HalfExclude, CanExclude, JobsAreTyped, InDispatch, DispatchPcs
  <2>5. CASE HalfRelease(b)
    BY <2>0, <2>5 DEF HalfRelease, Slots
  <2> QED
    BY <1>17, <2>1, <2>2, <2>3, <2>4, <2>5 DEF CrashInSection, HalfDone
<1>18. CASE UNCHANGED files
  BY <1>18
<1>19. QED
  BY <1>1, <1>2, <1>3, <1>4, <1>5, <1>6, <1>7, <1>8, <1>9, <1>10, <1>11, <1>12, <1>13,
     <1>14, <1>15, <1>16, <1>17, <1>18
     DEF Next, Ordinary, Exclusive, Finish, Recover, GiveUp, Failing, UnitStep,
     AcquireRaises, StartUnit, StartRaises, PhaseStarts, PhasesSealed, PhasesRaise, Reap,
        Succeed, Fail, Restart, ScanLeases, NextLease, ScanWaiters, Crash, UnitReads,
        UnitSucceeds, UnitFails, PhaseEnds

(* The units, the execution history and the status files keep their types. *)
LEMMA UnitsStep == TypeOK /\ JobsAreTyped /\ Next => UnitsOK'
<1> SUFFICES ASSUME TypeOK, JobsAreTyped, Next PROVE UnitsOK'
  OBVIOUS
<1> USE ConstantsAssumption DEF TypeOK, UnitsOK, units
<1>1. ASSUME NEW b \in Brokers, NEW r \in Requests, Publish(b, r) PROVE UnitsOK'
  BY <1>1 DEF Publish
<1>2. ASSUME NEW b \in Brokers, StartUnit(b) PROVE UnitsOK'
  BY <1>2 DEF StartUnit
<1>3. ASSUME NEW b \in Brokers, PhaseStarts(b) PROVE UnitsOK'
  BY <1>3 DEF PhaseStarts, JobsAreTyped, InDispatch, DispatchPcs
<1>4. ASSUME NEW b \in Brokers, PhasesSealed(b) PROVE UnitsOK'
  BY <1>4 DEF PhasesSealed, JobsAreTyped, InDispatch, DispatchPcs
<1>5. ASSUME NEW b \in Brokers, Reap(b) PROVE UnitsOK'
  BY <1>5 DEF Reap
<1>6. ASSUME NEW b \in Brokers, Succeed(b) PROVE UnitsOK'
  BY <1>6 DEF Succeed
<1>7. ASSUME NEW b \in Brokers, Fail(b) PROVE UnitsOK'
  BY <1>7 DEF Fail
<1>8. ASSUME NEW s \in Slots, UnitReads(s) PROVE UnitsOK'
  BY <1>8 DEF UnitReads, FilesOK
<1>9. ASSUME NEW s \in Slots, UnitSucceeds(s) PROVE UnitsOK'
  BY <1>9 DEF UnitSucceeds
<1>10. ASSUME NEW s \in Slots, UnitFails(s) PROVE UnitsOK'
  BY <1>10 DEF UnitFails
<1>11. ASSUME NEW r \in Requests, PhaseEnds(r) PROVE UnitsOK'
  BY <1>11 DEF PhaseEnds
<1>12. CASE UNCHANGED <<units, status>>
  BY <1>12
<1>13. QED
  BY <1>1, <1>2, <1>3, <1>4, <1>5, <1>6, <1>7, <1>8, <1>9, <1>10, <1>11, <1>12
     DEF Next, Ordinary, Exclusive, Finish, Recover, GiveUp, Failing, UnitStep,
     Enqueue, AcquireOrdinary, AcquireRaises, OrdinaryTimeout, StartRaises, Announce,
        AcquireExclusive, ExclusiveGivesUp, PhasesRaise, Clean, ReapOrCleanFails, Release,
        DropWaiter, DropClean, Restart, ScanLeases, NextLease, CheckWriter, CancelWriter,
        ScanWaiters, NextWaiter, UnlinkWaiter, Crash, CrashInSection

(* The local state of the processes keeps its types. *)
LEMMA ProcsStep == TypeOK /\ Next => ProcsOK'
<1> SUFFICES ASSUME TypeOK, Next PROVE ProcsOK'
  OBVIOUS
<1> USE ConstantsAssumption DEF TypeOK, procs, FinishPcs, DispatchPcs, RecoverPcs
<1>1. ASSUME NEW b \in Brokers, NEW r \in Requests, Publish(b, r) PROVE ProcsOK'
  BY <1>1 DEF Publish, ProcsOK, Handle, Pending, NoHandle, Slots
<1>2. ASSUME NEW b \in Brokers, Enqueue(b) PROVE ProcsOK'
  BY <1>2, GotoType DEF Enqueue
<1>3. ASSUME NEW b \in Brokers, AcquireRaises(b) PROVE ProcsOK'
  BY <1>3, GotoType DEF AcquireRaises
<1>4. ASSUME NEW b \in Brokers, OrdinaryTimeout(b) PROVE ProcsOK'
  BY <1>4, GotoType DEF OrdinaryTimeout
<1>5. ASSUME NEW b \in Brokers, StartUnit(b) PROVE ProcsOK'
  BY <1>5, GotoType DEF StartUnit
<1>6. ASSUME NEW b \in Brokers, StartRaises(b) PROVE ProcsOK'
  BY <1>6, GotoType DEF StartRaises
<1>7. ASSUME NEW b \in Brokers, Announce(b) PROVE ProcsOK'
  BY <1>7, GotoType DEF Announce
<1>8. ASSUME NEW b \in Brokers, ExclusiveGivesUp(b) PROVE ProcsOK'
  BY <1>8, GotoType DEF ExclusiveGivesUp
<1>9. ASSUME NEW b \in Brokers, PhasesRaise(b) PROVE ProcsOK'
  BY <1>9, GotoType DEF PhasesRaise
<1>10. ASSUME NEW b \in Brokers, Clean(b) PROVE ProcsOK'
  BY <1>10, GotoType DEF Clean
<1>11. ASSUME NEW b \in Brokers, Restart(b) PROVE ProcsOK'
  BY <1>11, GotoType DEF Restart
<1>12. ASSUME NEW b \in Brokers, DropWaiter(b) PROVE ProcsOK'
  BY <1>12, GotoType, ExitType DEF DropWaiter
<1>13. ASSUME NEW b \in Brokers, Succeed(b) PROVE ProcsOK'
  BY <1>13, GotoType, ExitType DEF Succeed
<1>14. ASSUME NEW b \in Brokers, DropClean(b) PROVE ProcsOK'
  BY <1>14, GotoType, ExitType DEF DropClean
<1>15. ASSUME NEW b \in Brokers, CancelWriter(b) PROVE ProcsOK'
  BY <1>15, GotoType, ExitType DEF CancelWriter
<1>16. ASSUME NEW b \in Brokers, Crash(b) PROVE ProcsOK'
  BY <1>16, GotoType, ExitType DEF Crash
<1>17. ASSUME NEW b \in Brokers, CrashInSection(b) PROVE ProcsOK'
  BY <1>17, GotoType, ExitType DEF CrashInSection
<1>18. ASSUME NEW b \in Brokers, ReapOrCleanFails(b) PROVE ProcsOK'
  BY <1>18, FinishType DEF ReapOrCleanFails
<1>19. ASSUME NEW b \in Brokers, Release(b) PROVE ProcsOK'
  BY <1>19, FinishType DEF Release
<1>20. ASSUME NEW b \in Brokers, AcquireOrdinary(b) PROVE ProcsOK'
  BY <1>20 DEF AcquireOrdinary, ProcsOK, Handle, Pending, NoHandle, Slots
<1>21. ASSUME NEW b \in Brokers, AcquireExclusive(b) PROVE ProcsOK'
  BY <1>21 DEF AcquireExclusive, ProcsOK, Handle, Pending, NoHandle, Slots
<1>22. ASSUME NEW b \in Brokers, PhasesSealed(b) PROVE ProcsOK'
  BY <1>22 DEF PhasesSealed, ProcsOK, Handle, Pending, NoHandle, Slots
<1>23. ASSUME NEW b \in Brokers, Reap(b) PROVE ProcsOK'
  BY <1>23 DEF Reap, ProcsOK, Handle, Pending, NoHandle, Slots
<1>24. ASSUME NEW b \in Brokers, UnlinkWaiter(b) PROVE ProcsOK'
  BY <1>24 DEF UnlinkWaiter, ProcsOK, Handle, Pending, NoHandle, Slots
<1>25. ASSUME NEW b \in Brokers, Fail(b) PROVE ProcsOK'
  BY <1>25, GotoType DEF Fail, ProcsOK
<1>26. ASSUME NEW b \in Brokers, NextLease(b) PROVE ProcsOK'
  BY <1>26, ExitType DEF NextLease, ProcsOK
<1>27. ASSUME NEW b \in Brokers, ScanLeases(b) PROVE ProcsOK'
  <2>1. CASE Exit(b, "down")
    BY <2>1, ExitType
  <2>2. CASE ~Exit(b, "down")
    <3>1. PICK s \in Slots :
             /\ slot[s] # Torn
             /\ todo' = [todo EXCEPT ![b] = (IF s = 1 THEN {} ELSE @) \cup
                                                 {HandleAt(t) : t \in {s} \ FreeSlots}]
             /\ pc' = [pc EXCEPT ![b] = IF s = 1 THEN "scan2" ELSE "leases"]
             /\ UNCHANGED <<mode, lease>>
      BY <1>27, <2>2 DEF ScanLeases
    <3>2. {HandleAt(t) : t \in {s} \ FreeSlots} \subseteq Handle
      BY <3>1 DEF HandleAt, FreeSlots, FilesOK, Handle
    <3> QED
      BY <3>1, <3>2 DEF ProcsOK
  <2> QED
    BY <2>1, <2>2
<1>28. ASSUME NEW b \in Brokers, CheckWriter(b) PROVE ProcsOK'
  <2>1. CASE Exit(b, "idle") \/ Exit(b, "down") \/ Goto(b, "waiters")
    BY <2>1, ExitType, GotoType
  <2>2. CASE ~(Exit(b, "idle") \/ Exit(b, "down") \/ Goto(b, "waiters"))
    BY <1>28, <2>2 DEF CheckWriter, ProcsOK, Handle, Pending
  <2> QED
    BY <2>1, <2>2
<1>29. ASSUME NEW b \in Brokers, NextWaiter(b) PROVE ProcsOK'
  <2>1. CASE Exit(b, "idle") \/ Exit(b, "down") \/ Goto(b, "waiters")
    BY <2>1, ExitType, GotoType
  <2>2. CASE ~(Exit(b, "idle") \/ Exit(b, "down") \/ Goto(b, "waiters"))
    BY <1>29, <2>2 DEF NextWaiter, ProcsOK, Handle, Pending
  <2> QED
    BY <2>1, <2>2
<1>30. ASSUME NEW b \in Brokers, ScanWaiters(b) PROVE ProcsOK'
  <2>1. CASE Exit(b, "down")
    BY <2>1, ExitType
  <2>2. CASE /\ WaitersReadable
             /\ todo' = [todo EXCEPT ![b] = {Pending(r) : r \in ToSet(waiters)}]
             /\ pc' = [pc EXCEPT ![b] = "wnext"]
             /\ UNCHANGED <<mode, lease>>
    <3>1. {Pending(r) : r \in ToSet(waiters)} \subseteq Handle
      BY <2>2, ReadableWaiters DEF Pending, Handle
    <3> QED
      BY <2>2, <3>1 DEF ProcsOK
  <2> QED
    BY <1>30, <2>1, <2>2 DEF ScanWaiters
<1>31. ASSUME NEW s \in Slots, UnitSucceeds(s) PROVE ProcsOK'
  BY <1>31 DEF UnitSucceeds, ProcsOK
<1>32. ASSUME NEW s \in Slots, UnitFails(s) PROVE ProcsOK'
  BY <1>32 DEF UnitFails, ProcsOK, Wake
<1>33. CASE UNCHANGED procs
  BY <1>33 DEF ProcsOK
<1>34. QED
  BY <1>1, <1>2, <1>3, <1>4, <1>5, <1>6, <1>7, <1>8, <1>9, <1>10, <1>11, <1>12, <1>13,
     <1>14, <1>15, <1>16, <1>17, <1>18, <1>19, <1>20, <1>21, <1>22, <1>23, <1>24, <1>25,
     <1>26, <1>27, <1>28, <1>29, <1>30, <1>31, <1>32, <1>33
     DEF Next, Ordinary, Exclusive, Finish, Recover, GiveUp, Failing, UnitStep,
     PhaseStarts, UnitReads, PhaseEnds

(* The history variables keep theirs. *)
LEMMA PastStep == TypeOK /\ Next => PastOK'
<1> SUFFICES ASSUME TypeOK, Next PROVE PastOK'
  OBVIOUS
<1> USE DEF TypeOK, PastOK, past
<1>1. ASSUME NEW b \in Brokers, NEW r \in Requests, Publish(b, r) PROVE PastOK'
  BY <1>1 DEF Publish
<1>2. ASSUME NEW b \in Brokers, Restart(b) PROVE PastOK'
  BY <1>2 DEF Restart
<1>3. ASSUME NEW b \in Brokers, NextLease(b) PROVE PastOK'
  BY <1>3 DEF NextLease
<1>4. CASE UNCHANGED past
  BY <1>4
<1> QED
  BY <1>1, <1>2, <1>3, <1>4
     DEF Next, Ordinary, Exclusive, Finish, Recover, GiveUp, Failing, UnitStep, Enqueue,
         AcquireOrdinary, AcquireRaises, OrdinaryTimeout, StartUnit, StartRaises, Announce,
         AcquireExclusive, ExclusiveGivesUp, PhaseStarts, PhasesSealed, PhasesRaise, Reap,
         Clean, ReapOrCleanFails, Release, Succeed, Fail, DropWaiter, DropClean, ScanLeases,
         CheckWriter, CancelWriter, ScanWaiters, NextWaiter, UnlinkWaiter, Crash,
         CrashInSection, UnitReads, UnitSucceeds, UnitFails, PhaseEnds

(* A robbery is not forgotten. *)
LEMMA RobbedStays == TypeOK /\ [Next]_vars /\ ~robbed' => ~robbed
  BY DEF Next, Ordinary, Exclusive, Finish, Recover, GiveUp, Failing, UnitStep, past, vars,
         TypeOK, PastOK, Publish, Enqueue, AcquireOrdinary, AcquireRaises, OrdinaryTimeout,
         StartUnit, StartRaises, Announce, AcquireExclusive, ExclusiveGivesUp, PhaseStarts,
         PhasesSealed, PhasesRaise, Reap, Clean, ReapOrCleanFails, Release, Succeed, Fail,
         DropWaiter, DropClean, Restart, ScanLeases, NextLease, CheckWriter, CancelWriter,
         ScanWaiters, NextWaiter, UnlinkWaiter, Crash, CrashInSection, UnitReads,
         UnitSucceeds, UnitFails, PhaseEnds

-----------------------------------------------------------------------------
(* Control: how one step moves the processes *)
(* How one step moves a process: it keeps its job, and nothing but Publish makes
   a coordinator and nothing but Restart makes a recovery. *)
Kept(c) == /\ InDispatch(c)' => InDispatch(c) /\ lease'[c].request = lease[c].request
           /\ InRecovery(c)' => InRecovery(c)

(* A plain move inside dispatch, inside recovery or out of either keeps the job. *)
LEMMA MoveKeeps ==
    ASSUME ProcsOK, NEW b \in Brokers, NEW p,
           Goto(b, p) \/ Exit(b, p),
           p \in DispatchPcs => InDispatch(b) /\ Goto(b, p),
           p \in RecoverPcs => InRecovery(b),
           p \in FinishPcs => Goto(b, p) /\ pc[b] \in FinishPcs
    PROVE  \A c \in Brokers : Kept(c)
  BY
     DEF Kept, ProcsOK, Goto, Exit, InDispatch, InRecovery, DispatchPcs, RecoverPcs,
         FinishPcs

(* Every step but a publication and a restart keeps every process's job. *)
LEMMA ControlStep ==
    ASSUME TypeOK, Next, ~(\E b \in Brokers : Restart(b) \/ \E r \in Requests : Publish(b, r))
    PROVE  \A c \in Brokers : Kept(c)
<1> DEFINE G == \A c \in Brokers : Kept(c)
<1> USE DEF TypeOK, ProcsOK, Handle, Kept, InDispatch, InRecovery, DispatchPcs,
   RecoverPcs, FinishPcs
<1>1. ASSUME NEW b \in Brokers, Enqueue(b) PROVE G
  BY <1>1, MoveKeeps DEF Enqueue
<1>2. ASSUME NEW b \in Brokers, AcquireOrdinary(b) PROVE G
  BY <1>2 DEF AcquireOrdinary, CanAcquire, Goto, Exit
<1>3. ASSUME NEW b \in Brokers, AcquireRaises(b) PROVE G
  BY <1>3, MoveKeeps DEF AcquireRaises
<1>4. ASSUME NEW b \in Brokers, OrdinaryTimeout(b) PROVE G
  BY <1>4, MoveKeeps DEF OrdinaryTimeout, CanAcquire
<1>5. ASSUME NEW b \in Brokers, StartUnit(b) PROVE G
  BY <1>5, MoveKeeps DEF StartUnit
<1>6. ASSUME NEW b \in Brokers, StartRaises(b) PROVE G
  BY <1>6, MoveKeeps DEF StartRaises
<1>7. ASSUME NEW b \in Brokers, Announce(b) PROVE G
  BY <1>7, MoveKeeps DEF Announce
<1>8. ASSUME NEW b \in Brokers, AcquireExclusive(b) PROVE G
  BY <1>8 DEF AcquireExclusive, CanExclude, Goto, Exit
<1>9. ASSUME NEW b \in Brokers, ExclusiveGivesUp(b) PROVE G
  BY <1>9, MoveKeeps DEF ExclusiveGivesUp, CanExclude
<1>10. ASSUME NEW b \in Brokers, PhasesSealed(b) PROVE G
  BY <1>10 DEF PhasesSealed, Goto, Exit
<1>11. ASSUME NEW b \in Brokers, PhasesRaise(b) PROVE G
  BY <1>11, MoveKeeps DEF PhasesRaise
<1>12. ASSUME NEW b \in Brokers, Reap(b) PROVE G
  BY <1>12 DEF Reap, WaitingOn
<1>13. ASSUME NEW b \in Brokers, Clean(b) PROVE G
  BY <1>13, MoveKeeps DEF Clean
<1>14. ASSUME NEW b \in Brokers, ReapOrCleanFails(b) PROVE G
  BY <1>14, MoveKeeps DEF ReapOrCleanFails, FinishRaises
<1>15. ASSUME NEW b \in Brokers, Release(b) PROVE G
  BY <1>15, MoveKeeps DEF Release, FinishRaises, FinishReturns
<1>16. ASSUME NEW b \in Brokers, Succeed(b) PROVE G
  BY <1>16, MoveKeeps DEF Succeed
<1>17. ASSUME NEW b \in Brokers, Fail(b) PROVE G
  BY <1>17 DEF Fail, Goto, Exit
<1>18. ASSUME NEW b \in Brokers, DropWaiter(b) PROVE G
  BY <1>18, MoveKeeps DEF DropWaiter
<1>19. ASSUME NEW b \in Brokers, DropClean(b) PROVE G
  BY <1>19, MoveKeeps DEF DropClean
<1>20. ASSUME NEW b \in Brokers, ScanLeases(b) PROVE G
  BY <1>20 DEF ScanLeases, Goto, Exit
<1>21. ASSUME NEW b \in Brokers, NextLease(b) PROVE G
  BY <1>21 DEF NextLease, Goto, Exit
<1>22. ASSUME NEW b \in Brokers, CheckWriter(b) PROVE G
  BY <1>22 DEF CheckWriter, Goto, Exit
<1>23. ASSUME NEW b \in Brokers, CancelWriter(b) PROVE G
  BY <1>23, MoveKeeps DEF CancelWriter
<1>24. ASSUME NEW b \in Brokers, ScanWaiters(b) PROVE G
  BY <1>24 DEF ScanWaiters, Goto, Exit
<1>25. ASSUME NEW b \in Brokers, NextWaiter(b) PROVE G
  BY <1>25 DEF NextWaiter, Goto, Exit
<1>26. ASSUME NEW b \in Brokers, UnlinkWaiter(b) PROVE G
  BY <1>26 DEF UnlinkWaiter, Goto, Exit
<1>27. ASSUME NEW b \in Brokers, Crash(b) PROVE G
  BY <1>27, MoveKeeps DEF Crash
<1>28. ASSUME NEW b \in Brokers, CrashInSection(b) PROVE G
  BY <1>28, MoveKeeps DEF CrashInSection
<1>29. ASSUME NEW s \in Slots, UnitSucceeds(s) PROVE G
  BY <1>29 DEF UnitSucceeds, WaitingOn
<1>30. ASSUME NEW s \in Slots, UnitFails(s) PROVE G
  BY <1>30 DEF UnitFails, WaitingOn, Wake
<1>31. CASE UNCHANGED procs
  BY <1>31 DEF procs
<1>32. QED
  BY <1>1, <1>2, <1>3, <1>4, <1>5, <1>6, <1>7, <1>8, <1>9, <1>10, <1>11, <1>12, <1>13,
     <1>14, <1>15, <1>16, <1>17, <1>18, <1>19, <1>20, <1>21, <1>22, <1>23, <1>24, <1>25,
     <1>26, <1>27, <1>28, <1>29, <1>30, <1>31
     DEF Next, Ordinary, Exclusive, Finish, Recover, GiveUp, Failing, UnitStep,
     PhaseStarts, UnitReads, PhaseEnds

-----------------------------------------------------------------------------
(* Which process works for which request *)
(* A coordinator comes to life by publishing a fresh request only. *)
LEMMA AliveOrigin ==
    ASSUME TypeOK, [Next]_vars, NEW c \in Brokers, InDispatch(c)'
    PROVE  \/ InDispatch(c) /\ lease'[c].request = lease[c].request
           \/ \E r \in Requests : Publish(c, r) /\ lease'[c].request = r
<1>1. ASSUME NEW b \in Brokers, Restart(b) PROVE InDispatch(c) /\ lease'[c] = lease[c]
  BY <1>1 DEF Restart, Goto, TypeOK, ProcsOK, InDispatch, DispatchPcs, FinishPcs
<1>2. ASSUME NEW b \in Brokers, NEW r \in Requests, Publish(b, r)
      PROVE  (b = c /\ lease'[c].request = r) \/ (InDispatch(c) /\ lease'[c] = lease[c])
  BY <1>2 DEF Publish, Pending, TypeOK, ProcsOK, InDispatch
<1>3. CASE UNCHANGED vars
  BY <1>3 DEF vars, procs, InDispatch
<1> QED
  BY <1>1, <1>2, <1>3, ControlStep DEF Kept

(* Every coordinator has a request of its own. *)
LEMMA JobsStep ==
    ASSUME TypeOK, Next, JobsAreTyped, JobsAreUnique
    PROVE  JobsAreTyped' /\ JobsAreUnique'
<1>1. ASSUME NEW b \in Brokers, Restart(b) PROVE JobsAreTyped' /\ JobsAreUnique'
  BY <1>1 DEF Restart, Goto, JobsAreTyped, JobsAreUnique, TypeOK, ProcsOK, InDispatch,
              DispatchPcs, FinishPcs
<1>2. ASSUME NEW b \in Brokers, NEW r \in Requests, Publish(b, r)
      PROVE  JobsAreTyped' /\ JobsAreUnique'
  BY <1>2
     DEF Publish, Fresh, JobsAreTyped, JobsAreUnique, TypeOK, ProcsOK, Pending,
         InDispatch,
              DispatchPcs, FinishPcs
<1> QED
  BY <1>1, <1>2, ControlStep DEF Kept, JobsAreTyped, JobsAreUnique

(* What every step but an acquisition, a reap or the end of a program leaves of
   a process: the handle it holds, what it has cleaned, what it commits. *)
Early == {"start", "wait", "phases"}
Steady(c) ==
    /\ Holding(c)' => /\ Holding(c) /\ lease'[c] = lease[c]
                      /\ pc'[c] \in Early => pc[c] \in Early
    /\ pc'[c] \in {"clean", "release"} =>
          pc[c] \in {"clean", "release"} /\ lease'[c] = lease[c]
    /\ mode'[c] = "commit" /\ InDispatch(c)' =>
          mode[c] = "commit" /\ InDispatch(c) /\ lease'[c] = lease[c]

(* A plain move is steady. *)
LEMMA MoveIsSteady ==
    ASSUME ProcsOK, ModesFit, NEW b \in Brokers, NEW p,
           Goto(b, p) \/ Exit(b, p),
           p \in DispatchPcs => InDispatch(b) /\ Goto(b, p) /\ p # "phases" /\ pc[b] #
              "succeed",
           p \in {"start", "wait"} => pc[b] = "start",
           p \in FinishPcs => Goto(b, p) /\ p = "release" /\ pc[b] = "clean",
           lease[b].slots = {} \/ p # "succeed" \/ pc[b] \in FinishPcs
    PROVE  \A c \in Brokers : Steady(c)
  BY DEF Steady, Early, Holding, ProcsOK, ModesFit, Goto, Exit, NoHandle, Pending,
         InDispatch, DispatchPcs, RecoverPcs, FinishPcs

(* The steps that are steady for every process. *)
LEMMA SteadyStep ==
    ASSUME TypeOK, ModesFit,
           \/ \E b \in Brokers :
                \/ Enqueue(b) \/ AcquireRaises(b) \/ OrdinaryTimeout(b) \/ StartUnit(b)
                \/ StartRaises(b) \/ Announce(b) \/ ExclusiveGivesUp(b) \/ PhasesRaise(b)
                \/ Clean(b) \/ ReapOrCleanFails(b) \/ Release(b) \/ Succeed(b) \/ Fail(b)
                \/ DropWaiter(b) \/ DropClean(b) \/ Recover(b) \/ Crash(b) \/
                   CrashInSection(b)
           \/ \E s \in Slots : UnitFails(s)
           \/ UNCHANGED procs
    PROVE  \A c \in Brokers : Steady(c)
<1> DEFINE G == \A c \in Brokers : Steady(c)
<1> USE DEF TypeOK, ProcsOK, Handle, NoHandle, Pending, ModesFit, Steady, Early, Holding,
           InDispatch, InRecovery, DispatchPcs, RecoverPcs, FinishPcs
<1>1. ASSUME NEW b \in Brokers, Enqueue(b) PROVE G
  BY <1>1, MoveIsSteady DEF Enqueue
<1>2. ASSUME NEW b \in Brokers, AcquireRaises(b) PROVE G
  BY <1>2, MoveIsSteady DEF AcquireRaises
<1>3. ASSUME NEW b \in Brokers, OrdinaryTimeout(b) PROVE G
  BY <1>3, MoveIsSteady DEF OrdinaryTimeout, CanAcquire
<1>4. ASSUME NEW b \in Brokers, StartUnit(b) PROVE G
  BY <1>4 DEF StartUnit, Goto, Exit
<1>5. ASSUME NEW b \in Brokers, StartRaises(b) PROVE G
  BY <1>5, MoveIsSteady DEF StartRaises
<1>6. ASSUME NEW b \in Brokers, Announce(b) PROVE G
  BY <1>6, MoveIsSteady DEF Announce
<1>7. ASSUME NEW b \in Brokers, ExclusiveGivesUp(b) PROVE G
  BY <1>7, MoveIsSteady DEF ExclusiveGivesUp, CanExclude
<1>8. ASSUME NEW b \in Brokers, PhasesRaise(b) PROVE G
  BY <1>8, MoveIsSteady DEF PhasesRaise
<1>9. ASSUME NEW b \in Brokers, Clean(b) PROVE G
  BY <1>9, MoveIsSteady DEF Clean
<1>10. ASSUME NEW b \in Brokers, ReapOrCleanFails(b) PROVE G
  BY <1>10, MoveIsSteady DEF ReapOrCleanFails, FinishRaises
<1>11. ASSUME NEW b \in Brokers, Release(b) PROVE G
  BY <1>11, MoveIsSteady DEF Release, FinishRaises, FinishReturns
<1>12. ASSUME NEW b \in Brokers, Succeed(b) PROVE G
  BY <1>12, MoveIsSteady DEF Succeed
<1>13. ASSUME NEW b \in Brokers, Fail(b) PROVE G
  BY <1>13 DEF Fail, Goto, Exit
<1>14. ASSUME NEW b \in Brokers, DropWaiter(b) PROVE G
  BY <1>14, MoveIsSteady DEF DropWaiter
<1>15. ASSUME NEW b \in Brokers, DropClean(b) PROVE G
  BY <1>15, MoveIsSteady DEF DropClean
<1>16. ASSUME NEW b \in Brokers, Restart(b) PROVE G
  BY <1>16, MoveIsSteady DEF Restart
<1>17. ASSUME NEW b \in Brokers, ScanLeases(b) PROVE G
  BY <1>17 DEF ScanLeases, Goto, Exit
<1>18. ASSUME NEW b \in Brokers, NextLease(b) PROVE G
  BY <1>18 DEF NextLease, Goto, Exit
<1>19. ASSUME NEW b \in Brokers, CheckWriter(b) PROVE G
  BY <1>19 DEF CheckWriter, Goto, Exit
<1>20. ASSUME NEW b \in Brokers, CancelWriter(b) PROVE G
  BY <1>20, MoveIsSteady DEF CancelWriter
<1>21. ASSUME NEW b \in Brokers, ScanWaiters(b) PROVE G
  BY <1>21 DEF ScanWaiters, Goto, Exit
<1>22. ASSUME NEW b \in Brokers, NextWaiter(b) PROVE G
  BY <1>22 DEF NextWaiter, Goto, Exit
<1>23. ASSUME NEW b \in Brokers, UnlinkWaiter(b) PROVE G
  BY <1>23 DEF UnlinkWaiter, Goto, Exit
<1>24. ASSUME NEW b \in Brokers, Crash(b) PROVE G
  BY <1>24, MoveIsSteady DEF Crash
<1>25. ASSUME NEW b \in Brokers, CrashInSection(b) PROVE G
  BY <1>25, MoveIsSteady DEF CrashInSection
<1>26. ASSUME NEW s \in Slots, UnitFails(s) PROVE G
  BY <1>26 DEF UnitFails, WaitingOn, Wake
<1>27. CASE UNCHANGED procs
  BY <1>27 DEF procs
<1>28. QED
  BY <1>1, <1>2, <1>3, <1>4, <1>5, <1>6, <1>7, <1>8, <1>9, <1>10, <1>11, <1>12, <1>13,
     <1>14, <1>15, <1>16, <1>17, <1>18, <1>19, <1>20, <1>21, <1>22, <1>23, <1>24, <1>25,
     <1>26, <1>27
     DEF Recover

-----------------------------------------------------------------------------
(* Handles and modes fit the program counter *)
(* The handle of a coordinator has the shape its program counter asks for. *)
LEMMA ShapeStep ==
    ASSUME TypeOK, ModesFit, Next, ShapeOK
    PROVE  ShapeOK'
<1> USE DEF TypeOK, ShapeOK, ModesFit, ProcsOK, Handle, Goto, Exit,
           InDispatch, InRecovery, DispatchPcs, RecoverPcs, FinishPcs
<1>1. ASSUME NEW b \in Brokers, NEW r \in Requests, Publish(b, r) PROVE ShapeOK'
  BY <1>1 DEF Publish, Pending
<1>2. ASSUME NEW b \in Brokers, Enqueue(b) PROVE ShapeOK'
  BY <1>2 DEF Enqueue
<1>3. ASSUME NEW b \in Brokers, AcquireOrdinary(b) PROVE ShapeOK'
  BY <1>3 DEF AcquireOrdinary, CanAcquire
<1>4. ASSUME NEW b \in Brokers, AcquireRaises(b) PROVE ShapeOK'
  BY <1>4 DEF AcquireRaises
<1>5. ASSUME NEW b \in Brokers, OrdinaryTimeout(b) PROVE ShapeOK'
  BY <1>5 DEF OrdinaryTimeout, CanAcquire
<1>6. ASSUME NEW b \in Brokers, StartUnit(b) PROVE ShapeOK'
  BY <1>6 DEF StartUnit
<1>7. ASSUME NEW b \in Brokers, StartRaises(b) PROVE ShapeOK'
  BY <1>7 DEF StartRaises
<1>8. ASSUME NEW b \in Brokers, Announce(b) PROVE ShapeOK'
  BY <1>8 DEF Announce
<1>9. ASSUME NEW b \in Brokers, AcquireExclusive(b) PROVE ShapeOK'
  BY <1>9 DEF AcquireExclusive, CanExclude
<1>10. ASSUME NEW b \in Brokers, ExclusiveGivesUp(b) PROVE ShapeOK'
  BY <1>10 DEF ExclusiveGivesUp, CanExclude
<1>11. ASSUME NEW b \in Brokers, PhasesSealed(b) PROVE ShapeOK'
  BY <1>11 DEF PhasesSealed
<1>12. ASSUME NEW b \in Brokers, PhasesRaise(b) PROVE ShapeOK'
  BY <1>12 DEF PhasesRaise
<1>13. ASSUME NEW b \in Brokers, Reap(b) PROVE ShapeOK'
  BY <1>13 DEF Reap, WaitingOn
<1>14. ASSUME NEW b \in Brokers, Clean(b) PROVE ShapeOK'
  BY <1>14 DEF Clean
<1>15. ASSUME NEW b \in Brokers, ReapOrCleanFails(b) PROVE ShapeOK'
  BY <1>15 DEF ReapOrCleanFails, FinishRaises
<1>16. ASSUME NEW b \in Brokers, Release(b) PROVE ShapeOK'
  BY <1>16 DEF Release, FinishRaises, FinishReturns
<1>17. ASSUME NEW b \in Brokers, Succeed(b) PROVE ShapeOK'
  BY <1>17 DEF Succeed
<1>18. ASSUME NEW b \in Brokers, Fail(b) PROVE ShapeOK'
  BY <1>18 DEF Fail
<1>19. ASSUME NEW b \in Brokers, DropWaiter(b) PROVE ShapeOK'
  BY <1>19 DEF DropWaiter
<1>20. ASSUME NEW b \in Brokers, DropClean(b) PROVE ShapeOK'
  BY <1>20 DEF DropClean
<1>21. ASSUME NEW b \in Brokers, Restart(b) PROVE ShapeOK'
  BY <1>21 DEF Restart
<1>22. ASSUME NEW b \in Brokers, ScanLeases(b) PROVE ShapeOK'
  BY <1>22 DEF ScanLeases
<1>23. ASSUME NEW b \in Brokers, NextLease(b) PROVE ShapeOK'
  BY <1>23 DEF NextLease
<1>24. ASSUME NEW b \in Brokers, CheckWriter(b) PROVE ShapeOK'
  BY <1>24 DEF CheckWriter
<1>25. ASSUME NEW b \in Brokers, CancelWriter(b) PROVE ShapeOK'
  <2>1. Exit(b, "waiters") \/ Exit(b, "down")
    BY <1>25 DEF CancelWriter
  <2> QED
    BY <2>1 DEF Exit, InDispatch, DispatchPcs, FinishPcs
<1>26. ASSUME NEW b \in Brokers, ScanWaiters(b) PROVE ShapeOK'
  BY <1>26 DEF ScanWaiters
<1>27. ASSUME NEW b \in Brokers, NextWaiter(b) PROVE ShapeOK'
  BY <1>27 DEF NextWaiter
<1>28. ASSUME NEW b \in Brokers, UnlinkWaiter(b) PROVE ShapeOK'
  BY <1>28 DEF UnlinkWaiter
<1>29. ASSUME NEW b \in Brokers, Crash(b) PROVE ShapeOK'
  BY <1>29 DEF Crash
<1>30. ASSUME NEW b \in Brokers, CrashInSection(b) PROVE ShapeOK'
  BY <1>30 DEF CrashInSection
<1>31. ASSUME NEW s \in Slots, UnitSucceeds(s) PROVE ShapeOK'
  BY <1>31 DEF UnitSucceeds, WaitingOn
<1>32. ASSUME NEW s \in Slots, UnitFails(s) PROVE ShapeOK'
  BY <1>32 DEF UnitFails, WaitingOn, Wake
<1>33. CASE UNCHANGED procs
  BY <1>33 DEF procs
<1>34. QED
  BY <1>1, <1>2, <1>3, <1>4, <1>5, <1>6, <1>7, <1>8, <1>9, <1>10, <1>11, <1>12, <1>13,
     <1>14, <1>15, <1>16, <1>17, <1>18, <1>19, <1>20, <1>21, <1>22, <1>23, <1>24, <1>25,
     <1>26, <1>27, <1>28, <1>29, <1>30, <1>31, <1>32, <1>33
     DEF Next, Ordinary, Exclusive, Finish, Recover, GiveUp, Failing, UnitStep,
     PhaseStarts, UnitReads, PhaseEnds

(* The mode of finish_transaction fits the program counter. *)
LEMMA ModesStep ==
    ASSUME TypeOK, Next, ModesFit
    PROVE  ModesFit'
<1> USE ConstantsAssumption DEF TypeOK, ModesFit, ProcsOK, Goto, Exit,
        InDispatch, InRecovery, DispatchPcs, RecoverPcs, FinishPcs
<1>1. ASSUME NEW b \in Brokers, NEW r \in Requests, Publish(b, r) PROVE ModesFit'
  BY <1>1 DEF Publish
<1>2. ASSUME NEW b \in Brokers, Enqueue(b) PROVE ModesFit'
  BY <1>2 DEF Enqueue
<1>3. ASSUME NEW b \in Brokers, AcquireOrdinary(b) PROVE ModesFit'
  BY <1>3 DEF AcquireOrdinary, CanAcquire
<1>4. ASSUME NEW b \in Brokers, AcquireRaises(b) PROVE ModesFit'
  BY <1>4 DEF AcquireRaises
<1>5. ASSUME NEW b \in Brokers, OrdinaryTimeout(b) PROVE ModesFit'
  BY <1>5 DEF OrdinaryTimeout, CanAcquire
<1>6. ASSUME NEW b \in Brokers, StartUnit(b) PROVE ModesFit'
  BY <1>6 DEF StartUnit
<1>7. ASSUME NEW b \in Brokers, StartRaises(b) PROVE ModesFit'
  BY <1>7 DEF StartRaises
<1>8. ASSUME NEW b \in Brokers, Announce(b) PROVE ModesFit'
  BY <1>8 DEF Announce
<1>9. ASSUME NEW b \in Brokers, AcquireExclusive(b) PROVE ModesFit'
  BY <1>9 DEF AcquireExclusive, CanExclude
<1>10. ASSUME NEW b \in Brokers, ExclusiveGivesUp(b) PROVE ModesFit'
  BY <1>10 DEF ExclusiveGivesUp, CanExclude
<1>11. ASSUME NEW b \in Brokers, PhasesSealed(b) PROVE ModesFit'
  BY <1>11 DEF PhasesSealed
<1>12. ASSUME NEW b \in Brokers, PhasesRaise(b) PROVE ModesFit'
  BY <1>12 DEF PhasesRaise
<1>13. ASSUME NEW b \in Brokers, Reap(b) PROVE ModesFit'
  BY <1>13 DEF Reap, WaitingOn
<1>14. ASSUME NEW b \in Brokers, Clean(b) PROVE ModesFit'
  BY <1>14 DEF Clean
<1>15. ASSUME NEW b \in Brokers, ReapOrCleanFails(b) PROVE ModesFit'
  BY <1>15 DEF ReapOrCleanFails, FinishRaises
<1>16. ASSUME NEW b \in Brokers, Release(b) PROVE ModesFit'
  BY <1>16 DEF Release, FinishRaises, FinishReturns
<1>17. ASSUME NEW b \in Brokers, Succeed(b) PROVE ModesFit'
  BY <1>17 DEF Succeed
<1>18. ASSUME NEW b \in Brokers, Fail(b) PROVE ModesFit'
  BY <1>18 DEF Fail
<1>19. ASSUME NEW b \in Brokers, DropWaiter(b) PROVE ModesFit'
  BY <1>19 DEF DropWaiter
<1>20. ASSUME NEW b \in Brokers, DropClean(b) PROVE ModesFit'
  BY <1>20 DEF DropClean
<1>21. ASSUME NEW b \in Brokers, Restart(b) PROVE ModesFit'
  BY <1>21 DEF Restart
<1>22. ASSUME NEW b \in Brokers, ScanLeases(b) PROVE ModesFit'
  BY <1>22 DEF ScanLeases
<1>23. ASSUME NEW b \in Brokers, NextLease(b) PROVE ModesFit'
  BY <1>23 DEF NextLease
<1>24. ASSUME NEW b \in Brokers, CheckWriter(b) PROVE ModesFit'
  BY <1>24 DEF CheckWriter
<1>25. ASSUME NEW b \in Brokers, CancelWriter(b) PROVE ModesFit'
  BY <1>25 DEF CancelWriter
<1>26. ASSUME NEW b \in Brokers, ScanWaiters(b) PROVE ModesFit'
  BY <1>26 DEF ScanWaiters
<1>27. ASSUME NEW b \in Brokers, NextWaiter(b) PROVE ModesFit'
  BY <1>27 DEF NextWaiter
<1>28. ASSUME NEW b \in Brokers, UnlinkWaiter(b) PROVE ModesFit'
  BY <1>28 DEF UnlinkWaiter
<1>29. ASSUME NEW b \in Brokers, Crash(b) PROVE ModesFit'
  BY <1>29 DEF Crash
<1>30. ASSUME NEW b \in Brokers, CrashInSection(b) PROVE ModesFit'
  BY <1>30 DEF CrashInSection
<1>31. ASSUME NEW s \in Slots, UnitSucceeds(s) PROVE ModesFit'
  BY <1>31 DEF UnitSucceeds, WaitingOn
<1>32. ASSUME NEW s \in Slots, UnitFails(s) PROVE ModesFit'
  BY <1>32 DEF UnitFails, WaitingOn, Wake
<1>33. CASE UNCHANGED procs
  BY <1>33 DEF procs
<1>34. QED
  BY <1>1, <1>2, <1>3, <1>4, <1>5, <1>6, <1>7, <1>8, <1>9, <1>10, <1>11, <1>12, <1>13,
     <1>14, <1>15, <1>16, <1>17, <1>18, <1>19, <1>20, <1>21, <1>22, <1>23, <1>24, <1>25,
     <1>26, <1>27, <1>28, <1>29, <1>30, <1>31, <1>32, <1>33
     DEF Next, Ordinary, Exclusive, Finish, Recover, GiveUp, Failing, UnitStep,
     PhaseStarts, UnitReads, PhaseEnds

-----------------------------------------------------------------------------
(* Who writes and unlinks a marker *)

(* A marker that equals the handle names the request of the handle. *)
LEMMA OwnedMarker ==
    ASSUME NEW b \in Brokers, NEW s \in Slots, HandleAt(s) = lease[b]
    PROVE  slot[s] = lease[b].request
<1>1. HandleAt(s).request = slot[s]
  BY DEF HandleAt
<1> QED
  BY <1>1

(* A marker is written by an acquisition, into a free slot, and removed by a release
   that owns it; a crash leaves some of that. *)
LEMMA SlotsChange ==
    ASSUME [Next]_vars
    PROVE  \/ UNCHANGED slot
           \/ \E b \in Brokers : \/ AcquireOrdinary(b) \/ AcquireExclusive(b) \/ Release(b)
                                 \/ CrashInSection(b)
  BY DEF Next, Ordinary, Exclusive, Finish, Recover, GiveUp, Failing, UnitStep, vars, files,
         Publish, Enqueue, AcquireRaises, OrdinaryTimeout, StartUnit, StartRaises,
         Announce, ExclusiveGivesUp, PhaseStarts, PhasesSealed, PhasesRaise,
         Reap, Clean, ReapOrCleanFails, Succeed, Fail, DropWaiter, DropClean, Restart,
         ScanLeases, NextLease, CheckWriter, CancelWriter, ScanWaiters, NextWaiter,
         UnlinkWaiter, Crash, UnitReads, UnitSucceeds, UnitFails, PhaseEnds

Frame == UNCHANGED <<unit, phase, executed, requests>>

Marks(b, s) ==
    /\ slot[s] = None
    /\ (CanAcquire(b) /\ LowestFree(s)) \/ CanExclude(b)
    /\ \/ slot'[s] = lease[b].request /\ pc'[b] \in {"start", "phases", "down"}
       \/ slot'[s] = Torn /\ pc'[b] = "down"

Unmarks(b, s) ==
    /\ pc[b] = "release" /\ s \in lease[b].slots
    /\ slot[s] = lease[b].request /\ slot'[s] = None

(* What becomes of a marker: it appears in a free slot, for the request of a process
   that acquires (or for none, if that process dies); or it disappears from a slot
   of its owner, who has arrived at its release. *)
LEMMA MarkerChange ==
    ASSUME TypeOK, [Next]_vars, NEW s \in Slots, slot'[s] # slot[s]
    PROVE  Frame /\ \E b \in Brokers : Marks(b, s) \/ Unmarks(b, s)
<1> USE DEF TypeOK, FilesOK, ProcsOK, units, Frame
<1> DEFINE Goal == Frame /\ \E b \in Brokers : Marks(b, s) \/ Unmarks(b, s)
<1>1. ASSUME NEW b \in Brokers, AcquireOrdinary(b) PROVE Goal
  BY <1>1 DEF AcquireOrdinary, CanAcquire, FreeSlots, LowestFree, Marks
<1>2. ASSUME NEW b \in Brokers, AcquireExclusive(b) PROVE Goal
  BY <1>2 DEF AcquireExclusive, CanExclude, FreeSlots, Marks
<1>3. ASSUME NEW b \in Brokers, Release(b) PROVE Goal
  BY <1>3, OwnedMarker DEF Release, OwnsMarkers, Unmarks
<1>4. ASSUME NEW b \in Brokers, CrashInSection(b) PROVE Goal
  <2>0. UNCHANGED <<unit, phase, executed, requests>> /\ pc'[b] = "down"
    BY <1>4 DEF CrashInSection, Exit, ProcsOK
  <2>1. CASE HalfAcquire(b)
    BY <2>0, <2>1 DEF HalfAcquire, CanAcquire, FreeSlots, LowestFree, Marks
  <2>2. CASE HalfExclude(b)
    BY <2>0, <2>2 DEF HalfExclude, CanExclude, FreeSlots, Marks, Slots
  <2>3. CASE HalfRelease(b)
    BY <2>0, <2>3, OwnedMarker DEF HalfRelease, OwnsMarkers, Unmarks, Slots
  <2> QED
    BY <1>4, <2>1, <2>2, <2>3 DEF CrashInSection, HalfDone, HalfEnqueue, HalfAnnounce
<1> QED
  BY <1>1, <1>2, <1>3, <1>4, SlotsChange

-----------------------------------------------------------------------------
(* Recoveries finish leases of the dead *)

(* Who is dead and still named by a handle stays dead: its id is not fresh. *)
LEMMA DeadStaysDead ==
    ASSUME TypeOK, [Next]_vars, NEW b \in Brokers, NEW r, lease[b].request = r, ~Alive(r)
    PROVE  ~\E c \in Brokers : InDispatch(c)' /\ lease'[c].request = r
  BY AliveOrigin DEF Alive, Publish, Fresh

(* A recovery comes to finish a lease by taking it from its list. *)
LEMMA RobberOrigin ==
    ASSUME TypeOK, ModesFit, Next, NEW b \in Brokers, InRecovery(b)', pc'[b] \in FinishPcs
    PROVE  \/ InRecovery(b) /\ pc[b] \in FinishPcs /\ lease'[b] = lease[b]
           \/ NextLease(b)
<1> USE DEF TypeOK, ProcsOK, InRecovery, FinishPcs, RecoverPcs
<1> DEFINE G == \/ InRecovery(b) /\ pc[b] \in FinishPcs /\ lease'[b] = lease[b]
                \/ NextLease(b)
<1>0. mode'[b] = "recover"
  BY DEF InRecovery
<1>1. ASSUME NEW c \in Brokers, NEW p, Goto(c, p) \/ Exit(c, p),
             p \notin {"reap", "clean", "release"} \/ (c = b => pc[b] \in FinishPcs)
      PROVE  G
  BY <1>0, <1>1, ConstantsAssumption DEF Goto, Exit
<1>2. ASSUME NEW c \in Brokers, Ordinary(c) PROVE G
  BY <1>0, <1>1, <1>2 DEF Ordinary, Enqueue, AcquireOrdinary, AcquireRaises, StartUnit
<1>3. ASSUME NEW c \in Brokers, Exclusive(c) PROVE G
  BY <1>0, <1>1, <1>3, ConstantsAssumption
     DEF Exclusive, Announce, AcquireExclusive, PhaseStarts, PhasesSealed, PhasesRaise, procs
<1>4. ASSUME NEW c \in Brokers, Finish(c) PROVE G
  <2>1. CASE Reap(c)
    BY <1>0, <2>1 DEF Reap, WaitingOn
  <2>2. CASE Clean(c)
    BY <1>1, <2>2 DEF Clean
  <2>3. CASE Fail(c)
    BY <1>0, <1>1, <2>3 DEF Fail
  <2> QED
    BY <1>1, <1>4, <2>1, <2>2, <2>3
       DEF Finish, Release, FinishRaises, FinishReturns, Succeed, DropWaiter, DropClean
<1>5. ASSUME NEW c \in Brokers, Recover(c) PROVE G
  BY <1>1, <1>5
     DEF Recover, Restart, ScanLeases, NextLease, CheckWriter, CancelWriter, ScanWaiters,
         NextWaiter, UnlinkWaiter
<1>6. ASSUME NEW c \in Brokers, GiveUp(c) PROVE G
  BY <1>1, <1>6 DEF GiveUp, OrdinaryTimeout, ExclusiveGivesUp, StartRaises
<1>7. ASSUME NEW c \in Brokers, Failing(c) PROVE G
  BY <1>1, <1>7 DEF Failing, ReapOrCleanFails, FinishRaises, Crash, CrashInSection
<1>8. ASSUME NEW c \in Brokers, NEW r \in Requests, Publish(c, r) PROVE G
  BY <1>8 DEF Publish
<1>9. CASE UnitStep
  BY <1>0, <1>9, ConstantsAssumption
     DEF UnitStep, UnitReads, UnitSucceeds, UnitFails, PhaseEnds, Wake, WaitingOn, procs
<1> QED
  BY <1>2, <1>3, <1>4, <1>5, <1>6, <1>7, <1>8, <1>9 DEF Next

(* Until a robbery, a recovery finishes leases of the dead only. *)
LEMMA RobsTheDeadStep ==
    ASSUME TypeOK, ModesFit, RobsTheDead, Next, ~robbed'
    PROVE  RobsTheDead'
<1> SUFFICES ASSUME NEW b \in Brokers, InRecovery(b)', pc'[b] \in FinishPcs,
                    NEW c \in Brokers, InDispatch(c)', lease'[c].request = lease'[b].request
             PROVE  FALSE
  BY DEF RobsTheDead, Alive
<1>1. CASE InRecovery(b) /\ pc[b] \in FinishPcs /\ lease'[b] = lease[b]
  BY <1>1, DeadStaysDead DEF RobsTheDead
<1>2. CASE NextLease(b)
  <2>1. PICK h \in todo[b] : /\ lease' = [lease EXCEPT ![b] = h]
                             /\ mode' = [mode EXCEPT ![b] = "recover"]
                             /\ pc' = [pc EXCEPT ![b] = "reap"]
                             /\ ~Alive(h.request)
    BY <1>2 DEF NextLease, Exit, TypeOK, ProcsOK, FinishPcs
  <2>2. lease'[b] = h /\ c # b
    BY <2>1 DEF TypeOK, ProcsOK, InDispatch, DispatchPcs, FinishPcs
  <2>3. InDispatch(c) /\ lease'[c] = lease[c]
    BY <2>1, <2>2 DEF TypeOK, ProcsOK, InDispatch
  <2> QED
    BY <2>1, <2>2, <2>3 DEF Alive
<1> QED
  BY <1>1, <1>2, RobberOrigin

(* So nobody who finishes a lease works for the request of another coordinator. *)
LEMMA FinishesForItself ==
    ASSUME TypeOK, JobsAreUnique, ModesFit, RobsTheDead, NEW b \in Brokers, pc[b] \in FinishPcs,
           NEW c \in Brokers, c # b, InDispatch(c)
    PROVE  lease[b].request # lease[c].request
<1>1. CASE InDispatch(b)
  BY <1>1 DEF JobsAreUnique
<1>2. CASE InRecovery(b)
  BY <1>2 DEF RobsTheDead, Alive
<1> QED
  BY <1>1, <1>2 DEF ModesFit, TypeOK, ProcsOK, InDispatch, InRecovery

-----------------------------------------------------------------------------
(* A held lease is on disk *)
(* Steps that touch neither the slot markers nor the writer file, and keep the
   handles, keep every held lease on disk. *)
LEMMA LeaseKept ==
    ASSUME LeaseOnDisk, UNCHANGED <<slot, writer>>, \A c \in Brokers : Steady(c)
    PROVE  LeaseOnDisk'
  BY DEF LeaseOnDisk, Steady, Early

(* No step takes the markers of a held lease away, except its own release. *)
LEMMA LeaseStep ==
    ASSUME TypeOK, JobsAreTyped, JobsAreUnique, ModesFit, ShapeOK, RobsTheDead, LeaseOnDisk,
           Next
    PROVE  LeaseOnDisk'
<1> USE ConstantsAssumption DEF TypeOK, FilesOK
<1> DEFINE Disk(c) == \/ \A s \in lease[c].slots : slot[s] = lease[c].request
                      \/ /\ pc[c] \notin {"start", "wait", "phases"}
                         /\ writer = Torn /\ \A s \in Slots : slot[s] = None
<1>1. ASSUME NEW b \in Brokers, AcquireOrdinary(b) PROVE LeaseOnDisk'
  <2>1. ASSUME NEW c \in Brokers, c # b, Holding(c)' PROVE Disk(c)'
    BY <1>1, <2>1
       DEF AcquireOrdinary, CanAcquire, LowestFree, FreeSlots, LeaseOnDisk, Holding,
       InDispatch, ProcsOK, JobsAreTyped, Handle
  <2>2. Disk(b)'
    BY <1>1 DEF AcquireOrdinary, CanAcquire, LowestFree, FreeSlots, ProcsOK, Handle, Slots
  <2> QED
    BY <2>1, <2>2 DEF LeaseOnDisk
<1>2. ASSUME NEW b \in Brokers, AcquireExclusive(b) PROVE LeaseOnDisk'
  <2>1. ASSUME NEW c \in Brokers, c # b, Holding(c)' PROVE Disk(c)'
    BY <1>2, <2>1 DEF AcquireExclusive, CanExclude, FreeSlots, LeaseOnDisk, Holding,
       InDispatch, ProcsOK, JobsAreTyped, Handle, DispatchPcs
  <2>2. Disk(b)'
    BY <1>2 DEF AcquireExclusive, ProcsOK, Handle
  <2> QED
    BY <2>1, <2>2 DEF LeaseOnDisk
<1>3. ASSUME NEW b \in Brokers, Announce(b) \/ ExclusiveGivesUp(b) \/ CancelWriter(b)
      PROVE  LeaseOnDisk'
  <2>1. \A c \in Brokers : Steady(c)
    BY <1>3, SteadyStep DEF Recover
  <2> QED
    BY <1>3, <2>1
       DEF Announce, ExclusiveGivesUp, CancelWriter, LeaseOnDisk, Steady, Early, Holding,
           ProcsOK, Handle
<1>4. ASSUME NEW b \in Brokers, Release(b) PROVE LeaseOnDisk'
  <2>1. ASSUME NEW c \in Brokers, c # b, Holding(c)' PROVE Disk(c)'
    <3>1. Holding(c) /\ pc'[c] = pc[c] /\ lease'[c] = lease[c]
      BY <1>4, <2>1
         DEF Release, FinishRaises, FinishReturns, Goto, Exit, ProcsOK, Holding,
             InDispatch
    <3>2. lease[b].request # lease[c].request
      BY <1>4, <2>1, <3>1, FinishesForItself DEF Release, Holding, FinishPcs
    <3>3. lease[b].request # Torn
      BY DEF ProcsOK, Handle
    <3>4. Disk(c)
      BY <3>1 DEF LeaseOnDisk
    <3>5. CASE OwnsMarkers(b)
      <4>1. \A s \in lease[b].slots : slot[s] = lease[b].request
        BY <3>5, OwnedMarker DEF OwnsMarkers, ProcsOK, Handle
      <4>2. slot' = [s \in Slots |-> IF s \in lease[b].slots THEN None ELSE slot[s]]
        BY <1>4, <3>5 DEF Release
      <4>3. writer = Torn => writer' = Torn
        BY <1>4, <3>3, <3>5 DEF Release
      <4>4. lease[c].slots \subseteq Slots
        BY DEF ProcsOK, Handle
      <4> QED
        BY <3>1, <3>2, <3>4, <4>1, <4>2, <4>3, <4>4
    <3>6. CASE ~OwnsMarkers(b)
      BY <1>4, <3>1, <3>4, <3>6 DEF Release
    <3> QED
      BY <3>5, <3>6
  <2>2. ASSUME Holding(b)' PROVE Disk(b)'
    <3>1. Holding(b) /\ pc'[b] = "fail" /\ lease'[b] = lease[b] /\ FinishRaises(b)
      BY <1>4, <2>2
         DEF Release, FinishRaises, FinishReturns, Goto, Exit, ProcsOK, Holding,
             InDispatch,
         NoHandle, Pending, FinishPcs, DispatchPcs
    <3>2. CASE OwnsMarkers(b)
      <4>1. lease[b].request \in Production /\ writer = Torn
        BY <1>4, <3>1, <3>2 DEF Release, FinishRaises, FinishReturns, Goto, Exit, ProcsOK
      <4>2. lease[b].slots = Slots
        BY <3>1, <3>2, <4>1 DEF OwnsMarkers, HandleAt, Holding, ProcsOK, Handle
      <4> QED
        BY <1>4, <3>1, <3>2, <4>1, <4>2 DEF Release
    <3>3. CASE ~OwnsMarkers(b)
      BY <1>4, <3>1, <3>3 DEF Release, LeaseOnDisk
    <3> QED
      BY <3>2, <3>3
  <2> QED
    BY <2>1, <2>2 DEF LeaseOnDisk
<1>5. ASSUME NEW b \in Brokers, CrashInSection(b) PROVE LeaseOnDisk'
  <2>1. \A c \in Brokers : Steady(c)
    BY <1>5, SteadyStep
  <2>2. CASE HalfEnqueue(b)
    BY <2>1, <2>2, LeaseKept DEF HalfEnqueue
  <2>3. CASE HalfAcquire(b)
    BY <2>1, <2>3
       DEF HalfAcquire, CanAcquire, LowestFree, FreeSlots, LeaseOnDisk, Steady, Early,
       JobsAreTyped, Holding, ProcsOK, Handle
  <2>4. CASE HalfAnnounce(b)
    BY <2>1, <2>4 DEF HalfAnnounce, LeaseOnDisk, Steady, Early
  <2>5. CASE HalfExclude(b)
    BY <2>1, <2>5
       DEF HalfExclude, CanExclude, FreeSlots, LeaseOnDisk, Steady, Early, JobsAreTyped,
           Holding,
       InDispatch, DispatchPcs, ProcsOK, Handle, Slots
  <2>6. CASE HalfRelease(b)
    <3>0. ~Holding(b)' /\ pc[b] = "release"
      BY <1>5, <2>6
         DEF CrashInSection, HalfRelease, Exit, ProcsOK, Holding, NoHandle, Pending
    <3>1. ASSUME NEW c \in Brokers, Holding(c)'
          PROVE  Holding(c) /\ lease[b].request # lease[c].request
      BY <2>1, <3>0, <3>1, FinishesForItself DEF Steady, Holding, FinishPcs
    <3>2. \A s \in Slots : slot[s] = lease[b].request
      BY <2>6, OwnedMarker DEF HalfRelease, OwnsMarkers
    <3> QED
      BY <2>1, <2>6, <3>0, <3>1, <3>2
         DEF HalfRelease, LeaseOnDisk, Steady, Early, Holding, ProcsOK, Handle, Slots
  <2> QED
    BY <1>5, <2>2, <2>3, <2>4, <2>5, <2>6 DEF CrashInSection, HalfDone
<1>6. CASE UNCHANGED <<slot, writer>>
  <2>1. ASSUME NEW b \in Brokers, Reap(b) \/ PhasesSealed(b) \/ \E r \in Requests : Publish(b, r)
        PROVE  LeaseOnDisk'
    <3>1. CASE Reap(b)
      BY <1>6, <3>1
         DEF Reap, WaitingOn, LeaseOnDisk, Holding, InDispatch, ProcsOK, DispatchPcs,
             FinishPcs
    <3>2. CASE PhasesSealed(b)
      BY <1>6, <3>2
         DEF PhasesSealed, LeaseOnDisk, Holding, InDispatch, ProcsOK, DispatchPcs,
             FinishPcs
    <3>3. CASE \E r \in Requests : Publish(b, r)
      BY <1>6, <3>3
         DEF Publish, Pending, LeaseOnDisk, Holding, InDispatch, ProcsOK, DispatchPcs,
             FinishPcs
    <3> QED
      BY <2>1, <3>1, <3>2, <3>3
  <2>2. ASSUME NEW s \in Slots, UnitSucceeds(s) PROVE LeaseOnDisk'
    BY <1>6, <2>2
       DEF UnitSucceeds, WaitingOn, LeaseOnDisk, Holding, InDispatch, ProcsOK,
           DispatchPcs, FinishPcs
  <2> QED
    BY <1>1, <1>2, <1>6, <2>1, <2>2, SteadyStep, LeaseKept
    DEF Next, Ordinary, Exclusive, Finish, GiveUp, Failing, UnitStep, PhaseStarts,
       UnitReads, PhaseEnds
<1> QED
  BY <1>1, <1>2, <1>3, <1>4, <1>5, <1>6
     DEF Next, Ordinary, Exclusive, Finish, Recover, GiveUp, Failing,
     UnitStep, Publish, Enqueue, AcquireRaises, OrdinaryTimeout, StartUnit, StartRaises,
        PhaseStarts, PhasesSealed,
     PhasesRaise, Reap, Clean, ReapOrCleanFails, Succeed, Fail, DropWaiter, DropClean,
        Restart, ScanLeases,
     NextLease, CheckWriter, ScanWaiters, NextWaiter, UnlinkWaiter, Crash, UnitReads,
        UnitSucceeds,
     UnitFails, PhaseEnds, files

-----------------------------------------------------------------------------
(* Units and their markers *)
(* The slot of a one-slot handle. *)
LEMMA SlotOfOwner ==
    ASSUME NEW b \in Brokers, NEW s, lease[b].slots = {s}
    PROVE  SlotOf(b) = s
  BY DEF SlotOf

(* A unit and its marker change together only in ways that keep them matched. *)
LEMMA UnitsMarkedStep ==
    ASSUME TypeOK, JobsAreTyped, ShapeOK, LeaseOnDisk, UnitsMarked, Reaped, Next
    PROVE  UnitsMarked'
<1> USE ConstantsAssumption DEF TypeOK, FilesOK, UnitsOK
<1>1. ASSUME NEW b \in Brokers, AcquireOrdinary(b) PROVE UnitsMarked'
  BY <1>1 DEF AcquireOrdinary, LowestFree, FreeSlots, UnitsMarked, units
<1>2. ASSUME NEW b \in Brokers, AcquireExclusive(b) PROVE UnitsMarked'
  BY <1>2 DEF AcquireExclusive, CanExclude, FreeSlots, UnitsMarked, units, Slots
<1>3. ASSUME NEW b \in Brokers, StartUnit(b) PROVE UnitsMarked'
  <2>1. InDispatch(b) /\ Holding(b)
    BY <1>3 DEF StartUnit, Holding, InDispatch, DispatchPcs, ShapeOK
  <2>2. PICK s \in Slots : lease[b].slots = {s}
    BY <1>3, <2>1 DEF StartUnit, ShapeOK
  <2>3. slot[s] = lease[b].request /\ slot[s] \in Requests \ Production
    BY <1>3, <2>1, <2>2 DEF StartUnit, ShapeOK, LeaseOnDisk, JobsAreTyped
  <2>4. unit' = [unit EXCEPT ![s] = IF unit[s] = None THEN Starting ELSE unit[s]]
    BY <1>3, <2>2, SlotOfOwner DEF StartUnit
  <2> QED
    BY <1>3, <2>3, <2>4 DEF StartUnit, UnitsMarked, files
<1>4. ASSUME NEW b \in Brokers, PhaseStarts(b) PROVE UnitsMarked'
  <2>1. \A s \in Slots : slot[s] = lease[b].request /\ lease[b].request \in Production
    BY <1>4 DEF PhaseStarts, InDispatch, Holding, DispatchPcs, ShapeOK, LeaseOnDisk, Slots
  <2> QED
    BY <1>4, <2>1 DEF PhaseStarts, UnitsMarked, files
<1>5. ASSUME NEW b \in Brokers, Reap(b) PROVE UnitsMarked'
  BY <1>5 DEF Reap, UnitsMarked, files
<1>6. ASSUME NEW b \in Brokers, Release(b) PROVE UnitsMarked'
  <2>1. CASE OwnsMarkers(b)
    <3>1. /\ slot' = [s \in Slots |-> IF s \in lease[b].slots THEN None ELSE slot[s]]
          /\ UNCHANGED units
      BY <1>6, <2>1 DEF Release
    <3>2. /\ lease[b].request \notin phase
          /\ \A s \in lease[b].slots : slot[s] = lease[b].request => unit[s] = None
      BY <1>6 DEF Release, Reaped
    <3>3. \A s \in lease[b].slots : slot[s] = lease[b].request /\ s \in Slots
      BY <2>1, OwnedMarker DEF OwnsMarkers, ProcsOK, Handle
    <3> QED
      BY <3>1, <3>2, <3>3 DEF UnitsMarked, units
  <2>2. CASE ~OwnsMarkers(b)
    BY <1>6, <2>2 DEF Release, UnitsMarked, units
  <2> QED
    BY <2>1, <2>2
<1>7. ASSUME NEW b \in Brokers, CrashInSection(b) PROVE UnitsMarked'
  <2>0. UNCHANGED units
    BY <1>7 DEF CrashInSection
  <2>1. CASE UNCHANGED slot
    BY <2>0, <2>1 DEF UnitsMarked, units
  <2>2. CASE HalfAcquire(b)
    BY <2>0, <2>2 DEF HalfAcquire, LowestFree, FreeSlots, UnitsMarked, units
  <2>3. CASE HalfExclude(b)
    BY <2>0, <2>3 DEF HalfExclude, CanExclude, FreeSlots, UnitsMarked, units, Slots
  <2>4. CASE HalfRelease(b)
    <3>1. \A s \in Slots : unit[s] = None /\ slot[s] = lease[b].request
      BY <2>4, OwnedMarker DEF HalfRelease, Reaped, OwnsMarkers
    <3>2. phase = {}
      BY <2>4, <3>1 DEF HalfRelease, Reaped, UnitsMarked, Slots
    <3> QED
      BY <2>0, <3>1, <3>2 DEF UnitsMarked, units
  <2> QED
    BY <1>7, <2>1, <2>2, <2>3, <2>4 DEF CrashInSection, HalfDone, HalfEnqueue, HalfAnnounce
<1>8. ASSUME NEW s \in Slots, UnitReads(s) \/ UnitSucceeds(s) \/ UnitFails(s) PROVE UnitsMarked'
  BY <1>8 DEF UnitReads, UnitSucceeds, UnitFails, UnitsMarked, files
<1>9. ASSUME NEW r \in Requests, PhaseEnds(r) PROVE UnitsMarked'
  BY <1>9 DEF PhaseEnds, UnitsMarked, files
<1>10. CASE UNCHANGED <<slot, unit, phase>>
  BY <1>10 DEF UnitsMarked
<1> QED
  BY <1>1, <1>2, <1>3, <1>4, <1>5, <1>6, <1>7, <1>8, <1>9, <1>10
  DEF Next, Ordinary, Exclusive, Finish, Recover, GiveUp, Failing, UnitStep, Publish,
     Enqueue, AcquireRaises,
      OrdinaryTimeout, StartRaises, Announce, ExclusiveGivesUp, PhasesSealed, PhasesRaise,
         Clean,
      ReapOrCleanFails, Succeed, Fail, DropWaiter, DropClean, Restart, ScanLeases,
         NextLease, CheckWriter,
      CancelWriter, ScanWaiters, NextWaiter, UnlinkWaiter, Crash, files, units

(* What a process reaped stays stopped until it has released its handle. *)
LEMMA ReapedStep ==
    ASSUME TypeOK, JobsAreTyped, JobsAreUnique, ModesFit, ShapeOK, RobsTheDead, LeaseOnDisk,
           UnitsMarked, Reaped, Next
    PROVE  Reaped'
<1> USE ConstantsAssumption DEF TypeOK, FilesOK, UnitsOK
<1>1. ASSUME NEW b \in Brokers, Reap(b) PROVE Reaped'
  BY <1>1 DEF Reap, WaitingOn, Reaped, ProcsOK, Handle, files
<1>2. ASSUME NEW b \in Brokers, StartUnit(b) PROVE Reaped'
  <2>1. InDispatch(b) /\ Holding(b) /\ pc[b] = "start" /\ pc'[b] = "wait"
    BY <1>2 DEF StartUnit, Goto, Holding, InDispatch, DispatchPcs, ShapeOK, ProcsOK
  <2>2. PICK s \in Slots : lease[b].slots = {s}
    BY <2>1 DEF ShapeOK
  <2>3. slot[s] = lease[b].request /\ slot[s] \in Requests
    BY <2>1, <2>2 DEF LeaseOnDisk, JobsAreTyped
  <2>4. \A t \in Slots : t # s => unit'[t] = unit[t]
    <3>1. SlotOf(b) = s
      BY <2>2, SlotOfOwner
    <3> QED
      BY <1>2, <3>1 DEF StartUnit
  <2>5. ASSUME NEW c \in Brokers, pc'[c] \in {"clean", "release"}
        PROVE  /\ lease'[c].request \notin phase'
               /\ \A t \in lease'[c].slots : slot'[t] = lease'[c].request => unit'[t] = None
    <3>1. /\ c # b /\ pc[c] \in {"clean", "release"} /\ lease'[c] = lease[c]
          /\ UNCHANGED <<phase, slot>>
      BY <1>2, <2>1, <2>5 DEF StartUnit, Goto, ProcsOK, files
    <3>2. slot[s] # lease[c].request
      BY <2>1, <2>3, <3>1, FinishesForItself DEF FinishPcs
    <3>3. lease[c].slots \subseteq Slots
      BY DEF ProcsOK, Handle
    <3> QED
      BY <2>4, <3>1, <3>2, <3>3 DEF Reaped
  <2> QED
    BY <2>5 DEF Reaped
<1>3. ASSUME NEW b \in Brokers, PhaseStarts(b) PROVE Reaped'
  <2>1. InDispatch(b) /\ pc[b] = "phases" /\ UNCHANGED <<procs, unit>>
    BY <1>3 DEF PhaseStarts, InDispatch, DispatchPcs
  <2>2. ASSUME NEW c \in Brokers, pc[c] \in {"clean", "release"}
        PROVE  lease[c].request # lease[b].request
    BY <2>1, <2>2, FinishesForItself DEF FinishPcs
  <2> QED
    BY <1>3, <2>1, <2>2 DEF PhaseStarts, Reaped, procs, files
<1>4. ASSUME NEW s \in Slots, UnitReads(s) PROVE Reaped'
  BY <1>4 DEF UnitReads, Reaped, procs, files, ProcsOK, Handle
<1>5. ASSUME NEW s \in Slots, UnitSucceeds(s) \/ UnitFails(s) PROVE Reaped'
  BY <1>5 DEF UnitSucceeds, UnitFails, Wake, WaitingOn, Reaped, ProcsOK, Handle, files
<1>6. ASSUME NEW r \in Requests, PhaseEnds(r) PROVE Reaped'
  BY <1>6 DEF PhaseEnds, Reaped, procs, files
<1>7. CASE UNCHANGED <<unit, phase>>
  <2>0. ASSUME NEW s \in Slots, unit[s] # None PROVE slot'[s] = slot[s]
    BY <2>0, MarkerChange DEF UnitsMarked, Reaped, Marks, Unmarks
  <2>3. \A c \in Brokers : lease[c].slots \subseteq Slots
    BY DEF ProcsOK, Handle
  <2>1. ASSUME NEW b \in Brokers,
               AcquireOrdinary(b) \/ AcquireExclusive(b) \/ PhasesSealed(b) \/ \E r \in
                  Requests : Publish(b, r)
        PROVE  Reaped'
    BY <1>7, <2>0, <2>1, <2>3
       DEF AcquireOrdinary, AcquireExclusive, PhasesSealed, Publish, Reaped, ProcsOK
  <2>2. CASE \A c \in Brokers : Steady(c)
    BY <1>7, <2>0, <2>2, <2>3 DEF Steady, Reaped
  <2> QED
    BY <1>1, <1>2, <1>3, <1>4, <1>5, <1>6, <2>1, <2>2, SteadyStep
    DEF Next, Ordinary, Exclusive, Finish, GiveUp, Failing, UnitStep
<1> QED
  BY <1>1, <1>2, <1>3, <1>4, <1>5, <1>6, <1>7
  DEF Next, Ordinary, Exclusive, Finish, Recover, GiveUp, Failing, UnitStep, Publish,
     Enqueue, AcquireOrdinary,
      AcquireExclusive, AcquireRaises, OrdinaryTimeout, StartRaises, Announce,
         ExclusiveGivesUp, PhasesSealed,
      PhasesRaise, Clean, ReapOrCleanFails, Release, Succeed, Fail, DropWaiter, DropClean,
         Restart, ScanLeases,
      NextLease, CheckWriter, CancelWriter, ScanWaiters, NextWaiter, UnlinkWaiter, Crash,
         CrashInSection, units

-----------------------------------------------------------------------------
(* Commits, and the invariant as a whole *)
(* Only the end of the request's own program makes a coordinator commit. *)
LEMMA CommitsStep ==
    ASSUME TypeOK, JobsAreTyped, ModesFit, ShapeOK, LeaseOnDisk, UnitsMarked, CommitsExecuted, Next
    PROVE  CommitsExecuted'
<1> USE ConstantsAssumption DEF TypeOK, UnitsOK
<1>1. ASSUME NEW b \in Brokers, NEW r \in Requests, Publish(b, r) PROVE CommitsExecuted'
  BY <1>1
     DEF Publish, Fresh, CommitsExecuted, ModesFit, InDispatch,
         ProcsOK, Pending,
     DispatchPcs, FinishPcs
<1>2. ASSUME NEW b \in Brokers, PhasesSealed(b) PROVE CommitsExecuted'
  BY <1>2 DEF PhasesSealed, CommitsExecuted, InDispatch, ProcsOK
<1>3. ASSUME NEW s \in Slots, UnitSucceeds(s) PROVE CommitsExecuted'
  <2>1. \A b \in WaitingOn({s}) : lease[b].request = unit[s]
    <3>1. SUFFICES ASSUME NEW b \in WaitingOn({s}) PROVE lease[b].request = unit[s]
      OBVIOUS
    <3>2. InDispatch(b) /\ Holding(b) /\ lease[b].slots = {s}
      BY <3>1 DEF WaitingOn, InDispatch, Holding, DispatchPcs, ShapeOK
    <3>3. slot[s] = lease[b].request
      BY <3>1, <3>2 DEF LeaseOnDisk, WaitingOn
    <3> QED
      BY <1>3, <3>3 DEF UnitSucceeds, UnitsMarked
  <2>2. executed' = executed \cup {unit[s]} /\ status' = status /\ lease' = lease
    BY <1>3 DEF UnitSucceeds
  <2>3. ASSUME NEW c \in Brokers, mode'[c] = "commit", InDispatch(c)'
        PROVE  lease'[c].request \in executed'
    <3>1. CASE c \in WaitingOn({s})
      BY <2>1, <2>2, <3>1
    <3>2. CASE c \notin WaitingOn({s})
      BY <1>3, <2>2, <2>3, <3>2 DEF UnitSucceeds, CommitsExecuted, InDispatch, ProcsOK
    <3> QED
      BY <3>1, <3>2
  <2> QED
    BY <2>2, <2>3 DEF CommitsExecuted, SuccessMeansExecuted
<1>4. ASSUME NEW b \in Brokers, Succeed(b) PROVE CommitsExecuted'
  <2>1. lease[b].request \in executed
    BY <1>4 DEF Succeed, ModesFit, CommitsExecuted, InDispatch, DispatchPcs
  <2> QED
    BY <1>4, <2>1
       DEF Succeed, Exit, units, CommitsExecuted, InDispatch,
           ProcsOK
<1>5. ASSUME NEW b \in Brokers, Fail(b) PROVE CommitsExecuted'
  BY <1>5
     DEF Fail, Goto, units, CommitsExecuted, InDispatch, ProcsOK,
         DispatchPcs, FinishPcs
<1>6. CASE UNCHANGED <<executed, status>>
  <2>1. ASSUME NEW b \in Brokers, AcquireOrdinary(b) \/ AcquireExclusive(b) \/ Reap(b) PROVE CommitsExecuted'
    <3>1. \A c \in Brokers : mode'[c] = "commit" /\ InDispatch(c)' =>
             mode[c] = "commit" /\ InDispatch(c) /\ lease'[c].request = lease[c].request
      <4>1. CASE AcquireOrdinary(b)
        BY <4>1
           DEF AcquireOrdinary, CanAcquire, InDispatch, ProcsOK, Handle, DispatchPcs,
               FinishPcs
      <4>2. CASE AcquireExclusive(b)
        BY <4>2
           DEF AcquireExclusive, CanExclude, InDispatch, ProcsOK, Handle, DispatchPcs,
               FinishPcs
      <4>3. CASE Reap(b)
        BY <4>3 DEF Reap, WaitingOn, InDispatch, ProcsOK, DispatchPcs, FinishPcs
      <4> QED
        BY <2>1, <4>1, <4>2, <4>3
    <3> QED
      BY <1>6, <3>1 DEF CommitsExecuted, SuccessMeansExecuted
  <2>2. CASE \A c \in Brokers : Steady(c)
    BY <1>6, <2>2 DEF Steady, CommitsExecuted
  <2> QED
    BY <1>1, <1>2, <1>3, <2>1, <2>2, SteadyStep
    DEF Next, Ordinary, Exclusive, Finish, GiveUp, Failing, UnitStep, PhaseStarts,
       UnitReads, PhaseEnds
<1> QED
  BY <1>1, <1>2, <1>3, <1>4, <1>5, <1>6
  DEF Next, Ordinary, Exclusive, Finish, Recover, GiveUp, Failing, UnitStep, Enqueue,
     AcquireOrdinary,
      AcquireExclusive, AcquireRaises, OrdinaryTimeout, StartUnit, StartRaises, Announce,
         ExclusiveGivesUp,
      PhaseStarts, PhasesRaise, Reap, Clean, ReapOrCleanFails, Release, DropWaiter,
         DropClean, Restart, ScanLeases,
      NextLease, CheckWriter, CancelWriter, ScanWaiters, NextWaiter, UnlinkWaiter, Crash,
         CrashInSection,
      UnitReads, UnitFails, PhaseEnds, units

(* Faults are bounded. *)
LEMMA FaultsStep ==
    ASSUME TypeOK, Next
    PROVE  faults' \in 0..MaxFaults
<1>1. Fault \/ UNCHANGED faults
  BY
     DEF Next, Ordinary, Exclusive, Finish, Recover, GiveUp, Failing, UnitStep, Publish,
         Enqueue, AcquireOrdinary,
      AcquireExclusive, AcquireRaises, OrdinaryTimeout, StartUnit, StartRaises, Announce,
         ExclusiveGivesUp,
      PhaseStarts, PhasesSealed, PhasesRaise, Reap, Clean, ReapOrCleanFails, Release,
         Succeed, Fail, DropWaiter,
      DropClean, Restart, ScanLeases, NextLease, CheckWriter, CancelWriter, ScanWaiters,
         NextWaiter, UnlinkWaiter,
      Crash, CrashInSection, UnitReads, UnitSucceeds, UnitFails, PhaseEnds
<1> QED
  BY <1>1, ConstantsAssumption DEF Fault, TypeOK

Inv0 == TypeOK /\ JobsAreTyped /\ JobsAreUnique /\ ModesFit /\ ShapeOK

(* The part of the invariant that no robbery disturbs. *)
LEMMA Inv0Step == Inv0 /\ [Next]_vars => Inv0'
<1> SUFFICES ASSUME Inv0, [Next]_vars PROVE Inv0'
  OBVIOUS
<1> USE DEF Inv0
<1>1. CASE Next
  <2>1. TypeOK'
    BY <1>1, FilesStep, UnitsStep, ProcsStep, PastStep, FaultsStep DEF TypeOK
  <2> QED
    BY <1>1, <2>1, JobsStep, ModesStep, ShapeStep
<1>2. CASE UNCHANGED vars
  BY <1>2
     DEF vars, files, units, procs, past, TypeOK, FilesOK, UnitsOK, ProcsOK, PastOK,
         JobsAreTyped, JobsAreUnique, ModesFit, ShapeOK, InDispatch
<1> QED
  BY <1>1, <1>2

(* The invariant holds initially. *)
LEMMA InitInv == Init => Inv0 /\ Protected
<1> SUFFICES ASSUME Init PROVE Inv0 /\ Protected
  OBVIOUS
<1> USE ConstantsAssumption DEF Init
<1>1. TypeOK
  <2>1. PastOK
    BY DEF PastOK
  <2> QED
    BY <2>1 DEF TypeOK, FilesOK, UnitsOK, ProcsOK, Handle, NoHandle, Pending
<1>2. \A b \in Brokers : ~InDispatch(b) /\ ~InRecovery(b) /\ pc[b] = "down" /\ mode[b] =
   None
  BY DEF InDispatch, InRecovery, DispatchPcs, FinishPcs, RecoverPcs
<1> QED
  BY <1>1, <1>2
     DEF Inv0, Protected, JobsAreTyped, JobsAreUnique, ModesFit, ShapeOK, RobsTheDead,
         LeaseOnDisk, Holding, UnitsMarked, Reaped, CommitsExecuted, FinishPcs, RecoverPcs

(* The type invariant. *)
THEOREM TypeCorrect == Spec => []TypeOK
<1>1. Init => Inv0
  BY InitInv
<1>2. Inv0 => TypeOK
  BY DEF Inv0
<1> QED
  BY <1>1, <1>2, Inv0Step, PTL DEF Spec

(* What holds until a live coordinator is robbed. *)
Sound == Inv0 /\ Protected

(* Every step but a robbery keeps the lease a protection. *)
LEMMA SoundStep == Sound /\ [Next]_vars /\ ~robbed' => Sound'
<1> SUFFICES ASSUME Sound, [Next]_vars, ~robbed' PROVE Sound'
  OBVIOUS
<1>1. Inv0'
  BY Inv0Step DEF Sound
<1>2. CASE Next
  BY <1>1, <1>2, LeaseStep, UnitsMarkedStep, ReapedStep, CommitsStep, RobsTheDeadStep
     DEF Sound, Inv0, Protected
<1>3. CASE UNCHANGED vars
  BY <1>1, <1>3
     DEF vars, files, units, procs, Sound, Protected, LeaseOnDisk, Holding, UnitsMarked,
         Reaped, CommitsExecuted, RobsTheDead, Alive, InDispatch, InRecovery
<1> QED
  BY <1>2, <1>3

(* The invariant says so. *)
LEMMA SoundUntilRobbed == IInv <=> Inv0 /\ (robbed \/ Sound)
  BY DEF IInv, Inv0, Sound

(* The invariant is inductive. *)
LEMMA IInvStep == IInv /\ [Next]_vars => IInv'
<1> SUFFICES ASSUME IInv, [Next]_vars PROVE IInv'
  OBVIOUS
<1>1. Inv0 /\ Inv0'
  BY Inv0Step, SoundUntilRobbed
<1>2. ~robbed' => ~robbed
  BY <1>1, RobbedStays DEF Inv0
<1>3. ~robbed' => Sound'
  BY <1>1, <1>2, SoundStep, SoundUntilRobbed
<1> QED
  BY <1>1, <1>3 DEF IInv, Inv0, Sound

(* The inductive invariant: until a recovery takes up the lease of a live coordinator,
   held leases are on disk, a unit or phase runs only under its marker, reaped units stay
   down, and commits follow executions. *)
THEOREM InductiveInvariant == Spec => []IInv
<1>1. Init => IInv
  BY InitInv DEF IInv, Inv0
<1> QED
  BY <1>1, IInvStep, PTL DEF Spec

(* No program runs without its marker, whatever crashes, failed stops, failed cleanups
   and recoveries beside dispatches happened before, until a coordinator is robbed. *)
THEOREM RunsUnderLease == Spec => []RunningUnderLease
<1>1. IInv => RunningUnderLease
  BY ConstantsAssumption DEF IInv, Protected, UnitsMarked, RunningUnderLease
<1> QED
  BY <1>1, InductiveInvariant, PTL

(* And a reported success is the success of the request's own program. *)
THEOREM SuccessIsReal == Spec => []SuccessMeansExecuted
<1>1. IInv => SuccessMeansExecuted
  BY DEF IInv, Protected, CommitsExecuted, SuccessMeansExecuted
<1> QED
  BY <1>1, InductiveInvariant, PTL

(* The production build holds both slots for itself: a second phase, or an
   ordinary program, would need one of the two markers. *)
THEOREM ProductionHoldsBoth == Spec => []ProductionExclusive
<1>1. IInv => ProductionExclusive
  <2> SUFFICES ASSUME IInv, ~robbed, NEW r \in phase
               PROVE  Cardinality(phase) = 1 /\ \A s \in Slots : unit[s] \notin Requests
    BY DEF ProductionExclusive
  <2>1. UnitsMarked /\ \A q \in phase, s \in Slots : slot[s] = q /\ q \in Production
    BY DEF IInv, Protected, UnitsMarked
  <2>2. phase = {r}
    BY <2>1 DEF Slots
  <2>3. Cardinality(phase) = 1
    BY <2>2, FS_Singleton
  <2>4. \A s \in Slots : unit[s] = None
    BY <2>1 DEF UnitsMarked
  <2> QED
    BY <2>3, <2>4, ConstantsAssumption
<1> QED
  BY <1>1, InductiveInvariant, PTL
=============================================================================
