--------------------- MODULE DeployLeaseRecoveryProofs ---------------------
(***************************************************************************)
(* Proofs about DeployLease, continued: what a step may do to markers,      *)
(* programs and waiters, and what recovery has put right before it serves.  *)
(* They build on the invariant of DeployLeaseProofs.                        *)
(***************************************************************************)
EXTENDS DeployLeaseProofs

-----------------------------------------------------------------------------
(* Where a process comes from *)

BrokerStep(b) ==
    \/ \E r \in Requests : Publish(b, r)
    \/ Ordinary(b) \/ Exclusive(b) \/ Finish(b) \/ Recover(b) \/ GiveUp(b)
    \/ Failing(b)

Stays(c) == pc'[c] = pc[c] /\ mode'[c] = mode[c] /\ lease'[c] = lease[c] /\ todo'[c] = todo[c]

(* The places of a process that no invariant below says anything about. *)
Dull(c) == \/ pc'[c] \in {"down", "idle", "wait", "phases", "succeed", "fail", "drop",
                          "dropclean", "scan"}
           \/ pc'[c] = "reap" /\ mode'[c] # "recover"

(* The step of one process leaves the others where they are, or wakes those that
   wait for a unit it stops. *)
LEMMA OthersStay ==
    ASSUME TypeOK, NEW b \in Brokers, BrokerStep(b), NEW c \in Brokers \ {b}
    PROVE  /\ Stays(c) \/ (pc[c] = "wait" /\ pc'[c] = "fail")
           /\ lease'[c] = lease[c] /\ todo'[c] = todo[c]
<1> USE DEF TypeOK, ProcsOK, Stays
<1>1. ASSUME NEW p, Goto(b, p) \/ Exit(b, p) PROVE Stays(c)
  BY <1>1 DEF Goto, Exit
<1>2. CASE \E r \in Requests : Publish(b, r)
  BY <1>2 DEF Publish
<1>3. CASE Ordinary(b)
  BY <1>1, <1>3 DEF Ordinary, Enqueue, AcquireOrdinary, AcquireRaises, StartUnit
<1>4. CASE Exclusive(b)
  BY <1>1, <1>4
     DEF Exclusive, Announce, AcquireExclusive, PhaseStarts, PhasesSealed, PhasesRaise, procs
<1>5. CASE Finish(b)
  BY <1>1, <1>5
     DEF Finish, Reap, WaitingOn, Clean, Release, FinishRaises, FinishReturns, Succeed, Fail,
         DropWaiter, DropClean
<1>6. CASE Recover(b)
  BY <1>1, <1>6
     DEF Recover, Restart, ScanLeases, NextLease, CheckWriter, CancelWriter, ScanWaiters,
         NextWaiter, UnlinkWaiter
<1>7. CASE GiveUp(b)
  BY <1>1, <1>7 DEF GiveUp, OrdinaryTimeout, ExclusiveGivesUp, StartRaises
<1>8. CASE Failing(b)
  BY <1>1, <1>8 DEF Failing, ReapOrCleanFails, FinishRaises, Crash, CrashInSection
<1> QED
  BY <1>2, <1>3, <1>4, <1>5, <1>6, <1>7, <1>8 DEF BrokerStep

(* A process comes to a place that matters below by one of these actions. *)
Arrives(c) ==
    \/ (\E r \in Requests : Publish(c, r)) \/ Enqueue(c) \/ AcquireOrdinary(c) \/ Announce(c)
    \/ Reap(c) \/ Clean(c) \/ Release(c)
    \/ ScanLeases(c) \/ NextLease(c) \/ CheckWriter(c) \/ CancelWriter(c) \/ ScanWaiters(c)
    \/ NextWaiter(c) \/ UnlinkWaiter(c)

(* Every process stays, or arrives, or goes where nothing matters. *)
LEMMA Origins ==
    ASSUME TypeOK, [Next]_vars, NEW c \in Brokers
    PROVE  Stays(c) \/ Dull(c) \/ Arrives(c)
<1> USE DEF TypeOK, ProcsOK, Stays, Dull
<1>1. ASSUME NEW b \in Brokers \ {c}, BrokerStep(b) PROVE Stays(c) \/ Dull(c)
  BY <1>1, OthersStay
<1>2. CASE BrokerStep(c)
  <2>1. ASSUME NEW p, Goto(c, p) \/ Exit(c, p) PROVE pc'[c] = p
    BY <2>1 DEF Goto, Exit
  <2>2. CASE Ordinary(c)
    BY <2>1, <2>2 DEF Ordinary, AcquireRaises, StartUnit, Arrives
  <2>3. CASE Exclusive(c)
    BY <2>1, <2>3, ConstantsAssumption
       DEF Exclusive, AcquireExclusive, PhaseStarts, PhasesSealed, PhasesRaise, procs, Arrives
  <2>4. CASE Finish(c)
    BY <2>1, <2>4 DEF Finish, Succeed, Fail, DropWaiter, DropClean, Arrives
  <2>5. CASE Recover(c)
    BY <2>1, <2>5 DEF Recover, Restart, Arrives
  <2>6. CASE GiveUp(c)
    BY <2>1, <2>6 DEF GiveUp, OrdinaryTimeout, ExclusiveGivesUp, StartRaises
  <2>7. CASE Failing(c)
    BY <2>1, <2>7 DEF Failing, ReapOrCleanFails, FinishRaises, Crash, CrashInSection
  <2> QED
    BY <1>2, <2>2, <2>3, <2>4, <2>5, <2>6, <2>7 DEF BrokerStep, Arrives
<1>3. CASE UnitStep
  BY <1>3 DEF UnitStep, UnitReads, UnitSucceeds, UnitFails, PhaseEnds, Wake, WaitingOn, procs
<1>4. CASE UNCHANGED vars
  BY <1>4 DEF vars, procs
<1> QED
  BY <1>1, <1>2, <1>3, <1>4 DEF Next, BrokerStep

(* The phases of a production build begin with its acquisition. *)
LEMMA PhasesOrigin ==
    ASSUME TypeOK, [Next]_vars, NEW c \in Brokers, pc'[c] = "phases"
    PROVE  pc[c] \in {"exclusive", "phases"} /\ lease'[c].request = lease[c].request
<1> USE DEF TypeOK, ProcsOK
<1>1. ASSUME NEW p, Goto(c, p) \/ Exit(c, p) PROVE pc'[c] = p
  BY <1>1 DEF Goto, Exit
<1>2. ASSUME NEW b \in Brokers \ {c}, BrokerStep(b) PROVE pc[c] = "phases" /\ lease'[c] = lease[c]
  BY <1>2, OthersStay DEF Stays
<1>3. CASE Exclusive(c)
  BY <1>1, <1>3
     DEF Exclusive, Announce, AcquireExclusive, CanExclude, PhaseStarts, PhasesSealed,
         PhasesRaise, procs, Handle
<1>4. CASE BrokerStep(c) /\ ~Exclusive(c)
  <2>1. ~((\E r \in Requests : Publish(c, r)) \/ Ordinary(c) \/ Finish(c))
    BY <1>1
       DEF Publish, Ordinary, Enqueue, AcquireOrdinary, AcquireRaises, StartUnit, Finish, Reap,
           Clean, Release, FinishRaises, FinishReturns, Succeed, Fail, DropWaiter, DropClean
  <2>2. ~(Recover(c) \/ GiveUp(c) \/ Failing(c))
    BY <1>1
       DEF Recover, Restart, ScanLeases, NextLease, CheckWriter, CancelWriter, ScanWaiters,
           NextWaiter, UnlinkWaiter, GiveUp, OrdinaryTimeout, ExclusiveGivesUp, StartRaises,
           Failing, ReapOrCleanFails, FinishRaises, Crash, CrashInSection
  <2> QED
    BY <1>4, <2>1, <2>2 DEF BrokerStep
<1>5. CASE UnitStep
  BY <1>5 DEF UnitStep, UnitReads, UnitSucceeds, UnitFails, PhaseEnds, Wake, WaitingOn, procs
<1>6. CASE UNCHANGED vars
  BY <1>6 DEF vars, procs
<1> QED
  BY <1>2, <1>3, <1>4, <1>5, <1>6 DEF Next, BrokerStep
-----------------------------------------------------------------------------
(* Who writes which file *)

(* Only a publication makes a request directory. *)
LEMMA RequestsChange ==
    ASSUME [Next]_vars
    PROVE  requests' \subseteq requests \/ \E b \in Brokers, r \in Requests : Publish(b, r)
  BY DEF Next, Ordinary, Exclusive, Finish, Recover, GiveUp, Failing, UnitStep, vars, files,
         Enqueue, AcquireOrdinary, AcquireRaises, OrdinaryTimeout, StartUnit, StartRaises,
         Announce, AcquireExclusive, ExclusiveGivesUp, PhaseStarts, PhasesSealed, PhasesRaise,
         Reap, Clean, ReapOrCleanFails, Release, Succeed, Fail, DropWaiter, DropClean, Restart,
         ScanLeases, NextLease, CheckWriter, CancelWriter, ScanWaiters, NextWaiter,
         UnlinkWaiter, Crash, CrashInSection, UnitReads, UnitSucceeds, UnitFails, PhaseEnds

-----------------------------------------------------------------------------
(* A marker goes last *)

(* Where the directory of a request is gone, it stays gone: an id is taken again
   only when no handle names it. *)
LEMMA CleanedStep == TypeOK /\ Cleaned /\ [Next]_vars => Cleaned'
<1> SUFFICES ASSUME TypeOK, Cleaned, [Next]_vars,
                    NEW c \in Brokers, pc'[c] = "release"
             PROVE  lease'[c].request \notin requests'
  BY DEF Cleaned
<1> USE DEF TypeOK, ProcsOK
<1>1. Stays(c) \/ Clean(c)
  <2>1. Arrives(c) => Clean(c)
    BY DEF Arrives, Publish, Enqueue, AcquireOrdinary, Announce, Reap, Release, FinishRaises,
           FinishReturns, ScanLeases, NextLease, CheckWriter, CancelWriter, ScanWaiters,
           NextWaiter, UnlinkWaiter, Goto, Exit
  <2> QED
    BY <2>1, Origins DEF Dull
<1>2. CASE Clean(c)
  BY <1>2 DEF Clean, Goto
<1>3. CASE Stays(c)
  <2>1. lease[c].request \notin requests
    BY <1>3 DEF Stays, Cleaned
  <2>2. ASSUME NEW b \in Brokers, NEW r \in Requests, Publish(b, r)
        PROVE  lease[c].request \notin requests'
    BY <2>1, <2>2 DEF Publish, Fresh
  <2> QED
    BY <1>3, <2>1, <2>2, RequestsChange DEF Stays
<1> QED
  BY <1>1, <1>2, <1>3

(* A marker is unlinked only when no unit, no phase and no directory of its request
   is left, until a live coordinator is robbed; DeployLeaseOverlap shows what a robbery
   does to it. *)
THEOREM ReleasesCleaned == Spec => CleanUntilRobbed
<1>1. Init => Cleaned
  BY DEF Init, Cleaned
<1>2. IInv /\ Cleaned /\ [Next]_vars => robbed' \/ \A s \in Slots : NothingLeft(s)
  <2> SUFFICES ASSUME IInv, Cleaned, [Next]_vars, ~robbed', NEW s \in Slots,
                      slot[s] \in Requests, slot'[s] # slot[s]
               PROVE  unit'[s] = None /\ slot[s] \notin phase' /\ slot[s] \notin requests'
    BY DEF NothingLeft
  <2>0. TypeOK /\ Reaped
    BY RobbedStays DEF IInv, Protected
  <2>1. PICK b \in Brokers : Unmarks(b, s)
    BY <2>0, MarkerChange, ConstantsAssumption DEF Marks
  <2>2. Frame
    BY <2>0, MarkerChange
  <2> QED
    BY <2>0, <2>1, <2>2 DEF Unmarks, Frame, Reaped, Cleaned
<1>3. TypeOK /\ Cleaned /\ [Next]_vars => Cleaned'
  BY CleanedStep
<1>4. IInv => TypeOK
  BY DEF IInv
<1> QED
  BY <1>1, <1>2, <1>3, <1>4, InductiveInvariant, PTL DEF Spec, CleanUntilRobbed

-----------------------------------------------------------------------------
(* Handles of recoveries and requests without a lease *)

(* A handle that a process holds or has yet to visit is not new, or it is the one a
   coordinator acquires, or recovery has read it from a marker. *)
LEMMA HandlesChange ==
    ASSUME TypeOK, [Next]_vars, NEW c \in Brokers,
           NEW h \in todo'[c] \cup {lease'[c]}, h.slots # {}
    PROVE  \/ h \in todo[c] \cup {lease[c]}
           \/ h = lease'[c] /\ InDispatch(c) /\ h.request = lease[c].request
           \/ \E s \in Slots : h = HandleAt(s) /\ slot[s] \in Requests
<1> USE DEF TypeOK, ProcsOK
<1>1. ASSUME NEW b \in Brokers \ {c}, BrokerStep(b) PROVE h \in todo[c] \cup {lease[c]}
  BY <1>1, OthersStay
<1>2. ASSUME NEW p, Goto(c, p) \/ Exit(c, p) PROVE h \in todo[c] \cup {lease[c]}
  BY <1>2 DEF Goto, Exit, NoHandle, Pending
<1>3. CASE BrokerStep(c)
  <2>1. ASSUME NEW r \in Requests, Publish(c, r) PROVE h \in todo[c] \cup {lease[c]}
    BY <2>1 DEF Publish, Pending
  <2>2. CASE AcquireOrdinary(c) \/ AcquireExclusive(c)
    BY <2>2 DEF AcquireOrdinary, CanAcquire, AcquireExclusive, CanExclude, InDispatch,
                DispatchPcs, Handle
  <2>3. CASE ScanLeases(c)
    BY <1>2, <2>3 DEF ScanLeases, FreeSlots, FilesOK
  <2>4. CASE Ordinary(c) /\ ~AcquireOrdinary(c)
    BY <1>2, <2>4 DEF Ordinary, Enqueue, AcquireRaises, StartUnit
  <2>5. CASE Exclusive(c) /\ ~AcquireExclusive(c)
    BY <1>2, <2>5 DEF Exclusive, Announce, PhaseStarts, PhasesSealed, PhasesRaise, procs
  <2>6. CASE Finish(c)
    BY <1>2, <2>6
       DEF Finish, Reap, Clean, Release, FinishRaises, FinishReturns, Succeed, Fail,
           DropWaiter, DropClean
  <2>7. CASE Recover(c) /\ ~ScanLeases(c)
    <3>1. CASE NextLease(c)
      BY <1>2, <3>1 DEF NextLease
    <3>2. CASE CheckWriter(c)
      BY <1>2, <3>2 DEF CheckWriter, Pending
    <3>3. CASE ScanWaiters(c)
      BY <1>2, <3>3 DEF ScanWaiters, Pending
    <3>4. CASE NextWaiter(c)
      BY <1>2, <3>4 DEF NextWaiter
    <3>5. CASE UnlinkWaiter(c)
      BY <3>5 DEF UnlinkWaiter, NoHandle, Pending
    <3> QED
      BY <1>2, <2>7, <3>1, <3>2, <3>3, <3>4, <3>5 DEF Recover, Restart, CancelWriter
  <2>8. CASE GiveUp(c)
    BY <1>2, <2>8 DEF GiveUp, OrdinaryTimeout, ExclusiveGivesUp, StartRaises
  <2>9. CASE Failing(c)
    BY <1>2, <2>9 DEF Failing, ReapOrCleanFails, FinishRaises, Crash, CrashInSection
  <2> QED
    BY <1>3, <2>1, <2>2, <2>3, <2>4, <2>5, <2>6, <2>7, <2>8, <2>9 DEF BrokerStep
<1>4. CASE UnitStep
  BY <1>4 DEF UnitStep, UnitReads, UnitSucceeds, UnitFails, PhaseEnds, procs
<1>5. CASE UNCHANGED vars
  BY <1>5 DEF vars, procs
<1> QED
  BY <1>1, <1>3, <1>4, <1>5 DEF Next, BrokerStep

PreLease == {"enqueue", "acquire", "announce", "exclusive"}

(* A coordinator comes to wait for a lease by publishing its request, or waits already. *)
LEMMA PreLeaseOrigin ==
    ASSUME TypeOK, [Next]_vars, NEW b \in Brokers, pc'[b] \in PreLease
    PROVE  \/ pc[b] \in PreLease /\ lease'[b] = lease[b]
           \/ \E r \in Requests : Publish(b, r) /\ lease'[b].request = r
<1> USE DEF TypeOK, ProcsOK, PreLease
<1>1. CASE Arrives(b)
  BY <1>1
     DEF Arrives, Publish, Pending, Enqueue, AcquireOrdinary, Announce, Reap, Clean, Release,
         FinishRaises, FinishReturns, ScanLeases, NextLease, CheckWriter, CancelWriter,
         ScanWaiters, NextWaiter, UnlinkWaiter, Goto, Exit
<1> QED
  BY <1>1, Origins DEF Stays, Dull

(* No acquisition and no scan of a recovery gives the request of a waiting coordinator
   a marker or a handle: they are for other requests, and ids in use are not fresh. *)
LEMMA UnleasedStep == Inv0 /\ Unleased /\ [Next]_vars => Unleased'
<1> SUFFICES ASSUME Inv0, Unleased, [Next]_vars, NEW b \in Brokers, pc'[b] \in PreLease
             PROVE  /\ \A s \in Slots : slot'[s] # lease'[b].request
                    /\ \A c \in Brokers : \A h \in todo'[c] \cup {lease'[c]} :
                          h.slots # {} => h.request # lease'[b].request
  BY DEF Unleased, PreLease
<1>0. TypeOK /\ JobsAreTyped /\ JobsAreUnique /\ ShapeOK /\ Inv0'
  BY Inv0Step DEF Inv0
<1>1. InDispatch(b)' /\ lease'[b].request \in Requests /\ lease'[b].slots = {}
  BY <1>0 DEF InDispatch, DispatchPcs, PreLease, Inv0, JobsAreTyped, ShapeOK
<1>2. /\ \A s \in Slots : slot[s] # lease'[b].request
      /\ \A c \in Brokers : \A h \in todo[c] \cup {lease[c]} :
            h.slots # {} => h.request # lease'[b].request
  BY <1>0, PreLeaseOrigin DEF Unleased, PreLease, Publish, Fresh
<1>3. ASSUME NEW c \in Brokers, c # b, InDispatch(c) PROVE lease[c].request # lease'[b].request
  <2>1. CASE pc[b] \in PreLease /\ lease'[b] = lease[b]
    BY <1>0, <1>3, <2>1 DEF JobsAreUnique, InDispatch, PreLease, DispatchPcs
  <2> QED
    BY <1>0, <2>1, PreLeaseOrigin DEF Publish, Fresh
<1>4. ASSUME NEW s \in Slots PROVE slot'[s] # lease'[b].request
  <2>1. ASSUME NEW c \in Brokers, Marks(c, s) PROVE slot'[s] # lease'[b].request
    <3>1. InDispatch(c)
      BY <2>1 DEF Marks, CanAcquire, CanExclude, InDispatch, DispatchPcs
    <3>2. c # b
      BY <2>1 DEF Marks, PreLease
    <3> QED
      BY <1>1, <1>3, <2>1, <3>1, <3>2, ConstantsAssumption DEF Marks
  <2> QED
    BY <1>0, <1>1, <1>2, <2>1, MarkerChange, ConstantsAssumption DEF Unmarks
<1>5. ASSUME NEW c \in Brokers, NEW h \in todo'[c] \cup {lease'[c]}, h.slots # {}
      PROVE  h.request # lease'[b].request
  <2>1. CASE h = lease'[c] /\ InDispatch(c) /\ h.request = lease[c].request
    BY <1>1, <1>3, <1>5, <2>1
  <2>2. CASE \E s \in Slots : h = HandleAt(s) /\ slot[s] \in Requests
    BY <1>2, <2>2 DEF HandleAt
  <2> QED
    BY <1>0, <1>2, <1>5, <2>1, <2>2, HandlesChange
<1> QED
  BY <1>4, <1>5

(* A recovery finishes leases, not waiters. *)
LEMMA RecoversLeasesStep == Inv0 /\ RecoversLeases /\ [Next]_vars => RecoversLeases'
<1> SUFFICES ASSUME Inv0, RecoversLeases, [Next]_vars, NEW b \in Brokers, InRecovery(b)',
                    pc'[b] \in {"scan2", "leases"} \cup FinishPcs
             PROVE  /\ \A h \in todo'[b] : h.slots # {}
                    /\ pc'[b] \in FinishPcs => lease'[b].slots # {}
  BY DEF RecoversLeases
<1> USE DEF Inv0, TypeOK, ProcsOK, InRecovery, RecoverPcs, FinishPcs
<1>1. CASE Stays(b)
  BY <1>1 DEF Stays, RecoversLeases
<1>2. CASE Arrives(b)
  <2>1. CASE ScanLeases(b)
    BY <2>1 DEF ScanLeases, Exit, HandleAt, Slots, RecoversLeases
  <2>2. CASE NextLease(b)
    BY <2>2 DEF NextLease, Exit, RecoversLeases
  <2>3. CASE Reap(b)
    BY <2>3 DEF Reap, RecoversLeases
  <2>4. CASE Clean(b)
    BY <2>4 DEF Clean, Goto, RecoversLeases
  <2>5. CASE Release(b)
    BY <2>5 DEF Release, FinishRaises, FinishReturns, Goto, Exit, RecoversLeases
  <2> QED
    BY <1>2, <2>1, <2>2, <2>3, <2>4, <2>5
       DEF Arrives, Publish, Enqueue, AcquireOrdinary, Announce, CheckWriter, CancelWriter,
           ScanWaiters, NextWaiter, UnlinkWaiter, Goto, Exit
<1> QED
  BY <1>1, <1>2, Origins DEF Dull

(* A recovery looks for the coordinator of a waiter or writer before it unlinks the
   file; the coordinator it has missed cannot come to life in between. *)
LEMMA CancelsTheDeadStep == TypeOK /\ CancelsTheDead /\ [Next]_vars => CancelsTheDead'
<1> SUFFICES ASSUME TypeOK, CancelsTheDead, [Next]_vars,
                    NEW b \in Brokers, pc'[b] \in {"wcancel", "wunlink"},
                    NEW c \in Brokers, InDispatch(c)'
             PROVE  lease'[c].request # lease'[b].request
  BY DEF CancelsTheDead, Alive
<1> USE DEF TypeOK, ProcsOK
<1>1. \/ ~Alive(lease'[b].request) /\ lease'[b] = lease[b]
      \/ ~Alive(lease'[b].request) /\ ~\E r \in Requests : Publish(c, r)
  <2>1. CASE Stays(b)
    BY <2>1 DEF Stays, CancelsTheDead
  <2>2. CASE Arrives(b)
    <3>1. CheckWriter(b) \/ NextWaiter(b)
      BY <2>2
         DEF Arrives, Publish, Enqueue, AcquireOrdinary, Announce, Reap, Clean, Release,
             FinishRaises, FinishReturns, ScanLeases, NextLease, CancelWriter, ScanWaiters,
             UnlinkWaiter, Goto, Exit
    <3>2. ~Alive(lease'[b].request)
      BY <3>1 DEF CheckWriter, NextWaiter, Goto, Exit, Pending
    <3>3. ASSUME NEW r \in Requests, Publish(c, r) PROVE FALSE
      BY <3>1, <3>3 DEF CheckWriter, NextWaiter, Publish
    <3> QED
      BY <3>2, <3>3
  <2> QED
    BY <2>1, <2>2, Origins DEF Dull
<1>2. CASE InDispatch(c) /\ lease'[c].request = lease[c].request
  BY <1>1, <1>2 DEF Alive
<1>3. ASSUME NEW r \in Requests, Publish(c, r), lease'[c].request = r
      PROVE  lease'[c].request # lease'[b].request
  BY <1>1, <1>3 DEF Publish, Fresh
<1> QED
  BY <1>2, <1>3, AliveOrigin

-----------------------------------------------------------------------------
(* The queue of ordinary waiters *)

(* The element that goes is the one at position i; every other one moves up by one at
   most. *)
LEMMA RemoveAtElements ==
    ASSUME NEW S, NEW q \in Seq(S), NEW i \in DOMAIN q
    PROVE  /\ Len(RemoveAt(q, i)) = Len(q) - 1 /\ RemoveAt(q, i) \in Seq(S)
           /\ \A j \in 1..(Len(q) - 1) : RemoveAt(q, i)[j] = q[IF j < i THEN j ELSE j + 1]
<1> DEFINE l == SubSeq(q, 1, i - 1)
           m == SubSeq(q, i + 1, Len(q))
<1>1. Len(q) \in Nat /\ i \in 1..Len(q)
  OBVIOUS
<1>2. l \in Seq(S) /\ Len(l) = i - 1 /\ \A j \in 1..(i - 1) : l[j] = q[j]
  BY <1>1
<1>3. m \in Seq(S) /\ Len(m) = Len(q) - i /\ \A j \in 1..(Len(q) - i) : m[j] = q[i + j]
  BY <1>1
<1>4. RemoveAt(q, i) = l \o m
  BY DEF RemoveAt
<1> HIDE DEF l, m
<1>5. /\ l \o m \in Seq(S) /\ Len(l \o m) = Len(q) - 1
      /\ \A j \in 1..(Len(q) - 1) : (l \o m)[j] = IF j <= i - 1 THEN l[j] ELSE m[j - (i - 1)]
  BY <1>1, <1>2, <1>3
<1>6. ASSUME NEW j \in 1..(Len(q) - 1)
      PROVE  (l \o m)[j] = q[IF j < i THEN j ELSE j + 1]
  <2>1. CASE j < i
    BY <1>1, <1>2, <1>5, <2>1
  <2>2. CASE ~(j < i)
    <3>1. j - (i - 1) \in 1..(Len(q) - i) /\ i + (j - (i - 1)) = j + 1
      BY <1>1, <2>2
    <3> QED
      BY <1>1, <1>3, <1>5, <2>2, <3>1
  <2> QED
    BY <2>1, <2>2
<1> QED
  BY <1>4, <1>5, <1>6

(* cancel_ordinary removes nothing but the waiter it is for, and what it leaves was
   there before. *)
LEMMA UnqueueElements ==
    ASSUME FilesOK, NEW r, Unqueue(r)
    PROVE  /\ ToSet(waiters') \subseteq ToSet(waiters)
           /\ \A p \in ToSet(waiters) : p # r => p \in ToSet(waiters')
<1>1. CASE UNCHANGED waiters
  BY <1>1
<1>2. ASSUME NEW i \in DOMAIN waiters, waiters[i] = r, waiters' = RemoveAt(waiters, i)
      PROVE  /\ ToSet(waiters') \subseteq ToSet(waiters)
             /\ \A p \in ToSet(waiters) : p # r => p \in ToSet(waiters')
  <2>0. waiters \in Seq(Requests \cup {Torn}) /\ i \in 1..Len(waiters)
    BY DEF FilesOK
  <2>1. /\ Len(waiters') = Len(waiters) - 1 /\ waiters' \in Seq(Requests \cup {Torn})
        /\ \A j \in 1..(Len(waiters) - 1) : waiters'[j] = waiters[IF j < i THEN j ELSE j + 1]
    BY <1>2, <2>0, RemoveAtElements
  <2>2. ASSUME NEW j \in DOMAIN waiters' PROVE waiters'[j] \in ToSet(waiters)
    BY <2>0, <2>1 DEF ToSet
  <2>3. ASSUME NEW k \in DOMAIN waiters, waiters[k] # r PROVE waiters[k] \in ToSet(waiters')
    <3>1. CASE k < i
      <4>1. k \in 1..(Len(waiters) - 1) /\ waiters'[k] = waiters[k]
        BY <2>0, <2>1, <3>1
      <4> QED
        BY <2>1, <4>1 DEF ToSet
    <3>2. CASE k > i
      <4>1. k - 1 \in 1..(Len(waiters) - 1) /\ waiters'[k - 1] = waiters[k]
        BY <2>0, <2>1, <3>2
      <4> QED
        BY <2>1, <4>1 DEF ToSet
    <3> QED
      BY <1>2, <2>0, <2>3, <3>1, <3>2
  <2> QED
    BY <2>2, <2>3 DEF ToSet
<1> QED
  BY <1>1, <1>2 DEF Unqueue

(* Who writes the queue. *)
LEMMA QueueChange ==
    ASSUME [Next]_vars
    PROVE  \/ UNCHANGED waiters
           \/ \E b \in Brokers : \/ Enqueue(b) \/ AcquireOrdinary(b) \/ OrdinaryTimeout(b)
                                 \/ DropWaiter(b) \/ UnlinkWaiter(b) \/ CrashInSection(b)
  BY DEF Next, Ordinary, Exclusive, Finish, Recover, GiveUp, Failing, UnitStep, vars, files,
         Publish, AcquireRaises, StartUnit, StartRaises, Announce, AcquireExclusive,
         ExclusiveGivesUp, PhaseStarts, PhasesSealed, PhasesRaise, Reap, Clean,
         ReapOrCleanFails, Release, Succeed, Fail, DropClean, Restart, ScanLeases, NextLease,
         CheckWriter, CancelWriter, ScanWaiters, NextWaiter, Crash, UnitReads, UnitSucceeds,
         UnitFails, PhaseEnds

(* A waiter goes when its coordinator acquires or gives up, or when a recovery
   unlinks it. *)
LEMMA WaiterGoes ==
    ASSUME TypeOK, [Next]_vars, NEW r \in ToSet(waiters), r \notin ToSet(waiters')
    PROVE  \E b \in Brokers : /\ lease[b].request = r /\ pc'[b] # "acquire"
                              /\ InDispatch(b) \/ pc[b] = "wunlink"
<1> USE DEF TypeOK, ProcsOK, FilesOK
<1> DEFINE Goal == \E b \in Brokers : /\ lease[b].request = r /\ pc'[b] # "acquire"
                                      /\ InDispatch(b) \/ pc[b] = "wunlink"
<1>1. ASSUME NEW b \in Brokers, Enqueue(b) PROVE Goal
  BY <1>1 DEF Enqueue, ToSet
<1>2. ASSUME NEW b \in Brokers, AcquireOrdinary(b) PROVE Goal
  <2>1. waiters # <<>> /\ Head(waiters) = lease[b].request /\ waiters' = Tail(waiters)
    BY <1>2 DEF AcquireOrdinary, CanAcquire
  <2>2. PICK k \in DOMAIN waiters : waiters[k] = r
    BY DEF ToSet
  <2>3. k = 1
    <3>1. SUFFICES ASSUME k # 1 PROVE FALSE
      OBVIOUS
    <3>2. Len(Tail(waiters)) = Len(waiters) - 1 /\ k - 1 \in 1..(Len(waiters) - 1)
      BY <2>1, <2>2, <3>1
    <3>3. Tail(waiters)[k - 1] = r
      BY <2>1, <2>2, <3>2
    <3>4. Tail(waiters) \in Seq(Requests \cup {Torn})
      BY <2>1
    <3> QED
      BY <2>1, <3>2, <3>3, <3>4 DEF ToSet
  <2> QED
    BY <1>2, <2>1, <2>2, <2>3 DEF AcquireOrdinary, CanAcquire, InDispatch, DispatchPcs
<1>3. ASSUME NEW b \in Brokers, OrdinaryTimeout(b) PROVE Goal
  BY <1>3, UnqueueElements DEF OrdinaryTimeout, Goto, InDispatch, DispatchPcs
<1>4. ASSUME NEW b \in Brokers, DropWaiter(b) PROVE Goal
  BY <1>4, UnqueueElements DEF DropWaiter, Goto, Exit, InDispatch, DispatchPcs
<1>5. ASSUME NEW b \in Brokers, UnlinkWaiter(b) PROVE Goal
  BY <1>5, UnqueueElements DEF UnlinkWaiter
<1>6. ASSUME NEW b \in Brokers, CrashInSection(b) PROVE Goal
  BY <1>6
     DEF CrashInSection, HalfDone, HalfEnqueue, HalfAcquire, HalfAnnounce, HalfExclude,
         HalfRelease, ToSet
<1> QED
  BY <1>1, <1>2, <1>3, <1>4, <1>5, <1>6, QueueChange

(* The writer file goes when its coordinator acquires or gives up, when its own
   leases are released, or when a recovery unlinks it. *)
LEMMA WriterGoes ==
    ASSUME TypeOK, [Next]_vars, writer \in Requests, writer' # writer
    PROVE  \E b \in Brokers : /\ lease[b].request = writer /\ pc'[b] # "exclusive"
                              /\ \/ pc[b] \in {"exclusive", "wcancel"}
                                 \/ pc[b] = "release" /\ OwnsMarkers(b)
<1>1. \/ UNCHANGED writer
      \/ \E b \in Brokers : \/ Announce(b) \/ AcquireExclusive(b) \/ ExclusiveGivesUp(b)
                            \/ Release(b) \/ CancelWriter(b) \/ CrashInSection(b)
  BY DEF Next, Ordinary, Exclusive, Finish, Recover, GiveUp, Failing, UnitStep, vars, files,
         Publish, Enqueue, AcquireOrdinary, AcquireRaises, OrdinaryTimeout, StartUnit,
         StartRaises, PhaseStarts, PhasesSealed, PhasesRaise, Reap, Clean, ReapOrCleanFails,
         Succeed, Fail, DropWaiter, DropClean, Restart, ScanLeases, NextLease, CheckWriter,
         ScanWaiters, NextWaiter, UnlinkWaiter, Crash, UnitReads, UnitSucceeds, UnitFails,
         PhaseEnds
<1>2. ~\E b \in Brokers : Announce(b) \/ CrashInSection(b)
  BY ConstantsAssumption
     DEF Announce, CrashInSection, HalfDone, HalfEnqueue, HalfAcquire, HalfAnnounce,
         HalfExclude, HalfRelease
<1> QED
  BY <1>1, <1>2, ConstantsAssumption
     DEF AcquireExclusive, CanExclude, ExclusiveGivesUp, Release, FinishRaises, FinishReturns,
         CancelWriter, Goto, Exit, TypeOK, ProcsOK

(* A waiting coordinator stays queued: nobody else works for its request, a recovery
   that unlinks waiters and writers does so for the dead, and one that releases a
   lease has read it from a marker. *)
LEMMA LiveWaitersStep ==
    Inv0 /\ Unleased /\ RecoversLeases /\ CancelsTheDead /\ LiveWaitersKept /\ [Next]_vars
        => LiveWaitersKept'
<1> SUFFICES ASSUME Inv0, Unleased, RecoversLeases, CancelsTheDead, LiveWaitersKept,
                    [Next]_vars, NEW b \in Brokers
             PROVE  /\ pc'[b] = "acquire" => lease'[b].request \in ToSet(waiters')
                    /\ pc'[b] = "exclusive" => writer' = lease'[b].request
  BY DEF LiveWaitersKept
<1>0. TypeOK /\ JobsAreTyped /\ JobsAreUnique /\ ModesFit
  BY DEF Inv0
<1>1. ASSUME pc'[b] = "acquire" PROVE lease'[b].request \in ToSet(waiters')
  <2>1. CASE Enqueue(b)
    <3>1. waiters' = Append(waiters, lease[b].request) /\ lease' = lease
      BY <1>0, <1>1, <2>1 DEF Enqueue, Goto, TypeOK, ProcsOK
    <3> QED
      BY <1>0, <3>1 DEF ToSet, TypeOK, FilesOK
  <2>2. CASE Stays(b)
    <3>1. lease[b].request \in ToSet(waiters) /\ InDispatch(b) /\ lease'[b] = lease[b]
      BY <1>1, <2>2 DEF Stays, LiveWaitersKept, InDispatch, DispatchPcs
    <3>2. ASSUME NEW c \in Brokers, lease[c].request = lease[b].request, pc'[c] # "acquire",
                 InDispatch(c) \/ pc[c] = "wunlink"
          PROVE  FALSE
      BY <1>0, <1>1, <3>1, <3>2 DEF JobsAreUnique, CancelsTheDead, Alive
    <3> QED
      BY <1>0, <3>1, <3>2, WaiterGoes
  <2>3. Arrives(b) => Enqueue(b)
    BY <1>0, <1>1
       DEF Arrives, Publish, AcquireOrdinary, Announce, Reap, Clean, Release, FinishRaises,
           FinishReturns, ScanLeases, NextLease, CheckWriter, CancelWriter, ScanWaiters,
           NextWaiter, UnlinkWaiter, Goto, Exit, TypeOK, ProcsOK
  <2> QED
    BY <1>0, <1>1, <2>1, <2>2, <2>3, Origins DEF Dull
<1>2. ASSUME pc'[b] = "exclusive" PROVE writer' = lease'[b].request
  <2>1. CASE Announce(b)
    BY <1>0, <1>2, <2>1 DEF Announce, Goto, TypeOK, ProcsOK
  <2>2. CASE Stays(b)
    <3>1. writer = lease[b].request /\ InDispatch(b) /\ lease'[b] = lease[b]
      BY <1>2, <2>2 DEF Stays, LiveWaitersKept, InDispatch, DispatchPcs
    <3>2. ASSUME NEW c \in Brokers, lease[c].request = writer, pc'[c] # "exclusive",
                 pc[c] \in {"exclusive", "wcancel"}
          PROVE  FALSE
      BY <1>0, <1>2, <3>1, <3>2
         DEF JobsAreUnique, CancelsTheDead, Alive, InDispatch, DispatchPcs
    <3>3. ASSUME NEW c \in Brokers, lease[c].request = writer, pc'[c] # "exclusive",
                 pc[c] = "release"
          PROVE  FALSE
      <4>1. c # b
        BY <1>2, <3>3
      <4>2. CASE InDispatch(c)
        BY <1>0, <3>1, <3>3, <4>1, <4>2 DEF JobsAreUnique
      <4>3. CASE InRecovery(c)
        BY <1>2, <2>2, <3>1, <3>3, <4>3 DEF Stays, RecoversLeases, Unleased, FinishPcs
      <4> QED
        BY <1>0, <3>3, <4>2, <4>3
           DEF TypeOK, ProcsOK, ModesFit, InDispatch, InRecovery, FinishPcs
    <3> QED
      BY <1>0, <3>1, <3>2, <3>3, WriterGoes DEF JobsAreTyped
  <2>3. Arrives(b) => Announce(b)
    BY <1>0, <1>2
       DEF Arrives, Publish, Enqueue, AcquireOrdinary, Reap, Clean, Release, FinishRaises,
           FinishReturns, ScanLeases, NextLease, CheckWriter, CancelWriter, ScanWaiters,
           NextWaiter, UnlinkWaiter, Goto, Exit, TypeOK, ProcsOK
  <2> QED
    BY <1>0, <1>2, <2>1, <2>2, <2>3, Origins DEF Dull
<1> QED
  BY <1>1, <1>2

(* A coordinator that waits is queued on disk, also when other brokers recover while
   it waits, and whatever crashes leave. *)
THEOREM WaitersStayQueued == Spec => []LiveWaitersKept
<1>1. Init => Inv0 /\ Unleased /\ RecoversLeases /\ CancelsTheDead /\ LiveWaitersKept
  <2>1. Init => Inv0
    BY InitInv
  <2> QED
    BY <2>1
       DEF Init, Unleased, RecoversLeases, CancelsTheDead, LiveWaitersKept, InRecovery,
           RecoverPcs, FinishPcs
<1>2. Inv0 /\ CancelsTheDead /\ [Next]_vars => CancelsTheDead'
  BY CancelsTheDeadStep DEF Inv0
<1> QED
  BY <1>1, <1>2, Inv0Step, UnleasedStep, RecoversLeasesStep, LiveWaitersStep, PTL DEF Spec

-----------------------------------------------------------------------------
(* A program runs once *)

(* What becomes of a slot unit. *)
LEMMA UnitChange ==
    ASSUME TypeOK, [Next]_vars, NEW s \in Slots, unit'[s] # unit[s], unit'[s] # None
    PROVE  \/ UnitReads(s)
           \/ \E b \in Brokers : StartUnit(b) /\ s = SlotOf(b) /\ unit[s] = None
<1>1. CASE \A t \in Slots : ~(UnitReads(t) \/ UnitSucceeds(t) \/ UnitFails(t))
  <2>1. \/ UNCHANGED unit
        \/ \E b \in Brokers : StartUnit(b) \/ Reap(b)
    BY <1>1
       DEF Next, Ordinary, Exclusive, Finish, Recover, GiveUp, Failing, UnitStep, vars, units,
           Publish, Enqueue, AcquireOrdinary, AcquireRaises, OrdinaryTimeout, StartRaises,
           Announce, AcquireExclusive, ExclusiveGivesUp, PhaseStarts, PhasesSealed,
           PhasesRaise, Clean, ReapOrCleanFails, Release, Succeed, Fail, DropWaiter, DropClean,
           Restart, ScanLeases, NextLease, CheckWriter, CancelWriter, ScanWaiters, NextWaiter,
           UnlinkWaiter, Crash, CrashInSection, PhaseEnds
  <2> QED
    BY <2>1 DEF StartUnit, Reap, TypeOK, UnitsOK
<1>2. ASSUME NEW t \in Slots, UnitReads(t) \/ UnitSucceeds(t) \/ UnitFails(t)
      PROVE  UnitReads(s)
  BY <1>2 DEF UnitReads, UnitSucceeds, UnitFails, TypeOK, UnitsOK
<1> QED
  BY <1>1, <1>2

(* What is new in the execution history. *)
LEMMA ExecutedChange ==
    ASSUME [Next]_vars, NEW r \in executed', r \notin executed
    PROVE  \/ \E s \in Slots : UnitSucceeds(s) /\ r = unit[s]
           \/ \E b \in Brokers : PhasesSealed(b) /\ r = lease[b].request
<1>1. \/ executed' \subseteq executed
      \/ \E s \in Slots : UnitSucceeds(s)
      \/ \E b \in Brokers : PhasesSealed(b)
  BY DEF Next, Ordinary, Exclusive, Finish, Recover, GiveUp, Failing, UnitStep, vars, units,
         Publish, Enqueue, AcquireOrdinary, AcquireRaises, OrdinaryTimeout, StartUnit,
         StartRaises, Announce, AcquireExclusive, ExclusiveGivesUp, PhaseStarts, PhasesRaise,
         Reap, Clean, ReapOrCleanFails, Release, Succeed, Fail, DropWaiter, DropClean, Restart,
         ScanLeases, NextLease, CheckWriter, CancelWriter, ScanWaiters, NextWaiter,
         UnlinkWaiter, Crash, CrashInSection, UnitReads, UnitFails, PhaseEnds
<1> QED
  BY <1>1 DEF UnitSucceeds, PhasesSealed

(* The marker of a running unit stays. *)
LEMMA MarkerStays ==
    ASSUME Sound, [Next]_vars, NEW s \in Slots, unit[s] # None
    PROVE  slot'[s] = slot[s]
  BY MarkerChange, ConstantsAssumption DEF Sound, Inv0, Protected, UnitsMarked, Reaped, Marks, Unmarks

(* The marker of a coordinator about to start its unit. *)
LEMMA MarkerOfStarter ==
    ASSUME Sound, NEW b \in Brokers, pc[b] = "start"
    PROVE  /\ InDispatch(b) /\ SlotOf(b) \in Slots /\ lease[b].slots = {SlotOf(b)}
           /\ slot[SlotOf(b)] = lease[b].request /\ lease[b].request \in Requests \ Production
<1>1. InDispatch(b) /\ lease[b].request \in Requests \ Production
  BY DEF Sound, Inv0, Protected, InDispatch, DispatchPcs, ShapeOK, JobsAreTyped
<1>2. PICK s \in Slots : lease[b].slots = {s}
  BY <1>1 DEF Sound, Inv0, Protected, ShapeOK
<1> QED
  BY <1>1, <1>2, SlotOfOwner DEF Sound, Inv0, Protected, LeaseOnDisk, Holding

(* An ordinary request keeps a single marker. *)
LEMMA OneMarkerStep ==
    ASSUME Sound, Unleased, NotYetRun, [Next]_vars, NEW s \in Slots, NEW t \in Slots,
           slot'[s] = slot'[t], slot'[s] \in Requests \ Production
    PROVE  s = t
<1>1. ASSUME NEW u \in Slots, slot'[u] \in Requests \ Production, slot'[u] # slot[u]
      PROVE  \E b \in Brokers : /\ CanAcquire(b) /\ InDispatch(b) /\ LowestFree(u)
                                /\ slot'[u] = lease[b].request
  <2>1. PICK b \in Brokers : Marks(b, u)
    BY <1>1, MarkerChange, ConstantsAssumption DEF Unmarks, Sound, Inv0, Protected
  <2>2. ~CanExclude(b)
    BY <1>1, <2>1, ConstantsAssumption
       DEF Marks, CanExclude, Sound, Inv0, Protected, ShapeOK, InDispatch, DispatchPcs
  <2> QED
    BY <1>1, <2>1, <2>2, ConstantsAssumption DEF Marks, CanAcquire, InDispatch, DispatchPcs
<1>2. ASSUME NEW u \in Slots, NEW v \in Slots, slot'[u] \in Requests \ Production,
             slot'[u] # slot[u], slot'[u] = slot'[v]
      PROVE  slot'[v] # slot[v]
  BY <1>1, <1>2 DEF CanAcquire, Unleased
<1>3. CASE slot'[s] # slot[s] /\ slot'[t] # slot[t]
  <2>1. PICK b \in Brokers : InDispatch(b) /\ LowestFree(s) /\ slot'[s] = lease[b].request
    BY <1>1, <1>3
  <2>2. PICK c \in Brokers : InDispatch(c) /\ LowestFree(t) /\ slot'[t] = lease[c].request
    BY <1>1, <1>3
  <2> QED
    BY <2>1, <2>2 DEF LowestFree, FreeSlots, Slots
<1>4. CASE slot'[s] = slot[s] /\ slot'[t] = slot[t]
  BY <1>4 DEF NotYetRun
<1> QED
  BY <1>2, <1>3, <1>4

BeforeRun == {"enqueue", "acquire", "start", "announce", "exclusive", "phases"}

(* The request of a unit, and of a coordinator whose program is still to run, does not
   get executed by anybody else. *)
LEMMA NotRunElsewhere ==
    ASSUME Sound, Unleased, NotYetRun, [Next]_vars, NEW r \in Requests \ executed,
           \/ \E b \in Brokers : /\ pc[b] \in BeforeRun /\ pc'[b] \in BeforeRun
                                 /\ lease[b].request = r
           \/ \E s \in Slots : unit[s] # None /\ unit'[s] # None /\ slot[s] = r
    PROVE  r \notin executed'
<1> SUFFICES ASSUME r \in executed' PROVE FALSE
  OBVIOUS
<1>0. TypeOK /\ UnitsMarked /\ ShapeOK /\ JobsAreUnique
  BY DEF Sound, Inv0, Protected
<1>1. ASSUME NEW t \in Slots, UnitSucceeds(t), r = unit[t] PROVE FALSE
  <2>1. /\ unit[t] # None /\ slot[t] = r /\ r \in Requests \ Production
        /\ unit'[t] = None
    BY <1>0, <1>1, ConstantsAssumption DEF UnitSucceeds, UnitsMarked, TypeOK, UnitsOK
  <2>2. ASSUME NEW b \in Brokers, pc[b] \in BeforeRun \ {"start"}, lease[b].request = r
        PROVE  FALSE
    BY <1>0, <2>1, <2>2 DEF Unleased, BeforeRun, ShapeOK, InDispatch, DispatchPcs
  <2>3. ASSUME NEW b \in Brokers, pc[b] = "start", lease[b].request = r PROVE FALSE
    BY <2>1, <2>3, MarkerOfStarter DEF NotYetRun
  <2>4. ASSUME NEW s \in Slots, unit'[s] # None, slot[s] = r PROVE FALSE
    BY <2>1, <2>4 DEF NotYetRun
  <2> QED
    BY <2>2, <2>3, <2>4
<1>2. ASSUME NEW c \in Brokers, PhasesSealed(c), r = lease[c].request PROVE FALSE
  <2>1. r \in Production /\ InDispatch(c)
    BY <1>0, <1>2 DEF PhasesSealed, ShapeOK, InDispatch, DispatchPcs
  <2>2. ASSUME NEW b \in Brokers, pc[b] \in BeforeRun, pc'[b] \in BeforeRun,
               lease[b].request = r
        PROVE  FALSE
    <3>1. InDispatch(b)
      BY <2>2 DEF InDispatch, DispatchPcs, BeforeRun
    <3>2. b = c
      BY <1>0, <1>2, <2>1, <2>2, <3>1 DEF JobsAreUnique
    <3> QED
      BY <1>0, <1>2, <2>2, <3>2 DEF PhasesSealed, BeforeRun, TypeOK, ProcsOK
  <2> QED
    BY <1>0, <2>1, <2>2 DEF UnitsMarked
<1> QED
  BY <1>1, <1>2, ExecutedChange DEF BeforeRun

(* So it has not run before it runs. *)
LEMMA NotYetRunStep ==
    ASSUME Sound, Unleased, NotYetRun, [Next]_vars
    PROVE  NotYetRun'
<1>0. TypeOK /\ UnitsMarked /\ ShapeOK /\ JobsAreUnique /\ JobsAreTyped
  BY DEF Sound, Inv0, Protected
<1> USE DEF TypeOK, ProcsOK, UnitsOK
<1>1. ASSUME NEW b \in Brokers, pc'[b] \in BeforeRun
      PROVE  \/ \E r \in Requests : Publish(b, r) /\ lease'[b].request = r
             \/ /\ pc[b] \in BeforeRun
                /\ lease'[b].request = lease[b].request
                /\ \/ pc'[b] = "start" => AcquireOrdinary(b)
                   \/ pc[b] = "start" /\ lease'[b] = lease[b]
  <2>1. CASE Arrives(b)
    <3>1. \/ \E r \in Requests : Publish(b, r)
          \/ Enqueue(b) \/ AcquireOrdinary(b) \/ Announce(b)
      BY <1>0, <1>1, <2>1
         DEF Arrives, Reap, Clean, Release, FinishRaises, FinishReturns, ScanLeases,
             NextLease, CheckWriter, CancelWriter, ScanWaiters, NextWaiter, UnlinkWaiter,
             Goto, Exit, BeforeRun
    <3>2. CASE AcquireOrdinary(b)
      BY <1>0, <1>1, <3>2 DEF AcquireOrdinary, CanAcquire, Handle, BeforeRun
    <3>3. CASE Enqueue(b) \/ Announce(b)
      BY <1>0, <1>1, <3>3 DEF Enqueue, Announce, Goto, BeforeRun
    <3> QED
      BY <1>0, <3>1, <3>2, <3>3 DEF Publish, Pending
  <2>2. CASE pc'[b] = "phases"
    BY <1>0, <2>2, PhasesOrigin DEF BeforeRun
  <2> QED
    BY <1>0, <1>1, <2>1, <2>2, Origins DEF Stays, Dull, BeforeRun
<1>2. ASSUME NEW b \in Brokers, pc'[b] \in BeforeRun PROVE lease'[b].request \notin executed'
  <2>1. ASSUME NEW r \in Requests, Publish(b, r), lease'[b].request = r
        PROVE  lease'[b].request \notin executed'
    BY <2>1 DEF Publish
  <2>2. CASE pc[b] \in BeforeRun /\ lease'[b].request = lease[b].request
    <3>1. lease[b].request \in Requests \ executed
      BY <1>0, <2>2 DEF JobsAreTyped, InDispatch, DispatchPcs, NotYetRun, BeforeRun
    <3> QED
      BY <1>2, <2>2, <3>1, NotRunElsewhere
  <2> QED
    BY <1>1, <1>2, <2>1, <2>2
<1>3. ASSUME NEW b \in Brokers, pc'[b] = "start", NEW s \in lease'[b].slots
      PROVE  unit'[s] = None
  <2>1. CASE AcquireOrdinary(b)
    BY <1>0, <1>3, <2>1, ConstantsAssumption
       DEF AcquireOrdinary, LowestFree, FreeSlots, UnitsMarked, units, Handle
  <2>2. CASE pc[b] = "start" /\ lease'[b] = lease[b]
    <3>1. /\ s = SlotOf(b) /\ s \in Slots /\ unit[s] = None
          /\ slot[s] = lease[b].request /\ InDispatch(b)
      BY <1>3, <2>2, MarkerOfStarter DEF NotYetRun
    <3>2. ~UnitReads(s)
      BY <3>1, ConstantsAssumption DEF UnitReads
    <3>3. ASSUME NEW c \in Brokers, StartUnit(c), s = SlotOf(c) PROVE FALSE
      <4>1. c # b
        BY <1>0, <1>3, <3>3 DEF StartUnit, Goto
      <4> QED
        BY <1>0, <3>1, <3>3, <4>1, MarkerOfStarter DEF StartUnit, JobsAreUnique
    <3> QED
      BY <1>0, <3>1, <3>2, <3>3, UnitChange
  <2>3. ~\E r \in Requests : Publish(b, r)
    BY <1>0, <1>3 DEF Publish
  <2> QED
    BY <1>1, <1>3, <2>1, <2>2, <2>3 DEF BeforeRun
<1>4. ASSUME NEW s \in Slots, unit'[s] # None PROVE slot'[s] \notin executed'
  <2>1. CASE unit[s] # None
    <3>1. slot'[s] = slot[s] /\ slot[s] \in Requests \ executed
      BY <1>0, <2>1, MarkerStays DEF NotYetRun, UnitsMarked
    <3> QED
      BY <1>4, <2>1, <3>1, NotRunElsewhere
  <2>2. CASE unit[s] = None
    <3>1. PICK b \in Brokers : StartUnit(b) /\ s = SlotOf(b)
      BY <1>0, <1>4, <2>2, UnitChange, ConstantsAssumption DEF UnitReads
    <3>2. slot[s] = lease[b].request /\ pc[b] = "start"
      BY <3>1, MarkerOfStarter DEF StartUnit
    <3> QED
      BY <3>1, <3>2 DEF StartUnit, files, NotYetRun
  <2> QED
    BY <2>1, <2>2
<1> QED
  BY <1>2, <1>3, <1>4, OneMarkerStep DEF NotYetRun, BeforeRun

(* Until a live coordinator is robbed. *)
LEMMA NotYetRunUntilRobbed ==
    IInv /\ Unleased /\ (robbed \/ NotYetRun) /\ [Next]_vars => robbed' \/ NotYetRun'
<1> SUFFICES ASSUME IInv, Unleased, robbed \/ NotYetRun, [Next]_vars, ~robbed'
             PROVE  NotYetRun'
  OBVIOUS
<1>1. ~robbed
  BY RobbedStays DEF IInv
<1> QED
  BY <1>1, SoundUntilRobbed, NotYetRunStep

(* The program of a request is not started again after it has run to success, whoever
   crashes and whatever recovery finds, until a live coordinator is robbed. *)
THEOREM RunsOnce == Spec => NoSecondExecution
<1>1. Init => IInv /\ Unleased /\ (robbed \/ NotYetRun)
  <2>1. Init => IInv
    BY InitInv DEF IInv, Inv0
  <2> QED
    BY <2>1, ConstantsAssumption DEF Init, Unleased, NotYetRun
<1>2. IInv /\ Unleased /\ (robbed \/ NotYetRun) /\ [Next]_vars => robbed' \/ NotYetRun'
  BY NotYetRunUntilRobbed
<1>3. IInv => Inv0
  BY SoundUntilRobbed
<1>4. IInv /\ (robbed \/ NotYetRun) /\ [Next]_vars =>
         \/ robbed'
         \/ \A r \in Requests, s \in Slots : unit[s] # r /\ unit'[s] = r => r \notin executed
  <2> SUFFICES ASSUME IInv, robbed \/ NotYetRun, [Next]_vars, ~robbed', NEW r \in Requests,
                      NEW s \in Slots, unit[s] # r, unit'[s] = r
               PROVE  r \notin executed
    OBVIOUS
  <2>0. TypeOK /\ UnitsOK /\ FilesOK /\ NotYetRun
    BY RobbedStays DEF IInv, TypeOK
  <2>1. UnitReads(s) \/ \E b \in Brokers : StartUnit(b) /\ s = SlotOf(b) /\ unit[s] = None
    BY <2>0, UnitChange, ConstantsAssumption
  <2>2. ~\E b \in Brokers : StartUnit(b) /\ s = SlotOf(b) /\ unit[s] = None
    BY <2>0, ConstantsAssumption DEF StartUnit, UnitsOK
  <2> QED
    BY <2>0, <2>1, <2>2, ConstantsAssumption DEF UnitReads, NotYetRun, UnitsOK
<1> QED
  BY <1>1, <1>2, <1>3, <1>4, IInvStep, UnleasedStep, PTL DEF Spec, NoSecondExecution

-----------------------------------------------------------------------------
(* A request waits at most once *)

Distinct(q) == \A i, j \in DOMAIN q : q[i] = q[j] /\ q[i] # Torn => i = j

(* Taking a waiter out of a queue without repetitions leaves none of it. *)
LEMMA UnqueueDistinct ==
    ASSUME FilesOK, Distinct(waiters), NEW r, Unqueue(r)
    PROVE  Distinct(waiters') /\ (r # Torn => r \notin ToSet(waiters'))
<1>1. CASE r \notin ToSet(waiters) /\ UNCHANGED waiters
  BY <1>1
<1>2. ASSUME NEW i \in DOMAIN waiters, waiters[i] = r, waiters' = RemoveAt(waiters, i)
      PROVE  Distinct(waiters') /\ (r # Torn => r \notin ToSet(waiters'))
  <2>0. waiters \in Seq(Requests \cup {Torn}) /\ i \in 1..Len(waiters)
    BY DEF FilesOK
  <2>1. /\ Len(waiters') = Len(waiters) - 1 /\ waiters' \in Seq(Requests \cup {Torn})
        /\ \A j \in 1..(Len(waiters) - 1) : waiters'[j] = waiters[IF j < i THEN j ELSE j + 1]
    BY <1>2, <2>0, RemoveAtElements
  <2> DEFINE k(j) == IF j < i THEN j ELSE j + 1
  <2>2. ASSUME NEW j \in DOMAIN waiters'
        PROVE  /\ j \in 1..(Len(waiters) - 1) /\ k(j) \in DOMAIN waiters /\ k(j) # i
               /\ waiters'[j] = waiters[k(j)]
    BY <2>0, <2>1
  <2>3. Distinct(waiters')
    <3>1. SUFFICES ASSUME NEW j \in DOMAIN waiters', NEW l \in DOMAIN waiters',
                          waiters'[j] = waiters'[l], waiters'[j] # Torn
                   PROVE  j = l
      BY DEF Distinct
    <3>2. k(j) = k(l)
      <4> HIDE DEF k
      <4> QED
        BY <2>2, <3>1 DEF Distinct
    <3> QED
      BY <2>2, <3>2
  <2>4. ASSUME r # Torn, NEW j \in DOMAIN waiters' PROVE waiters'[j] # r
    <3> HIDE DEF k
    <3> QED
      BY <1>2, <2>2, <2>4 DEF Distinct
  <2> QED
    BY <2>3, <2>4 DEF ToSet
<1> QED
  BY <1>1, <1>2 DEF Unqueue

(* Only a coordinator that queues itself makes a new waiter, or half of one. *)
LEMMA WaiterComes ==
    ASSUME TypeOK, [Next]_vars, NEW p \in ToSet(waiters'), p \notin ToSet(waiters)
    PROVE  \E b \in Brokers : /\ pc[b] = "enqueue" /\ pc'[b] # "enqueue"
                              /\ p = Torn \/ (Enqueue(b) /\ p = lease[b].request)
<1> USE DEF TypeOK, ProcsOK, FilesOK
<1> DEFINE Goal == \E b \in Brokers : /\ pc[b] = "enqueue" /\ pc'[b] # "enqueue"
                                      /\ p = Torn \/ (Enqueue(b) /\ p = lease[b].request)
<1>0. ASSUME NEW x, waiters' = Append(waiters, x) PROVE p = x
  <2>1. PICK j \in DOMAIN waiters' : waiters'[j] = p
    BY DEF ToSet
  <2>2. waiters \in Seq(Requests \cup {Torn})
    OBVIOUS
  <2>3. j = Len(waiters) + 1
    BY <1>0, <2>1, <2>2 DEF ToSet
  <2> QED
    BY <1>0, <2>1, <2>2, <2>3
<1>1. ASSUME NEW b \in Brokers, Enqueue(b) PROVE Goal
  BY <1>0, <1>1 DEF Enqueue, Goto
<1>2. ASSUME NEW b \in Brokers, AcquireOrdinary(b) PROVE Goal
  <2>1. waiters # <<>> /\ waiters' = Tail(waiters) /\ waiters \in Seq(Requests \cup {Torn})
    BY <1>2 DEF AcquireOrdinary, CanAcquire
  <2>2. PICK j \in DOMAIN waiters' : waiters'[j] = p
    BY DEF ToSet
  <2>3. j + 1 \in DOMAIN waiters /\ waiters[j + 1] = p
    BY <2>1, <2>2
  <2> QED
    BY <2>3 DEF ToSet
<1>3. ASSUME NEW b \in Brokers, OrdinaryTimeout(b) \/ DropWaiter(b) \/ UnlinkWaiter(b) PROVE Goal
  BY <1>3, UnqueueElements DEF OrdinaryTimeout, DropWaiter, UnlinkWaiter
<1>4. ASSUME NEW b \in Brokers, CrashInSection(b) PROVE Goal
  BY <1>0, <1>4
     DEF CrashInSection, HalfDone, HalfEnqueue, HalfAcquire, HalfAnnounce, HalfExclude,
         HalfRelease, Exit
<1> QED
  BY <1>1, <1>2, <1>3, <1>4, QueueChange

(* A coordinator queues itself once, under a request that was not queued before. *)
LEMMA QueuedOnceStep == Inv0 /\ QueuedOnce /\ [Next]_vars => QueuedOnce'
<1> SUFFICES ASSUME Inv0, QueuedOnce, [Next]_vars PROVE QueuedOnce'
  OBVIOUS
<1>0. TypeOK /\ FilesOK /\ JobsAreUnique /\ JobsAreTyped /\ Distinct(waiters)
      /\ waiters \in Seq(Requests \cup {Torn})
  BY DEF Inv0, TypeOK, FilesOK, QueuedOnce, Distinct
<1>1. Distinct(waiters')
  <2>1. ASSUME NEW x, waiters' = Append(waiters, x), x = Torn \/ x \notin ToSet(waiters)
        PROVE  Distinct(waiters')
    <3>1. /\ DOMAIN waiters' = 1..(Len(waiters) + 1) /\ waiters'[Len(waiters) + 1] = x
          /\ \A j \in 1..Len(waiters) : waiters'[j] = waiters[j]
      BY <1>0, <2>1
    <3>2. \A j \in 1..Len(waiters) : waiters[j] \in ToSet(waiters)
      BY <1>0 DEF ToSet
    <3> QED
      BY <1>0, <2>1, <3>1, <3>2 DEF Distinct
  <2>2. ASSUME NEW b \in Brokers, Enqueue(b) PROVE Distinct(waiters')
    BY <1>0, <2>1, <2>2 DEF Enqueue, QueuedOnce
  <2>3. ASSUME NEW b \in Brokers, AcquireOrdinary(b) PROVE Distinct(waiters')
    <3>1. waiters # <<>> /\ waiters' = Tail(waiters)
      BY <2>3 DEF AcquireOrdinary, CanAcquire
    <3>2. \A j \in DOMAIN waiters' : j + 1 \in DOMAIN waiters /\ waiters'[j] = waiters[j + 1]
      BY <1>0, <3>1
    <3>3. \A j \in DOMAIN waiters' : j \in Nat
      BY <1>0, <3>1
    <3> QED
      BY <1>0, <3>2, <3>3 DEF Distinct
  <2>4. ASSUME NEW b \in Brokers, OrdinaryTimeout(b) \/ DropWaiter(b) \/ UnlinkWaiter(b)
        PROVE  Distinct(waiters')
    <3>1. CASE UNCHANGED waiters
      BY <1>0, <3>1
    <3>2. CASE Unqueue(lease[b].request)
      BY <1>0, <3>2, UnqueueDistinct
    <3> QED
      BY <2>4, <3>1, <3>2 DEF OrdinaryTimeout, DropWaiter, UnlinkWaiter
  <2>5. ASSUME NEW b \in Brokers, CrashInSection(b) PROVE Distinct(waiters')
    <3>1. UNCHANGED waiters \/ waiters' = Append(waiters, Torn)
      BY <2>5
         DEF CrashInSection, HalfDone, HalfEnqueue, HalfAcquire, HalfAnnounce, HalfExclude,
             HalfRelease
    <3> QED
      BY <1>0, <2>1, <3>1
  <2> QED
    BY <1>0, <2>2, <2>3, <2>4, <2>5, QueueChange
<1>2. ASSUME NEW b \in Brokers, pc'[b] = "enqueue" PROVE lease'[b].request \notin ToSet(waiters')
  <2>1. lease'[b].request \notin ToSet(waiters)
    <3>1. Arrives(b) => \E r \in Requests : Publish(b, r)
      BY <1>0, <1>2
         DEF Arrives, Enqueue, AcquireOrdinary, Announce, Reap, Clean, Release, FinishRaises,
             FinishReturns, ScanLeases, NextLease, CheckWriter, CancelWriter, ScanWaiters,
             NextWaiter, UnlinkWaiter, Goto, Exit, TypeOK, ProcsOK
    <3>2. Stays(b) => lease'[b].request \notin ToSet(waiters)
      BY <1>2 DEF Stays, QueuedOnce
    <3>3. ASSUME NEW r \in Requests, Publish(b, r) PROVE lease'[b].request \notin ToSet(waiters)
      BY <1>0, <3>3 DEF Publish, Pending, Fresh, TypeOK, ProcsOK
    <3> QED
      BY <1>0, <1>2, <3>1, <3>2, <3>3, Origins DEF Dull
  <2>2. lease'[b].request \in Requests /\ InDispatch(b)'
    BY <1>2, Inv0Step DEF Inv0, JobsAreTyped, InDispatch, DispatchPcs
  <2>3. ASSUME NEW c \in Brokers, Enqueue(c), pc'[c] # "enqueue",
               lease[c].request = lease'[b].request
        PROVE  FALSE
    <3>1. InDispatch(c) /\ InDispatch(c)' /\ lease' = lease /\ c # b
      BY <1>0, <1>2, <2>3
         DEF Enqueue, Goto, InDispatch, DispatchPcs, TypeOK, ProcsOK
    <3> QED
      BY <2>2, <2>3, <3>1, Inv0Step DEF Inv0, JobsAreUnique
  <2> QED
    BY <1>0, <2>1, <2>2, <2>3, WaiterComes, ConstantsAssumption
<1> QED
  BY <1>1, <1>2 DEF QueuedOnce, Distinct

-----------------------------------------------------------------------------
(* What recovery has done before it serves *)

(* The orphans of a recovery are those it found; a publication takes an id out of them. *)
LEMMA OrphansChange ==
    ASSUME TypeOK, [Next]_vars, NEW b \in Brokers, NEW r \in orphans'[b]
    PROVE  /\ ~\E c \in Brokers : Publish(c, r)
           /\ r \in orphans[b] \/ (Restart(b) /\ ~Alive(r))
<1> USE DEF TypeOK, PastOK
<1>1. ASSUME NEW c \in Brokers, NEW q \in Requests, Publish(c, q)
      PROVE  r \in orphans[b] /\ r # q
  BY <1>1 DEF Publish
<1>2. ASSUME NEW c \in Brokers, Restart(c) PROVE r \in orphans[b] \/ (Restart(b) /\ ~Alive(r))
  BY <1>2 DEF Restart
<1>3. \/ UNCHANGED orphans
      \/ \E c \in Brokers : Restart(c) \/ \E q \in Requests : Publish(c, q)
  BY DEF Next, Ordinary, Exclusive, Finish, Recover, GiveUp, Failing, UnitStep, vars, past,
         Enqueue, AcquireOrdinary, AcquireRaises, OrdinaryTimeout, StartUnit, StartRaises,
         Announce, AcquireExclusive, ExclusiveGivesUp, PhaseStarts, PhasesSealed, PhasesRaise,
         Reap, Clean, ReapOrCleanFails, Release, Succeed, Fail, DropWaiter, DropClean,
         ScanLeases, NextLease, CheckWriter, CancelWriter, ScanWaiters, NextWaiter,
         UnlinkWaiter, Crash, CrashInSection, UnitReads, UnitSucceeds, UnitFails, PhaseEnds
<1>4. ASSUME NEW c \in Brokers, Publish(c, r) PROVE FALSE
  BY <1>4 DEF Publish
<1> QED
  BY <1>1, <1>2, <1>3, <1>4

(* Only an announcement names a request in the writer file. *)
LEMMA WriterComes ==
    ASSUME [Next]_vars, writer' \in Requests, writer' # writer
    PROVE  \E b \in Brokers : Announce(b) /\ writer' = lease[b].request
<1>1. \/ UNCHANGED writer
      \/ \E b \in Brokers : \/ Announce(b) \/ AcquireExclusive(b) \/ ExclusiveGivesUp(b)
                            \/ Release(b) \/ CancelWriter(b) \/ CrashInSection(b)
  BY DEF Next, Ordinary, Exclusive, Finish, Recover, GiveUp, Failing, UnitStep, vars, files,
         Publish, Enqueue, AcquireOrdinary, AcquireRaises, OrdinaryTimeout, StartUnit,
         StartRaises, PhaseStarts, PhasesSealed, PhasesRaise, Reap, Clean, ReapOrCleanFails,
         Succeed, Fail, DropWaiter, DropClean, Restart, ScanLeases, NextLease, CheckWriter,
         ScanWaiters, NextWaiter, UnlinkWaiter, Crash, UnitReads, UnitSucceeds, UnitFails,
         PhaseEnds
<1>2. ASSUME NEW b \in Brokers, CrashInSection(b) PROVE FALSE
  BY <1>2, ConstantsAssumption
     DEF CrashInSection, HalfDone, HalfEnqueue, HalfAcquire, HalfAnnounce, HalfExclude,
         HalfRelease
<1> QED
  BY <1>1, <1>2, ConstantsAssumption
     DEF Announce, AcquireExclusive, ExclusiveGivesUp, Release, CancelWriter

(* Orphans stay dead, so their files only disappear. *)
LEMMA OrphansWriteNothing ==
    ASSUME TypeOK, [Next]_vars, NEW r \in Requests, ~Alive(r), ~\E c \in Brokers : Publish(c, r)
    PROVE  /\ ~\E c \in Brokers : InDispatch(c)' /\ lease'[c].request = r
           /\ \A s \in Slots : slot'[s] = r => slot[s] = r
           /\ writer' = r => writer = r
           /\ r \in ToSet(waiters') => r \in ToSet(waiters)
<1>0. \A c \in Brokers : pc[c] \in DispatchPcs => lease[c].request # r
  BY DEF Alive, InDispatch
<1>1. ~\E c \in Brokers : InDispatch(c)' /\ lease'[c].request = r
  BY AliveOrigin DEF Alive
<1>2. ASSUME NEW s \in Slots, slot'[s] = r, slot[s] # r PROVE FALSE
  BY <1>0, <1>2, MarkerChange, ConstantsAssumption
     DEF Marks, Unmarks, CanAcquire, CanExclude, DispatchPcs
<1>3. ASSUME writer' = r, writer # r PROVE FALSE
  BY <1>0, <1>3, WriterComes DEF Announce, DispatchPcs
<1>4. ASSUME r \in ToSet(waiters'), r \notin ToSet(waiters) PROVE FALSE
  BY <1>0, <1>4, WaiterComes, ConstantsAssumption DEF DispatchPcs
<1> QED
  BY <1>1, <1>2, <1>3, <1>4

LeasePcs == {"scan2", "leases"} \cup FinishPcs
FilePcs  == {"writer", "wcancel", "waiters", "wnext", "wunlink"}

(* How a recovery gets from one of its parts to the next. *)
LEMMA RecoveryOrigin ==
    ASSUME Inv0, [Next]_vars, NEW b \in Brokers, InRecovery(b)', pc'[b] # "scan"
    PROVE  /\ InRecovery(b)
           /\ \/ Stays(b) \/ Reap(b) \/ Clean(b) \/ Release(b)
              \/ ScanLeases(b) \/ NextLease(b) \/ CheckWriter(b) \/ CancelWriter(b)
              \/ ScanWaiters(b) \/ NextWaiter(b) \/ UnlinkWaiter(b)
<1> USE DEF TypeOK, ProcsOK
<1>0. TypeOK /\ ModesFit
  BY DEF Inv0
<1>1. Stays(b) \/ Arrives(b)
  BY <1>0, Origins DEF Dull, InRecovery, RecoverPcs, FinishPcs
<1>2. Stays(b) => InRecovery(b)
  BY DEF Stays, InRecovery
<1>3. ~((\E r \in Requests : Publish(b, r)) \/ Enqueue(b) \/ AcquireOrdinary(b) \/ Announce(b))
  BY <1>0
     DEF Publish, Enqueue, AcquireOrdinary, CanAcquire, Announce, Goto, InRecovery, RecoverPcs,
         FinishPcs
<1>4. Reap(b) \/ Clean(b) \/ Release(b) => InRecovery(b)
  BY <1>0
     DEF Reap, Clean, Release, FinishRaises, FinishReturns, Goto, Exit, InRecovery,
         RecoverPcs, FinishPcs
<1>5. ScanLeases(b) \/ NextLease(b) \/ CheckWriter(b) \/ CancelWriter(b) \/ ScanWaiters(b)
      \/ NextWaiter(b) \/ UnlinkWaiter(b) => InRecovery(b)
  BY DEF ScanLeases, NextLease, CheckWriter, CancelWriter, ScanWaiters, NextWaiter,
         UnlinkWaiter, InRecovery, RecoverPcs, Slots
<1> QED
  BY <1>1, <1>2, <1>3, <1>4, <1>5 DEF Arrives

(* A recovery scans at its beginning only. *)
LEMMA ScanOrigin ==
    ASSUME TypeOK, [Next]_vars, NEW b \in Brokers, pc'[b] = "scan"
    PROVE  Stays(b) \/ Restart(b)
<1> USE DEF TypeOK, ProcsOK
<1>1. ASSUME NEW c \in Brokers \ {b}, BrokerStep(c) PROVE Stays(b)
  BY <1>1, OthersStay
<1>2. ASSUME BrokerStep(b) PROVE Stays(b) \/ Restart(b)
  <2>1. ASSUME NEW p, Goto(b, p) \/ Exit(b, p) PROVE pc'[b] = p
    BY <2>1 DEF Goto, Exit
  <2>2. CASE (\E r \in Requests : Publish(b, r)) \/ Ordinary(b) \/ GiveUp(b)
    BY <2>1, <2>2
       DEF Publish, Ordinary, Enqueue, AcquireOrdinary, AcquireRaises, StartUnit, GiveUp,
           OrdinaryTimeout, ExclusiveGivesUp, StartRaises
  <2>3. CASE Exclusive(b)
    BY <2>1, <2>3
       DEF Exclusive, Announce, AcquireExclusive, PhaseStarts, PhasesSealed, PhasesRaise, procs,
           Stays
  <2>4. CASE Finish(b)
    BY <2>1, <2>4
       DEF Finish, Reap, Clean, Release, FinishRaises, FinishReturns, Succeed, Fail, DropWaiter,
           DropClean
  <2>5. ASSUME Recover(b), ~Restart(b) PROVE FALSE
    BY <2>1, <2>5
       DEF Recover, ScanLeases, NextLease, CheckWriter, CancelWriter, ScanWaiters, NextWaiter,
           UnlinkWaiter
  <2>6. CASE Failing(b)
    BY <2>1, <2>6 DEF Failing, ReapOrCleanFails, FinishRaises, Crash, CrashInSection
  <2> QED
    BY <1>2, <2>2, <2>3, <2>4, <2>5, <2>6 DEF BrokerStep
<1>3. CASE UnitStep
  BY <1>3
     DEF UnitStep, UnitReads, UnitSucceeds, UnitFails, PhaseEnds, Wake, WaitingOn, procs, Stays
<1>4. CASE UNCHANGED vars
  BY <1>4 DEF vars, procs, Stays
<1> QED
  BY <1>1, <1>2, <1>3, <1>4 DEF Next, BrokerStep

(* The orphans of a recovery stay dead. *)
LEMMA OrphansStayDead ==
    ASSUME Inv0, RecoveryAdvances, [Next]_vars, NEW b \in Brokers, InRecovery(b)',
           NEW r \in orphans'[b]
    PROVE  /\ r \in Requests /\ ~Alive(r) /\ ~\E c \in Brokers : Publish(c, r)
           /\ InRecovery(b) => r \in orphans[b]
<1>0. TypeOK /\ TypeOK'
  BY Inv0Step DEF Inv0
<1>1. ~\E c \in Brokers : Publish(c, r)
  BY <1>0, OrphansChange
<1>2. CASE Restart(b)
  <2>1. ~InRecovery(b)
    BY <1>2 DEF Restart, InRecovery, RecoverPcs, FinishPcs
  <2>2. r \in Requests /\ ~Alive(r)
    BY <1>0, <1>2 DEF Restart, TypeOK, PastOK
  <2> QED
    BY <1>1, <2>1, <2>2
<1>3. CASE r \in orphans[b] /\ ~Restart(b)
  <2>1. InRecovery(b)
    <3>1. CASE pc'[b] # "scan"
      BY <3>1, RecoveryOrigin
    <3>2. CASE pc'[b] = "scan"
      BY <1>0, <1>3, <3>2, ScanOrigin DEF Stays, InRecovery
    <3> QED
      BY <3>1, <3>2
  <2> QED
    BY <1>0, <1>1, <1>3, <2>1 DEF RecoveryAdvances, TypeOK, PastOK
<1> QED
  BY <1>0, <1>2, <1>3, OrphansChange

(* Every part of a recovery leaves done what the parts before it did. *)
LEMMA RecoveryAdvancesStep ==
    ASSUME Inv0, QueuedOnce, RecoveryAdvances, [Next]_vars
    PROVE  RecoveryAdvances'
<1> SUFFICES ASSUME NEW b \in Brokers, InRecovery(b)'
             PROVE  /\ \A r \in orphans'[b] : ~Alive(r)'
                    /\ pc'[b] \in LeasePcs =>
                          \A s \in SlotsRead(b)' : slot'[s] \in orphans'[b] =>
                             HandleAt(s)' \in LeasesAhead(b)'
                    /\ pc'[b] \in FilePcs => \A s \in Slots : slot'[s] \notin orphans'[b]
                    /\ pc'[b] \in {"waiters", "wnext", "wunlink"} => writer' \notin orphans'[b]
                    /\ pc'[b] \in {"wnext", "wunlink"} =>
                          ToSet(waiters') \cap orphans'[b] \subseteq WaitersAhead(b)'
  BY DEF RecoveryAdvances, LeasePcs, FilePcs, FinishPcs
<1>0. TypeOK /\ ModesFit /\ FilesOK /\ ProcsOK
  BY DEF Inv0, TypeOK
<1>2. ASSUME NEW r \in orphans'[b]
      PROVE  /\ r \in Requests /\ ~Alive(r) /\ ~Alive(r)' /\ (InRecovery(b) => r \in orphans[b])
             /\ \A s \in Slots : slot'[s] = r => slot[s] = r
             /\ writer' = r => writer = r
             /\ r \in ToSet(waiters') => r \in ToSet(waiters)
  BY <1>0, OrphansStayDead, OrphansWriteNothing DEF Alive
<1> SUFFICES ASSUME pc'[b] # "scan"
             PROVE  /\ pc'[b] \in LeasePcs =>
                          \A s \in SlotsRead(b)' : slot'[s] \in orphans'[b] =>
                             HandleAt(s)' \in LeasesAhead(b)'
                    /\ pc'[b] \in FilePcs => \A s \in Slots : slot'[s] \notin orphans'[b]
                    /\ pc'[b] \in {"waiters", "wnext", "wunlink"} => writer' \notin orphans'[b]
                    /\ pc'[b] \in {"wnext", "wunlink"} =>
                          ToSet(waiters') \cap orphans'[b] \subseteq WaitersAhead(b)'
  BY <1>2 DEF LeasePcs, FilePcs, FinishPcs
<1>1. /\ InRecovery(b)
      /\ \/ Stays(b) \/ Reap(b) \/ Clean(b) \/ Release(b)
         \/ ScanLeases(b) \/ NextLease(b) \/ CheckWriter(b) \/ CancelWriter(b)
         \/ ScanWaiters(b) \/ NextWaiter(b) \/ UnlinkWaiter(b)
  BY RecoveryOrigin
<1>3. /\ pc[b] \in LeasePcs =>
            \A s \in SlotsRead(b) : slot[s] \in orphans[b] => HandleAt(s) \in LeasesAhead(b)
      /\ pc[b] \in FilePcs => \A s \in Slots : slot[s] \notin orphans[b]
      /\ pc[b] \in {"waiters", "wnext", "wunlink"} => writer \notin orphans[b]
      /\ pc[b] \in {"wnext", "wunlink"} => ToSet(waiters) \cap orphans[b] \subseteq WaitersAhead(b)
  BY <1>1 DEF RecoveryAdvances, LeasePcs, FilePcs
<1>4. ASSUME NEW s \in Slots, slot'[s] \in orphans'[b]
      PROVE  slot[s] \in orphans[b] /\ slot'[s] = slot[s] /\ HandleAt(s)' = HandleAt(s)
  BY <1>1, <1>2, <1>4 DEF HandleAt
<1>a. SlotsRead(b)' \subseteq Slots /\ SlotsRead(b) \subseteq Slots
  BY DEF SlotsRead, Slots
<1>5. CASE Stays(b)
  <2>1. /\ LeasesAhead(b)' = LeasesAhead(b) /\ WaitersAhead(b)' = WaitersAhead(b)
        /\ SlotsRead(b)' = SlotsRead(b) /\ pc'[b] = pc[b]
    BY <1>5 DEF Stays, LeasesAhead, WaitersAhead, SlotsRead
  <2> QED
    BY <1>1, <1>2, <1>3, <1>4, <1>a, <2>1
<1>6. CASE Reap(b) \/ Clean(b)
  <2>1. /\ pc[b] \in FinishPcs /\ pc'[b] \in FinishPcs
        /\ lease'[b] = lease[b] /\ todo'[b] = todo[b]
    BY <1>0, <1>6 DEF Reap, Clean, Goto, ProcsOK, FinishPcs
  <2>2. LeasesAhead(b)' = LeasesAhead(b) /\ SlotsRead(b)' = SlotsRead(b)
    BY <2>1 DEF LeasesAhead, SlotsRead, FinishPcs
  <2> QED
    BY <1>3, <1>4, <1>a, <2>1, <2>2 DEF LeasePcs, FilePcs, FinishPcs
<1>7. CASE Release(b)
  <2>1. mode[b] = "recover" /\ pc[b] = "release"
    BY <1>0, <1>1, <1>7 DEF Release, InRecovery, RecoverPcs
  <2>2. /\ OwnsMarkers(b) /\ pc'[b] = "leases" /\ todo'[b] = todo[b]
        /\ slot' = [s \in Slots |-> IF s \in lease[b].slots THEN None ELSE slot[s]]
    BY <1>0, <1>7, <2>1
       DEF Release, FinishRaises, FinishReturns, Goto, Exit, ProcsOK, InRecovery, RecoverPcs,
           FinishPcs
  <2>3. ASSUME NEW s \in Slots, slot'[s] \in orphans'[b] PROVE HandleAt(s)' \in LeasesAhead(b)'
    <3>1. HandleAt(s) \in todo[b] \cup {lease[b]}
      BY <1>3, <1>4, <2>1, <2>3 DEF LeasesAhead, LeasePcs, FinishPcs, SlotsRead
    <3>2. s \in HandleAt(s).slots
      BY DEF HandleAt
    <3>3. slot'[s] # None
      BY <1>2, <2>3, ConstantsAssumption
    <3>4. HandleAt(s) # lease[b]
      BY <2>2, <3>2, <3>3
    <3> QED
      BY <1>4, <2>2, <2>3, <3>1, <3>4 DEF LeasesAhead
  <2> QED
    BY <1>a, <2>2, <2>3 DEF FilePcs
<1>8. CASE ScanLeases(b)
  <2>1. PICK s \in Slots :
           /\ pc[b] = IF s = 1 THEN "scan" ELSE "scan2"
           /\ todo'[b] = (IF s = 1 THEN {} ELSE todo[b]) \cup {HandleAt(t) : t \in {s} \ FreeSlots}
           /\ pc'[b] = IF s = 1 THEN "scan2" ELSE "leases"
           /\ UNCHANGED slot
    BY <1>0, <1>8 DEF ScanLeases, Exit, files, ProcsOK, InRecovery, RecoverPcs, FinishPcs
  <2>2. ASSUME NEW t \in SlotsRead(b)', slot'[t] \in orphans'[b] PROVE HandleAt(t)' \in todo'[b]
    <3>1. t \in Slots /\ slot[t] # None
      BY <1>2, <1>a, <2>1, <2>2, ConstantsAssumption
    <3>2. CASE t = s
      BY <1>4, <2>1, <2>2, <3>1, <3>2 DEF FreeSlots
    <3>3. CASE t # s
      <4>1. s # 1 /\ pc[b] = "scan2" /\ t \in SlotsRead(b)
        BY <2>1, <2>2, <3>1, <3>3 DEF SlotsRead, Slots
      <4>2. HandleAt(t) \in todo[b]
        BY <1>3, <1>4, <2>2, <3>1, <4>1 DEF LeasePcs, LeasesAhead, FinishPcs
      <4> QED
        BY <1>4, <2>1, <2>2, <3>1, <4>1, <4>2
    <3> QED
      BY <3>2, <3>3
  <2> QED
    BY <2>1, <2>2 DEF LeasesAhead, FilePcs
<1>9. CASE NextLease(b)
  <2>1. pc[b] = "leases" /\ UNCHANGED slot
    BY <1>9 DEF NextLease, files
  <2>2. CASE todo[b] = {} /\ Exit(b, "writer")
    <3>1. pc'[b] = "writer"
      BY <1>0, <2>2 DEF Exit, ProcsOK
    <3>2. \A s \in Slots : slot[s] \notin orphans[b]
      BY <1>3, <2>1, <2>2 DEF LeasesAhead, LeasePcs, FinishPcs, SlotsRead
    <3> QED
      BY <1>4, <3>1, <3>2 DEF LeasePcs, FinishPcs
  <2>3. CASE \E h \in todo[b] : /\ todo' = [todo EXCEPT ![b] = @ \ {h}]
                                /\ lease' = [lease EXCEPT ![b] = h]
                                /\ pc' = [pc EXCEPT ![b] = "reap"]
    <3>1. pc'[b] = "reap" /\ LeasesAhead(b)' = LeasesAhead(b) /\ SlotsRead(b) = Slots
      BY <1>0, <2>1, <2>3 DEF LeasesAhead, ProcsOK, FinishPcs, SlotsRead
    <3> QED
      BY <1>3, <1>4, <1>a, <2>1, <3>1 DEF LeasePcs, FilePcs
  <2> QED
    BY <1>9, <2>2, <2>3 DEF NextLease
<1>10. CASE CheckWriter(b)
  <2>2. /\ pc[b] \in FilePcs /\ pc'[b] \in {"waiters", "wcancel"} /\ UNCHANGED writer
        /\ pc'[b] = "waiters" => writer = None \/ Alive(writer)
    BY <1>0, <1>10
       DEF CheckWriter, Goto, Exit, ProcsOK, FilePcs, InRecovery, RecoverPcs, FinishPcs
  <2>3. pc'[b] = "waiters" => writer' \notin orphans'[b]
    BY <1>2, <2>2, ConstantsAssumption
  <2> QED
    BY <1>3, <1>4, <2>2, <2>3 DEF LeasePcs, FinishPcs
<1>11. CASE CancelWriter(b)
  <2>1. pc[b] \in FilePcs /\ pc'[b] = "waiters" /\ writer' = None
    BY <1>0, <1>11
       DEF CancelWriter, Exit, ProcsOK, FilePcs, InRecovery, RecoverPcs, FinishPcs
  <2>2. writer' \notin orphans'[b]
    BY <1>2, <2>1, ConstantsAssumption
  <2> QED
    BY <1>3, <1>4, <2>1, <2>2 DEF LeasePcs, FinishPcs
<1>12. CASE ScanWaiters(b)
  <2>1. /\ pc[b] = "waiters" /\ pc'[b] = "wnext" /\ UNCHANGED waiters
        /\ todo'[b] = {Pending(r) : r \in ToSet(waiters)}
    BY <1>0, <1>12
       DEF ScanWaiters, Exit, ProcsOK, files, InRecovery, RecoverPcs, FinishPcs
  <2>2. \A r \in ToSet(waiters) : Pending(r).request = r
    BY DEF Pending
  <2>3. ToSet(waiters') \subseteq WaitersAhead(b)'
    BY <2>1, <2>2 DEF WaitersAhead
  <2> QED
    BY <1>1, <1>2, <1>3, <1>4, <2>1, <2>3 DEF LeasePcs, FilePcs, FinishPcs
<1>13. CASE NextWaiter(b)
  <2>1. pc[b] = "wnext" /\ UNCHANGED waiters
    BY <1>13 DEF NextWaiter
  <2>2. PICK h \in todo[b] : /\ todo' = [todo EXCEPT ![b] = @ \ {h}]
                             /\ \/ Alive(h.request) /\ UNCHANGED <<pc, lease>>
                                \/ /\ lease' = [lease EXCEPT ![b] = h]
                                   /\ pc' = [pc EXCEPT ![b] = "wunlink"]
    BY <1>0, <1>13, <2>1 DEF NextWaiter, Exit, ProcsOK, InRecovery, RecoverPcs, FinishPcs
  <2>3. /\ pc'[b] \in {"wnext", "wunlink"}
        /\ \A r \in WaitersAhead(b) : Alive(r) \/ r \in WaitersAhead(b)'
    BY <1>0, <2>1, <2>2 DEF WaitersAhead, ProcsOK
  <2>4. ToSet(waiters') \cap orphans'[b] \subseteq WaitersAhead(b)'
    BY <1>1, <1>2, <1>3, <2>1, <2>3
  <2> QED
    BY <1>1, <1>2, <1>3, <1>4, <2>1, <2>3, <2>4 DEF LeasePcs, FilePcs, FinishPcs
<1>14. CASE UnlinkWaiter(b)
  <2>1. /\ pc[b] = "wunlink" /\ pc'[b] = "wnext" /\ Unqueue(lease[b].request)
        /\ todo'[b] = todo[b]
    BY <1>0, <1>14 DEF UnlinkWaiter, ProcsOK
  <2>2. lease[b].request \notin ToSet(waiters')
    <3>1. lease[b].request # Torn
      BY <1>0, ConstantsAssumption DEF ProcsOK, Handle
    <3> QED
      BY <1>0, <2>1, <3>1, UnqueueDistinct DEF QueuedOnce, Distinct
  <2>3. ToSet(waiters') \cap orphans'[b] \subseteq WaitersAhead(b)'
    BY <1>1, <1>2, <1>3, <2>1, <2>2 DEF WaitersAhead
  <2> QED
    BY <1>1, <1>2, <1>3, <1>4, <2>1, <2>3 DEF LeasePcs, FilePcs, FinishPcs
<1> QED
  BY <1>1, <1>5, <1>6, <1>7, <1>8, <1>9, <1>10, <1>11, <1>12, <1>13, <1>14

(* A recovery ends in service only after its last waiter. *)
LEMMA ServingOrigin ==
    ASSUME Inv0, [Next]_vars, NEW b \in Brokers, InRecovery(b), pc'[b] = "idle"
    PROVE  pc[b] = "wnext" /\ todo[b] = {} /\ NextWaiter(b)
<1> USE DEF TypeOK, ProcsOK
<1>0. TypeOK /\ ModesFit /\ ~InDispatch(b) /\ pc[b] # "idle"
  BY DEF Inv0, ModesFit, InDispatch, InRecovery, DispatchPcs, RecoverPcs, FinishPcs
<1>1. ASSUME NEW c \in Brokers \ {b}, BrokerStep(c) PROVE FALSE
  BY <1>0, <1>1, OthersStay DEF Stays, InDispatch, DispatchPcs
<1>2. ASSUME UnitStep \/ UNCHANGED vars PROVE FALSE
  BY <1>0, <1>2
     DEF UnitStep, UnitReads, UnitSucceeds, UnitFails, PhaseEnds, Wake, WaitingOn, procs, vars
<1>3. ASSUME NEW p, Goto(b, p) \/ Exit(b, p) PROVE p = "idle"
  BY <1>0, <1>3 DEF Goto, Exit
<1>4. CASE BrokerStep(b)
  <2>1. pc[b] \in RecoverPcs \cup FinishPcs /\ (pc[b] \in FinishPcs => mode[b] = "recover")
    BY <1>0 DEF InRecovery, RecoverPcs, FinishPcs
  <2>2. ~((\E r \in Requests : Publish(b, r)) \/ Ordinary(b) \/ Exclusive(b) \/ GiveUp(b))
    BY <2>1
       DEF Publish, Ordinary, Enqueue, AcquireOrdinary, CanAcquire, AcquireRaises, StartUnit,
           Exclusive, Announce, AcquireExclusive, CanExclude, PhaseStarts, PhasesSealed,
           PhasesRaise, GiveUp, OrdinaryTimeout, ExclusiveGivesUp, StartRaises, RecoverPcs,
           FinishPcs
  <2>3. ~Finish(b)
    BY <1>0, <1>3, <2>1
       DEF Finish, Reap, Clean, Release, FinishRaises, FinishReturns, Succeed, Fail,
           DropWaiter, DropClean, RecoverPcs, FinishPcs
  <2>4. ~Failing(b)
    BY <1>0, <1>3, <2>1
       DEF Failing, ReapOrCleanFails, FinishRaises, Crash, CrashInSection, RecoverPcs, FinishPcs
  <2>5. Recover(b)
    BY <1>4, <2>2, <2>3, <2>4 DEF BrokerStep
  <2> QED
    BY <1>0, <1>3, <2>5
       DEF Recover, Restart, ScanLeases, NextLease, CheckWriter, CancelWriter, ScanWaiters,
           NextWaiter, UnlinkWaiter
<1> QED
  BY <1>1, <1>2, <1>4 DEF Next, BrokerStep

(* When recovery lets a broker serve, no marker, writer or waiter file is left of a
   coordinator that was dead when it began; other brokers may dispatch and recover
   meanwhile, and be robbed. *)
THEOREM ServesAfterRecovery == Spec => ServesRecovered
<1>1. Init => Inv0 /\ QueuedOnce /\ RecoveryAdvances
  <2>1. Init => Inv0
    BY InitInv
  <2> QED
    BY <2>1 DEF Init, QueuedOnce, RecoveryAdvances, InRecovery, RecoverPcs, FinishPcs, ToSet
<1>2. Inv0 /\ QueuedOnce /\ RecoveryAdvances /\ [Next]_vars => RecoveryAdvances'
  BY RecoveryAdvancesStep
<1>3. Inv0 /\ RecoveryAdvances /\ [Next]_vars =>
         \A b \in Brokers : InRecovery(b) /\ pc'[b] = "idle" =>
            \A r \in orphans[b] : ~OnDisk(r)'
  <2> SUFFICES ASSUME Inv0, RecoveryAdvances, [Next]_vars, NEW b \in Brokers, InRecovery(b),
                      pc'[b] = "idle", NEW r \in orphans[b]
               PROVE  ~OnDisk(r)'
    OBVIOUS
  <2>1. pc[b] = "wnext" /\ todo[b] = {} /\ NextWaiter(b)
    BY ServingOrigin
  <2>2. /\ \A s \in Slots : slot[s] \notin orphans[b]
        /\ writer \notin orphans[b] /\ ToSet(waiters) \cap orphans[b] \subseteq WaitersAhead(b)
    BY <2>1 DEF RecoveryAdvances
  <2>3. WaitersAhead(b) = {}
    BY <2>1 DEF WaitersAhead
  <2> QED
    BY <2>1, <2>2, <2>3 DEF NextWaiter, OnDisk
<1> QED
  BY <1>1, <1>2, <1>3, Inv0Step, QueuedOnceStep, PTL DEF Spec, ServesRecovered

(* A recovery never goes back, whatever fails and also beside dispatches and other
   recoveries: with finitely many slots and waiters it can only end, in service or in
   an exit of the broker. *)
THEOREM RecoveryProgresses == Spec => RecoveryMovesOn
<1> DEFINE Onward(b) ==
      \/ pc'[b] = pc[b] /\ todo'[b] = todo[b]
      \/ RecoveryPart(pc'[b]) > RecoveryPart(pc[b])
      \/ /\ RecoveryPart(pc'[b]) = RecoveryPart(pc[b])
         /\ todo'[b] \subseteq todo[b]
         /\ todo'[b] # todo[b] \/ StepsToNext(pc'[b]) < StepsToNext(pc[b])
<1>1. TypeOK /\ [Next]_vars =>
         \A b \in Brokers : InRecovery(b) /\ InRecovery(b)' => Onward(b)
  <2> SUFFICES ASSUME TypeOK, [Next]_vars, NEW b \in Brokers, InRecovery(b), InRecovery(b)'
               PROVE  Onward(b)
    OBVIOUS
  <2> USE DEF TypeOK, ProcsOK, Goto, Exit, RecoveryPart, StepsToNext, FinishPcs, RecoverPcs
  <2>1. Stays(b) \/ Arrives(b)
    BY Origins, ScanOrigin DEF Dull, InRecovery, Restart
  <2>2. CASE Stays(b)
    BY <2>2 DEF Stays
  <2>3. CASE (\E r \in Requests : Publish(b, r)) \/ Enqueue(b) \/ AcquireOrdinary(b) \/ Announce(b)
    BY <2>3 DEF Publish, Enqueue, AcquireOrdinary, CanAcquire, Announce, InRecovery
  <2>4. CASE Reap(b)
    BY <2>4 DEF Reap
  <2>5. CASE Clean(b)
    BY <2>5 DEF Clean
  <2>6. CASE Release(b)
    BY <2>6 DEF Release, FinishRaises, FinishReturns, InRecovery
  <2>7. CASE ScanLeases(b)
    BY <2>7 DEF ScanLeases, InRecovery
  <2>8. CASE NextLease(b)
    BY <2>8 DEF NextLease
  <2>9. CASE CheckWriter(b)
    BY <2>9 DEF CheckWriter, InRecovery
  <2>10. CASE CancelWriter(b)
    BY <2>10 DEF CancelWriter, InRecovery
  <2>11. CASE ScanWaiters(b)
    BY <2>11 DEF ScanWaiters, InRecovery
  <2>12. CASE NextWaiter(b)
    BY <2>12 DEF NextWaiter, InRecovery
  <2>13. CASE UnlinkWaiter(b)
    BY <2>13 DEF UnlinkWaiter
  <2> QED
    BY <2>1, <2>2, <2>3, <2>4, <2>5, <2>6, <2>7, <2>8, <2>9, <2>10, <2>11, <2>12, <2>13
       DEF Arrives
<1> QED
  BY <1>1, TypeCorrect, PTL DEF Spec, RecoveryMovesOn

-----------------------------------------------------------------------------
(* The promise of DeploySlots *)

PromiseVars == <<slot, Programs, executed, status>>
PromiseKept == [Promise!Next]_PromiseVars

(* A running program runs under the markers of its request. *)
LEMMA ProgramsMarked ==
    ASSUME Sound, NEW r \in Programs
    PROVE  \/ r \in phase /\ r \in Production /\ \A s \in Slots : slot[s] = r
           \/ r \notin Production /\ r \notin phase /\ \E s \in Slots : unit[s] = r /\ slot[s] = r
<1>0. UnitsMarked
  BY DEF Sound, Inv0, Protected
<1>1. CASE r \in phase
  <2>1. \A s \in Slots : slot[s] = r /\ r \in Production
    BY <1>0, <1>1 DEF UnitsMarked
  <2> QED
    BY <1>1, <2>1 DEF Slots
<1>2. CASE r \notin phase
  <2>1. PICK s \in Slots : unit[s] = r /\ r \in Requests
    BY <1>2 DEF Programs
  <2>2. slot[s] = r /\ r \notin Production
    BY <1>0, <2>1, ConstantsAssumption DEF UnitsMarked
  <2> QED
    BY <1>2, <2>1, <2>2
<1> QED
  BY <1>1, <1>2

(* A slot is released by a request that runs no program. *)
LEMMA ReleasedRunsNothing ==
    ASSUME Sound, NotYetRun, NEW b \in Brokers, pc[b] = "release",
           NEW s \in lease[b].slots, HandleAt(s) = lease[b]
    PROVE  s \in Slots /\ slot[s] = lease[b].request /\ lease[b].request \notin Programs
<1> DEFINE r == lease[b].request
<1>1. s \in Slots
  BY DEF Sound, Inv0, Protected, TypeOK, ProcsOK, Handle
<1>2. slot[s] = r
  BY <1>1, OwnedMarker
<1>3. r \notin phase /\ unit[s] = None
  BY <1>1, <1>2 DEF Sound, Inv0, Protected, Reaped
<1>4. ASSUME r \in Programs PROVE FALSE
  <2>1. PICK t \in Slots : unit[t] = r /\ slot[t] = r /\ r \in Requests \ Production
    BY <1>3, <1>4, ProgramsMarked DEF Programs
  <2>2. t = s
    BY <1>1, <1>2, <2>1 DEF NotYetRun
  <2> QED
    BY <1>3, <2>1, <2>2, ConstantsAssumption
<1> QED
  BY <1>1, <1>2, <1>4

(* Markers change by a lease that is taken, or given back, for one request. *)
LEMMA MarkersKeepPromise ==
    ASSUME Sound, NotYetRun, FilesOK', NEW b \in Brokers,
           AcquireOrdinary(b) \/ AcquireExclusive(b) \/ Release(b) \/ CrashInSection(b)
    PROVE  PromiseKept
<1> USE DEF PromiseKept, PromiseVars
<1> DEFINE r == lease[b].request
<1>0. TypeOK /\ JobsAreTyped /\ FilesOK /\ ProcsOK
  BY DEF Sound, Inv0, Protected, TypeOK
<1>1. UNCHANGED <<unit, phase, executed, status>> /\ Programs' = Programs
  BY DEF AcquireOrdinary, AcquireExclusive, Release, CrashInSection, units, Programs
<1>2. slot' \in [Slots -> Requests \cup {None, Torn}] /\ slot \in [Slots -> Requests \cup {None, Torn}]
  BY <1>0 DEF FilesOK
<1>3. CASE UNCHANGED slot
  BY <1>1, <1>3
<1>4. ASSUME r \in Requests, \A s \in Slots : slot'[s] # slot[s] => slot[s] = None /\ slot'[s] \in {r, Torn}
      PROVE  PromiseKept
  <2>1. Promise!Take(r)
    BY <1>1, <1>2, <1>4 DEF Promise!Take, Promise!Free
  <2> QED
    BY <1>4, <2>1 DEF Promise!Next
<1>5. ASSUME pc[b] = "release", OwnsMarkers(b),
             \A s \in Slots : slot'[s] # slot[s] => s \in lease[b].slots /\ slot'[s] = None
      PROVE  PromiseKept
  <2>1. CASE \A s \in Slots : slot'[s] = slot[s]
    BY <1>2, <1>3, <2>1
  <2>2. ASSUME NEW s \in Slots, slot'[s] # slot[s]
        PROVE  slot[s] = r /\ slot'[s] = None /\ r \notin Programs /\ r \in Requests
    <3>1. slot[s] = r /\ slot'[s] = None /\ r \notin Programs
      BY <1>5, <2>2, ReleasedRunsNothing DEF OwnsMarkers
    <3>2. r \in Requests \cup {None}
      BY <1>0 DEF ProcsOK, Handle
    <3> QED
      BY <2>2, <3>1, <3>2
  <2>3. CASE \E s \in Slots : slot'[s] # slot[s]
    <3>1. r \in Requests /\ Promise!Release(r)
      BY <1>1, <1>2, <2>2, <2>3 DEF Promise!Release
    <3> QED
      BY <3>1 DEF Promise!Next
  <2> QED
    BY <2>1, <2>3
<1>6. ASSUME InDispatch(b) PROVE r \in Requests
  BY <1>0, <1>6 DEF JobsAreTyped
<1>7. CASE AcquireOrdinary(b)
  <2>1. r \in Requests
    BY <1>6, <1>7 DEF AcquireOrdinary, CanAcquire, InDispatch, DispatchPcs
  <2> QED
    BY <1>2, <1>4, <1>7, <2>1 DEF AcquireOrdinary, LowestFree, FreeSlots
<1>8. CASE AcquireExclusive(b)
  <2>1. r \in Requests
    BY <1>6, <1>8 DEF AcquireExclusive, CanExclude, InDispatch, DispatchPcs
  <2> QED
    BY <1>2, <1>4, <1>8, <2>1 DEF AcquireExclusive, CanExclude, FreeSlots
<1>9. CASE Release(b)
  BY <1>2, <1>3, <1>5, <1>9 DEF Release
<1>10. CASE CrashInSection(b)
  <2>1. CASE HalfAcquire(b)
    <3>1. r \in Requests
      BY <1>6, <2>1 DEF HalfAcquire, CanAcquire, InDispatch, DispatchPcs
    <3> QED
      BY <1>2, <1>4, <2>1, <3>1 DEF HalfAcquire, LowestFree, FreeSlots
  <2>2. CASE HalfExclude(b)
    <3>1. r \in Requests
      BY <1>6, <2>2 DEF HalfExclude, CanExclude, InDispatch, DispatchPcs
    <3> QED
      BY <1>2, <1>4, <2>2, <3>1 DEF HalfExclude, CanExclude, FreeSlots, Slots
  <2>3. CASE HalfRelease(b)
    BY <1>2, <1>5, <2>3 DEF HalfRelease, Slots
  <2> QED
    BY <1>3, <1>10, <2>1, <2>2, <2>3 DEF CrashInSection, HalfDone, HalfEnqueue, HalfAnnounce
<1> QED
  BY <1>7, <1>8, <1>9, <1>10

(* A program runs to success under its lease, and no second one of it is left. *)
LEMMA SuccessKeepsPromise ==
    ASSUME Sound, NotYetRun,
           \/ \E s \in Slots : UnitSucceeds(s)
           \/ \E b \in Brokers : PhasesSealed(b)
    PROVE  PromiseKept
<1> USE DEF PromiseKept, PromiseVars
<1>0. TypeOK /\ UnitsMarked /\ UnitsOK
  BY DEF Sound, Inv0, Protected, TypeOK
<1>1. ASSUME NEW s \in Slots, UnitSucceeds(s) PROVE PromiseKept
  <2> DEFINE r == unit[s]
  <2>1. /\ r \in Requests \ Production /\ slot[s] = r /\ r \notin phase
        /\ UNCHANGED <<slot, phase, status>> /\ executed' = executed \cup {r}
        /\ unit' = [unit EXCEPT ![s] = None]
    BY <1>0, <1>1, ConstantsAssumption DEF UnitSucceeds, UnitsMarked, files
  <2>2. ASSUME NEW t \in Slots, unit[t] = r PROVE t = s
    BY <1>0, <2>1, <2>2, ConstantsAssumption DEF UnitsMarked, NotYetRun
  <2>3. Programs' = Programs \ {r}
    BY <1>0, <2>1, <2>2, ConstantsAssumption DEF Programs, UnitsOK
  <2>4. Promise!Complete(r)
    BY <2>1, <2>3 DEF Promise!Complete, Promise!Leased
  <2> QED
    BY <2>1, <2>4 DEF Promise!Next
<1>2. ASSUME NEW b \in Brokers, PhasesSealed(b) PROVE PromiseKept
  <2> DEFINE r == lease[b].request
  <2>1. /\ r \in Production /\ r \in Requests /\ \A s \in Slots : slot[s] = r
        /\ UNCHANGED <<slot, unit, phase, status>> /\ executed' = executed \cup {r}
        /\ r \notin phase
    BY <1>2, ConstantsAssumption
       DEF PhasesSealed, Sound, Inv0, Protected, ShapeOK, LeaseOnDisk, Holding, InDispatch, DispatchPcs, files,
           JobsAreTyped, Slots
  <2>2. r \notin Programs
    BY <2>1, ProgramsMarked
  <2>3. Programs' = Programs \ {r}
    BY <2>1, <2>2 DEF Programs
  <2>4. Promise!Complete(r)
    BY <2>1, <2>3 DEF Promise!Complete, Promise!Leased
  <2> QED
    BY <2>1, <2>4 DEF Promise!Next
<1> QED
  BY <1>1, <1>2

(* A program is started under its lease, and not again. *)
LEMMA StartKeepsPromise ==
    ASSUME Sound, NotYetRun,
           \/ \E s \in Slots : UnitReads(s)
           \/ \E b \in Brokers : PhaseStarts(b)
    PROVE  PromiseKept
<1> USE DEF PromiseKept, PromiseVars
<1>0. TypeOK /\ UnitsMarked /\ UnitsOK
  BY DEF Sound, Inv0, Protected, TypeOK
<1>1. ASSUME NEW s \in Slots, UnitReads(s) PROVE PromiseKept
  <2> DEFINE r == slot[s]
  <2>1. /\ r \in Requests \ Production /\ unit[s] = Starting /\ unit' = [unit EXCEPT ![s] = r]
        /\ UNCHANGED <<slot, phase, executed, status>>
    BY <1>0, <1>1 DEF UnitReads, files, TypeOK, FilesOK
  <2>2. r \notin executed
    BY <2>1, ConstantsAssumption DEF NotYetRun
  <2>3. r \notin Programs
    <3>1. ASSUME NEW t \in Slots, unit[t] = r, slot[t] = r PROVE FALSE
      BY <2>1, <3>1, ConstantsAssumption DEF NotYetRun
    <3> QED
      BY <2>1, <3>1, ProgramsMarked
  <2>4. Programs' = Programs \cup {r}
    BY <1>0, <2>1, ConstantsAssumption DEF Programs, UnitsOK
  <2>5. Promise!Start(r)
    BY <2>1, <2>2, <2>3, <2>4 DEF Promise!Start, Promise!Leased
  <2> QED
    BY <2>1, <2>5 DEF Promise!Next
<1>2. ASSUME NEW b \in Brokers, PhaseStarts(b) PROVE PromiseKept
  <2> DEFINE r == lease[b].request
  <2>1. /\ r \in Production /\ r \in Requests /\ \A s \in Slots : slot[s] = r
        /\ UNCHANGED <<slot, unit, executed, status>> /\ phase' = phase \cup {r}
        /\ r \notin phase /\ r \notin executed
    BY <1>2, ConstantsAssumption
       DEF PhaseStarts, Sound, Inv0, Protected, ShapeOK, LeaseOnDisk, Holding, InDispatch, DispatchPcs, files,
           JobsAreTyped, NotYetRun, Slots
  <2>2. r \notin Programs
    BY <2>1, ProgramsMarked
  <2>3. Programs' = Programs \cup {r}
    BY <2>1 DEF Programs
  <2>4. Promise!Start(r)
    BY <2>1, <2>2, <2>3 DEF Promise!Start, Promise!Leased
  <2> QED
    BY <2>1, <2>4 DEF Promise!Next
<1> QED
  BY <1>1, <1>2

(* Everything else ends programs, reports, or is not seen from outside. *)
LEMMA PromiseStep ==
    ASSUME Sound, FilesOK', NotYetRun, [Next]_vars
    PROVE  PromiseKept
<1>0. TypeOK /\ UnitsOK
  BY DEF Sound, Inv0, Protected, TypeOK
<1>1. ASSUME UNCHANGED <<slot, unit, phase, executed, status>> PROVE PromiseKept
  BY <1>1 DEF PromiseKept, PromiseVars, Programs
<1>2. ASSUME UNCHANGED <<slot, executed, status>>, phase' \subseteq phase,
             \A s \in Slots : unit'[s] \in Requests => unit'[s] = unit[s]
      PROVE  PromiseKept
  <2>1. Programs' \subseteq Programs
    BY <1>2 DEF Programs
  <2> QED
    BY <1>2, <2>1 DEF PromiseKept, PromiseVars, Promise!Next, Promise!Stop
<1>3. ASSUME NEW b \in Brokers, NEW r \in Requests, Publish(b, r) PROVE PromiseKept
  <2>1. /\ UNCHANGED <<slot, unit, phase>> /\ executed' = executed \ {r}
        /\ status' = [status EXCEPT ![r] = None]
        /\ r \notin phase /\ \A s \in Slots : slot[s] # r /\ unit[s] # r
    BY <1>3 DEF Publish, Fresh
  <2>2. Promise!Publish(r)
    BY <2>1 DEF Promise!Publish, Programs
  <2> QED
    BY <2>2 DEF PromiseKept, Promise!Next
<1>4. ASSUME NEW b \in Brokers, Succeed(b) \/ Fail(b) PROVE PromiseKept
  <2> DEFINE r == lease[b].request
  <2>1. /\ r \in Requests
        /\ Succeed(b) => r \in executed
        /\ UNCHANGED <<slot, unit, phase, executed>>
    BY <1>4
       DEF Succeed, Fail, files, units, Sound, Inv0, Protected, JobsAreTyped, ModesFit, CommitsExecuted,
           InDispatch, DispatchPcs
  <2>2. Promise!Report(r)
    BY <1>4, <2>1 DEF Succeed, Fail, Promise!Report, Programs
  <2> QED
    BY <2>1, <2>2 DEF PromiseKept, Promise!Next
<1>5. ASSUME NEW b \in Brokers, StartUnit(b) \/ Reap(b) PROVE PromiseKept
  BY <1>0, <1>2, <1>5, ConstantsAssumption DEF StartUnit, Reap, files, UnitsOK
<1>6. CASE \E b \in Brokers : Ordinary(b) \/ Exclusive(b)
  BY <1>0, <1>1, <1>5, <1>6, MarkersKeepPromise, SuccessKeepsPromise, StartKeepsPromise
     DEF Ordinary, Exclusive, Enqueue, AcquireRaises, Announce, PhasesRaise, units, files
<1>7. CASE \E b \in Brokers : Finish(b) \/ GiveUp(b) \/ Failing(b)
  BY <1>0, <1>1, <1>4, <1>5, <1>7, MarkersKeepPromise
     DEF Finish, GiveUp, Failing, Clean, DropWaiter, DropClean, OrdinaryTimeout,
         ExclusiveGivesUp, StartRaises, ReapOrCleanFails, Crash, units, files
<1>8. CASE \E b \in Brokers : Recover(b)
  BY <1>1, <1>8
     DEF Recover, Restart, ScanLeases, NextLease, CheckWriter, CancelWriter, ScanWaiters,
         NextWaiter, UnlinkWaiter, units, files
<1>9. CASE UnitStep
  <2>1. ASSUME NEW s \in Slots, UnitFails(s) PROVE PromiseKept
    BY <1>0, <1>2, <2>1, ConstantsAssumption DEF UnitFails, files, UnitsOK
  <2>2. ASSUME NEW r \in Requests, PhaseEnds(r) PROVE PromiseKept
    BY <1>2, <2>2 DEF PhaseEnds, files
  <2> QED
    BY <1>9, <2>1, <2>2, SuccessKeepsPromise, StartKeepsPromise DEF UnitStep
<1>10. CASE UNCHANGED vars
  BY <1>1, <1>10 DEF vars, files, units
<1> QED
  BY <1>3, <1>6, <1>7, <1>8, <1>9, <1>10 DEF Next

(* The transport implements the abstract lease of DeploySlots: whatever crashes and
   recovers, until a live coordinator is robbed, nothing runs but under its lease, no slot
   is taken but a free one or given back under a running program, no program runs again
   after it has succeeded, and no success is reported without one. *)
THEOREM ImplementsPromise == Spec => LeasesAsPromised
<1>1. Init => IInv /\ Unleased /\ (robbed \/ NotYetRun) /\ Promise!Init
  <2>1. Init => IInv
    BY InitInv DEF IInv, Inv0
  <2>2. Init => Programs = {}
    BY ConstantsAssumption DEF Init, Programs
  <2> QED
    BY <2>1, <2>2, ConstantsAssumption DEF Init, Unleased, NotYetRun, Promise!Init
<1>2. IInv /\ Unleased /\ (robbed \/ NotYetRun) /\ [Next]_vars => robbed' \/ NotYetRun'
  BY NotYetRunUntilRobbed
<1>3. IInv => Inv0
  BY SoundUntilRobbed
<1>4. IInv /\ (robbed \/ NotYetRun) /\ [Next]_vars
         => [Promise!Next \/ robbed']_<<slot, Programs, executed, status>>
  <2> SUFFICES ASSUME IInv, robbed \/ NotYetRun, [Next]_vars, ~robbed' PROVE PromiseKept
    BY DEF PromiseKept, PromiseVars
  <2>1. Sound /\ NotYetRun
    BY RobbedStays, SoundUntilRobbed DEF IInv
  <2>2. FilesOK'
    BY Inv0Step, SoundUntilRobbed DEF Inv0, TypeOK
  <2> QED
    BY <2>1, <2>2, PromiseStep
<1> QED
  BY <1>1, <1>2, <1>3, <1>4, IInvStep, UnleasedStep, PTL DEF Spec, LeasesAsPromised
=============================================================================
