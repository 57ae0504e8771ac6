----------------------- MODULE FrontendReceiptsProofs -----------------------
(***************************************************************************)
(* Theorems about the receipt journal, for any number of phases, any       *)
(* number of faults, with and without resumed transactions: recovery       *)
(* accepts what it finds, a receipt seals the last execution of its phase, *)
(* and the journal implements ReceiptLog.                                  *)
(***************************************************************************)
EXTENDS FrontendReceipts, SequenceTheorems, TLAPS

(* What is on the disk once state.json is written, and before. *)
JournalInv ==
    /\ root \in {"none", "making"} =>
           advisory = 0 /\ authority = Absent /\ receipt = Absent /\ previous = Absent
    /\ root = "made" => AuthoritiesFit /\ AdvisoryFits /\ ChainHolds
    /\ \E n \in 0 .. Count : \A p \in Phases : receipt[p] # 0 <=> p < n

(* The coordinator works at the first phase without a receipt. *)
CursorInv ==
    /\ pc = "state" => root = "making"
    /\ pc \in {"phase", "observe", "running", "seal", "publish", "advance"} => at \in Phases
    /\ pc \in {"phase", "observe", "running", "seal", "publish", "advance", "final",
               "remove", "cleanup", "verify"} => root = "made"
    /\ pc = "reap" /\ mode = "serve" => root = "made" /\ Received = Cleanup
    /\ pc \in {"remove", "cleanup"} => Received = Cleanup
    /\ pc = "phase" => Received = at
    /\ pc \in {"observe", "running"} => Received = at /\ at < Cleanup
    /\ pc = "publish" => advisory = at
    /\ pc = "advance" => Received = at + 1

(* A transaction that is being given up, or recovered, is never served again. *)
ModeInv ==
    /\ pc \in {"open", "state", "phase", "observe", "running", "seal", "publish", "advance",
               "final", "remove", "cleanup", "verify", "succeed", "fail"} => mode = "serve"
    /\ pc \in {"clean", "rmtree", "discard"} => mode # "serve"

(* What an actor left is of the last execution. *)
OnceInv ==
    /\ SealsLastExecution
    /\ \A p \in Phases : data[p] # 0 => data[p] = executed[p]

(* An actor runs at the first phase without a receipt, and nobody else moves on. *)
ActorInv ==
    actor # None => /\ root = "made" /\ Received = actor
                    /\ data[actor] = 0
                    /\ \/ pc \in {"open", "phase", "observe", "running", "fail", "killed", "down"}
                       \/ pc = "reap" /\ mode # "serve"

Closed == \/ root = "none" /\ request = "gone"
          \/ root = "made" /\ Received = Count

LeaseInv ==
    /\ pc \notin {"succeed", "end", "killed", "down"} => held
    /\ pc = "release" \/ ~held => Closed /\ actor = None
    /\ pc = "succeed" => ~held
    /\ pc = "succeed" \/ (pc = "release" /\ mode = "serve") => root = "made"

(* The journal goes after the request, and only in an abort or a recovery. *)
DropInv ==
    /\ root = "making" => request = "whole"
    /\ mode = "serve" => root # "torn" /\ (root = "none" => request = "whole")
    /\ pc = "rmtree" => root \in {"none", "made"} /\ request = "whole"
    /\ pc = "discard" => root = "made" /\ request = "gone" /\ Received < Count

IInv == /\ TypeOK /\ JournalInv /\ CursorInv /\ ModeInv
        /\ OnceInv /\ ActorInv /\ LeaseInv /\ DropInv

-----------------------------------------------------------------------------
(* PrefixLength is the length of the prefix that has files. *)
LEMMA PrefixLengthIs ==
    ASSUME NEW f, NEW n \in 0 .. Count, \A p \in Phases : f[p] # 0 <=> p < n
    PROVE  PrefixLength(f) = n
<1> USE CountAssumption DEF Phases
<1> DEFINE Q(m) == /\ \A p \in Phases : p < m => f[p] # 0
                   /\ m = Count \/ f[m] = 0
<1>1. Q(n)
  OBVIOUS
<1>2. ASSUME NEW m \in 0 .. Count, Q(m) PROVE m = n
  <2>1. CASE m < n
    <3>1. m \in Phases /\ m # Count
      BY <2>1
    <3> QED
      BY <3>1, <2>1, <1>2
  <2>2. CASE n < m
    <3>1. n \in Phases
      BY <2>2
    <3> QED
      BY <3>1, <2>2, <1>2
  <2> QED
    BY <2>1, <2>2
<1> HIDE DEF Q
<1>3. (CHOOSE m \in 0 .. Count : Q(m)) = n
  BY <1>1, <1>2
<1> QED
  BY <1>3 DEF PrefixLength, Q

(* Received, where the receipts are those of a prefix. *)
LEMMA ReceivedRange ==
    JournalInv => Received \in 0 .. Count /\ ReceiptsArePrefix
                  /\ \A p \in Phases : receipt[p] # 0 <=> p < Received
<1> SUFFICES ASSUME JournalInv
             PROVE  Received \in 0 .. Count /\ ReceiptsArePrefix
                    /\ \A p \in Phases : receipt[p] # 0 <=> p < Received
  OBVIOUS
<1>1. PICK n \in 0 .. Count : \A p \in Phases : receipt[p] # 0 <=> p < n
  BY DEF JournalInv
<1>2. Received = n
  BY <1>1, PrefixLengthIs DEF Received
<1> QED
  BY <1>1, <1>2 DEF ReceiptsArePrefix

(* The initial state. *)
LEMMA InitInv == Init => IInv
<1> SUFFICES ASSUME Init PROVE IInv
  OBVIOUS
<1> USE CountAssumption, FaultAssumption, NoneAssumption DEF Init, Phases, Absent
<1>1. TypeOK
  BY DEF TypeOK
<1>2. JournalInv
  <2>1. 0 \in 0 .. Count /\ \A p \in Phases : receipt[p] # 0 <=> p < 0
    OBVIOUS
  <2> QED
    BY <2>1 DEF JournalInv
<1>3. CursorInv /\ ModeInv /\ LeaseInv /\ DropInv /\ ActorInv
  BY DEF CursorInv, ModeInv, LeaseInv, DropInv, ActorInv
<1>4. OnceInv
  BY DEF OnceInv, SealsLastExecution
<1> QED
  BY <1>1, <1>2, <1>3, <1>4 DEF IInv

(* Every step keeps the types. *)
LEMMA TypeStep == IInv /\ [Next]_vars => TypeOK'
<1> SUFFICES ASSUME IInv, [Next]_vars PROVE TypeOK'
  OBVIOUS
<1> USE CountAssumption, FaultAssumption, NoneAssumption
<1> USE DEF IInv, TypeOK, CursorInv, ModeInv, Goto, journal, world, phaseFiles
<1>0. /\ Received \in 0 .. Count /\ ReceiptsArePrefix
      /\ \A p \in Phases : receipt[p] # 0 <=> p < Received
  BY ReceivedRange
<1>r. receipt' = receipt => Received' = Received
  BY DEF Received, PrefixLength
<1>f. Fault => faults' \in 0 .. MaxFaults
  BY DEF Fault
<1>1. CASE OpenJournal
  BY <1>0, <1>1 DEF OpenJournal, Recovered
<1>2. CASE ExecutePhase
  <2>1. at \in Phases /\ at \in 0 .. Count - 2
    BY <1>2 DEF ExecutePhase, Phases, Cleanup
  <2>2. executed' \in [Phases -> Nat] /\ actor' = at
    BY <1>2, <2>1 DEF ExecutePhase, StartActor
  <2> QED
    BY <1>2, <2>1, <2>2 DEF ExecutePhase
<1>29. CASE ObservePhase
  <2>1. observations' \in [Phases -> Nat]
    BY <1>29 DEF ObservePhase
  <2> QED
    BY <1>29, <2>1 DEF ObservePhase
<1>3. CASE WriteAuthority
  BY <1>3 DEF WriteAuthority
<1>4. CASE PublishReceipt
  <2>1. at \in Phases /\ (at # 0 => at - 1 \in Phases)
    BY <1>4 DEF PublishReceipt, Phases
  <2>2. receipt' \in [Phases -> Nat] /\ previous' \in [Phases -> Nat]
    BY <1>4, <2>1 DEF PublishReceipt
  <2> QED
    BY <1>4, <2>2 DEF PublishReceipt
<1>5. CASE AdvanceState
  <2>1. at \in 0 .. Count - 1
    BY <1>5 DEF AdvanceState, Phases
  <2>2. at' \in 0 .. Count /\ advisory' \in 0 .. Count
    BY <1>5, <2>1 DEF AdvanceState, Cleanup
  <2> QED
    BY <1>5, <2>2 DEF AdvanceState
<1>6. CASE BeginFinalize
  BY <1>0, <1>6 DEF BeginFinalize, Recovered
<1>7. CASE ExecuteCleanup
  <2>1. Cleanup \in Phases /\ Cleanup \in 0 .. Count
    BY DEF Phases, Cleanup
  <2>2. executed' \in [Phases -> Nat] /\ executed'[Cleanup] \in Nat
    BY <1>7, <2>1 DEF ExecuteCleanup
  <2>3. observations' \in [Phases -> Nat] /\ data' \in [Phases -> Nat]
    BY <1>7, <2>1, <2>2 DEF ExecuteCleanup
  <2> QED
    BY <1>7, <2>1, <2>2, <2>3 DEF ExecuteCleanup
<1>8. CASE CleanupRequest
  BY <1>0, <1>8 DEF CleanupRequest, Recovered, AfterRequest
<1>9. CASE RemoveTree
  BY <1>9 DEF RemoveTree, AfterRequest
<1>10. CASE Discard
  BY <1>10 DEF Discard, Absent
<1>11. CASE ActorSucceeds
  <2>1. actor \in Phases
    BY <1>11 DEF ActorSucceeds, Phases
  <2>2. data' \in [Phases -> Nat]
    BY <1>11, <2>1 DEF ActorSucceeds
  <2> QED
    BY <1>11, <2>2 DEF ActorSucceeds
<1>12. CASE ActorFails
  BY <1>12 DEF ActorFails
<1>13. CASE StepFails
  BY <1>f, <1>13 DEF StepFails, GiveUp
<1>14. CASE SuccessUnreported
  BY <1>f, <1>14 DEF SuccessUnreported, GiveUp
<1>15. CASE WriteBreaks
  BY <1>f, <1>15 DEF WriteBreaks, GiveUp
<1>16. CASE RemovalBreaks
  BY <1>f, <1>16 DEF RemovalBreaks, GiveUp
<1>17. CASE CoordinatorDies
  BY <1>f, <1>17 DEF CoordinatorDies, GiveUp
<1>18. CASE BrokerDies
  BY <1>f, <1>18 DEF BrokerDies, GiveUp
<1>19. CASE Initialize
  BY <1>19 DEF Initialize
<1>20. CASE InitializeState
  BY <1>20 DEF InitializeState
<1>21. CASE PhasesDone \/ PhaseUnavailable
  BY <1>21 DEF PhasesDone, PhaseUnavailable
<1>22. CASE RecoverPendingPhase \/ PhaseReturns
  BY <1>22 DEF RecoverPendingPhase, PhaseReturns
<1>23. CASE StopAndReap \/ RemoveRequest
  BY <1>23 DEF StopAndReap, RemoveRequest
<1>24. CASE CleanupUnavailable \/ VerifyComplete
  BY <1>24 DEF CleanupUnavailable, VerifyComplete
<1>25. CASE Release \/ Succeed
  BY <1>25 DEF Release, Succeed
<1>26. CASE CleanupRefused \/ FailTransaction
  BY <1>26 DEF CleanupRefused, FailTransaction, GiveUp
<1>27. CASE BrokerStops \/ ResumeTransaction \/ Recover
  BY <1>27 DEF BrokerStops, ResumeTransaction, Recover
<1>28. CASE UNCHANGED vars \/ Done
  <2>1. /\ UNCHANGED <<root, advisory, observations, data, authority, receipt, previous, litter>>
        /\ UNCHANGED <<request, held, actor, executed, status, pc, mode, at, faults>>
    BY <1>28 DEF vars, Done
  <2> QED
    BY <2>1
<1> QED
  BY <1>1, <1>2, <1>3, <1>4, <1>5, <1>6, <1>7, <1>8, <1>9, <1>10, <1>11, <1>12, <1>13, <1>14,
     <1>15, <1>16, <1>17, <1>18, <1>19, <1>20, <1>21, <1>22, <1>23, <1>24, <1>25, <1>26,
     <1>27, <1>28, <1>29 DEF Next, Work, Actor, Faults

(* Every step leaves a journal that recovery accepts. *)
LEMMA JournalStep == IInv /\ [Next]_vars => JournalInv'
<1> SUFFICES ASSUME IInv, [Next]_vars PROVE JournalInv'
  OBVIOUS
<1> USE CountAssumption, FaultAssumption, NoneAssumption
<1> USE DEF IInv, JournalInv, CursorInv, Goto, journal, world, phaseFiles
<1>0. /\ Received \in 0 .. Count /\ ReceiptsArePrefix
      /\ \A p \in Phases : receipt[p] # 0 <=> p < Received
  BY ReceivedRange
<1>r. receipt' = receipt => Received' = Received
  BY DEF Received, PrefixLength
<1>1. CASE Initialize
  BY <1>r, <1>1 DEF Initialize
<1>2. CASE InitializeState
  <2>1. /\ authority' = Absent /\ receipt' = Absent /\ previous' = Absent /\ advisory' = 0
        /\ root' = "made"
    BY <1>2 DEF InitializeState
  <2>2. \A p \in Phases : receipt'[p] # 0 <=> p < 0
    BY <2>1 DEF Absent, Phases
  <2>3. Received' = 0
    BY <2>2, PrefixLengthIs DEF Received
  <2> QED
    BY <2>1, <2>2, <2>3 DEF AuthoritiesFit, AdvisoryFits, ChainHolds, Absent, Phases
<1>3. CASE OpenJournal
  <2>1. UNCHANGED <<authority, receipt, previous>>
    BY <1>3 DEF OpenJournal
  <2>2. CASE Accepted
    BY <1>3, <1>r, <2>1, <2>2 DEF OpenJournal, Accepted, Recovered, AuthoritiesFit,
       AdvisoryFits, ChainHolds
  <2>3. CASE ~Accepted
    BY <1>3, <1>r, <2>1, <2>3 DEF OpenJournal, AuthoritiesFit, AdvisoryFits, ChainHolds
  <2> QED
    BY <2>2, <2>3
<1>4. CASE WriteAuthority
  <2>1. at \in Phases /\ root = "made" /\ UNCHANGED <<root, advisory, receipt, previous>>
    BY <1>4 DEF WriteAuthority
  <2>2. CASE authority' = authority
    BY <1>r, <2>1, <2>2 DEF AuthoritiesFit, AdvisoryFits, ChainHolds
  <2>3. CASE /\ advisory = at /\ authority[at] \in {0, data[at]}
             /\ authority' = [authority EXCEPT ![at] = data[at]]
    <3>1. at <= Received
      BY <2>1, <2>3, <1>0 DEF AdvisoryFits, TypeOK
    <3>2. at < Received => authority[at] # 0
      BY <2>1 DEF AuthoritiesFit
    <3>3. \A p \in Phases : p < Received => authority'[p] = authority[p]
      BY <2>1, <2>3, <3>2, <1>0 DEF TypeOK, Phases
    <3>4. \A p \in Phases : authority'[p] # 0 => p <= Received
      BY <2>1, <2>3, <3>1 DEF TypeOK, AuthoritiesFit
    <3> QED
      BY <1>r, <2>1, <3>3, <3>4 DEF AuthoritiesFit, AdvisoryFits, ChainHolds
  <2> QED
    BY <2>2, <2>3, <1>4 DEF WriteAuthority
<1>5. CASE PublishReceipt
  <2>1. at \in Phases /\ root = "made" /\ advisory = at /\ UNCHANGED <<root, advisory, authority>>
    BY <1>5 DEF PublishReceipt
  <2>2. CASE ~Publishable
    BY <1>5, <1>r, <2>1, <2>2 DEF PublishReceipt, AuthoritiesFit, AdvisoryFits, ChainHolds
  <2>3. CASE Publishable
    <3>1. /\ receipt' = [receipt EXCEPT ![at] = authority[at]]
          /\ previous' = [previous EXCEPT ![at] = IF at = 0 THEN 0 ELSE receipt[at - 1]]
          /\ authority[at] # 0 /\ receipt[at] = 0
      BY <1>5, <2>3 DEF PublishReceipt, Publishable
    <3>2. Received = at
      BY <1>0, <2>1, <3>1 DEF AdvisoryFits, Phases
    <3>3. \A p \in Phases : receipt'[p] # 0 <=> p < at + 1
      BY <1>0, <2>1, <3>1, <3>2 DEF TypeOK, Phases
    <3>4. at + 1 \in 0 .. Count
      BY <2>1 DEF Phases
    <3>5. Received' = at + 1
      BY <3>3, <3>4, PrefixLengthIs DEF Received
    <3>6. AuthoritiesFit' /\ AdvisoryFits'
      <4>1. \A p \in Phases : p < at + 1 => authority[p] # 0
        BY <2>1, <3>1, <3>2 DEF AuthoritiesFit, Phases
      <4>2. \A p \in Phases : authority[p] # 0 => p <= at + 1
        BY <2>1, <3>2 DEF AuthoritiesFit, Phases
      <4> QED
        BY <2>1, <3>5, <4>1, <4>2 DEF AuthoritiesFit, AdvisoryFits
    <3>7. ChainHolds'
      <4> SUFFICES ASSUME NEW p \in Phases, p < at + 1
                   PROVE  /\ receipt'[p] = authority'[p]
                          /\ previous'[p] = IF p = 0 THEN 0 ELSE receipt'[p - 1]
        BY <3>5 DEF ChainHolds
      <4>1. CASE p = at
        BY <2>1, <3>1, <4>1 DEF TypeOK, Phases
      <4>2. CASE p < at
        <5>1. receipt[p] = authority[p] /\ previous[p] = IF p = 0 THEN 0 ELSE receipt[p - 1]
          BY <2>1, <3>2, <4>2 DEF ChainHolds
        <5>2. receipt'[p] = receipt[p] /\ previous'[p] = previous[p]
          BY <2>1, <3>1, <4>2 DEF TypeOK
        <5>3. p # 0 => receipt'[p - 1] = receipt[p - 1]
          BY <2>1, <3>1, <4>2 DEF TypeOK, Phases
        <5> QED
          BY <2>1, <5>1, <5>2, <5>3
      <4> QED
        BY <4>1, <4>2, <2>1 DEF Phases
    <3> QED
      BY <2>1, <3>3, <3>4, <3>6, <3>7
  <2> QED
    BY <2>2, <2>3
<1>6. CASE AdvanceState
  BY <1>r, <1>6 DEF AdvanceState, AuthoritiesFit, AdvisoryFits, ChainHolds
<1>7. CASE BeginFinalize
  BY <1>r, <1>7 DEF BeginFinalize, Recovered, AuthoritiesFit, AdvisoryFits, ChainHolds
<1>8. CASE CleanupRequest
  <2>1. UNCHANGED <<authority, receipt, previous>>
    BY <1>8 DEF CleanupRequest
  <2>2. CASE root = "none"
    BY <1>8, <2>1, <2>2 DEF CleanupRequest
  <2>3. CASE root # "none"
    <3>1. AuthoritiesFit /\ ChainHolds /\ root' = "made" /\ advisory' = Received
      BY <1>8, <2>3 DEF CleanupRequest, Cleanable, Accepted, Recovered
    <3> QED
      BY <1>r, <2>1, <3>1 DEF AuthoritiesFit, AdvisoryFits, ChainHolds
  <2> QED
    BY <2>2, <2>3
<1>9. CASE Discard
  <2>1. \A p \in Phases : receipt'[p] # 0 <=> p < 0
    BY <1>9 DEF Discard, Absent, Phases
  <2> QED
    BY <1>9, <2>1 DEF Discard
<1>10. CASE RemovalBreaks
  BY <1>r, <1>10 DEF RemovalBreaks, AuthoritiesFit, AdvisoryFits, ChainHolds
<1>11. CASE PhasesDone \/ ExecutePhase \/ ObservePhase \/ PhaseUnavailable \/ RecoverPendingPhase
          \/ PhaseReturns \/ StopAndReap \/ RemoveRequest \/ ExecuteCleanup
          \/ CleanupUnavailable \/ VerifyComplete \/ Release \/ Succeed
          \/ RemoveTree \/ CleanupRefused \/ FailTransaction \/ ActorSucceeds
          \/ ActorFails \/ StepFails \/ SuccessUnreported \/ WriteBreaks
          \/ CoordinatorDies \/ BrokerDies \/ BrokerStops \/ ResumeTransaction
          \/ Recover
  <2>1. UNCHANGED <<root, advisory, authority, receipt, previous>>
    BY <1>11 DEF PhasesDone, ExecutePhase, ObservePhase, PhaseUnavailable, RecoverPendingPhase,
       PhaseReturns, StopAndReap, RemoveRequest, ExecuteCleanup, CleanupUnavailable,
       VerifyComplete, Release, Succeed, RemoveTree, CleanupRefused, FailTransaction,
       ActorSucceeds, ActorFails, StepFails, SuccessUnreported, WriteBreaks,
       CoordinatorDies, BrokerDies, BrokerStops, ResumeTransaction, Recover
  <2> QED
    BY <1>r, <2>1 DEF AuthoritiesFit, AdvisoryFits, ChainHolds
<1>12. CASE UNCHANGED vars \/ Done
  BY <1>12, <1>r DEF vars, Done, AuthoritiesFit, AdvisoryFits, ChainHolds
<1> QED
  BY <1>1, <1>2, <1>3, <1>4, <1>5, <1>6, <1>7, <1>8, <1>9, <1>10, <1>11, <1>12 DEF Next, Work,
     Actor, Faults

(* Every step leaves the coordinator where the journal ends. *)
LEMMA CursorStep == IInv /\ [Next]_vars => CursorInv' /\ ModeInv'
<1> SUFFICES ASSUME IInv, [Next]_vars PROVE CursorInv' /\ ModeInv'
  OBVIOUS
<1> USE CountAssumption, FaultAssumption, NoneAssumption
<1> USE DEF IInv, CursorInv, ModeInv, Goto, journal, world, phaseFiles
<1>0. /\ Received \in 0 .. Count /\ ReceiptsArePrefix
      /\ \A p \in Phases : receipt[p] # 0 <=> p < Received
  BY ReceivedRange
<1>r. receipt' = receipt => Received' = Received
  BY DEF Received, PrefixLength
<1>1. CASE InitializeState
  <2>1. /\ receipt' = Absent /\ at' = 0 /\ root' = "made" /\ pc' = "phase" /\ mode' = "serve"
    BY <1>1 DEF InitializeState, JournalInv
  <2>2. \A p \in Phases : receipt'[p] # 0 <=> p < 0
    BY <2>1 DEF Absent, Phases
  <2>3. Received' = 0
    BY <2>2, PrefixLengthIs DEF Received
  <2> QED
    BY <2>1, <2>3 DEF Phases
<1>2. CASE OpenJournal
  <2>1. CASE Accepted
    BY <1>0, <1>r, <1>2, <2>1 DEF OpenJournal, Recovered, Phases
  <2>2. CASE ~Accepted
    BY <1>r, <1>2, <2>2 DEF OpenJournal
  <2> QED
    BY <2>1, <2>2
<1>3. CASE PublishReceipt
  <2>1. at \in Phases /\ root = "made" /\ mode = "serve" /\ advisory = at
    BY <1>3 DEF PublishReceipt
  <2>2. CASE ~Publishable
    BY <1>3, <1>r, <2>1, <2>2 DEF PublishReceipt
  <2>3. CASE Publishable
    <3>1. receipt' = [receipt EXCEPT ![at] = authority[at]] /\ authority[at] # 0 /\ receipt[at] = 0
      BY <1>3, <2>3 DEF PublishReceipt, Publishable
    <3>2. Received = at
      BY <1>0, <2>1, <3>1 DEF AdvisoryFits, JournalInv, Phases
    <3>3. \A p \in Phases : receipt'[p] # 0 <=> p < at + 1
      BY <1>0, <2>1, <3>1, <3>2 DEF TypeOK, Phases
    <3>4. at + 1 \in 0 .. Count
      BY <2>1 DEF Phases
    <3>5. Received' = at + 1
      BY <3>3, <3>4, PrefixLengthIs DEF Received
    <3> QED
      BY <1>3, <2>1, <2>3, <3>5 DEF PublishReceipt
  <2> QED
    BY <2>2, <2>3
<1>4. CASE AdvanceState
  BY <1>0, <1>r, <1>4 DEF AdvanceState, Phases, Cleanup
<1>5. CASE ExecuteCleanup
  BY <1>r, <1>5 DEF ExecuteCleanup, Phases, Cleanup
<1>6. CASE CleanupRequest
  BY <1>6 DEF CleanupRequest, AfterRequest
<1>7. CASE RemoveTree
  BY <1>7 DEF RemoveTree, AfterRequest
<1>8. CASE StepFails
  BY <1>r, <1>8 DEF StepFails, GiveUp
<1>9. CASE RemovalBreaks
  BY <1>r, <1>9 DEF RemovalBreaks, GiveUp
<1>10. CASE Recover
  BY <1>r, <1>10 DEF Recover
<1>11. CASE Initialize
  BY <1>0, <1>r, <1>11 DEF Initialize, GiveUp, Recovered, Phases, Cleanup
<1>12. CASE PhasesDone \/ ExecutePhase \/ ObservePhase \/ PhaseUnavailable
  BY <1>0, <1>r, <1>12 DEF PhasesDone, ExecutePhase, ObservePhase, PhaseUnavailable, GiveUp, Recovered,
     Phases, Cleanup
<1>13. CASE RecoverPendingPhase \/ PhaseReturns \/ WriteAuthority
  BY <1>0, <1>r, <1>13 DEF RecoverPendingPhase, PhaseReturns, WriteAuthority, GiveUp,
     Recovered, Phases, Cleanup
<1>14. CASE BeginFinalize
  BY <1>0, <1>r, <1>14 DEF BeginFinalize, GiveUp, Recovered, Phases, Cleanup
<1>15. CASE StopAndReap \/ RemoveRequest
  BY <1>0, <1>r, <1>15 DEF StopAndReap, RemoveRequest, GiveUp, Recovered, Phases, Cleanup
<1>16. CASE CleanupUnavailable \/ VerifyComplete
  BY <1>0, <1>r, <1>16 DEF CleanupUnavailable, VerifyComplete, GiveUp, Recovered, Phases, Cleanup
<1>17. CASE Release \/ Succeed
  BY <1>0, <1>r, <1>17 DEF Release, Succeed, GiveUp, Recovered, Phases, Cleanup
<1>18. CASE CleanupRefused \/ FailTransaction
  BY <1>0, <1>r, <1>18 DEF CleanupRefused, FailTransaction, GiveUp, Recovered, Phases, Cleanup
<1>19. CASE ActorSucceeds \/ ActorFails
  BY <1>0, <1>r, <1>19 DEF ActorSucceeds, ActorFails, GiveUp, Recovered, Phases, Cleanup
<1>20. CASE SuccessUnreported
  BY <1>0, <1>r, <1>20 DEF SuccessUnreported, GiveUp, Recovered, Phases, Cleanup
<1>21. CASE WriteBreaks
  BY <1>0, <1>r, <1>21 DEF WriteBreaks, GiveUp, Recovered, Phases, Cleanup
<1>22. CASE CoordinatorDies \/ BrokerDies
  BY <1>0, <1>r, <1>22 DEF CoordinatorDies, BrokerDies, GiveUp, Recovered, Phases, Cleanup
<1>23. CASE BrokerStops \/ ResumeTransaction
  BY <1>0, <1>r, <1>23 DEF BrokerStops, ResumeTransaction, GiveUp, Recovered, Phases, Cleanup
<1>24. CASE Discard
  BY <1>24 DEF Discard
<1>25. CASE UNCHANGED vars \/ Done
  BY <1>25, <1>r DEF vars, Done
<1> QED
  BY <1>1, <1>2, <1>3, <1>4, <1>5, <1>6, <1>7, <1>8, <1>9, <1>10, <1>11, <1>12, <1>13, <1>14,
     <1>15, <1>16, <1>17, <1>18, <1>19, <1>20, <1>21, <1>22, <1>23, <1>24, <1>25 DEF Next,
     Work, Actor, Faults

(* Every step keeps what was left of a phase the trace of its last execution. *)
LEMMA OnceStep == IInv /\ [Next]_vars => OnceInv'
<1> SUFFICES ASSUME IInv, [Next]_vars PROVE OnceInv'
  OBVIOUS
<1> USE CountAssumption, FaultAssumption, NoneAssumption
<1> USE DEF IInv, OnceInv, SealsLastExecution, Goto, journal, world, phaseFiles
<1>0. /\ Received \in 0 .. Count /\ ReceiptsArePrefix
      /\ \A p \in Phases : receipt[p] # 0 <=> p < Received
  BY ReceivedRange
<1>1. CASE ExecutePhase
  <2>1. /\ at \in Phases /\ observations[at] = 0 /\ data[at] = 0
        /\ Received = at /\ receipt[at] = 0
    BY <1>0, <1>1 DEF ExecutePhase, Untouched, CursorInv
  <2>2. \A p \in Phases : p # at => executed'[p] = executed[p]
    BY <1>1, <2>1 DEF ExecutePhase, StartActor, TypeOK
  <2>3. observations' = observations /\ data' = data /\ receipt' = receipt
    BY <1>1 DEF ExecutePhase
  <2>4. \A p \in Phases : observations[p] # 0 \/ data[p] # 0 \/ receipt[p] # 0 => p # at
    BY <2>1
  <2> QED
    BY <2>2, <2>3, <2>4
<1>2. CASE ObservePhase
  <2>1. at \in Phases /\ UNCHANGED <<executed, data, receipt>>
    BY <1>2 DEF ObservePhase, CursorInv
  <2>2. \A p \in Phases : observations'[p] \in {observations[p], executed[p]}
    BY <1>2, <2>1 DEF ObservePhase, TypeOK
  <2> QED
    BY <2>1, <2>2
<1>3. CASE ActorSucceeds
  <2>1. UNCHANGED <<executed, observations, receipt>>
    BY <1>3 DEF ActorSucceeds
  <2>2. \A p \in Phases : data'[p] \in {data[p], executed[p]}
    BY <1>3 DEF ActorSucceeds, TypeOK
  <2> QED
    BY <2>1, <2>2
<1>4. CASE ExecuteCleanup
  <2>1. Cleanup \in Phases /\ receipt[Cleanup] = 0 /\ receipt' = receipt
    BY <1>0, <1>4 DEF ExecuteCleanup, CursorInv, Cleanup, Phases
  <2>2. \A p \in Phases : p # Cleanup => /\ executed'[p] = executed[p]
                                        /\ observations'[p] = observations[p]
                                        /\ data'[p] = data[p]
    BY <1>4, <2>1 DEF ExecuteCleanup, TypeOK
  <2>3. data'[Cleanup] = executed'[Cleanup]
    BY <1>4, <2>1 DEF ExecuteCleanup, TypeOK
  <2>4. \A p \in Phases : p < Cleanup => p # Cleanup
    BY DEF Phases, Cleanup
  <2> QED
    BY <2>1, <2>2, <2>3, <2>4
<1>5. CASE PublishReceipt
  <2>1. at \in Phases /\ UNCHANGED <<executed, observations, data>>
    BY <1>5 DEF PublishReceipt, CursorInv
  <2>2. CASE Publishable
    <3>1. authority[at] = executed[at]
      BY <2>1, <2>2 DEF Publishable
    <3>2. \A p \in Phases : receipt'[p] \in {receipt[p], executed[p]}
      BY <1>5, <2>1, <2>2, <3>1 DEF PublishReceipt, TypeOK
    <3> QED
      BY <2>1, <3>2
  <2>3. CASE ~Publishable
    BY <1>5, <2>1, <2>3 DEF PublishReceipt
  <2> QED
    BY <2>2, <2>3
<1>6. CASE Discard
  BY <1>6 DEF Discard, Absent
<1>7. CASE Initialize \/ InitializeState \/ OpenJournal \/ PhasesDone
          \/ PhaseUnavailable \/ RecoverPendingPhase \/ PhaseReturns
          \/ WriteAuthority \/ AdvanceState \/ BeginFinalize
          \/ StopAndReap \/ RemoveRequest \/ CleanupUnavailable
          \/ VerifyComplete \/ Release \/ Succeed \/ CleanupRequest
          \/ RemoveTree \/ CleanupRefused \/ ActorFails \/ FailTransaction
          \/ StepFails \/ SuccessUnreported \/ WriteBreaks \/ RemovalBreaks
          \/ CoordinatorDies \/ BrokerDies \/ BrokerStops \/ ResumeTransaction
          \/ Recover
  <2>1. UNCHANGED <<observations, executed, data, receipt>>
    BY <1>7 DEF Initialize, InitializeState, OpenJournal, PhasesDone, PhaseUnavailable,
       RecoverPendingPhase, PhaseReturns, WriteAuthority, AdvanceState,
       BeginFinalize, StopAndReap, RemoveRequest, CleanupUnavailable, VerifyComplete,
       Release, Succeed, CleanupRequest, RemoveTree, CleanupRefused, FailTransaction,
       ActorFails, StepFails, SuccessUnreported, WriteBreaks, RemovalBreaks,
       CoordinatorDies, BrokerDies, BrokerStops, ResumeTransaction, Recover, GiveUp
  <2> QED
    BY <2>1
<1>8. CASE UNCHANGED vars \/ Done
  BY <1>8 DEF vars, Done
<1> QED
  BY <1>1, <1>2, <1>3, <1>4, <1>5, <1>6, <1>7, <1>8 DEF Next, Work, Actor, Faults

(* Every step leaves an actor alone at the end of the journal. *)
LEMMA ActorStep == IInv /\ [Next]_vars => ActorInv'
<1> SUFFICES ASSUME IInv, [Next]_vars PROVE ActorInv'
  OBVIOUS
<1> USE CountAssumption, FaultAssumption, NoneAssumption
<1> USE DEF IInv, ActorInv, ModeInv, CursorInv, Goto, journal, world, phaseFiles
<1>0. /\ Received \in 0 .. Count /\ ReceiptsArePrefix
      /\ \A p \in Phases : receipt[p] # 0 <=> p < Received
  BY ReceivedRange
<1>r. receipt' = receipt => Received' = Received
  BY DEF Received, PrefixLength
<1>1. CASE InitializeState
  BY <1>r, <1>1 DEF InitializeState
<1>2. CASE OpenJournal
  BY <1>0, <1>r, <1>2 DEF OpenJournal, Recovered, TypeOK
<1>3. CASE ExecutePhase
  <2>1. at \in Phases /\ at < Cleanup /\ data[at] = 0 /\ Received = at /\ root = "made"
    BY <1>3 DEF ExecutePhase, Untouched
  <2> QED
    BY <1>3, <1>r, <2>1 DEF ExecutePhase, StartActor
<1>28. CASE ObservePhase
  BY <1>r, <1>28 DEF ObservePhase
<1>4. CASE RecoverPendingPhase
  BY <1>r, <1>4 DEF RecoverPendingPhase, Finished
<1>5. CASE PhaseReturns
  BY <1>r, <1>5 DEF PhaseReturns
<1>6. CASE PublishReceipt
  BY <1>6 DEF PublishReceipt
<1>7. CASE ExecuteCleanup
  BY <1>r, <1>7 DEF ExecuteCleanup
<1>8. CASE ActorSucceeds \/ ActorFails
  BY <1>r, <1>8 DEF ActorSucceeds, ActorFails
<1>9. CASE BeginFinalize
  BY <1>9 DEF BeginFinalize
<1>10. CASE CleanupRequest
  BY <1>10 DEF CleanupRequest
<1>11. CASE Discard
  BY <1>11 DEF Discard
<1>12. CASE AdvanceState
  BY <1>12 DEF AdvanceState
<1>13. CASE RemoveTree
  BY <1>13 DEF RemoveTree
<1>14. CASE Recover
  BY <1>r, <1>14 DEF Recover, LeaseInv
<1>15. CASE Initialize
  BY <1>r, <1>15 DEF Initialize, GiveUp
<1>16. CASE PhaseUnavailable
  BY <1>r, <1>16 DEF PhaseUnavailable, GiveUp
<1>17. CASE WriteAuthority
  BY <1>r, <1>17 DEF WriteAuthority, GiveUp
<1>18. CASE StopAndReap \/ RemoveRequest
  BY <1>r, <1>18 DEF StopAndReap, RemoveRequest, GiveUp
<1>19. CASE CleanupUnavailable \/ VerifyComplete
  BY <1>r, <1>19 DEF CleanupUnavailable, VerifyComplete, GiveUp
<1>20. CASE Release \/ Succeed
  BY <1>r, <1>20 DEF Release, Succeed, GiveUp
<1>21. CASE CleanupRefused \/ FailTransaction
  BY <1>r, <1>21 DEF CleanupRefused, FailTransaction, GiveUp
<1>22. CASE StepFails \/ SuccessUnreported
  BY <1>r, <1>22 DEF StepFails, SuccessUnreported, GiveUp
<1>23. CASE WriteBreaks \/ RemovalBreaks
  BY <1>r, <1>23 DEF WriteBreaks, RemovalBreaks, GiveUp
<1>24. CASE CoordinatorDies \/ BrokerDies
  BY <1>r, <1>24 DEF CoordinatorDies, BrokerDies, GiveUp
<1>25. CASE BrokerStops \/ ResumeTransaction
  BY <1>r, <1>25 DEF BrokerStops, ResumeTransaction, GiveUp
<1>26. CASE PhasesDone
  BY <1>r, <1>26 DEF PhasesDone, TypeOK, Cleanup
<1>27. CASE UNCHANGED vars \/ Done
  BY <1>27, <1>r DEF vars, Done
<1> QED
  BY <1>1, <1>2, <1>3, <1>4, <1>5, <1>6, <1>7, <1>8, <1>9, <1>10, <1>11, <1>12, <1>13, <1>14,
     <1>15, <1>16, <1>17, <1>18, <1>19, <1>20, <1>21, <1>22, <1>23, <1>24, <1>25, <1>26, <1>27,
     <1>28 DEF Next, Work, Actor, Faults

(* Every step frees the lease of a closed transaction only. *)
LEMMA LeaseStep == IInv /\ [Next]_vars => LeaseInv'
<1> SUFFICES ASSUME IInv, [Next]_vars PROVE LeaseInv'
  OBVIOUS
<1> USE CountAssumption, FaultAssumption, NoneAssumption
<1> USE DEF IInv, LeaseInv, ModeInv, CursorInv, Goto, journal, world, phaseFiles
<1>0. /\ Received \in 0 .. Count /\ ReceiptsArePrefix
      /\ \A p \in Phases : receipt[p] # 0 <=> p < Received
  BY ReceivedRange
<1>r. receipt' = receipt => Received' = Received
  BY DEF Received, PrefixLength
<1>1. CASE CleanupRequest
  <2>1. actor = None /\ held
    BY <1>1 DEF CleanupRequest, ActorInv
  <2>2. pc' = "release" => Closed'
    BY <1>0, <1>r, <1>1 DEF CleanupRequest, AfterRequest, Cleanable, Recovered, Closed, TypeOK
  <2> QED
    BY <1>1, <2>1, <2>2 DEF CleanupRequest, AfterRequest
<1>2. CASE RemoveTree
  <2>1. actor = None /\ held /\ root \in {"none", "made"}
    BY <1>2 DEF RemoveTree, ActorInv, DropInv
  <2>2. pc' = "release" => Closed'
    BY <1>0, <1>r, <1>2, <2>1 DEF RemoveTree, AfterRequest, Closed
  <2> QED
    BY <1>2, <2>1, <2>2 DEF RemoveTree, AfterRequest
<1>3. CASE Discard
  BY <1>r, <1>3 DEF Discard, Closed, DropInv, ActorInv
<1>4. CASE VerifyComplete
  BY <1>r, <1>4 DEF VerifyComplete, Closed, Complete, ActorInv
<1>5. CASE Initialize \/ InitializeState \/ OpenJournal
  BY <1>r, <1>5 DEF Initialize, InitializeState, OpenJournal, Closed, GiveUp
<1>6. CASE PhasesDone \/ ExecutePhase \/ ObservePhase \/ PhaseUnavailable
  BY <1>r, <1>6 DEF PhasesDone, ExecutePhase, StartActor, ObservePhase, PhaseUnavailable, Closed, GiveUp
<1>7. CASE RecoverPendingPhase \/ PhaseReturns \/ WriteAuthority
  BY <1>r, <1>7 DEF RecoverPendingPhase, PhaseReturns, WriteAuthority, Closed, GiveUp
<1>8. CASE PublishReceipt \/ AdvanceState \/ BeginFinalize
  BY <1>r, <1>8 DEF PublishReceipt, AdvanceState, BeginFinalize, Closed, GiveUp
<1>9. CASE StopAndReap \/ RemoveRequest
  BY <1>r, <1>9 DEF StopAndReap, RemoveRequest, Closed, GiveUp
<1>10. CASE ExecuteCleanup \/ CleanupUnavailable
  BY <1>r, <1>10 DEF ExecuteCleanup, CleanupUnavailable, Closed, GiveUp
<1>11. CASE Release \/ Succeed
  BY <1>r, <1>11 DEF Release, Succeed, Closed, GiveUp
<1>12. CASE CleanupRefused \/ FailTransaction
  BY <1>r, <1>12 DEF CleanupRefused, FailTransaction, Closed, GiveUp
<1>13. CASE ActorSucceeds \/ ActorFails
  BY <1>r, <1>13 DEF ActorSucceeds, ActorFails, Closed, GiveUp
<1>14. CASE StepFails \/ SuccessUnreported
  BY <1>r, <1>14 DEF StepFails, SuccessUnreported, Closed, GiveUp
<1>15. CASE WriteBreaks \/ RemovalBreaks
  BY <1>r, <1>15 DEF WriteBreaks, RemovalBreaks, Closed, GiveUp
<1>16. CASE CoordinatorDies \/ BrokerDies
  BY <1>r, <1>16 DEF CoordinatorDies, BrokerDies, Closed, GiveUp
<1>17. CASE BrokerStops \/ ResumeTransaction \/ Recover
  BY <1>r, <1>17 DEF BrokerStops, ResumeTransaction, Recover, Closed, GiveUp
<1>18. CASE UNCHANGED vars \/ Done
  BY <1>18, <1>r DEF vars, Done, Closed
<1> QED
  BY <1>1, <1>2, <1>3, <1>4, <1>5, <1>6, <1>7, <1>8, <1>9, <1>10, <1>11, <1>12, <1>13, <1>14,
     <1>15, <1>16, <1>17, <1>18 DEF Next, Work, Actor, Faults

(* Every step gives a journal up only after its request. *)
LEMMA DropStep == IInv /\ [Next]_vars => DropInv'
<1> SUFFICES ASSUME IInv, [Next]_vars PROVE DropInv'
  OBVIOUS
<1> USE CountAssumption, FaultAssumption, NoneAssumption
<1> USE DEF IInv, DropInv, ModeInv, CursorInv, Goto, journal, world, phaseFiles
<1>0. /\ Received \in 0 .. Count /\ ReceiptsArePrefix
      /\ \A p \in Phases : receipt[p] # 0 <=> p < Received
  BY ReceivedRange
<1>r. receipt' = receipt => Received' = Received
  BY DEF Received, PrefixLength
<1>1. CASE CleanupRequest
  BY <1>0, <1>r, <1>1 DEF CleanupRequest, AfterRequest, Cleanable, Accepted, Recovered, TypeOK
<1>2. CASE RemoveTree
  BY <1>0, <1>r, <1>2 DEF RemoveTree, AfterRequest
<1>3. CASE Initialize \/ InitializeState \/ OpenJournal
  BY <1>r, <1>3 DEF Initialize, InitializeState, OpenJournal, GiveUp, Recovered
<1>4. CASE PhasesDone \/ ExecutePhase \/ ObservePhase \/ PhaseUnavailable
  BY <1>r, <1>4 DEF PhasesDone, ExecutePhase, ObservePhase, PhaseUnavailable, GiveUp, Recovered
<1>5. CASE RecoverPendingPhase \/ PhaseReturns \/ WriteAuthority
  BY <1>r, <1>5 DEF RecoverPendingPhase, PhaseReturns, WriteAuthority, GiveUp, Recovered
<1>6. CASE PublishReceipt \/ AdvanceState \/ BeginFinalize
  BY <1>r, <1>6 DEF PublishReceipt, AdvanceState, BeginFinalize, GiveUp, Recovered
<1>7. CASE StopAndReap \/ RemoveRequest
  BY <1>r, <1>7 DEF StopAndReap, RemoveRequest, GiveUp, Recovered
<1>8. CASE ExecuteCleanup \/ CleanupUnavailable \/ VerifyComplete
  BY <1>r, <1>8 DEF ExecuteCleanup, CleanupUnavailable, VerifyComplete, GiveUp, Recovered
<1>9. CASE Release \/ Succeed
  BY <1>r, <1>9 DEF Release, Succeed, GiveUp, Recovered
<1>10. CASE Discard
  BY <1>r, <1>10 DEF Discard, GiveUp, Recovered
<1>11. CASE CleanupRefused \/ FailTransaction
  BY <1>r, <1>11 DEF CleanupRefused, FailTransaction, GiveUp, Recovered
<1>12. CASE ActorSucceeds \/ ActorFails
  BY <1>r, <1>12 DEF ActorSucceeds, ActorFails, GiveUp, Recovered
<1>13. CASE StepFails \/ SuccessUnreported
  BY <1>r, <1>13 DEF StepFails, SuccessUnreported, GiveUp, Recovered
<1>14. CASE WriteBreaks \/ RemovalBreaks
  BY <1>r, <1>14 DEF WriteBreaks, RemovalBreaks, GiveUp, Recovered
<1>15. CASE CoordinatorDies \/ BrokerDies
  BY <1>r, <1>15 DEF CoordinatorDies, BrokerDies, GiveUp, Recovered
<1>16. CASE BrokerStops \/ ResumeTransaction \/ Recover
  BY <1>r, <1>16 DEF BrokerStops, ResumeTransaction, Recover, GiveUp, Recovered
<1>17. CASE UNCHANGED vars \/ Done
  BY <1>17, <1>r DEF vars, Done
<1> QED
  BY <1>1, <1>2, <1>3, <1>4, <1>5, <1>6, <1>7, <1>8, <1>9, <1>10, <1>11, <1>12, <1>13, <1>14,
     <1>15, <1>16, <1>17 DEF Next, Work, Actor, Faults

(* Every step keeps the invariant. *)
LEMMA StepInv == IInv /\ [Next]_vars => IInv'
  BY TypeStep, JournalStep, CursorStep, OnceStep, ActorStep, LeaseStep, DropStep DEF IInv

(* The invariant of the journal. *)
THEOREM Invariance == Spec => []IInv
  BY InitInv, StepInv, PTL DEF Spec

(* Type correctness. *)
THEOREM TypeCorrect == Spec => []TypeOK
<1>1. IInv => TypeOK
  BY DEF IInv
<1> QED
  BY <1>1, Invariance, PTL

(* However many coordinators and brokers die, and wherever, recovery_ordinal
   accepts the journal unless a write or an rmtree was cut short. *)
THEOREM AlwaysAccepted == Spec => []JournalAccepted
<1>1. IInv => JournalAccepted
  <2> SUFFICES ASSUME IInv, root # "none", ~Damaged PROVE Accepted
    BY DEF JournalAccepted
  <2>1. /\ root \in {"making", "made"} /\ (root = "making" => litter = {})
        /\ litter \cap {"authorities", "receipts"} = {}
    BY DEF Damaged, IInv, TypeOK
  <2>2. ReceiptsArePrefix /\ Received \in 0 .. Count
    BY ReceivedRange DEF IInv
  <2>3. CASE root = "made"
    BY <2>1, <2>2, <2>3 DEF Accepted, IInv, JournalInv
  <2>4. CASE root = "making"
    <3>1. advisory = 0 /\ authority = Absent /\ receipt = Absent /\ previous = Absent
      BY <2>4 DEF IInv, JournalInv
    <3>2. 0 \in 0 .. Count /\ \A p \in Phases : receipt[p] # 0 <=> p < 0
      BY <3>1, CountAssumption DEF Absent, Phases
    <3>3. Received = 0
      BY <3>2, PrefixLengthIs DEF Received
    <3>4. AuthoritiesFit /\ AdvisoryFits /\ ChainHolds
      BY <3>1, <3>3 DEF AuthoritiesFit, AdvisoryFits, ChainHolds, Absent, Phases
    <3> QED
      BY <2>1, <2>2, <3>4 DEF Accepted
  <2> QED
    BY <2>1, <2>3, <2>4
<1> QED
  BY <1>1, Invariance, PTL

(* No build, upload or deployment is repeated once it has been observed, and
   a receipt seals the last one. *)
THEOREM SealsLast == Spec => []SealsLastExecution
<1>1. IInv => SealsLastExecution
  BY DEF IInv, OnceInv
<1> QED
  BY <1>1, Invariance, PTL

-----------------------------------------------------------------------------
(* The journal implements ReceiptLog. *)

LogOf(f, n) == [i \in 1 .. n |-> f[i - 1]]

(* The log of n receipts. *)
LEMMA LogOfProperties ==
    ASSUME NEW f \in [Phases -> Nat], NEW n \in 0 .. Count
    PROVE  /\ LogOf(f, n) \in Seq(Nat)
           /\ Len(LogOf(f, n)) = n
           /\ \A i \in 1 .. n : LogOf(f, n)[i] = f[i - 1]
<1>1. \A i \in 1 .. n : i - 1 \in Phases
  BY CountAssumption DEF Phases
<1>2. LogOf(f, n) \in [1 .. n -> Nat] /\ n \in Nat
  BY <1>1, CountAssumption DEF LogOf
<1>3. LogOf(f, n) \in Seq(Nat)
  BY <1>2, SeqDef
<1>4. Len(LogOf(f, n)) = n
  BY <1>2, <1>3, LenProperties
<1> QED
  BY <1>3, <1>4 DEF LogOf

(* One more receipt is appended to the log. *)
LEMMA LogGrows ==
    ASSUME NEW f \in [Phases -> Nat], NEW g \in [Phases -> Nat], NEW n \in 0 .. Count - 1,
           \A p \in Phases : p < n => g[p] = f[p]
    PROVE  /\ Len(LogOf(g, n + 1)) = Len(LogOf(f, n)) + 1
           /\ SubSeq(LogOf(g, n + 1), 1, Len(LogOf(f, n))) = LogOf(f, n)
<1> USE CountAssumption
<1>1. n \in 0 .. Count /\ n + 1 \in 0 .. Count
  OBVIOUS
<1>2. /\ LogOf(f, n) \in Seq(Nat) /\ Len(LogOf(f, n)) = n
      /\ \A i \in 1 .. n : LogOf(f, n)[i] = f[i - 1]
  BY <1>1, LogOfProperties
<1>3. /\ LogOf(g, n + 1) \in Seq(Nat) /\ Len(LogOf(g, n + 1)) = n + 1
      /\ \A i \in 1 .. n + 1 : LogOf(g, n + 1)[i] = g[i - 1]
  BY <1>1, LogOfProperties
<1>4. \A i \in 1 .. n : LogOf(g, n + 1)[i] = LogOf(f, n)[i] /\ LogOf(f, n)[i] \in Nat
  <2> SUFFICES ASSUME NEW i \in 1 .. n
               PROVE  LogOf(g, n + 1)[i] = LogOf(f, n)[i] /\ LogOf(f, n)[i] \in Nat
    OBVIOUS
  <2>1. i - 1 \in Phases /\ i - 1 < n
    BY DEF Phases
  <2> QED
    BY <1>2, <1>3, <2>1
<1>5. /\ SubSeq(LogOf(g, n + 1), 1, n) \in Seq(Nat)
      /\ Len(SubSeq(LogOf(g, n + 1), 1, n)) = n
      /\ \A i \in 1 .. n : SubSeq(LogOf(g, n + 1), 1, n)[i] = LogOf(g, n + 1)[i]
  BY <1>4, SubSeqProperties
<1>6. SubSeq(LogOf(g, n + 1), 1, n) = LogOf(f, n)
  BY <1>2, <1>4, <1>5, SeqEqual
<1> QED
  BY <1>2, <1>3, <1>6

Dropped == request # "whole" /\ root \in {"none", "torn"}

(* What the mapping makes of a state the invariant holds in. *)
LEMMA Mapped ==
    IInv => /\ root = "made" => Log = LogOf(receipt, Received) /\ Len(Log) = Received
            /\ root # "made" => Log = <<>> /\ Len(Log) = 0
            /\ root \in {"none", "making"} => Received = 0
            /\ Received = 0 => Log = <<>>
<1> SUFFICES ASSUME IInv
             PROVE  /\ root = "made" => Log = LogOf(receipt, Received) /\ Len(Log) = Received
                    /\ root # "made" => Log = <<>> /\ Len(Log) = 0
                    /\ root \in {"none", "making"} => Received = 0
                    /\ Received = 0 => Log = <<>>
  OBVIOUS
<1>1. Received \in 0 .. Count /\ receipt \in [Phases -> Nat]
  BY ReceivedRange DEF IInv, TypeOK
<1>2. root = "made" => Log = LogOf(receipt, Received)
  BY DEF Log, LogOf
<1>3. root # "made" => Log = <<>>
  BY DEF Log
<1>4. root \in {"none", "making"} => Received = 0
  <2> SUFFICES ASSUME root \in {"none", "making"} PROVE Received = 0
    OBVIOUS
  <2>1. 0 \in 0 .. Count /\ \A p \in Phases : receipt[p] # 0 <=> p < 0
    BY CountAssumption DEF Absent, Phases, IInv, JournalInv
  <2> QED
    BY <2>1, PrefixLengthIs DEF Received
<1>5. Len(LogOf(receipt, Received)) = Received /\ LogOf(receipt, Received) \in Seq(Nat)
  BY <1>1, LogOfProperties
<1>6. Received = 0 => LogOf(receipt, Received) = <<>>
  BY <1>5, EmptySeq
<1>7. Len(<<>>) = 0
  OBVIOUS
<1> QED
  BY <1>2, <1>3, <1>4, <1>5, <1>6, <1>7

(* The initial state is one of ReceiptLog. *)
LEMMA LogInitMapped == Init => Promise!LogInit
  BY DEF Init, Log, Promise!LogInit

(* Every step is one of ReceiptLog, or changes nothing it sees. *)
LEMMA LogStepMapped ==
    IInv /\ IInv' /\ [Next]_vars => [Promise!LogNext]_(Promise!logVars)
<1> SUFFICES ASSUME IInv, IInv', [Next]_vars PROVE [Promise!LogNext]_(Promise!logVars)
  OBVIOUS
<1> USE DEF Goto, journal, world, phaseFiles, Fault
<1>0. /\ Received \in 0 .. Count /\ ReceiptsArePrefix
      /\ \A p \in Phases : receipt[p] # 0 <=> p < Received
  BY ReceivedRange DEF IInv
<1>r. receipt' = receipt => Received' = Received
  BY DEF Received, PrefixLength
<1>m. /\ root = "made" => Log = LogOf(receipt, Received) /\ Len(Log) = Received
      /\ root # "made" => Log = <<>> /\ Len(Log) = 0
      /\ root \in {"none", "making"} => Received = 0
      /\ Received = 0 => Log = <<>>
      /\ root' = "made" => Log' = LogOf(receipt', Received')
      /\ root' # "made" => Log' = <<>>
      /\ Received' = 0 => Log' = <<>>
  <2>1. /\ root' = "made" => Log' = LogOf(receipt', Received')
        /\ root' # "made" => Log' = <<>>
    BY DEF Log, LogOf
  <2>2. Received' = 0 => Log' = <<>>
    <3>1. receipt' \in [Phases -> Nat] /\ 0 \in 0 .. Count
      BY CountAssumption DEF IInv, TypeOK
    <3>2. Len(LogOf(receipt', 0)) = 0 /\ LogOf(receipt', 0) \in Seq(Nat)
      BY <3>1, LogOfProperties
    <3>3. LogOf(receipt', 0) = <<>>
      BY <3>2, EmptySeq
    <3> QED
      BY <2>1, <3>3
  <2> QED
    BY <2>1, <2>2, Mapped
<1>k. /\ UNCHANGED <<root, receipt>> => Log' = Log
      /\ UNCHANGED <<root, receipt, request, held, actor, status>> => UNCHANGED Promise!logVars
  <2>1. UNCHANGED <<root, receipt>> => Log' = Log
    BY <1>r DEF Log
  <2> QED
    BY <2>1 DEF Promise!logVars
<1>1. CASE PhasesDone \/ ObservePhase \/ PhaseUnavailable \/ RecoverPendingPhase
          \/ PhaseReturns
  <2>1. UNCHANGED <<root, receipt, request, held, actor, status>>
    BY <1>1 DEF PhasesDone, ObservePhase, PhaseUnavailable, RecoverPendingPhase, PhaseReturns, GiveUp
  <2> QED
    BY <2>1, <1>k
<1>2. CASE WriteAuthority \/ AdvanceState \/ ExecuteCleanup \/ CleanupUnavailable
  <2>1. UNCHANGED <<root, receipt, request, held, actor, status>>
    BY <1>2 DEF WriteAuthority, AdvanceState, ExecuteCleanup, CleanupUnavailable, GiveUp
  <2> QED
    BY <2>1, <1>k
<1>3. CASE VerifyComplete \/ CleanupRefused \/ StepFails \/ WriteBreaks
  <2>1. UNCHANGED <<root, receipt, request, held, actor, status>>
    BY <1>3 DEF VerifyComplete, CleanupRefused, StepFails, WriteBreaks, GiveUp
  <2> QED
    BY <2>1, <1>k
<1>4. CASE CoordinatorDies \/ BrokerDies \/ BrokerStops \/ ResumeTransaction
  <2>1. UNCHANGED <<root, receipt, request, held, actor, status>>
    BY <1>4 DEF CoordinatorDies, BrokerDies, BrokerStops, ResumeTransaction, GiveUp
  <2> QED
    BY <2>1, <1>k
<1>5. CASE Recover
  <2>1. UNCHANGED <<root, receipt, request, held, actor, status>>
    BY <1>5 DEF Recover, GiveUp
  <2> QED
    BY <2>1, <1>k
<1>6. CASE Initialize \/ InitializeState
  <2>1. /\ root \in {"none", "making"} /\ root' \in {"making", "made"}
        /\ UNCHANGED <<receipt, request, held, actor, status>>
        /\ mode = "serve" /\ request = "whole"
    BY <1>6 DEF Initialize, InitializeState, IInv, ModeInv, DropInv, CursorInv
  <2>2. Log = <<>> /\ Log' = <<>>
    BY <2>1, <1>m, <1>r
  <2> QED
    BY <2>1, <2>2 DEF Promise!logVars
<1>7. CASE OpenJournal \/ BeginFinalize
  <2>1. /\ UNCHANGED <<receipt, request, held, actor, status>>
        /\ root' = root \/ (root \in {"making", "made"} /\ root' = "made")
    BY <1>7 DEF OpenJournal, BeginFinalize, Accepted, Recovered
  <2>2. Log' = Log /\ Dropped' = Dropped
    BY <2>1, <1>m, <1>k, <1>r DEF Dropped
  <2> QED
    BY <2>1, <2>2 DEF Promise!logVars, Dropped
<1>8. CASE CleanupRequest
  <2>1. /\ UNCHANGED <<receipt, request, held, actor, status>>
        /\ root' = root \/ (root \in {"making", "made"} /\ root' = "made")
    BY <1>8 DEF CleanupRequest, Cleanable, Accepted, Recovered
  <2>2. Log' = Log /\ Dropped' = Dropped
    BY <2>1, <1>m, <1>k, <1>r DEF Dropped
  <2> QED
    BY <2>1, <2>2 DEF Promise!logVars, Dropped
<1>9. CASE ExecutePhase
  <2>1. /\ at \in Phases /\ at < Cleanup /\ Received = at /\ root = "made" /\ held
    BY <1>9 DEF ExecutePhase, IInv, CursorInv, LeaseInv
  <2>2. actor \in {None, at}
    BY <2>1 DEF IInv, ActorInv
  <2>3. /\ UNCHANGED <<receipt, root, request, held, status>> /\ actor' = at
    BY <1>9 DEF ExecutePhase, StartActor, journal, phaseFiles
  <2>4. UNCHANGED <<Log, Dropped>>
    BY <2>3, <1>k DEF Dropped
  <2>5. Len(Log) = at /\ ~Dropped /\ at < Count - 1
    BY <2>1, <1>m DEF Dropped, Cleanup
  <2>6. CASE actor = None
    BY <2>1, <2>3, <2>4, <2>5, <2>6 DEF Promise!LogNext, Promise!Start, Promise!Open, Dropped
  <2>7. CASE actor = at
    BY <2>3, <2>7, <1>k
  <2> QED
    BY <2>2, <2>6, <2>7
<1>10. CASE ActorSucceeds \/ ActorFails \/ StopAndReap
  <2>1. /\ actor' = None /\ UNCHANGED <<receipt, root, request, held, status>>
    BY <1>10 DEF ActorSucceeds, ActorFails, StopAndReap
  <2>2. UNCHANGED <<Log, Dropped>>
    BY <2>1, <1>k DEF Dropped
  <2> QED
    BY <2>1, <2>2 DEF Promise!LogNext, Promise!End, Promise!logVars, Dropped
<1>11. CASE PublishReceipt
  <2>1. at \in Phases /\ root = "made" /\ held /\ actor = None /\ advisory = at
    BY <1>11 DEF PublishReceipt, IInv, CursorInv, LeaseInv, ActorInv
  <2>2. UNCHANGED <<root, request, held, actor, status>>
    BY <1>11 DEF PublishReceipt
  <2>3. CASE ~Publishable
    <3>1. receipt' = receipt
      BY <1>11, <2>3 DEF PublishReceipt
    <3> QED
      BY <2>2, <3>1, <1>k
  <2>4. CASE Publishable
    <3>1. receipt' = [receipt EXCEPT ![at] = authority[at]] /\ authority[at] # 0 /\ receipt[at] = 0
      BY <1>11, <2>4 DEF PublishReceipt, Publishable
    <3>2. Received = at /\ at \in 0 .. Count - 1
      BY <1>0, <2>1, <3>1 DEF AdvisoryFits, IInv, JournalInv, Phases
    <3>3. \A p \in Phases : receipt'[p] # 0 <=> p < at + 1
      BY <1>0, <2>1, <3>1, <3>2 DEF IInv, TypeOK, Phases
    <3>4. Received' = at + 1
      <4>1. at + 1 \in 0 .. Count
        BY <2>1, CountAssumption DEF Phases
      <4> QED
        BY <3>3, <4>1, PrefixLengthIs DEF Received
    <3>5. \A p \in Phases : p < at => receipt'[p] = receipt[p]
      BY <2>1, <3>1 DEF IInv, TypeOK, Phases
    <3>6. Log = LogOf(receipt, at) /\ Log' = LogOf(receipt', at + 1) /\ Len(Log) = at
      BY <1>m, <2>1, <2>2, <3>2, <3>4
    <3>7. /\ Len(LogOf(receipt', at + 1)) = Len(LogOf(receipt, at)) + 1
          /\ SubSeq(LogOf(receipt', at + 1), 1, Len(LogOf(receipt, at))) = LogOf(receipt, at)
      <4>1. receipt \in [Phases -> Nat] /\ receipt' \in [Phases -> Nat]
        BY DEF IInv, TypeOK
      <4> QED
        BY <4>1, <3>2, <3>5, LogGrows
    <3>8. Len(Log') = Len(Log) + 1 /\ SubSeq(Log', 1, Len(Log)) = Log
      BY <3>6, <3>7
    <3>9. Len(Log) < Count
      BY <3>2, <3>6, CountAssumption
    <3> QED
      BY <2>1, <2>2, <3>8, <3>9 DEF Promise!LogNext, Promise!Seal, Promise!Open
  <2> QED
    BY <2>3, <2>4
<1>12. CASE RemoveRequest
  <2>1. root = "made" /\ root' = "made" /\ UNCHANGED <<receipt, held, actor, status>>
    BY <1>12 DEF RemoveRequest, IInv, CursorInv
  <2>2. UNCHANGED <<Log, Dropped>>
    BY <2>1, <1>k DEF Dropped
  <2> QED
    BY <2>1, <2>2 DEF Promise!logVars, Dropped
<1>13. CASE RemoveTree \/ RemovalBreaks
  <2>1. /\ UNCHANGED <<receipt, held, actor, status>>
        /\ \/ root = "made" /\ root' = "made"
           \/ pc = "rmtree" /\ root = "none" /\ root' = "none" /\ request = "whole" /\ request' # "whole"
           \/ pc = "discard" /\ root = "made" /\ root' = "torn" /\ request' = request /\ request = "gone"
              /\ Received < Count
    BY <1>13 DEF RemoveTree, RemovalBreaks, IInv, CursorInv, DropInv
  <2>2. CASE root = "made" /\ root' = "made"
    BY <2>1, <2>2, <1>k DEF Promise!logVars, Dropped
  <2>3. CASE ~(root = "made" /\ root' = "made")
    <3>1. held /\ actor = None
      BY <2>1, <2>3 DEF IInv, LeaseInv, ActorInv
    <3>2. /\ Log' = <<>> /\ Len(Log) < Count
          /\ ~Dropped /\ Dropped'
      BY <2>1, <2>3, <1>m, CountAssumption DEF Dropped
    <3> QED
      BY <2>1, <3>1, <3>2 DEF Promise!LogNext, Promise!Drop, Promise!Open, Dropped
  <2> QED
    BY <2>2, <2>3
<1>14. CASE Discard
  <2>1. /\ root = "made" /\ request = "gone" /\ Received < Count /\ held /\ actor = None
    BY <1>14 DEF Discard, IInv, DropInv, LeaseInv, ActorInv
  <2>2. root' = "none" /\ UNCHANGED <<request, held, actor, status>>
    BY <1>14 DEF Discard
  <2>3. /\ Log' = <<>> /\ Len(Log) < Count /\ ~Dropped /\ Dropped'
    BY <2>1, <2>2, <1>m DEF Dropped
  <2> QED
    BY <2>1, <2>2, <2>3 DEF Promise!LogNext, Promise!Drop, Promise!Open, Dropped
<1>15. CASE Release
  <2>1. held /\ actor = None /\ Closed
    BY <1>15 DEF Release, IInv, LeaseInv
  <2>2. ~held' /\ UNCHANGED <<root, receipt, request, actor, status>>
    BY <1>15 DEF Release
  <2>3. UNCHANGED <<Log, Dropped>> /\ (Dropped \/ Len(Log) = Count)
    BY <2>1, <2>2, <1>k, <1>m DEF Dropped, Closed
  <2>4. held' = FALSE
    BY <1>15 DEF Release
  <2> QED
    BY <2>1, <2>2, <2>3, <2>4 DEF Promise!LogNext, Promise!Release, Dropped
<1>16. CASE FailTransaction \/ SuccessUnreported
  <2>1. /\ status' \in {"failed", status} /\ UNCHANGED <<root, receipt, request, held, actor>>
    BY <1>16 DEF FailTransaction, SuccessUnreported
  <2>2. UNCHANGED <<Log, Dropped>>
    BY <2>1, <1>k DEF Dropped
  <2> QED
    BY <2>1, <2>2 DEF Promise!LogNext, Promise!Fail, Promise!logVars, Dropped
<1>17. CASE Succeed
  <2>1. ~held /\ root = "made" /\ Received = Count
    BY <1>17 DEF Succeed, IInv, LeaseInv, Closed
  <2>2. status' = "succeeded" /\ UNCHANGED <<root, receipt, request, held, actor>>
    BY <1>17 DEF Succeed
  <2>3. UNCHANGED <<Log, Dropped>> /\ Len(Log) = Count
    BY <2>1, <2>2, <1>k, <1>m DEF Dropped
  <2> QED
    BY <2>1, <2>2, <2>3 DEF Promise!LogNext, Promise!Succeed, Dropped
<1>18. CASE UNCHANGED vars \/ Done
  <2>1. UNCHANGED <<root, receipt, request, held, actor, status>>
    BY <1>18 DEF vars, Done
  <2> QED
    BY <2>1, <1>k
<1> QED
  BY <1>1, <1>2, <1>3, <1>4, <1>5, <1>6, <1>7, <1>8, <1>9, <1>10, <1>11, <1>12, <1>13, <1>14,
     <1>15, <1>16, <1>17, <1>18 DEF Next, Work, Actor, Faults

(* The store, its coordinators and its recovery keep the promise of ReceiptLog:
   receipts are appended and never changed, phases run one at a time and in
   order, the lease is freed only when the journal is complete or given up,
   and success means a complete journal. *)
THEOREM ImplementsLog == Spec => KeepsPromise
  BY LogInitMapped, LogStepMapped, InitInv, StepInv, PTL DEF Spec, KeepsPromise, Promise!LogSpec
=============================================================================
