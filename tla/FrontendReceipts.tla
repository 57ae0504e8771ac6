-------------------------- MODULE FrontendReceipts --------------------------
(***************************************************************************)
(* The receipt journal of one production deployment, which holds the       *)
(* exclusive lease of DeployLease: FrontendReceiptStore,                   *)
(* orchestrate_frontend_receipts and finalize_frontend_transaction of      *)
(* bin/ken-actions-deploy-transaction, over the receipts that              *)
(* bin/ken-frontend-production-release seals.                              *)
(*                                                                         *)
(* A step ends at a write to the disk, so that a crash falls between any   *)
(* two writes.  The executions of a phase are numbered and the number      *)
(* stands for the evidence they produce; 0 is a file that is not there.    *)
(* The digest of a receipt is stood for by the evidence it seals.          *)
(***************************************************************************)
EXTENDS Naturals, Sequences

CONSTANTS
    Count,          \* len(FRONTEND_RECEIPT_PHASES), which is 9
    None,
    MaxFaults,      \* bound on crashes and failing system calls
    Resumes         \* may a coordinator go on with the journal of a dead one?

ASSUME CountAssumption == Count \in Nat /\ Count > 1
ASSUME FaultAssumption == MaxFaults \in Nat /\ Resumes \in BOOLEAN
ASSUME NoneAssumption == None \notin Nat /\ None \notin {"succeeded", "failed"}

VARIABLES
    root,           \* frontend-receipts/<request>: none, making, made or torn
    advisory,       \* next_ordinal of state.json
    observations, data, authority, receipt, previous,   \* files, per phase
    litter,         \* directories holding a temporary file of a broken write
    request,        \* requests/<request>: whole, torn or gone
    held,           \* the exclusive lease
    actor,          \* the phase whose unit runs
    executed,       \* history: how often each phase was executed
    status,         \* transport-status/<request>.json
    pc, mode, at,   \* the coordinator: at is the phase it works on
    faults

phaseFiles == <<observations, data, authority, receipt, previous>>
journal    == <<root, advisory, phaseFiles, litter>>
world      == <<request, held, actor, executed, status>>
vars       == <<journal, world, pc, mode, at, faults>>

Phases  == 0 .. Count - 1
Cleanup == Count - 1
Absent  == [p \in Phases |-> 0]

Init ==
    /\ root = "none" /\ advisory = 0 /\ litter = {}
    /\ observations = Absent /\ data = Absent /\ authority = Absent
    /\ receipt = Absent /\ previous = Absent
    /\ request = "whole" /\ held = TRUE /\ actor = None
    /\ executed = Absent /\ status = None
    /\ pc = "open" /\ mode = "serve" /\ at = 0 /\ faults = 0

Goto(p) == pc' = p /\ UNCHANGED <<mode, at>>

Fault == faults < MaxFaults /\ faults' = faults + 1

-----------------------------------------------------------------------------
(* Reading the journal back. *)

(* How many phases from the first on have a file. *)
PrefixLength(files) == CHOOSE n \in 0 .. Count :
                           /\ \A p \in Phases : p < n => files[p] # 0
                           /\ n = Count \/ files[n] = 0

Received == PrefixLength(receipt)

ReceiptsArePrefix == \A p \in Phases : receipt[p] # 0 => p < Received

AuthoritiesFit ==
    /\ \A p \in Phases : p < Received => authority[p] # 0
    /\ \A p \in Phases : authority[p] # 0 => p <= Received

(* Bug: no allowance for a crash between the receipt and the state. *)
AdvisoryExact == advisory = Received

AdvisoryFits == advisory = Received \/ advisory + 1 = Received

ChainHolds ==
    \A p \in Phases : p < Received =>
        /\ receipt[p] = authority[p]
        /\ previous[p] = IF p = 0 THEN 0 ELSE receipt[p - 1]

(* verify_receipt_chain accepts what state.json says is complete. *)
Complete == advisory = Count /\ Received = Count /\ ChainHolds

(* recovery_ordinal returns; it raises where this does not hold.  Without a
   state.json the directories must be empty but for themselves. *)
Accepted ==
    /\ root \in {"making", "made"}
    /\ root = "making" => litter = {}
    /\ litter \cap {"authorities", "receipts"} = {}
    /\ ReceiptsArePrefix /\ AuthoritiesFit /\ AdvisoryFits /\ ChainHolds

(* What recovery_ordinal writes. *)
Recovered == root' = "made" /\ advisory' = Received

-----------------------------------------------------------------------------
(* initialize_or_recover and orchestrate_frontend_receipts *)

Initialize ==
    /\ pc = "open" /\ root = "none"
    /\ root' = "making"
    /\ Goto("state")
    /\ UNCHANGED <<advisory, phaseFiles, litter, world, faults>>

InitializeState ==
    /\ pc = "state"
    /\ root' = "made" /\ advisory' = 0
    /\ pc' = "phase" /\ at' = 0
    /\ UNCHANGED <<phaseFiles, litter, world, mode, faults>>

(* A complete journal is verified again and orchestration returns. *)
OpenJournal ==
    /\ pc = "open" /\ root # "none"
    /\ IF Accepted
       THEN /\ Recovered
            /\ pc' = IF Received = Count THEN "final" ELSE "phase"
            /\ at' = Received
            /\ UNCHANGED mode
       ELSE Goto("fail") /\ UNCHANGED <<root, advisory>>
    /\ UNCHANGED <<phaseFiles, litter, world, faults>>

(* Bug: a phase without an authority is taken for one that never ran. *)
UntouchedByAuthority(p) == authority[p] = 0

(* What recover_pending_phase finds of a phase: nothing, or all of its files. *)
Untouched(p) == observations[p] = 0 /\ data[p] = 0 /\ authority[p] = 0
Finished(p)  == observations[p] # 0 /\ data[p] # 0 /\ authority[p] # 0

(* Operational phases end where the cleanup begins. *)
PhasesDone ==
    /\ pc = "phase" /\ at >= Cleanup
    /\ Goto("final")
    /\ UNCHANGED <<journal, world, faults>>

(* systemctl start joins a unit that is running already. *)
StartActor ==
    /\ executed' = IF actor = at THEN executed ELSE [executed EXCEPT ![at] = @ + 1]
    /\ actor' = at

(* recover_pending_phase found nothing: execute_phase starts the unit. *)
ExecutePhase ==
    /\ pc = "phase" /\ at < Cleanup /\ Untouched(at)
    /\ StartActor /\ Goto("observe")
    /\ UNCHANGED <<journal, request, held, status, faults>>

(* Root observes the running actor, or is too late. *)
ObservePhase ==
    /\ pc = "observe"
    /\ IF actor = at
       THEN /\ observations' = [observations EXCEPT ![at] = executed[at]]
            /\ Goto("running")
       ELSE Goto("fail") /\ UNCHANGED observations
    /\ UNCHANGED <<root, advisory, data, authority, receipt, previous, litter, world, faults>>

(* execute_phase raises before it touches anything. *)
PhaseUnavailable ==
    /\ pc = "phase" /\ at < Cleanup /\ Untouched(at)
    /\ Goto("fail")
    /\ UNCHANGED <<journal, world, faults>>

(* recover_pending_phase returns the evidence, or finds it ambiguous. *)
RecoverPendingPhase ==
    /\ pc = "phase" /\ at < Cleanup /\ ~Untouched(at)
    /\ Goto(IF Finished(at) /\ authority[at] = data[at] THEN "seal" ELSE "fail")
    /\ UNCHANGED <<journal, world, faults>>

(* The unit goes on when its coordinator is dead. *)
ActorSucceeds ==
    /\ actor # None
    /\ data' = [data EXCEPT ![actor] = executed[actor]]
    /\ actor' = None
    /\ UNCHANGED <<root, advisory, observations, authority, receipt, previous, litter,
                   request, held, executed, status, pc, mode, at, faults>>

ActorFails ==
    /\ actor # None
    /\ actor' = None
    /\ UNCHANGED <<journal, request, held, executed, status, pc, mode, at, faults>>

PhaseReturns ==
    /\ pc = "running" /\ actor = None
    /\ Goto(IF data[at] # 0 THEN "seal" ELSE "fail")
    /\ UNCHANGED <<journal, world, faults>>

-----------------------------------------------------------------------------
(* seal *)

(* Bug: the state is advanced before the receipt is published. *)
StateBeforeReceipt ==
    /\ pc = "seal" /\ advisory = at /\ authority[at] \in {0, data[at]}
    /\ authority' = [authority EXCEPT ![at] = data[at]]
    /\ advisory' = at + 1
    /\ Goto("publish")
    /\ UNCHANGED <<root, observations, data, receipt, previous, litter, world, faults>>

(* The evidence of the phase is that of its data, which parse_phase_data reads. *)
WriteAuthority ==
    /\ pc = "seal"
    /\ IF advisory # at \/ authority[at] \notin {0, data[at]}
       THEN Goto("fail") /\ UNCHANGED authority
       ELSE Goto("publish") /\ authority' = [authority EXCEPT ![at] = data[at]]
    /\ UNCHANGED <<root, advisory, observations, data, receipt, previous, litter,
                   world, faults>>

(* seal_phase_receipt_from_fds: the actor is gone, the unit has not been
   started since it was observed, the evidence is the authorised one, and
   os.link refuses to replace a receipt. *)
Publishable ==
    /\ actor # at /\ observations[at] = executed[at]
    /\ data[at] # 0 /\ authority[at] = data[at] /\ receipt[at] = 0
    /\ at > 0 => receipt[at - 1] # 0

PublishReceipt ==
    /\ pc = "publish"
    /\ IF Publishable
       THEN /\ receipt' = [receipt EXCEPT ![at] = authority[at]]
            /\ previous' = [previous EXCEPT ![at] = IF at = 0 THEN 0 ELSE receipt[at - 1]]
            /\ Goto("advance")
       ELSE Goto("fail") /\ UNCHANGED <<receipt, previous>>
    /\ UNCHANGED <<root, advisory, observations, data, authority, litter, world, faults>>

AdvanceState ==
    /\ pc = "advance"
    /\ advisory' = at + 1
    /\ pc' = IF at = Cleanup THEN "verify" ELSE "phase"
    /\ at' = IF at = Cleanup THEN at ELSE at + 1
    /\ UNCHANGED <<root, phaseFiles, litter, world, mode, faults>>

-----------------------------------------------------------------------------
(* finalize_frontend_transaction *)

(* The check that ends orchestration is the one finalize begins with. *)
BeginFinalize ==
    /\ pc = "final"
    /\ IF Accepted /\ Received = Cleanup
       THEN Recovered /\ Goto("reap")
       ELSE Goto("fail") /\ UNCHANGED <<root, advisory>>
    /\ UNCHANGED <<phaseFiles, litter, world, faults>>

(* stop_and_reap: of finalize, of finish_transaction in dispatch, of the
   broker's recovery. *)
StopAndReap ==
    /\ pc = "reap"
    /\ actor' = None
    /\ Goto(IF mode = "serve" THEN "remove" ELSE "clean")
    /\ UNCHANGED <<journal, request, held, executed, status, faults>>

RemoveRequest ==
    /\ pc = "remove"
    /\ request' = "gone"
    /\ Goto("cleanup")
    /\ UNCHANGED <<journal, held, actor, executed, status, faults>>

ExecuteCleanup ==
    /\ pc = "cleanup"
    /\ executed' = [executed EXCEPT ![Cleanup] = @ + 1]
    /\ observations' = [observations EXCEPT ![Cleanup] = executed'[Cleanup]]
    /\ data' = [data EXCEPT ![Cleanup] = executed'[Cleanup]]
    /\ pc' = "seal" /\ at' = Cleanup
    /\ UNCHANGED <<root, advisory, authority, receipt, previous, litter,
                   request, held, actor, status, mode, faults>>

CleanupUnavailable ==
    /\ pc = "cleanup"
    /\ Goto("fail")
    /\ UNCHANGED <<journal, world, faults>>

VerifyComplete ==
    /\ pc = "verify"
    /\ Goto(IF Complete THEN "release" ELSE "fail")
    /\ UNCHANGED <<journal, world, faults>>

Release ==
    /\ pc = "release"
    /\ held' = FALSE
    /\ Goto(IF mode = "serve" THEN "succeed" ELSE "end")
    /\ UNCHANGED <<journal, request, actor, executed, status, faults>>

Succeed ==
    /\ pc = "succeed"
    /\ status' = "succeeded"
    /\ Goto("end")
    /\ UNCHANGED <<journal, request, held, actor, executed, faults>>

-----------------------------------------------------------------------------
(* cleanup_request, in finish_transaction *)

(* With the request gone, state.json must be there to name the journal. *)
Cleanable ==
    /\ request # "torn"
    /\ root # "none" => Accepted /\ (request = "gone" => root = "made")

(* Bug: a complete journal is discarded too. *)
DiscardAny(ordinal) == IF root # "none" THEN "discard" ELSE "release"

(* The journal outlives the request only when it is complete. *)
AfterRequest(ordinal) == IF root # "none" /\ ordinal < Count THEN "discard" ELSE "release"

CleanupRequest ==
    /\ pc = "clean" /\ Cleanable
    /\ IF root = "none" THEN UNCHANGED <<root, advisory>> ELSE Recovered
    /\ Goto(IF request = "whole" THEN "rmtree" ELSE AfterRequest(Received))
    /\ UNCHANGED <<phaseFiles, litter, world, faults>>

RemoveTree ==
    /\ pc = "rmtree"
    /\ request' = "gone"
    /\ Goto(AfterRequest(Received))
    /\ UNCHANGED <<journal, held, actor, executed, status, faults>>

Discard ==
    /\ pc = "discard"
    /\ root' = "none" /\ advisory' = 0 /\ litter' = {}
    /\ observations' = Absent /\ data' = Absent /\ authority' = Absent
    /\ receipt' = Absent /\ previous' = Absent
    /\ Goto("release")
    /\ UNCHANGED <<world, faults>>

(* finish_transaction raises.  dispatch ends, its lease still held, and the
   broker serves on; a broker that was recovering does not start. *)
GiveUp == Goto(IF mode = "recover" THEN "down" ELSE "killed")

CleanupRefused ==
    /\ pc = "clean" /\ ~Cleanable
    /\ GiveUp
    /\ UNCHANGED <<journal, world, faults>>

(* The exception handler of dispatch. *)
FailTransaction ==
    /\ pc = "fail"
    /\ status' = "failed"
    /\ pc' = "reap" /\ mode' = "abort"
    /\ UNCHANGED <<journal, request, held, actor, executed, at, faults>>

-----------------------------------------------------------------------------
(* Crashes, failing calls, and what follows them *)

(* A unit that does not stop, a wait that times out, a file that cannot be
   read, written or removed. *)
StepFails ==
    /\ Fault
    /\ \/ /\ \/ pc \in {"open", "state", "phase", "observe", "running", "seal",
                        "publish", "advance", "final", "remove", "verify"}
             \/ pc = "reap" /\ mode = "serve"
          /\ Goto("fail")
       \/ pc = "reap" /\ mode # "serve" /\ GiveUp
       \/ pc \in {"clean", "rmtree", "discard"} /\ GiveUp
       \/ pc = "release" /\ IF mode = "serve" THEN Goto("fail") ELSE GiveUp
    /\ UNCHANGED <<journal, world>>

(* The lease is free; the handler cleans a request that is already gone. *)
SuccessUnreported ==
    /\ Fault /\ pc = "succeed"
    /\ status' \in {"failed", status}
    /\ Goto("end")
    /\ UNCHANGED <<journal, request, held, actor, executed>>

(* A write is cut short.  _atomic_bytes leaves its temporary file behind
   whether it raises or dies; _publish_receipt only when it dies, before or
   just after its os.link.  The first two writes are those of state.json. *)
WriteBreaks ==
    /\ Fault
    /\ \/ pc = "state" /\ litter' = litter \cup {"root"}
       \/ pc \in {"open", "clean"} /\ root = "making" /\ Accepted
          /\ litter' = litter \cup {"root"}
       \/ pc = "seal" /\ advisory = at /\ authority[at] = 0
          /\ litter' = litter \cup {"authorities"}
       \/ /\ pc = "advance" \/ (pc = "publish" /\ Publishable)
          /\ litter' = litter \cup {"receipts"}
    /\ \/ Goto("down")
       \/ pc \in {"open", "state", "seal"} /\ Goto("fail")
       \/ pc = "clean" /\ GiveUp
    /\ UNCHANGED <<root, advisory, phaseFiles, world>>

(* An rmtree is cut short after it removed request.json, or state.json. *)
RemovalBreaks ==
    /\ Fault
    /\ \/ pc \in {"remove", "rmtree"} /\ request' = "torn" /\ UNCHANGED root
       \/ pc = "discard" /\ root' = "torn" /\ UNCHANGED request
    /\ Goto("down") \/ IF mode = "serve" THEN Goto("fail") ELSE GiveUp
    /\ UNCHANGED <<advisory, phaseFiles, litter, held, actor, executed, status>>

(* The coordinator dies and its broker does not. *)
CoordinatorDies ==
    /\ Fault /\ pc \notin {"killed", "down", "end"} /\ mode # "recover"
    /\ Goto("killed")
    /\ UNCHANGED <<journal, world>>

BrokerDies ==
    /\ Fault /\ pc \notin {"killed", "down", "end"}
    /\ Goto("down")
    /\ UNCHANGED <<journal, world>>

BrokerStops ==
    /\ pc = "killed"
    /\ Goto("down")
    /\ UNCHANGED <<journal, world, faults>>

(* "Resume and seal the eight operational phases". *)
ResumeTransaction ==
    /\ Resumes /\ pc = "killed" /\ mode = "serve" /\ held
    /\ Goto("open")
    /\ UNCHANGED <<journal, world, faults>>

(* The broker starts and finishes the transaction of every lease marker. *)
Recover ==
    /\ pc = "down"
    /\ pc' = IF held THEN "reap" ELSE "end"
    /\ mode' = "recover"
    /\ UNCHANGED <<journal, world, at, faults>>

Done == pc = "end" /\ UNCHANGED vars

Work ==
    \/ Initialize \/ InitializeState \/ OpenJournal \/ PhasesDone \/ ExecutePhase
    \/ ObservePhase \/ PhaseUnavailable \/ RecoverPendingPhase \/ PhaseReturns
    \/ WriteAuthority \/ PublishReceipt \/ AdvanceState
    \/ BeginFinalize \/ StopAndReap \/ RemoveRequest \/ ExecuteCleanup
    \/ CleanupUnavailable \/ VerifyComplete \/ Release \/ Succeed
    \/ CleanupRequest \/ RemoveTree \/ Discard \/ CleanupRefused \/ FailTransaction

Actor == ActorSucceeds \/ ActorFails

Faults == StepFails \/ SuccessUnreported \/ WriteBreaks \/ RemovalBreaks
          \/ CoordinatorDies \/ BrokerDies

Next == Work \/ Actor \/ Faults \/ BrokerStops \/ ResumeTransaction \/ Recover \/ Done

Spec == Init /\ [][Next]_vars

(* A process that can go on does; a unit ends; systemd starts a dead broker again. *)
LiveSpec == Spec /\ WF_vars(Work) /\ WF_vars(Actor) /\ WF_vars(Recover)

-----------------------------------------------------------------------------

TypeOK ==
    /\ root \in {"none", "making", "made", "torn"} /\ advisory \in 0 .. Count
    /\ observations \in [Phases -> Nat] /\ data \in [Phases -> Nat]
    /\ authority \in [Phases -> Nat] /\ receipt \in [Phases -> Nat]
    /\ previous \in [Phases -> Nat] /\ litter \subseteq {"root", "authorities", "receipts"}
    /\ request \in {"whole", "torn", "gone"} /\ held \in BOOLEAN
    /\ actor \in (0 .. Count - 2) \cup {None} /\ executed \in [Phases -> Nat]
    /\ status \in {None, "succeeded", "failed"}
    /\ pc \in {"open", "state", "phase", "observe", "running", "seal", "publish", "advance",
               "final", "reap", "remove", "cleanup", "verify", "release", "succeed", "clean",
               "rmtree", "discard", "fail", "killed", "down", "end"}
    /\ mode \in {"serve", "abort", "recover"} /\ at \in 0 .. Count
    /\ faults \in 0 .. MaxFaults

(* A write or a removal that was cut short is still on the disk. *)
Damaged ==
    \/ litter \cap {"authorities", "receipts"} # {}
    \/ root = "making" /\ litter # {}
    \/ root = "torn" \/ request = "torn"

(* Whatever the order of steps and crashes, recovery accepts the journal it
   finds, unless a write or an rmtree was cut short. *)
JournalAccepted == root # "none" /\ ~Damaged => Accepted

(* However often the transaction is resumed, a build, an upload or a deployment
   is not executed again once root has observed it, and a receipt seals the
   evidence of the last execution. *)
SealsLastExecution == \A p \in Phases :
    /\ p < Cleanup /\ observations[p] # 0 => observations[p] = executed[p]
    /\ receipt[p] # 0 => receipt[p] = executed[p]

(* The journal keeps the promise of ReceiptLog. *)
Log == IF root = "made" THEN [i \in 1 .. Received |-> receipt[i - 1]] ELSE <<>>

Promise == INSTANCE ReceiptLog WITH
    log <- Log, running <- actor, outcome <- status,
    dropped <- request # "whole" /\ root \in {"none", "torn"}

KeepsPromise == Promise!LogSpec

(* A broker that starts again frees the lease. *)
RecoveryFreesLease == pc = "down" ~> ~held \/ Damaged
=============================================================================
