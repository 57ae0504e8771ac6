---------------------------- MODULE DeployLease ----------------------------
(***************************************************************************)
(* The deployment transaction transport of infra/github-actions: the       *)
(* durable two-slot, writer-preferring lease of                            *)
(* bin/ken-actions-deploy-transaction (LeaseScheduler, finish_transaction, *)
(* dispatch, run_ordinary_slot, recover) and the serial brokers of         *)
(* bin/ken-op-broker that run it as a subprocess.                          *)
(*                                                                         *)
(* Marker files, request directories and systemd units outlive the process *)
(* that made them; only pc, lease and todo are lost when a broker dies.    *)
(* A section the code runs under scheduler.lock is one step.  A crash      *)
(* inside such a section leaves a prefix of its file writes                *)
(* (CrashInSection); Torn is a marker created but not yet written.         *)
(***************************************************************************)
EXTENDS Naturals, Sequences, FiniteSets, SequencesExt

CONSTANTS
    Brokers,        \* broker instances sharing /run/ken-actions-deploy
    Requests,       \* request ids; an id is reused once no trace of it is left
    Production,     \* the requests whose input_mode is production_build
    None,           \* no file, no unit, no request
    Torn,           \* a marker file that exists and is empty
    Starting,       \* a slot unit that has not read its slot marker yet
    MaxFaults,      \* bound on crashes, failing stops and failing cleanups
    TornWrites      \* may a crash hit inside a section under scheduler.lock?

ASSUME ConstantsAssumption ==
    /\ Production \subseteq Requests
    /\ None \notin Requests /\ Torn \notin Requests /\ Starting \notin Requests
    /\ None # Torn /\ None # Starting /\ Torn # Starting
    /\ None \notin {"commit", "abort", "recover", "succeeded", "failed"}
    /\ MaxFaults \in Nat
    /\ TornWrites \in BOOLEAN

VARIABLES
    slot,       \* slot-<n>.json: the request named by the marker
    writer,     \* writer-pending.json
    waiters,    \* ordinary-waiters/, in file name order
    requests,   \* request directories on disk
    unit,       \* ken-actions-deploy-transaction-<n>.service
    phase,      \* requests with a running frontend phase unit
    executed,   \* history: requests whose program ran to success
    status,     \* transport-status/<request>.json
    pc,         \* where each broker (or the subprocess it waits for) is
    mode,       \* on whose behalf finish_transaction runs
    lease,      \* the LeaseHandle a process works on
    todo,       \* handles the recovery loops still have to visit
    robbed,     \* history: some recovery took up the lease of a live coordinator
    orphans,    \* history: the dead whose files a recovery found when it began
    faults

files == <<slot, writer, waiters, requests>>
units == <<unit, phase, executed>>
procs == <<pc, mode, lease, todo>>
past  == <<robbed, orphans>>
vars  == <<files, units, status, procs, past, faults>>

Slots  == {1, 2}
Handle == [request : Requests \cup {None}, slots : SUBSET Slots]
Pending(r) == [request |-> r, slots |-> {}]
NoHandle   == Pending(None)

(* The handle _read_marker returns for the marker of slot s. *)
HandleAt(s) ==
    [request |-> slot[s], slots |-> IF slot[s] \in Production THEN Slots ELSE {s}]

FinishPcs   == {"reap", "clean", "release"}
DispatchPcs == {"enqueue", "acquire", "start", "wait", "announce", "exclusive",
                "phases", "succeed", "fail", "drop", "dropclean"}
RecoverPcs  == {"scan", "scan2", "leases", "writer", "wcancel", "waiters", "wnext", "wunlink"}

InDispatch(b) == pc[b] \in DispatchPcs
                 \/ (pc[b] \in FinishPcs /\ mode[b] \in {"commit", "abort"})
InRecovery(b) == pc[b] \in RecoverPcs \/ (pc[b] \in FinishPcs /\ mode[b] = "recover")

(* Bug: a stale process identity is taken for a dead coordinator. *)
AliveNever(r) == FALSE

(* _writer_alive: the coordinator that wrote a writer or waiter file still runs. *)
Alive(r) == \E b \in Brokers : InDispatch(b) /\ lease[b].request = r

-----------------------------------------------------------------------------

Init ==
    /\ slot = [s \in Slots |-> None] /\ writer = None /\ waiters = <<>>
    /\ requests = {}
    /\ unit = [s \in Slots |-> None] /\ phase = {} /\ executed = {}
    /\ status = [r \in Requests |-> None]
    /\ pc = [b \in Brokers |-> "down"]
    /\ mode = [b \in Brokers |-> None]
    /\ lease = [b \in Brokers |-> NoHandle]
    /\ todo = [b \in Brokers |-> {}]
    /\ robbed = FALSE /\ orphans = [b \in Brokers |-> {}]
    /\ faults = 0

Goto(b, p) == /\ pc' = [pc EXCEPT ![b] = p]
              /\ UNCHANGED <<mode, lease, todo>>

(* The subprocess ends and its broker continues at p, all local state gone. *)
Exit(b, p) == /\ pc' = [pc EXCEPT ![b] = p]
              /\ mode' = [mode EXCEPT ![b] = None]
              /\ lease' = [lease EXCEPT ![b] = NoHandle]
              /\ todo' = [todo EXCEPT ![b] = {}]

Fault == /\ faults < MaxFaults
         /\ faults' = faults + 1

Fresh(r) ==
    /\ r \notin requests /\ writer # r /\ r \notin ToSet(waiters) /\ r \notin phase
    /\ \A s \in Slots : slot[s] # r /\ unit[s] # r
    /\ \A b \in Brokers : /\ lease[b].request # r
                          /\ \A h \in todo[b] : h.request # r

(* An idle broker publishes a request under a fresh id and runs `dispatch`. *)
Publish(b, r) ==
    /\ pc[b] = "idle" /\ Fresh(r)
    /\ requests' = requests \cup {r}
    /\ status' = [status EXCEPT ![r] = None]
    /\ executed' = executed \ {r}
    /\ pc' = [pc EXCEPT ![b] = IF r \in Production THEN "announce" ELSE "enqueue"]
    /\ lease' = [lease EXCEPT ![b] = Pending(r)]
    /\ orphans' = [c \in Brokers |-> orphans[c] \ {r}]
    /\ UNCHANGED <<slot, writer, waiters, unit, phase, mode, todo, robbed, faults>>

-----------------------------------------------------------------------------
(* wait_for_ordinary *)

WaitersReadable == Torn \notin ToSet(waiters)

(* enqueue_ordinary; an unreadable waiter makes it raise. *)
Enqueue(b) ==
    /\ pc[b] = "enqueue"
    /\ IF WaitersReadable
       THEN waiters' = Append(waiters, lease[b].request) /\ Goto(b, "acquire")
       ELSE UNCHANGED waiters /\ Goto(b, "fail")
    /\ UNCHANGED <<slot, writer, requests, units, status, past, faults>>

FreeSlots == {s \in Slots : slot[s] = None}
LowestFree(s) == s \in FreeSlots /\ \A t \in FreeSlots : s <= t

(* Bug: the pending writer is not looked at. *)
CanAcquireDespiteWriter(b) ==
    /\ pc[b] = "acquire"
    /\ WaitersReadable /\ waiters # <<>> /\ Head(waiters) = lease[b].request
    /\ FreeSlots # {}

(* acquire_ordinary(from_queue=True) succeeds only here; every refusal with a
   retryable code sleeps 0.1 s and changes nothing. *)
CanAcquire(b) ==
    /\ pc[b] = "acquire" /\ writer = None
    /\ WaitersReadable /\ waiters # <<>> /\ Head(waiters) = lease[b].request
    /\ FreeSlots # {}

AcquireOrdinary(b) ==
    /\ CanAcquire(b)
    /\ \E s \in Slots :
        /\ LowestFree(s)
        /\ slot' = [slot EXCEPT ![s] = lease[b].request]
        /\ lease' = [lease EXCEPT ![b].slots = {s}]
    /\ waiters' = Tail(waiters)
    /\ pc' = [pc EXCEPT ![b] = "start"]
    /\ UNCHANGED <<writer, requests, units, status, past, mode, todo, faults>>

(* cancel_ordinary unlinks the waiter of r, if it has one. *)
Unqueue(r) ==
    \/ /\ r \notin ToSet(waiters)
       /\ UNCHANGED waiters
    \/ \E i \in DOMAIN waiters : waiters[i] = r /\ waiters' = RemoveAt(waiters, i)

(* A non-retryable refusal of acquire_ordinary: an unreadable waiter, or no
   waiter at all.  cancel_ordinary then raises as well, or finds nothing. *)
AcquireRaises(b) ==
    /\ pc[b] = "acquire" /\ writer = None
    /\ ~WaitersReadable \/ waiters = <<>>
    /\ Goto(b, "fail")
    /\ UNCHANGED <<files, units, status, past, faults>>

(* The 300 s deadline: cancel_ordinary, then the exception reaches dispatch. *)
OrdinaryTimeout(b) ==
    /\ pc[b] = "acquire" /\ ~CanAcquire(b)
    /\ IF WaitersReadable THEN Unqueue(lease[b].request) ELSE UNCHANGED waiters
    /\ Goto(b, "fail")
    /\ UNCHANGED <<slot, writer, requests, units, status, past, faults>>

-----------------------------------------------------------------------------
(* The slot units *)

SlotOf(b) == CHOOSE s \in lease[b].slots : TRUE

(* _start_fixed_unit: `systemctl start` blocks; on a unit that is already
   activating it joins the running job. *)
StartUnit(b) ==
    /\ pc[b] = "start"
    /\ LET s == SlotOf(b) IN
       unit' = [unit EXCEPT ![s] = IF @ = None THEN Starting ELSE @]
    /\ Goto(b, "wait")
    /\ UNCHANGED <<files, phase, executed, status, past, faults>>

WaitingOn(S) == {b \in Brokers : pc[b] = "wait" /\ lease[b].slots \subseteq S}

Wake(S, p) == pc' = [b \in Brokers |-> IF b \in WaitingOn(S) THEN p ELSE pc[b]]

(* _start_fixed_unit raises: a failed read-back of the unit, or the 3600 s limit
   of the systemctl call; the unit itself runs on. *)
StartRaises(b) ==
    /\ pc[b] \in {"start", "wait"}
    /\ Goto(b, "fail")
    /\ UNCHANGED <<files, units, status, past, faults>>

(* run_ordinary_slot reads its slot marker and loads the request it names. *)
UnitReads(s) ==
    /\ unit[s] = Starting
    /\ slot[s] \in requests \ Production
    /\ unit' = [unit EXCEPT ![s] = slot[s]]
    /\ UNCHANGED <<files, phase, executed, status, past, procs, faults>>

(* Bug: the oneshot unit is declared with Restart=always. *)
UnitRestarts(s) ==
    /\ unit[s] \in Requests
    /\ executed' = executed \cup {unit[s]}
    /\ unit' = [unit EXCEPT ![s] = Starting]
    /\ UNCHANGED <<files, phase, status, past, procs, faults>>

(* The unit exits 0: every coordinator blocked in `systemctl start` returns. *)
UnitSucceeds(s) ==
    /\ unit[s] \in Requests
    /\ executed' = executed \cup {unit[s]}
    /\ unit' = [unit EXCEPT ![s] = None]
    /\ pc' = [b \in Brokers |-> IF b \in WaitingOn({s}) THEN "reap" ELSE pc[b]]
    /\ mode' = [b \in Brokers |-> IF b \in WaitingOn({s}) THEN "commit" ELSE mode[b]]
    /\ UNCHANGED <<files, phase, status, past, lease, todo, faults>>

(* Bug: `systemctl start` is run with check=False. *)
UnitFailsUnseen(s) ==
    /\ unit[s] # None
    /\ unit' = [unit EXCEPT ![s] = None]
    /\ Wake({s}, "reap")
    /\ mode' = [b \in Brokers |-> IF b \in WaitingOn({s}) THEN "commit" ELSE mode[b]]
    /\ UNCHANGED <<files, phase, executed, status, past, lease, todo, faults>>

(* It exits 78 (no marker, unreadable marker, wrong mode) or its action fails. *)
UnitFails(s) ==
    /\ unit[s] # None
    /\ unit' = [unit EXCEPT ![s] = None]
    /\ Wake({s}, "fail")
    /\ UNCHANGED <<files, phase, executed, status, past, mode, lease, todo, faults>>

-----------------------------------------------------------------------------
(* wait_for_exclusive *)

(* announce_writer; it is called outside the try, so nothing is cancelled. *)
Announce(b) ==
    /\ pc[b] = "announce"
    /\ IF writer = None
       THEN writer' = lease[b].request /\ Goto(b, "exclusive")
       ELSE UNCHANGED writer /\ Goto(b, "fail")
    /\ UNCHANGED <<slot, waiters, requests, units, status, past, faults>>

(* Bug: the writer is let in as soon as one slot is free. *)
CanExcludeHalf(b) == pc[b] = "exclusive" /\ writer = lease[b].request /\ FreeSlots # {}

CanExclude(b) == pc[b] = "exclusive" /\ writer = lease[b].request /\ FreeSlots = Slots

AcquireExclusive(b) ==
    /\ CanExclude(b)
    /\ slot' = [s \in Slots |-> lease[b].request]
    /\ writer' = None
    /\ lease' = [lease EXCEPT ![b].slots = Slots]
    /\ pc' = [pc EXCEPT ![b] = "phases"]
    /\ UNCHANGED <<waiters, requests, units, status, past, mode, todo, faults>>

(* The deadline (cancel_writer unlinks our file), or a writer file that is not
   ours: lease_writer_not_announced, lease_writer_queued, unreadable. *)
ExclusiveGivesUp(b) ==
    /\ pc[b] = "exclusive" /\ ~CanExclude(b)
    /\ writer' = IF writer = lease[b].request THEN None ELSE writer
    /\ Goto(b, "fail")
    /\ UNCHANGED <<slot, waiters, requests, units, status, past, faults>>

(* runtime.execute_phase starts a phase unit and waits for it. *)
PhaseStarts(b) ==
    /\ pc[b] = "phases"
    /\ lease[b].request \notin phase
    /\ phase' = phase \cup {lease[b].request}
    /\ UNCHANGED <<files, unit, executed, status, past, procs, faults>>

PhaseEnds(r) ==
    /\ r \in phase
    /\ phase' = phase \ {r}
    /\ UNCHANGED <<files, unit, executed, status, past, procs, faults>>

(* orchestrate_frontend_receipts returns: every operational phase is sealed. *)
PhasesSealed(b) ==
    /\ pc[b] = "phases" /\ lease[b].request \notin phase
    /\ executed' = executed \cup {lease[b].request}
    /\ pc' = [pc EXCEPT ![b] = "reap"]
    /\ mode' = [mode EXCEPT ![b] = "commit"]
    /\ UNCHANGED <<files, unit, phase, status, past, lease, todo, faults>>

(* It raises, as the deployed LiveFrontendProductionRuntime always does; a
   phase unit may be running. *)
PhasesRaise(b) ==
    /\ pc[b] = "phases"
    /\ Goto(b, "fail")
    /\ UNCHANGED <<files, units, status, past, faults>>

-----------------------------------------------------------------------------
(* finish_transaction / finalize_frontend_transaction, and their callers *)

(* stop_and_reap: the slot units of the handle and the phase units of its
   request are stopped; a coordinator waiting for one of them sees a failure. *)
Reap(b) ==
    /\ pc[b] = "reap"
    /\ unit' = [s \in Slots |-> IF s \in lease[b].slots THEN None ELSE unit[s]]
    /\ phase' = phase \ {lease[b].request}
    /\ pc' = [c \in Brokers |->
                IF c = b THEN "clean"
                ELSE IF c \in WaitingOn(lease[b].slots) THEN "fail" ELSE pc[c]]
    /\ UNCHANGED <<files, executed, status, past, mode, lease, todo, faults>>

(* cleanup_request (remove_request for a production commit). *)
Clean(b) ==
    /\ pc[b] = "clean"
    /\ requests' = requests \ {lease[b].request}
    /\ Goto(b, "release")
    /\ UNCHANGED <<slot, writer, waiters, units, status, past, faults>>

(* finish_transaction raised: recovery ends the broker process, a failed commit
   enters dispatch's except branch, a failed abort is swallowed. *)
FinishRaises(b) ==
    \/ mode[b] = "recover" /\ Exit(b, "down")
    \/ mode[b] = "commit" /\ Goto(b, "fail")
    \/ mode[b] = "abort" /\ Exit(b, "idle")

FinishReturns(b) ==
    \/ mode[b] = "recover" /\ Goto(b, "leases")
    \/ mode[b] = "commit" /\ Goto(b, "succeed")
    \/ mode[b] = "abort" /\ Exit(b, "idle")

(* A unit does not stop, or the directory cannot be removed (perhaps it was
   removed and a later check of the cleanup failed). *)
ReapOrCleanFails(b) ==
    /\ pc[b] \in {"reap", "clean"}
    /\ Fault /\ FinishRaises(b)
    /\ requests' \in IF pc[b] = "clean" THEN {requests, requests \ {lease[b].request}}
                                        ELSE {requests}
    /\ UNCHANGED <<slot, writer, waiters, units, status, past>>

OwnsMarkers(b) == \A s \in lease[b].slots : HandleAt(s) = lease[b]

(* release: compare every marker, unlink them, then drop a left-over writer
   file of the same production request; an unreadable writer file raises. *)
Release(b) ==
    /\ pc[b] = "release"
    /\ LET production == lease[b].request \in Production IN
       IF OwnsMarkers(b)
       THEN /\ slot' = [s \in Slots |-> IF s \in lease[b].slots THEN None ELSE slot[s]]
            /\ writer' = IF production /\ writer = lease[b].request THEN None ELSE writer
            /\ IF production /\ writer = Torn THEN FinishRaises(b) ELSE FinishReturns(b)
       ELSE UNCHANGED <<slot, writer>> /\ FinishRaises(b)
    /\ UNCHANGED <<waiters, requests, units, status, past, faults>>

(* _status_write("succeeded"); the coordinator exits 0, its broker goes on. *)
Succeed(b) ==
    /\ pc[b] = "succeed"
    /\ status' = [status EXCEPT ![lease[b].request] = "succeeded"]
    /\ Exit(b, "idle")
    /\ UNCHANGED <<files, units, past, faults>>

(* dispatch's except branch: status, then finish the lease or drop the waiter. *)
Fail(b) ==
    /\ pc[b] = "fail"
    /\ status' = [status EXCEPT ![lease[b].request] = "failed"]
    /\ IF lease[b].slots = {}
       THEN Goto(b, "drop")
       ELSE /\ pc' = [pc EXCEPT ![b] = "reap"]
            /\ mode' = [mode EXCEPT ![b] = "abort"]
            /\ UNCHANGED <<lease, todo>>
    /\ UNCHANGED <<files, units, past, faults>>

(* cancel_ordinary, for production requests too: an unreadable waiter raises
   past the cleanup of the request directory. *)
DropWaiter(b) ==
    /\ pc[b] = "drop"
    /\ IF WaitersReadable
       THEN Unqueue(lease[b].request) /\ Goto(b, "dropclean")
       ELSE UNCHANGED waiters /\ Exit(b, "idle")
    /\ UNCHANGED <<slot, writer, requests, units, status, past, faults>>

(* cleanup_request, whose result is ignored. *)
DropClean(b) ==
    /\ pc[b] = "dropclean"
    /\ \/ requests' = requests \ {lease[b].request} /\ UNCHANGED faults
       \/ UNCHANGED requests /\ Fault
    /\ Exit(b, "idle")
    /\ UNCHANGED <<slot, writer, waiters, units, status, past>>

-----------------------------------------------------------------------------
(* LeaseScheduler.recover, run by a broker before it serves *)

(* A marker, writer or waiter file names r. *)
OnDisk(r) == writer = r \/ r \in ToSet(waiters) \/ \E s \in Slots : slot[s] = r

Restart(b) ==
    /\ pc[b] = "down"
    /\ Goto(b, "scan")
    /\ orphans' = [orphans EXCEPT ![b] = {r \in Requests : OnDisk(r) /\ ~Alive(r)}]
    /\ UNCHANGED <<files, units, status, robbed, faults>>

(* Bug: the scan ends with the first slot. *)
ScanFirstSlot(b) ==
    /\ pc[b] = "scan"
    /\ IF slot[1] = Torn
       THEN Exit(b, "down")
       ELSE /\ todo' = [todo EXCEPT ![b] = {HandleAt(s) : s \in {1} \ FreeSlots}]
            /\ pc' = [pc EXCEPT ![b] = "leases"]
            /\ UNCHANGED <<mode, lease>>
    /\ UNCHANGED <<files, units, status, past, faults>>

(* Bug: a lease on disk ends the broker. *)
ScanRefusesLeases(b) ==
    /\ pc[b] = "scan"
    /\ IF FreeSlots # Slots THEN Exit(b, "down") ELSE Goto(b, "leases")
    /\ UNCHANGED <<files, units, status, past, faults>>

(* Another process is in the section that writes or unlinks the marker of slot s. *)
Written(b, s) ==
    \E c \in Brokers \ {b} : \/ CanAcquire(c) /\ LowestFree(s)
                             \/ CanExclude(c)
                             \/ pc[c] = "release" /\ s \in lease[c].slots

(* active_leases reads one marker after the other and takes no lock: a torn marker,
   or one that is being written or unlinked, raises and ends the broker. *)
ScanLeases(b) ==
    /\ \E s \in Slots :
        /\ pc[b] = IF s = 1 THEN "scan" ELSE "scan2"
        /\ \/ /\ slot[s] = Torn \/ Written(b, s)
              /\ Exit(b, "down")
           \/ /\ slot[s] # Torn
              /\ todo' = [todo EXCEPT ![b] = (IF s = 1 THEN {} ELSE @) \cup
                                               {HandleAt(t) : t \in {s} \ FreeSlots}]
              /\ pc' = [pc EXCEPT ![b] = IF s = 1 THEN "scan2" ELSE "leases"]
              /\ UNCHANGED <<mode, lease>>
    /\ UNCHANGED <<files, units, status, past, faults>>

(* Bug: recovery cleans and releases a lease without stopping its unit. *)
NextLeaseUnreaped(b) ==
    /\ pc[b] = "leases"
    /\ \/ todo[b] = {} /\ Exit(b, "writer")
       \/ \E h \in todo[b] :
            /\ todo' = [todo EXCEPT ![b] = @ \ {h}]
            /\ lease' = [lease EXCEPT ![b] = h]
            /\ mode' = [mode EXCEPT ![b] = "recover"]
            /\ pc' = [pc EXCEPT ![b] = "clean"]
    /\ UNCHANGED <<files, units, status, past, faults>>

NextLease(b) ==
    /\ pc[b] = "leases"
    /\ \/ /\ todo[b] = {}
          /\ Exit(b, "writer")
          /\ UNCHANGED robbed
       \/ \E h \in todo[b] :
            /\ todo' = [todo EXCEPT ![b] = @ \ {h}]
            /\ lease' = [lease EXCEPT ![b] = h]
            /\ mode' = [mode EXCEPT ![b] = "recover"]
            /\ pc' = [pc EXCEPT ![b] = "reap"]
            /\ robbed' = (robbed \/ Alive(h.request))
    /\ UNCHANGED <<files, units, status, orphans, faults>>

(* Another process is in a section that writes or unlinks the writer file. *)
WriterWritten(b) ==
    \E c \in Brokers \ {b} : \/ pc[c] \in {"announce", "exclusive", "wcancel"}
                             \/ pc[c] = "release" /\ lease[c].request \in Production

(* The writer file, read without the lock: skip a live writer, clean the request of a dead one. *)
CheckWriter(b) ==
    /\ pc[b] = "writer"
    /\ \/ /\ writer = None \/ (writer \in Requests /\ Alive(writer))
          /\ Goto(b, "waiters")
          /\ UNCHANGED <<requests, faults>>
       \/ /\ writer = Torn \/ WriterWritten(b)
          /\ Exit(b, "down")
          /\ UNCHANGED <<requests, faults>>
       \/ /\ writer \in Requests /\ ~Alive(writer)
          /\ requests' = requests \ {writer}
          /\ pc' = [pc EXCEPT ![b] = "wcancel"]
          /\ lease' = [lease EXCEPT ![b] = Pending(writer)]
          /\ UNCHANGED <<mode, todo, faults>>
       \/ /\ writer \in Requests /\ ~Alive(writer)
          /\ Fault /\ Exit(b, "down")
          /\ UNCHANGED requests
    /\ UNCHANGED <<slot, writer, waiters, units, status, past>>

(* cancel_writer of that request; the file may have changed in between. *)
CancelWriter(b) ==
    /\ pc[b] = "wcancel"
    /\ IF writer \in {None, lease[b].request}
       THEN writer' = None /\ Exit(b, "waiters")
       ELSE UNCHANGED writer /\ Exit(b, "down")
    /\ UNCHANGED <<slot, waiters, requests, units, status, past, faults>>

ScanWaiters(b) ==
    /\ pc[b] = "waiters"
    /\ IF WaitersReadable
       THEN /\ todo' = [todo EXCEPT ![b] = {Pending(r) : r \in ToSet(waiters)}]
            /\ pc' = [pc EXCEPT ![b] = "wnext"]
            /\ UNCHANGED <<mode, lease>>
       ELSE Exit(b, "down")
    /\ UNCHANGED <<files, units, status, past, faults>>

(* A waiter whose coordinator lives is skipped; the request of a dead one is
   cleaned; after the last one the broker starts to serve. *)
NextWaiter(b) ==
    /\ pc[b] = "wnext"
    /\ \/ /\ todo[b] = {}
          /\ Exit(b, "idle")
          /\ UNCHANGED <<requests, faults>>
       \/ \E h \in todo[b] :
            \/ /\ Alive(h.request)
               /\ todo' = [todo EXCEPT ![b] = @ \ {h}]
               /\ UNCHANGED <<pc, mode, lease, requests, faults>>
            \/ /\ ~Alive(h.request)
               /\ requests' = requests \ {h.request}
               /\ todo' = [todo EXCEPT ![b] = @ \ {h}]
               /\ lease' = [lease EXCEPT ![b] = h]
               /\ pc' = [pc EXCEPT ![b] = "wunlink"]
               /\ UNCHANGED <<mode, faults>>
            \/ /\ ~Alive(h.request)
               /\ Fault /\ Exit(b, "down")
               /\ UNCHANGED requests
    /\ UNCHANGED <<slot, writer, waiters, units, status, past>>

UnlinkWaiter(b) ==
    /\ pc[b] = "wunlink"
    /\ Unqueue(lease[b].request)
    /\ pc' = [pc EXCEPT ![b] = "wnext"]
    /\ lease' = [lease EXCEPT ![b] = NoHandle]
    /\ UNCHANGED <<slot, writer, requests, units, status, past, mode, todo, faults>>

-----------------------------------------------------------------------------
(* Crashes *)

(* The broker is killed (KillMode=mixed kills its subprocess with it), or the
   coordinator alone is: the broker then rejects the request and serves on. *)
Crash(b) ==
    /\ pc[b] # "down" /\ Fault
    /\ \E p \in {"down"} \cup {q \in {"idle"} : InDispatch(b)} : Exit(b, p)
    /\ UNCHANGED <<files, units, status, past>>

(* What a section under scheduler.lock leaves when it is killed half-way. *)
HalfEnqueue(b) ==
    /\ pc[b] = "enqueue" /\ WaitersReadable
    /\ waiters' = Append(waiters, Torn)
    /\ UNCHANGED <<slot, writer>>

HalfAcquire(b) ==
    /\ CanAcquire(b)
    /\ \E s \in Slots, m \in {Torn, lease[b].request} :
         LowestFree(s) /\ slot' = [slot EXCEPT ![s] = m]
    /\ UNCHANGED <<writer, waiters>>

HalfAnnounce(b) ==
    /\ pc[b] = "announce" /\ writer = None
    /\ writer' = Torn
    /\ UNCHANGED <<slot, waiters>>

HalfExclude(b) ==
    /\ CanExclude(b)
    /\ \E m \in {Torn, lease[b].request}, n \in {None, Torn, lease[b].request} :
         /\ m = Torn => n = None
         /\ slot' = [slot EXCEPT ![1] = m, ![2] = n]
    /\ UNCHANGED <<writer, waiters>>

HalfRelease(b) ==
    /\ pc[b] = "release" /\ lease[b].slots = Slots /\ OwnsMarkers(b)
    /\ \E n \in {None, slot[2]} : slot' = [slot EXCEPT ![1] = None, ![2] = n]
    /\ UNCHANGED <<writer, waiters>>

HalfDone(b) == \/ HalfEnqueue(b) \/ HalfAcquire(b) \/ HalfAnnounce(b)
               \/ HalfExclude(b) \/ HalfRelease(b)

CrashInSection(b) ==
    /\ TornWrites /\ Fault
    /\ HalfDone(b)
    /\ Exit(b, "down")
    /\ UNCHANGED <<requests, units, status, past>>

-----------------------------------------------------------------------------

Ordinary(b)   == Enqueue(b) \/ AcquireOrdinary(b) \/ AcquireRaises(b) \/ StartUnit(b)
Exclusive(b)  == \/ Announce(b) \/ AcquireExclusive(b)
                 \/ PhaseStarts(b) \/ PhasesSealed(b) \/ PhasesRaise(b)
Finish(b)     == \/ Reap(b) \/ Clean(b) \/ Release(b) \/ Succeed(b) \/ Fail(b)
                 \/ DropWaiter(b) \/ DropClean(b)
Recover(b)    == \/ Restart(b) \/ ScanLeases(b) \/ NextLease(b) \/ CheckWriter(b)
                 \/ CancelWriter(b) \/ ScanWaiters(b) \/ NextWaiter(b) \/ UnlinkWaiter(b)
GiveUp(b)     == OrdinaryTimeout(b) \/ ExclusiveGivesUp(b) \/ StartRaises(b)
Failing(b)    == ReapOrCleanFails(b) \/ Crash(b) \/ CrashInSection(b)
UnitStep      == \/ \E s \in Slots : UnitReads(s) \/ UnitSucceeds(s) \/ UnitFails(s)
                 \/ \E r \in Requests : PhaseEnds(r)

Next ==
    \/ \E b \in Brokers :
        \/ \E r \in Requests : Publish(b, r)
        \/ Ordinary(b) \/ Exclusive(b) \/ Finish(b) \/ Recover(b) \/ GiveUp(b)
        \/ Failing(b)
    \/ UnitStep

(* A running process takes its next step, systemd restarts a broker, and a unit
   ends (TimeoutStartSec=3600 bounds it).  Deadlines, new requests, crashes and
   the choice to start yet another phase unit are not fair. *)
Fairness ==
    /\ \A b \in Brokers :
        /\ WF_vars(Enqueue(b) \/ AcquireOrdinary(b) \/ AcquireRaises(b) \/ StartUnit(b))
        /\ WF_vars(Announce(b) \/ AcquireExclusive(b))
        /\ WF_vars(PhasesSealed(b) \/ PhasesRaise(b))
        /\ WF_vars(Finish(b)) /\ WF_vars(Recover(b))
    /\ \A s \in Slots : WF_vars(UnitReads(s) \/ UnitSucceeds(s) \/ UnitFails(s))
    /\ \A r \in Requests : WF_vars(PhaseEnds(r))

Spec     == Init /\ [][Next]_vars
LiveSpec == Spec /\ Fairness

-----------------------------------------------------------------------------
(* Properties *)

(* Type invariant. *)
FilesOK ==
    /\ slot \in [Slots -> Requests \cup {None, Torn}]
    /\ writer \in Requests \cup {None, Torn}
    /\ waiters \in Seq(Requests \cup {Torn})
    /\ requests \subseteq Requests

UnitsOK ==
    /\ unit \in [Slots -> Requests \cup {None, Starting}]
    /\ phase \subseteq Requests /\ executed \subseteq Requests
    /\ status \in [Requests -> {None, "succeeded", "failed"}]

ProcsOK ==
    /\ pc \in [Brokers -> {"down", "idle"} \cup DispatchPcs \cup FinishPcs \cup RecoverPcs]
    /\ mode \in [Brokers -> {None, "commit", "abort", "recover"}]
    /\ lease \in [Brokers -> Handle]
    /\ todo \in [Brokers -> SUBSET Handle]

PastOK == robbed \in BOOLEAN /\ orphans \in [Brokers -> SUBSET Requests]

TypeOK == FilesOK /\ UnitsOK /\ ProcsOK /\ PastOK /\ faults \in 0..MaxFaults

(* recover() of one broker takes up the lease of every marker, a live coordinator's
   too, if another broker is dispatching (DeployLeaseOverlap shows what follows).
   Until that has happened, robbed, the lease protects what runs: through crashes,
   failed stops, and recoveries beside dispatches and beside one another. *)

(* Nothing runs without its lease, whoever died in between: the request a slot
   unit executes is the one its marker names, and a frontend phase unit runs
   only while its request is named by both markers. *)
RunningUnderLease == ~robbed =>
    /\ \A s \in Slots : unit[s] \in Requests => slot[s] = unit[s]
    /\ \A r \in phase, s \in Slots : slot[s] = r

(* The production build holds both slots: while one of its phases runs no
   ordinary program runs, and no other production request has a phase. *)
ProductionExclusive == ~robbed =>
    (phase # {} => Cardinality(phase) = 1 /\ \A s \in Slots : unit[s] \notin Requests)

(* Nothing is left of the request of a marker that is unlinked: no unit in its slot,
   no phase unit, no request directory. *)
NothingLeft(s) ==
    slot[s] \in Requests /\ slot'[s] # slot[s] =>
        unit'[s] = None /\ slot[s] \notin phase' /\ slot[s] \notin requests'

(* The docstrings of LeaseScheduler and finish_transaction: a lease is released only
   after its processes and request bytes are gone. *)
ReleaseAfterCleanup == [][\A s \in Slots : NothingLeft(s)]_vars

(* The same, until a live coordinator is robbed: an old list of leases, or two
   recoveries of one lease, never release what is in use. *)
CleanUntilRobbed == [][robbed' \/ \A s \in Slots : NothingLeft(s)]_vars

(* A request is reported succeeded only if its own program ran to success;
   `systemctl start` joining a foreign job must never count as a success. *)
SuccessMeansExecuted ==
    ~robbed => \A r \in Requests : status[r] = "succeeded" => r \in executed

(* The program of a request is never started again after it succeeded. *)
NoSecondExecution ==
    [][robbed' \/ \A r \in Requests, s \in Slots :
          unit[s] # r /\ unit'[s] = r => r \notin executed]_vars

(* A coordinator that waits is still queued on disk: recovery by another broker
   removes only the waiter and writer files of dead processes. *)
LiveWaitersKept ==
    \A b \in Brokers :
        /\ pc[b] = "acquire" => lease[b].request \in ToSet(waiters)
        /\ pc[b] = "exclusive" => writer = lease[b].request

(* When recovery lets a broker serve, no marker, writer or waiter file is left of a
   coordinator that was dead when it began, whatever other brokers did meanwhile. *)
ServesRecovered ==
    [][\A b \in Brokers : InRecovery(b) /\ pc'[b] = "idle" =>
          \A r \in orphans[b] : ~OnDisk(r)']_vars

Programs == {r \in Requests : r \in phase \/ \E s \in Slots : unit[s] = r}

Promise == INSTANCE DeploySlots
               WITH held <- slot, running <- Programs, done <- executed, answer <- status

(* The transport implements DeploySlots until a live coordinator is robbed: only free
   slots are leased, no slot is freed under a running program, a program runs under its
   lease and once to success, and no answer claims more. *)
LeasesAsPromised ==
    Promise!Init /\ [][Promise!Next \/ robbed']_<<slot, Programs, executed, status>>

(* Every restart ends in a serving broker: recovery is not wedged by what a
   crash left behind. *)
BrokerReturns == \A b \in Brokers : pc[b] = "down" ~> pc[b] = "idle"

(* Writer preference: ordinary requests cannot starve an announced writer, even
   when no deadline ever ends its wait. *)
WriterServed == \A r \in Production : writer = r ~> writer # r

-----------------------------------------------------------------------------
(* The inductive strengthening of the safety invariants. *)

Holding(b) == InDispatch(b) /\ lease[b].slots # {} /\ pc[b] # "succeed"

JobsAreTyped == \A b \in Brokers : InDispatch(b) => lease[b].request \in Requests

JobsAreUnique ==
    \A b, c \in Brokers :
        InDispatch(b) /\ InDispatch(c) /\ b # c => lease[b].request # lease[c].request

(* A handle has the shape acquire_ordinary or acquire_exclusive gave it. *)
ShapeOK ==
    \A b \in Brokers : InDispatch(b) =>
        /\ pc[b] \in {"enqueue", "acquire", "start", "wait"} => lease[b].request \notin Production
        /\ pc[b] \in {"announce", "exclusive", "phases"} => lease[b].request \in Production
        /\ pc[b] \in {"start", "wait"} => \E s \in Slots : lease[b].slots = {s}
        /\ pc[b] = "phases" => lease[b].slots = Slots
        /\ pc[b] \in {"enqueue", "acquire", "announce", "exclusive", "drop", "dropclean"} =>
             lease[b].slots = {}

(* A held lease is on disk, except after a release that unlinked the markers and
   then met an unreadable writer file, which keeps everybody else out. *)
LeaseOnDisk ==
    \A b \in Brokers : Holding(b) =>
        \/ \A s \in lease[b].slots : slot[s] = lease[b].request
        \/ /\ pc[b] \notin {"start", "wait", "phases"}
           /\ writer = Torn /\ \A s \in Slots : slot[s] = None

UnitsMarked ==
    /\ \A s \in Slots : unit[s] # None =>
        slot[s] \in Requests \ Production /\ unit[s] \in {Starting, slot[s]}
    /\ \A r \in phase, s \in Slots : slot[s] = r /\ r \in Production

(* The slots of an old handle may be another request's by now. *)
Reaped ==
    \A b \in Brokers : pc[b] \in {"clean", "release"} =>
        /\ lease[b].request \notin phase
        /\ \A s \in lease[b].slots : slot[s] = lease[b].request => unit[s] = None

CommitsExecuted ==
    /\ \A b \in Brokers : mode[b] = "commit" /\ InDispatch(b) => lease[b].request \in executed
    /\ \A r \in Requests : status[r] = "succeeded" => r \in executed

(* A recovery finishes leases of the dead, who do not come back. *)
RobsTheDead ==
    \A b \in Brokers : InRecovery(b) /\ pc[b] \in FinishPcs => ~Alive(lease[b].request)

ModesFit ==
    \A b \in Brokers :
        /\ pc[b] \in {"down", "idle"} => mode[b] = None
        /\ pc[b] \in FinishPcs => mode[b] # None
        /\ pc[b] = "succeed" => mode[b] = "commit"
        /\ InDispatch(b) => mode[b] # "recover"
        /\ pc[b] \in RecoverPcs => mode[b] \in {None, "recover"}

Protected == LeaseOnDisk /\ UnitsMarked /\ Reaped /\ CommitsExecuted /\ RobsTheDead

IInv == /\ TypeOK /\ JobsAreTyped /\ JobsAreUnique /\ ModesFit /\ ShapeOK
        /\ ~robbed => Protected

(* Before a release the directory of the request is gone (CleanUntilRobbed). *)
Cleaned == \A b \in Brokers : pc[b] = "release" => lease[b].request \notin requests

(* Until a robbery no program is about to run that has run (NoSecondExecution): an
   ordinary request has one marker, its unit starts once, and it has not run before. *)
NotYetRun ==
    /\ \A b \in Brokers :
        /\ pc[b] \in {"enqueue", "acquire", "start", "announce", "exclusive", "phases"} =>
             lease[b].request \notin executed
        /\ pc[b] = "start" => \A s \in lease[b].slots : unit[s] = None
    /\ \A s \in Slots : unit[s] # None => slot[s] \notin executed
    /\ \A s, t \in Slots : slot[s] = slot[t] /\ slot[s] \in Requests \ Production => s = t

(* A coordinator without a lease has no marker, and no recovery has a handle of its
   request; a recovery removes the waiter or writer file of a dead one. *)
Unleased ==
    \A b \in Brokers : pc[b] \in {"enqueue", "acquire", "announce", "exclusive"} =>
        /\ \A s \in Slots : slot[s] # lease[b].request
        /\ \A c \in Brokers : \A h \in todo[c] \cup {lease[c]} :
              h.slots # {} => h.request # lease[b].request

RecoversLeases ==
    \A b \in Brokers : InRecovery(b) =>
        /\ pc[b] \in {"scan2", "leases"} \cup FinishPcs => \A h \in todo[b] : h.slots # {}
        /\ pc[b] \in FinishPcs => lease[b].slots # {}

CancelsTheDead ==
    \A b \in Brokers : pc[b] \in {"wcancel", "wunlink"} => ~Alive(lease[b].request)

(* A request waits at most once. *)
QueuedOnce ==
    /\ \A i, j \in DOMAIN waiters : waiters[i] = waiters[j] /\ waiters[i] # Torn => i = j
    /\ \A b \in Brokers : pc[b] = "enqueue" => lease[b].request \notin ToSet(waiters)

(* What a recovery still has to visit, and what of the orphans it found when it began
   is left (ServesRecovered); they are dead, so they write no file. *)
LeasesAhead(b) ==
    todo[b] \cup (IF pc[b] \in FinishPcs THEN {lease[b]} ELSE {})

WaitersAhead(b) ==
    {h.request : h \in todo[b]} \cup (IF pc[b] = "wunlink" THEN {lease[b].request} ELSE {})

SlotsRead(b) == IF pc[b] = "scan2" THEN {1} ELSE Slots

RecoveryAdvances ==
    \A b \in Brokers : InRecovery(b) =>
        /\ \A r \in orphans[b] : ~Alive(r)
        /\ pc[b] \in {"scan2", "leases"} \cup FinishPcs =>
              \A s \in SlotsRead(b) : slot[s] \in orphans[b] => HandleAt(s) \in LeasesAhead(b)
        /\ pc[b] \in {"writer", "wcancel", "waiters", "wnext", "wunlink"} =>
              \A s \in Slots : slot[s] \notin orphans[b]
        /\ pc[b] \in {"waiters", "wnext", "wunlink"} => writer \notin orphans[b]
        /\ pc[b] \in {"wnext", "wunlink"} =>
              ToSet(waiters) \cap orphans[b] \subseteq WaitersAhead(b)

(* A recovery never goes back: it reaches a later part, visits one more of what it
   read at its beginning, or is further with what it visits. *)
RecoveryPart(p) ==
    CASE p = "scan" -> 0
      [] p = "scan2" -> 1
      [] p \in {"leases"} \cup FinishPcs -> 2
      [] p = "writer" -> 3
      [] p = "wcancel" -> 4
      [] p = "waiters" -> 5
      [] p \in {"wnext", "wunlink"} -> 6

StepsToNext(p) ==
    CASE p = "reap" -> 3 [] p = "clean" -> 2 [] p \in {"release", "wunlink"} -> 1 [] OTHER -> 0

RecoveryMovesOn ==
    [][\A b \in Brokers : InRecovery(b) /\ InRecovery(b)' =>
          \/ pc'[b] = pc[b] /\ todo'[b] = todo[b]
          \/ RecoveryPart(pc'[b]) > RecoveryPart(pc[b])
          \/ /\ RecoveryPart(pc'[b]) = RecoveryPart(pc[b])
             /\ todo'[b] \subseteq todo[b]
             /\ todo'[b] # todo[b] \/ StepsToNext(pc'[b]) < StepsToNext(pc[b])]_vars
=============================================================================
