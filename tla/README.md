# Ken-SRE in TLA+

Models, model-checking runs and machine-checked proofs for the parts of this
repository whose correctness depends on order: concurrent coroutines, crashes and
restarts, timeouts, several processes on shared files, answers and events that come late. The references are the
sources under `src/`; every definition that models code names its lines in
`PROJECT.json` ("map"). Contents:

1. the system and its components
2. the deployment transport: `DeployLease`, `DeploySlots`
3. the receipt journal of a production deployment: `FrontendReceipts`
4. the asynchronous task manager: `AsyncTask`
5. the cron service: `Cron`, `CronLaunches`
6. questions to the user: `InteractionLink`, `InteractionDialog`, `Question`
7. the components a chat turn shows: `VisGraph`, `VisIndex`, `VisWalk`, `VisMerge`
8. runs and bounds
9. proofs
10. observations: what the runs leave out
11. what is not modelled, and the plan

To check a run: `tlc -config Cron.cfg MCCron`. To check proofs:
`tlapm CronProofs.tla`.

## 1. The system

Ken-SRE is an agent framework for site reliability work with a server around it
(`src/packages`), a web client (`src/web`), and the infrastructure that deploys it
(`src/infra`).

| component | where | state | operations | hard because |
|---|---|---|---|---|
| deployment transport | `infra/github-actions/bin/ken-actions-deploy-transaction` | marker files of two slots, a writer file, waiter files, request directories, systemd units | dispatch, wait for a lease, run, reap, clean, release, recover | processes die between any two file writes; two brokers share the directory |
| journal of frontend receipts | the same file, `bin/ken-frontend-production-release` | nine phases' observations, data, authorities and receipts, and `state.json` | execute, seal, recover, finalize, clean up | a crash between any two files; actors outlive the coordinator |
| operations broker | `infra/github-actions/bin/ken-op-broker` | published requests, replay store, its subprocess | publish, dispatch, recover before serving | it restarts under running units |
| asynchronous task manager | `derisk-core .../agent/core_v2/async_task_manager.py` | task states, futures, one completion event, a semaphore | spawn, cancel, wait_any, wait_all, collect | cancellation and timeouts race completion; dependencies; one event for all waiters |
| cron service | `derisk-serve .../cron` | job table, APScheduler's jobs, one lock per job, executions | add, update, remove, run, recover | scheduled and manual runs, edits and restarts meet; the database outlives the memory |
| interaction client and gateway | `web/src/services/interactionService.ts`, `web/src/components/interaction`, `core/interaction/gateway.py` | the agent's futures; a socket, timers, pollers; a cache, a list, a dialog | ask, push, show, answer, give up; connect, reconnect, poll, change session | one question is known in four places; replies, timers and sockets outlive what they were for |
| incremental component index | `web/src/utils/vis/incremental-index.ts` | entries, a dependency graph kept four times, deferred changes | add, remove, link, bulk operations | entries come, go and change parents in any order |
| streamed document merge | `web/src/utils/parse-vis.ts` | a document of components inside text inside components | merge a chunk, mount, index | chunks repeat and overlap; the index points at copies |
| agent interaction gateway, recovery, streaming | `agent/interaction` | pending questions, checkpoints, connections | ask, answer, time out, resume | users go offline; answers come late or twice |
| chat turn | `web/src/hooks/use-chat.ts`, `components/chat/input` | one stream per turn, flags of the page | send, stream, stop | turns overlap; a stop outlives its turn |
| background chat | `derisk-serve .../agent_chat_background.py` | chats that outlive their request | start, stream, stop | who ends, cleans and reports a chat |
| agent core loop, ReAct master agent | `agent/core`, `agent/expand` | one conversation | think, act, verify | mostly sequential |
| conversation memory | `agent/core/memory` | caches and queues per conversation | append, stream, compact, evict | writers and eviction |
| task board, kanban, plans | `agent/shared`, `agent/expand` | tasks, stages, plan versions | create, move, complete | dependencies, lost updates |
| worker pool, distributed execution, orchestration | `agent/core_v2` | queues, workers, heartbeats | submit, assign, retry | worker loss, duplicates |
| agent reliability | `agent/core_v2` | checkpoints, execution state | save, restore, resume | crash between two steps |
| authorization | `core/authorization` | decision cache | check, grant, revoke | stale decisions |
| model cluster | `model/cluster` | workers, registry, heartbeats | start, stop, register, generate | failure detection |
| sandbox watchdog | `sandbox/watchdog_manager.py` | leases of sandboxes | renew, collect | renewal against collection |
| AWEL, tools, extensions, server CRUD, pages of the web client, packaging | the rest | | | adapters, libraries, rendering, I/O |

How they interact. A broker publishes a request directory and runs the transport as
a subprocess, which starts fixed systemd units and shares files under one
lock with other brokers. The cron service calls the agent chat, which starts a turn
in the background and returns. A turn is a loop of rounds: `think` is given the
results of finished background tasks, `act` runs tool calls concurrently, some of
which spawn, cancel and await tasks of the task manager. A task runs a subagent.
Questions to a user leave the loop through the interaction gateway, which pushes them
over a web socket to the client's `InteractionService`; its React provider shows them in a
dialog, and a POST brings the answer back. What the agents write streams to the client as
chunks of components, which are merged into the document of the turn and indexed.

What correctness means for each modelled part:

- transport: nothing runs without its lease; a slot is freed only after what ran in
  it is stopped and cleaned; production is exclusive and not starved; success is
  the success of one's own program; a restart leads back to service;
- journal: recovery accepts what a crash leaves; a receipt seals the last execution of its
  phase; the lease is freed only when the journal is complete or gone;
- task manager: one final status; no start before the known dependencies completed
  or after a cancel; no lost wake-up; every task ends; every result reaches the agent;
- cron: executions of a job exclude each other; no enabled job is lost by
  edits and restarts; the running flag is true; every execution ends; a repeating
  job runs again;
- questions: the agent gets one end for each; the client forgets none the agent waits for;
  what the dialog shows, and what a button answers, is the question the user sees; the
  state of the link is true, of the current session, and its retries end;
- components: no cycle, no link to what is gone, no listener left behind; a chunk
  may come twice, takes nothing away, and a change lands wherever the component stands.

The hazards behind these properties are in `PROJECT.json`, each at its line.

## 2. The deployment transport: `DeployLease`, `DeploySlots`

**State.** `slot`, `writer`, `waiters` are the marker files `slot-<n>.json`,
`writer-pending.json` and `ordinary-waiters/`; `requests` the request directories;
`unit` and `phase` the systemd units of the slots and of the frontend phases;
`status` the status files. All of these outlive a process. `pc`, `mode`, `lease` and
`todo` are the local state of a broker and of the subprocess it waits for: where it
is, on whose behalf `finish_transaction` runs, its `LeaseHandle`, and what the
recovery loops have still to visit. `executed`, `robbed`, `orphans` and `faults` are
bookkeeping: the requests whose program ran to success; whether some recovery has taken up the
lease of a live coordinator; of whom files were on disk, and who was dead, when a recovery began.

**Steps.** A section under `scheduler.lock` (an flock) is one step; what the code
reads outside it is a step of its own, so recovery works on lists of leases and waiters that
may be old: `active_leases` reads one marker after the other (`scan`, `scan2`) and takes no lock, so
it may meet a marker that another process is writing or unlinking (`Written`, and `WriterWritten`
for the writer file), which it cannot parse. A crash may fall between two steps, or inside a section between its
file writes (`CrashInSection`; the `Half...` operators are the prefixes of the writes, and
`Torn` is a marker that exists but is empty). Ids are recycled once nothing on disk
or in memory names them: the code draws fresh random ids, and the model has
finitely many.

| actions | code |
|---|---|
| `Publish` | `publish_transport_request` of the broker |
| `Enqueue`, `AcquireOrdinary`, `OrdinaryTimeout` | `enqueue_ordinary`, `acquire_ordinary`, `wait_for_ordinary` |
| `Announce`, `AcquireExclusive`, `ExclusiveGivesUp` | `announce_writer`, `acquire_exclusive`, `wait_for_exclusive` |
| `StartUnit`, `Wake`, `UnitReads/Succeeds/Fails` | `_start_fixed_unit`, `run_ordinary_slot` |
| `PhaseStarts/Ends`, `PhasesSealed`, `PhasesRaise` | `orchestrate_frontend_receipts`, `run_frontend_phase` |
| `Reap`, `Clean`, `Release`, `ReapOrCleanFails` | `finish_transaction` and its runtime |
| `Succeed`, `Fail`, `DropWaiter`, `DropClean` | the end of `dispatch` |
| `ScanLeases` ... `UnlinkWaiter` | `LeaseScheduler.recover` |
| `Restart`, `Crash`, `CrashInSection` | broker and process failures |

Two choices need a word. `systemctl start` on a unit that is already activating
joins its job; `StartUnit` and `Wake` therefore wait for whatever the unit is doing.
The phases of a production request are modelled by the runtime protocol; the adapter
deployed at this commit always raises, which is one of the outcomes (`PhasesRaise`).

A broker may restart, and recover, while another one dispatches or recovers: brokers share one
lease directory and nothing in the code excludes it. `recover` looks whether the coordinator of
a *waiter* or a *writer* is alive, but not that of a lease, so it may take up the lease of a live
one, stop its unit and free its slot. From that moment (`robbed`) the lease protects nobody, which
`DeployLeaseOverlap` shows: a marker goes while the unit of its request runs.
What holds whatever the brokers do: live waiters keep their files (`LiveWaitersKept`), a
recovery leaves nothing behind of those that were dead when it began (`ServesRecovered`), and until a
live coordinator is robbed, through crashes, failed stops, and recoveries beside dispatches and beside
one another, the lease keeps its promise (`RunningUnderLease`, `CleanUntilRobbed`,
`LeasesAsPromised` and the others). `robbed` is a statement about steps the code took, not about
how it is operated, and no operation of the model looks at it.

**Abstract specification.** `DeploySlots` knows no files, queues or processes: two slots that
are leased when free, programs that start under the lease of their request (a production build
under both slots), end once in success, lose their slots only when they do not run, and answers
that claim a success only after one. A marker that a crash left half-written is a slot
that stays taken. `LeasesAsPromised` says that `DeployLease` implements it until a live coordinator is
robbed, with the markers as leases and the units and phases as programs.

**Fairness.** A running process takes its next step, systemd restarts a broker
(`Restart=` of its unit), and units end (`TimeoutStartSec`). No deadline, no new
request and no choice between phase and seal is assumed fair.

**Found.** `DeployLeaseOverlap`: sections 8 and 10.

## 3. The receipt journal: `FrontendReceipts`, `ReceiptLog`

While a production request holds the exclusive lease, the coordinator executes eight
phases and a cleanup and seals a receipt of each. `FrontendReceipts` is one such
transaction, seen from its files; `DeployLease` sees the same transaction as one holder among
others and its phases as units that start and end.

**State.** `root` is the directory of the journal: not there, without a `state.json`
(`making`), with one (`made`), or without one again because a removal was cut short
(`torn`). `advisory` is `next_ordinal` of `state.json`. `observations`, `data`, `authority`,
`receipt` map a phase to its file; `previous` is the predecessor a receipt names. A file is
stood for by the evidence in it, and evidence by the number of the execution that produced
it (0: no file), so that evidence of two executions differs and comparing digests is comparing
numbers. `litter` names the directories in which a temporary file was left. `request`,
`held`, `status` and `actor` are the request directory, the lease, the status file and the
phase whose unit runs. `pc`, `mode` and `at` are the process: where it is, whether it serves,
aborts or recovers, and its phase.

**Steps.** A step ends at a write to the disk, so a crash falls between any two.

| actions | code |
|---|---|
| `Initialize`, `InitializeState`, `OpenJournal` | `initialize_or_recover`, `initialize`, `recovery_ordinal` |
| `ExecutePhase`, `ObservePhase`, `ActorSucceeds/Fails`, `PhaseReturns`, `PhaseUnavailable` | `execute_phase`, `observe_phase_start`, `run_frontend_phase` |
| `RecoverPendingPhase` | `recover_pending_phase` |
| `WriteAuthority`, `PublishReceipt`, `AdvanceState` | `seal`, `seal_phase_receipt_from_fds`, `_publish_receipt`, `_write_state` |
| `BeginFinalize` ... `Release`, `Succeed` | `finalize_frontend_transaction`, the end of `dispatch` |
| `FailTransaction`, `StopAndReap`, `CleanupRequest`, `RemoveTree`, `Discard`, `CleanupRefused` | `finish_transaction`, `cleanup_request`, for `dispatch` and for `recover` |
| `StepFails`, `WriteBreaks`, `RemovalBreaks`, `SuccessUnreported` | calls that raise, writes and `rmtree`s cut short |
| `CoordinatorDies`, `BrokerDies`, `Recover`, `ResumeTransaction` | process failures and what follows |

`Accepted` is what `recovery_ordinal` tests, `Recovered` what it writes, and both are used
wherever the code calls it. The steps of the two `finish_transaction`s (in the abort of
`dispatch` and in the recovery of the broker) are the same actions under another `mode`.

Choices that need a word. `execute_phase` of the runtime deployed at this commit
always raises (`PhaseUnavailable`); its class says that the tests exercise the whole
protocol, so the runtime that executes phases is modelled from what the rest of the code
demands of it: a unit is started, observed while it is active, leaves its data and is gone
when the receipt is sealed. `ResumeTransaction` is `orchestrate_frontend_receipts` on the
journal of a dead coordinator, which its docstring ("Resume and seal") and the tests
exercise and which no caller at this commit leads to; with `Resumes = FALSE` the
theorems hold too. The machine does not reboot within a transaction: a receipt records the boot,
and recovery refuses a chain of two. Clocks and the contents of evidence are left out.

**Abstract specification.** `ReceiptLog` is a log to which one phase at a time, in order,
appends its evidence; it is dropped as a whole or completed, the lease is freed after
that, and success is reported for a complete log alone. `KeepsPromise` says that the
journal implements it, where the log is empty until `state.json` exists.

**Fairness.** A process that can go on does, a unit ends (`TimeoutStartSec`), systemd starts a
dead broker again. Nothing is assumed of crashes.

## 4. The asynchronous task manager: `AsyncTask`, `AsyncTaskLife`

**State.** `status`, `deps`, `future`, `consumed` are the fields of
`AsyncTaskState` and `_futures`; `pc`, `idx`, `outcome` and `stop` say where the
coroutine of each task stands, which dependency it waits for, what `delegate` returned
before the coroutine resumes, and whether a cancellation is on its way; `queue` is
the waiting line of the semaphore; `call`, `ids`, `woken` are the tool calls of the
agent's round. `known`, `shown` and `givenUp` are histories: the dependencies that existed at
the spawn, the results given to the agent, and the tasks that a `wait_all` whose timeout expired
returned, and marked as consumed, before they were final.

**Steps.** A step is what one coroutine does between two awaits. `RunTask`, `Proceed`
and `End` are the pieces the steps share: `_run_task` up to its first await, the loop of
`_wait_deps_then_run`, and the end of a coroutine, which resolves the future. asyncio is
modelled by what it does: a FIFO semaphore whose cancelled waiters leave the line, an
event that releases those who wait when it is set, a cancellation that is delivered when the
coroutine runs next. In Python 3.10 and 3.11 `wait_for` lets a cancellation pass
when the awaited future is already done; `CancelMayBeSwallowed` says which Python
it is, TRUE in the run (the Makefile installs 3.10), either in the theorems. `delegate` may return, fail, never return, and
is taken to be cancellable.

**Abstract specification.** `AsyncTaskLife` is what `docs/ASYNC_TASK_SYSTEM.md` promises:
one life with one final status, a start only when the needed tasks have
completed and nobody has cancelled the task, at most `MaxConcurrent` running, no completion without a
run. A task is submitted, begins, may be cancelled (which shows at once, while its program ends
later), and finishes. Where a cancellation may be swallowed a cancelled task that ran may finish with
another status (section 10); otherwise it stays cancelled.
`KeepsPromise` says that `AsyncTask` implements it, with `life <- status`, `body` the place of
the coroutine (`Body`) and `needs <- known`: the dependencies that existed at the spawn, because the
code passes over unknown ids (section 10).

**Fairness.** The event loop runs every ready coroutine, timers expire, and the
agent goes on to its next round. That `delegate` returns is not assumed: its timeout
ends it. A `wait_all` may return with or without its results. `ResultsInjected` and
`ResultsSurface` say that every result reaches the agent but those given up by an expired one; section 10
says what that means.

## 5. The cron service: `Cron`, `CronLaunches`

**State.** `rows`, `enabled`, `once` (delete_after_run), `oneShot` (an `at` schedule)
and `running` (running_at_ms) are the job table; `clock` the position of an `at` time:
ahead, due within the grace time, past. `sched` is what APScheduler holds. `stage`, `job`,
`timed`, `deletes` and `line` are the executions of `_execute_job_safe`: fired, waiting for
the job's lock in the order `line`, executing; `deletes` is the snapshot of
delete_after_run read before the lock.

**Steps.** Database sessions are synchronous, so a request handler is one step, and so is
an execution up to the lock (`Begin`), from the lock to the agent call (`Acquire`),
and from its return to the end (`Succeed`, `Fail`). A crash loses everything but the
table; `CrashBeforeDelete` falls between the two commits of `Succeed`.
`Start` is the restart with `_recover_jobs`. APScheduler is modelled by
what it does: it launches a due trigger, drops a missed one, spends a date trigger,
and starts no more than `max_instances`. The service is single-instance (its lock is
`MemoryLock`). `next_run_at_ms`, error texts and counters are left out; schedules are
valid.

**Abstract specification.** `CronLaunches` has no table, coroutine or lock: the jobs there
are, which triggers are set, and for each job how many launches are owed and whether it is
executed. While the service is up each launch is executed once, or passed over when its job is
gone; executions of a job follow one another; a dated trigger launches once until an edit or a
restart sets it again; a crash loses what is owed and nothing else. `KeepsPromise` says that
`Cron` implements it: `owed` is the number of executions launched and not yet executing, `busy`
the jobs whose lock is held. Exclusion is part of it: the end of an execution frees its job only if
no other one has the lock.

**Fairness.** Ready coroutines run, the process is restarted, and triggers come due
again and again. Strong fairness of the scheduler stands for this last point:
`Runs` bounds the executions under way, and a fire the bound disables would come
later in the code. `LiveSpec` assumes that the call which starts an agent's turn
returns, which no timeout of the code enforces (section 10).

## 6. Questions to the user: `InteractionLink`, `InteractionDialog`, `Question`

**`InteractionLink`** is the connection: `connect`, `disconnect`, `setSessionId`,
reconnection with its delay, and polling as the fallback. The class has one reference to a
socket, one to a timer and one to an interval, and overwrites each without looking; the
browser keeps what was overwritten. `sock` therefore has every socket the browser keeps, with
who awaits its promise and whether its ten-second timer is set; `ws` is `this.ws`; `link` has
the fields of the service and counts the timers, intervals and first fetches that nothing
refers to any more. A step is one task of the event loop with the continuations it sets off:
an error rejects the promise, whose continuation runs before `onclose` does (`OnFail`). The
length of a delay is left out. `connects` and `resets` are histories, and bounds.

| actions | code |
|---|---|
| `Connect`, `Disconnect`, `SwitchSession`, `KeepLink` | `connect`, `disconnect`, `setSessionId` with and without a socket to change |
| `OnOpen`, `OnFail`, `OnClose`, `OnTimeout` | the handlers and the timer of `connectWebSocket`, `handleWebSocketClose` |
| `RetryTimer`, `PollStarted` | the callbacks of `scheduleReconnect` and `startPolling` |

*Fairness*: timers fire, a first fetch returns, and the browser ends a socket that is being
closed or whose handshake has outlived its time. The server need never accept, refuse or end
anything.

**`InteractionDialog`** is a question on its way to the user and back. It is known in four
places that nothing keeps together: the gateway's futures (`asked`), the service's map
(`svc`), the list the components render (`list`), and the request of the dialog (`active`,
`open`). `wire`, `call` and `fetch` are the pushes, answers and lists under way; `hides`
counts the 300 ms timers that will empty the dialog. One list is under way at a time: an older list
that arrives after a newer one does what one does that was on its way while the rest went on.

| actions | code |
|---|---|
| `Send`, `GiveUp`, `Respond`, `ListPending` | `send_and_wait` and its timeout, `deliver_response`, `get_pending_requests` |
| `Receive`, `ShowRequest`, `HideTimer` | `handleWebSocketMessage` with `onRequest`, `showRequest`, the timer of `hideDialog` |
| `Press`, `Close`, `DeferRequest`, `PressCard` | the buttons of `InteractionHandler` and `AuthorizationDialog`, the cross, the card in the chat |
| `Submitted` | what the provider and the dialog do when the reply to an answer is there |
| `StartFetch`, `Fetched` | `setSessionId`, a poll or `refreshRequests`, and the list it gets |

`authorize` and its siblings are closures of the last render, so `PressCard` answers the
request that was active when the card was drawn. The HTTP and socket server
between client and gateway is external: pushes, POSTs and their replies may be lost, lists
refused. The routes shipped in `derisk_serve/agent/interaction_api.py` speak to the other gateway
(`agent/interaction`), whose messages this client ignores; the model pairs the client with
the gateway whose message format it reads, `core/interaction/gateway.py`.

**Abstract specification.** `Question`: asked, then answered or expired, once. `KeepsPromise`
says that gateway and client together implement it for every question that is not a notice.

## 7. The components a chat turn shows: `VisGraph`, `VisIndex`, `VisWalk`, `VisMerge`

**`VisIndex`** is `IncrementalIndexManager`. A dependency is recorded four times, in the
two maps of the graph and in sets of the entries it joins; `graph` has all four. `parent` is an
entry's parent, which may be absent, refused as a dependency, or removed. `bulk` and `pending`
are the deferred notifications, `told` what a listener takes to be in the index, `lost` a
history of changes that a nested `beginBulk` discarded. Each public operation is one action; they are
synchronous. Whether there is a cycle, and which dependents there are, is said with `Reach` of
**`VisGraph`**, without recursion.

**`VisWalk`** has the two searches as the code runs them: `detectCycle` is a depth-first search
whose calls are `path` and whose loops are `todo`, and `visited` is shared by all branches;
`getAllDependents` is a breadth-first one with `queue` and `result`. A step is one turn of a loop, a
call or a return. Its properties say that the searches return what `Reach` says, so that
`VisIndex` may use it for them. Which node a loop takes next (the order of a JavaScript `Set`, and of the
queue) is left open. `WalksAdvance` is the measure that makes both of them end.

**`VisMerge`** is `VisBaseParser`: `Merged(doc, chunk)` is `updateCurrentMarkdown`. A
component's value is JSON text, with its markdown and its items as text inside it; a document and a
markdown are sequences of components and of pieces of plain text (`Texts`). The index,
rebuilt after every chunk, points at copies parsed from the text; `RebuildIndex` therefore
gives each uid a place (where it was indexed last) and each place a copy, and the operators that write
(`MergeExistingNode`, `UpdateNestedNodeInHost`, `SetItem`, `MountToParentMarkdown`) say which
copies and which texts change. The components of one chunk are merged one after the
other with the index of the document before it (`MergeIncrementalChunk`, `MergeOne`).
`combineVisItem` with its two lists is `CombineVisItem`, `CombineMarkdown` and `CombineItems`: text is
appended to text, a `dynamic` component has its markdown appended as a string, what both lists have
is merged, and every copy of what only the chunk has is added.

Any chunk is accepted: a uid may be brought twice in one markdown, as
`derisk_vis_window3_converter.py:406-437` does on purpose, stand on several branches
(`parse-vis.ts:941-955`), or be brought where the document does not have it. Abstracted: the content
of a text, and all fields but `uid`, `parent_uid`, `type`, `dynamic`, `markdown`, `items`, which are one
`ver`. Assumed (`DynamicAssumption`): a dynamic component shows text alone, since a string appended behind
an open code fence is not a sequence of components any more (section 10).

The properties are stated for every chunk at every reachable document: `Merged` is applied to the
state. Where the code loses a change, or shows something twice, the property names the condition, each of
which TLC found to be needed, and section 10 says what happens outside it: `WrittenBack` and
`Mountable` (a change reaches the document from there), `HoldersOnce` (what holds another component is
shown once), `InPlace` (what a chunk shows inside a component is there in the document, if it is
anywhere), `Apart` (the components of one chunk do not meet; `Plain` collects these for a chunk), and
`Streams` (a chunk with text to append, which a second delivery appends again: `Redelivery` says that
it does nothing else).

## 8. Runs and bounds

| run | instance | shows |
|---|---|---|
| `DeployLeaseSafe` | 2 brokers that may recover beside each other, 1 + 2 requests, 2 faults of any kind, up to the first robbery | safety; refinement of `DeploySlots` |
| `DeployLeaseRestart` | 1 broker, 2 + 2 requests, 2 crashes between sections | every restart ends in service |
| `DeployLeaseLive` | 2 brokers that may restart beside each other, 1 + 2 requests, no faults | live waiters keep their files; writer preference starves no writer |
| `DeployLeaseOverlap` | violation; 1 restart beside a dispatch | a recovering broker releases a live lease |
| `FrontendReceiptsCrash` | the 9 phases of the release, any 3 crashes, torn writes or failing calls | recovery accepts the journal, receipts seal the last execution, refinement of `ReceiptLog`, the lease is freed |
| `AsyncTaskEnds` | 2 tasks in a possible cycle, 2 concurrent tool calls, swallowed cancellations, expiring `wait_all`s | refinement of `AsyncTaskLife`, no lost wake-up, results injected unless given up; every task ends and every result surfaces |
| `Cron` | 1 job, 2 executions, 1 crash, jobs may be created disabled, fair | refinement of `CronLaunches`, with the lock in it; the running flag, no job forgotten; executions end, repeating jobs run again |
| `InteractionLink` | 4 sockets, 2 sessions, 1 reconnection attempt, 2 connects, 2 opens or disconnects | the state shown is real, the session current, pollers bounded, attempts end |
| `InteractionDialog` | 2 questions, one an authorization with a card, 2 answers at a time, up to 3 timers | refinement of `Question`; nothing waited for is forgotten; a hidden dialog empties |
| `InteractionDialogCard` | violation; as before | a card answers another request |
| `VisIndex` | 3 components; a walk over any of the 512 graphs of them, from any root | no cycle, no dead link, listeners know; the searches find the cycles and the dependents there are |
| `VisMerge` | 4 components nested four deep, the innermost with text; 13 components to send, alone or two at a time, one of them brought twice in a markdown; documents of at most `MaxCopies` = 4 components, `MaxTexts` = 1 text in each, in which what holds another is shown once | redelivery, order, nothing vanishes, changes land |

Why the bounds suffice. In the transport, two slots are what the code has; two ordinary requests
fill them, and one production request needs both (two of them compete for the writer file in
`DeployLeaseRestart`); two faults are a crash and a failure while recovering from it. In `DeployLeaseSafe` the
CONSTRAINT `Unrobbed` ends a behaviour with the robbery, since its properties say nothing of what
follows; `ServesRecovered`, which speaks of that too, is proved without it. The journal has its real number
of phases; three faults are a crash, one in the resumed transaction, and one in the recovery
after both. In the task manager two tasks give a dependency and a cycle, one permit
makes the other queue, and two tool calls are enough for one to take what the other
waits for; longer chains and joins are covered by the theorems, which hold for any tasks and
dependencies. In cron, jobs have nothing in common (the lock and the rows are per job), so one
job is enough; one of two executions holds the lock and one stands in line, and the theorems hold for
any number. Of the four sockets of the link, one may be opening, one open, and two replaced and not yet
ended; one attempt reaches both sides of the limit. Two questions are one in the dialog
and one that comes in between; notices are left to the theorems. Three components
make the shortest cycle that no pair shows, and a node reached on two branches of a search. Four nested components are the shallowest
document in which a text is inside a text inside a root's text, with an item on the way; text is
streamed without end, hence a bound on it (`Small`), and the properties apply every chunk to
every document within the bounds.
Symmetry is used only in runs without liveness, over ids that occur
in no ordering. Deadlock is checked in every run but `VisIndex`, where nothing
follows a walk that has returned; none of the other systems may come to a stop. `MCVisIndex` begins with a walk
over an arbitrary graph, since the class is exported and walks whatever graph it was given, and goes on
with the index where that graph was empty: the walks are checked beyond the graphs the index can have.

Each violation run checks one sentence of the repository's own documentation or
comments; `PROJECT.json` ("findings") quotes it and names the line.

## 9. Proofs

TLAPS checks the theorems below for every value of the constants that satisfies
`ConstantsAssumption` of the module (finite sets where cardinalities are taken, positive
limits, distinct model values).

`DeployLeaseProofs`
- `TypeCorrect`. The types need `JobsAreTyped`: a coordinator always works for a request.
- `InductiveInvariant`: `IInv` is inductive. Its parts: modes and jobs are consistent (`ModesFit`,
  `JobsAreUnique`); a coordinator's handle has the shape its acquisition gave it (`ShapeOK`); and until
  a live coordinator is robbed (`Protected`) a held lease
  is on disk, or everybody is kept out by an unreadable writer file (`LeaseOnDisk`);
  units run under their marker only (`UnitsMarked`); what is being cleaned or released is
  reaped (`Reaped`); a commit has executed (`CommitsExecuted`); and a recovery finishes leases of the
  dead alone, who do not come back (`RobsTheDead`), so that a recovery beside a dispatch disturbs none of
  this. None of the safety properties is inductive alone: that a unit runs
  under its marker depends on who may unlink the marker, that on handles being
  exclusive, and that on the files surviving a crash.
- `RunsUnderLease`, `SuccessIsReal`, `ProductionHoldsBoth`: the safety properties, from `IInv`. The properties
  themselves say "until a live coordinator is robbed"; the theorems assume nothing.

`DeployLeaseRecoveryProofs`, from `IInv` and what its steps write (`MarkerChange`, `WaiterGoes`,
`WriterGoes`), for any brokers, requests and faults
- `ReleasesCleaned`: until a robbery a marker goes only after the units and the directory of its request
  (`CleanUntilRobbed`; `ReleaseAfterCleanup`, without the condition, is what `DeployLeaseOverlap` refutes).
  What is added is that a directory that is gone before a release stays gone (`Cleaned`): ids in use are not taken again.
- `RunsOnce`: until a robbery a program that succeeded is never started again, which the refinement below rests on. It needs that the request of a waiting
  coordinator has no marker and no handle anywhere (`Unleased`), that an ordinary request has one
  marker, and that what is about to run has not run (`NotYetRun`).
- `WaitersStayQueued`: a waiting coordinator keeps its file, after robberies too. A
  recovery unlinks for the dead (`CancelsTheDead`), and one that releases a lease has read it from a marker
  (`RecoversLeases`), which a waiting coordinator does not have.
- `ServesAfterRecovery`: when a recovery ends nothing is left of those that were dead when it began,
  after robberies too. What a loop has not yet to visit is gone (`RecoveryAdvances`) and stays gone,
  for the dead write no file; that one visit is enough for a waiter needs that it is queued once
  (`QueuedOnce`).
- `RecoveryProgresses`, after robberies too: no step of a recovery leads back. It reaches a
  later part, takes one more from the leases or waiters it read, or is further with the one it took.
- `ImplementsPromise`: the refinement of `DeploySlots`, until a robbery. Acquisitions and what a crash leaves of them
  are `Take`, releases `Release`, and of the rest only the start and the end of a program and a report are
  seen; a program that succeeds is the only one of its request, by the one marker.

`FrontendReceiptsProofs`, for any number of phases and faults, with and without resumption
- `TypeCorrect`, `AlwaysAccepted`, `SealsLast`, `ImplementsLog`, from one inductive invariant
  (`Invariance`): receipts, authorities and state are those of one prefix (`JournalInv`); the
  coordinator works at its end (`CursorInv`); a transaction that is given up is
  never served again (`ModeInv`); data are those of the last execution (`OnceInv`); an
  actor runs only at the end of the prefix, where no data are yet (`ActorInv`); a free lease means a
  complete journal or none (`LeaseInv`); the journal goes after its request (`DropInv`).
  `AlwaysAccepted` is not inductive alone: that a restart finds authorities for one phase more at
  most depends on where the coordinator can be when it dies. The refinement maps each step to an
  append, a start, an end, a drop, a release, a report or a stutter; the log being a sequence cut
  at the first missing receipt, `LogOfProperties` relates it to the files.

`AsyncTaskProofs`
- `TypeCorrect`, with swallowed cancellations too; it needs that a callback is
  awaited only after the final status is set (`CallbackIsLast`).
- `NeverStartsCancelled`: a cancelled task never starts, on every Python. The
  invariant is that a coroutine in the line of the semaphore that is not about to
  be interrupted belongs to a task nobody cancelled (`QueuedIsWanted`).
- `ResolvedIsFinal`, `WakeupsArrive`, on every Python: a future and its event are set with or after the
  final status. A final task whose future is not set is in its callback (`Grounds`), so the event that
  wakes a sleeping `wait_any` is still to come.
- `ResultsReachTheAgent`: what is consumed was shown, or given up by a `wait_all` that expired
  (`ConsumedIsShown`), and the notice before a `think()` shows the rest.
- `ImplementsPromise`, on every Python: the invariant `Order` ties the status to the
  place of the coroutine (`Fit`) and records the dependencies already seen completed
  (`Met`). Each step is a move of one task, which leaves the part of the others intact
  (`OthersKeepOrder`), and maps to `Submit`, `Begin`, `Cancel`, `Finish` or a stutter. The limit on
  running tasks comes from the permits: what runs holds one.

`CronProofs`
- `TypeCorrect`, `LockExcludes`, `RunningShown` (up to the first crash), `NoJobForgotten`,
  `DisabledOnlyAsAdded` (APScheduler holds a disabled job only as `add_job` put it there: no edit, run or
  restart schedules one or leaves one scheduled). `LockExcludes` is proved by
  the form of the invariant without cardinalities: two executions that hold the lock of a
  job are the same. `LineHolds`: who waits for a lock stands in its line. `LockIsFair`: those before
  it in the line only become fewer, and who takes the lock, from the line or on arrival, was before all
  that wait.
- `ImplementsPromise`: the refinement of `CronLaunches`. A launch is counted once
  (`LaunchIsOwed`), a counted one leaves the count when it begins or is passed over (`OwedIsServed`),
  and the end of an execution frees its job because no other one has the lock (`EndFreesJob`), which
  is why the refinement needs the exclusion.

`InteractionLinkProofs`, for any number of sockets, sessions, attempts, connects and successes
- `TypeCorrect`, `ConnectedShown`, `SessionIsCurrent`: whoever changes the session, or the socket, also
  ends the old one or falls back to polling.
- `PollingBounded`: no bound on the pollers is inductive, since timers and sockets become pollers. The
  invariant is a potential (`PotentialBounded`): pollers, twice the timers, the sockets kept, those whose
  promise is awaited, and the attempts that are left. Only `connect` and a success raise it.

`InteractionDialogProofs`, for any requests, notices, cards, answers under way and timers
- `TypeCorrect`; `HiddenPasses`, which is inductive; and from the invariant `KInv` (what is known
  anywhere has been asked; an accepted answer leaves nobody waiting; nobody waits for a notice)
  `ListKnown`, `WaitingKept` and `ImplementsQuestion`. That a reply may be late is why the
  invariant must speak of the answers under way: an accepted one was the first, or came too late.

`VisIndexProofs`, for any set of uids
- `IndexTypes`, `LinksMirrored`, `GraphAcyclic`, `ListenersTold`, `AffectedLive`, from one invariant
  (`IndexInvariant`): the four records agree, join entries, and close no cycle. That looking
  for a cycle from one end of a new edge is enough follows from the edges before it having none:
  a new cycle contains the new edge.
- `SearchFindsCycles`, `SearchFindsDependents`, for any graph over any set of uids,
  from one invariant of the two loops (`WalkInvariant`). Sharing `visited` between branches is sound
  because what a call has left leads only to what was left and lies on no cycle (`LeftIsClean`).
- `StepsAdvance`, for any graph: each step of a walk finds a cycle, visits a node for the first time, deals
  with an edge or returns, and undoes nothing (`WalksAdvance`). Over finitely many uids a walk can only
  end, so the two searches have no liveness property among the runs.

Assumptions on the constants. No theorem assumes anything beyond the `ConstantsAssumption` of its module:
recoveries may overlap dispatches, cancellations may be swallowed, a `wait_all` may expire, jobs may
be created disabled. Where the code then does less than one would wish, the property says so itself (`robbed`,
`givenUp`, `CancelMayBeSwallowed` of `AsyncTaskLife`, `DisabledAsAdded`), and section 10 says what is lost.

`WalksAdvance`, `RecoveryMovesOn` and `NoneOvertakes` are action properties that are proved and belong
to no run. They are the part of an argument for liveness that the prover reaches: a measure that every
step lowers, or an order that no step disturbs. That the steps are taken is the fairness, and stays
with the runs.

Only model-checked: the liveness properties (`BrokerReturns`, `WriterServed`, `TasksEnd`,
`ResultsSurface`, `RunsEnd`, `RepeatingJobsRun`, `RecoveryFreesLease`, `AttemptsEnd`), because
the prover handles neither fairness nor ENABLED; and all of `VisMerge`. Its documents are nested, and what its recursive operators compute could be
proved by induction over documents only, which the prover's library offers in a form its provers cannot
instantiate; a module with recursive operators is moreover out of reach of the SMT solver.

## 10. Observations: what the runs leave out

Some behaviours of the code are excluded from the passing runs by a constant or a
condition of a property. Change it, and TLC shows them:

- `DeployLeaseRestart` with `TornWrites = TRUE` and a crash inside `acquire_exclusive` or
  `release` leaves one marker of two, or an unreadable
  one, and recovery raises on it (lines 533 and 306) at every restart, so `BrokerReturns` fails.
  The docstring of the scheduler (lines 257-259) says that recovery removes the markers.
- `DeployLeaseLive` with one crash: `BrokerReturns` fails. A broker that recovers beside one that
  dispatches can fail again and again, which no fairness of its own steps excludes.
- After a robbery the properties of `DeployLeaseSafe` that say `robbed` fail. `CleanUntilRobbed` without it is
  `ReleaseAfterCleanup`, which `DeployLeaseOverlap` checks; `SuccessMeansExecuted` fails as well: the freed slot
  goes to the next request while the old unit is still starting, `systemctl start` joins that job,
  and success is reported for a request that never ran. Nor is a marker read without the lock safe:
  a recovery that meets one half written ends the broker, which systemd starts again.
- A write or a removal of the journal that is cut short leaves it in a state that
  `recovery_ordinal` refuses at every start: `_atomic_bytes` does not remove its temporary
  file, on an exception either (line 954), so an authority that could not be written blocks the
  journal; `_publish_receipt` does so in a crash; an `rmtree` that had removed `request.json` or
  `state.json` leaves a directory no identity can be read from. The lease is then never freed.
  `JournalAccepted` and `RecoveryFreesLease` say `Damaged` for this; without it they fail.
- A crash after a phase's unit was started and before root observed it leaves no trace, and a
  resumed transaction starts the unit again: it joins the unit if it still runs, and executes the
  phase a second time if it failed. `SealsLastExecution` therefore speaks of observed phases.
- The cleanup cannot be resumed: a second execution of it meets the authority of
  the first and seal refuses it, so the journal of a deployment that took place is discarded as
  incomplete. And a resumed journal that is complete fails in `finalize` (line 1249): the
  lease is freed, the journal kept, and `failed` reported for a complete deployment.
- On Python 3.10 and 3.11 a cancelled task whose `delegate` returned at the same moment is overwritten with
  `completed` (lines 310, 322) after its status was `cancelled`, which `wait_any` may have reported. The
  abstract life allows it where `CancelMayBeSwallowed`; with FALSE there and TRUE in the manager
  `KeepsPromise` fails.
- A `wait_all` that expires marks unfinished tasks as consumed (line 482), so their results never
  reach the context, although `docs/ASYNC_TASK_SYSTEM.md:5` says that finished results are injected.
  `ResultsInjected` and `ResultsSurface` say `givenUp` for this; without it they fail.
- A dependency that is unknown when the coroutine looks for its future is passed over
  (line 278), although `docs/ASYNC_TASK_SYSTEM.md:350` says that all tasks in `depend_on` must
  complete first. `KeepsPromise` is stated for the known ones.
- `wait_any` waits for an event that may be set for a result another tool call has
  collected (line 438); it then returns empty before its timeout. `NoLostWakeup` is
  the other half: no result is missed.
- `add_job` (line 262) schedules a job whatever its flag says, so a job created disabled runs until
  it is edited or the service restarts. `DisabledAsAdded` says that nothing else does this.
- The job is read before the lock is awaited (line 532), so an execution that waited starts although
  its job was removed, by a user or by delete_after_run of the execution before it.
- `RunningIsTrue` without `crashes = 0` fails: `_recover_jobs` does not clear
  `running_at_ms`.
- Within the grace time a restart, or an edit, schedules an `at` job that was launched
  already, and it is launched again (line 356). A delete_after_run job survives
  a crash between its two commits and runs again (line 558, `CrashBeforeDelete`).
- The agent call returns when the turn is started (line 651), so the lock and the
  flag cover the start of a turn and turns of one job may overlap.
- `Cron` without the assumption on `AgentAnswers` fails: one call that does not
  return holds the lock of its job (line 549 has no timeout).

In the link (`interactionService.ts`):

- A failing reconnection schedules the next one twice, from the rejected promise and from
  `onclose`, and only the last timer can be stopped. `PollersBounded` is the bound that is left;
  a client may poll several times in every interval until the page is closed.
- The late `onclose` of a socket that was replaced sets `this.ws` to null and the state to
  `disconnected` or `reconnecting` although the socket that replaced it is open: the converse of
  `ConnectedIsReal` does not hold. A `disconnect()` during a handshake ends in polling.
- `usePolling` is never reset, so a later change of session leaves the old session's socket open;
  `CurrentSession` says "until the client falls back to polling".
- A poll tells nobody of new requests: the cache is filled before it is asked whether
  they are new (lines 451-458).

In the dialog:

- The timer of `hideDialog` does not look at what is shown: a request shown within the 300 ms
  is emptied from the open dialog. The reply to one answer hides the dialog of another.
- Pressing a card without an active request only shows the request; the first press answers nothing.
- A refused answer hides the dialog of `InteractionHandler` all the same, and an upload of files
  is never sent (`handleFileUpload`). A deferred request stays on the list.
- A list that fails to load empties the list, one that is older than a push drops the pushed
  request from it, or brings an answered one back. Nothing tells the client that a question has
  expired.

In the index:

- A component added before its parent is never linked to it; a parent that is removed
  remains the `parentUid` of its children, as does one refused as a cycle. `AffectedAreLive` speaks of
  the links, not of these fields.
- `endBulk` does not tell of removals, a nested `beginBulk` discards changes (`lost`), and `clear`
  tells nobody: a listener may keep what is gone. `ListenersKnow` is the other direction.

In the merge:

- A new component whose parent is in markdown, or in an item of an item, is mounted in a copy and
  lost (`Mountable`), although `docs/docs/VIS_MERGE_LOGIC_REVIEW.md:97-98` promises mounting by
  `parent_uid`. Updates of items of items, and of what is in their markdown, are lost too (`WrittenBack`).
- The components of one chunk see the index of before the chunk (`Apart`): an update of an item
  and then a mount under it undoes the update; an update of a component after one inside it loses the
  inner one; a new parent and its child in one chunk put the child at the root; two new components of one
  uid in one chunk are both mounted. A component replaced
  as a whole (`all`) after one deeper inside it drops that one.
- Text delivered twice is there twice: text is appended to text (lines 577-580), and to a dynamic
  component whatever it has (485-487). The server streams text as increments, so a chunk of it that is
  delivered again is doubled on the screen. `Redelivery` says `Streams` for this.
- Beside a component text is dropped: text that a later chunk brings to a markdown with components, or beside
  components (583-611), and text at the top of any chunk but the first.
- A uid brought twice in one markdown is added twice where the document has it not (604-608, and 570-572 for
  an empty markdown). `derisk_vis_window3_converter.py:406-437` gives a step and its thought one uid, on
  purpose (line 426), so both are shown when they come first together, and one when they come apart;
  later updates go to the copy indexed last.
- A uid shown on several branches (941-955): only the copy indexed last is merged, the others keep what
  they had. If it holds components, the way back (`found[host.uid]`) may go through the other copy, and a component
  vanishes from the one or is doubled in the other (`HoldersOnce`). A component brought at a place where the
  document does not have it is shown there too (`InPlace`).
- A dynamic component with components inside, as `derisk_vis_incr_converter.py:196-204` may send
  (the view of an action), has strings appended behind its last code fence, and what they show depends on where the fences
  end: outside `DynamicAssumption`. A component that contains itself (667-671) is skipped by the
  index at the second visit, which `IndexOf` does too, and in no run; nor is one uid twice among the items of a
  component.
- `type = 'all'` with an empty markdown, empty items or null fields keeps what there was, although
  the comment at `derisk_vis_window3_converter.py:98` has all fields replaced, by empty ones too.

## 11. Not modelled, and the plan

Each component that is left out is in `PROJECT.json` with the reason. In the modelled
ones: payload validation, the contents and clocks of receipts, message formats and the
refusals of `dispatch` before it enqueues anything; progress texts and formatted
notifications; contents of cron schedules; contents of answers, updates and texts; code fences that a
chunk leaves open, dynamic components with components inside, and the windows of `VisParser`. `input_queue_manager.py` has no caller.

By lines, most of the repository is not in the models, and most of its TypeScript and
JavaScript cannot be usefully modelled: pages, forms, icons, styles, translations and
tables that render and call the server, and the compiled bundle of all that with its libraries
(`derisk_app/static`). What the web client has of protocol and state of its own is the
interaction client, the component index and the document merge, which are modelled, and the
chat turn, which is not: in `use-chat.ts`, `unified-chat-input.tsx` and the chat page, what
happens when turns overlap or are stopped depends on the event-source library (when it resolves, retries
or reports an end twice) and on which render a callback was created in. `PROJECT.json` names the files.

In this order:

1. Proofs: the safety properties of the runs are proved, those of `VisMerge` excepted. They need a
   form of `VisMerge` without recursive operators, for instance with the document as a set of paths
   of uids, on which merging is monotone where no component is replaced as a whole.
2. The gateway of `agent/interaction`: requests queued while the user is offline, with
   `RecoveryCoordinator` for restarts.
3. The chat turn of the web client.
4. The broker's replay store, and `DeployLease` composed with `FrontendReceipts` where its
   phases run.
5. `BackgroundChat`, composed with `Cron` where `AgentAnswers` starts a turn.
6. `WorkerPool` and distributed execution; `ModelCluster` (registry and heartbeats); `TaskBoard` and
   plans with versions; `ConversationMemory`; `AuthorizationCache`; the sandbox watchdog.
