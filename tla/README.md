# Synax agent runtime: a TLA+ verification project

Synax runs AI agent sessions. The desktop or web host (Node, `services/local-node`)
decides what a session does; the Rust process `runtime-sidecar` owns what the session
*is*: its durable state, its event log and the stream its readers follow. This project
models that core, checks it with TLC and proves its main invariants with TLAPS.

## 1. The system

| part | state it keeps | operations | what is hard |
|---|---|---|---|
| session lifecycle (`storage/jsonl/hot/ops.rs`, `hot/control.rs`, `runtime/execution.rs`) | epoch, revision, durable run pointer, producer counters, execution lease, control fence, permissions, forms, projected session and run | admit, activate, append, finish, control commands, patches | commands of several host tasks in any order, stale writers, two executors of one run, maintenance against admission |
| session log (`storage/jsonl/session`, `file.rs`, `seglog.rs`) | three append files per segment, extents, checkpoint | append and seal, rollback, flush, roll, checkpoint, evict, load | process death between two writes, failed writes and rollbacks, power loss, checkpoints staged while transactions go on |
| receipts and barrier (`runtime/actor.rs`, `session/state.rs`, `session_cache.rs`) | receipts by scope and request id, ring and lifetime, slots of the cache | answer a retry, cross the flush barrier before an answer, evict | lost answers, retries after a failed flush, a session evicted between a commit and its flush |
| input queue (`runtime/input_queue.rs`, `hot/control.rs`) | items, revision, forced item, pending delivery | enqueue, edit, reorder, force, deliver, acknowledge, dispatch by admission | input lost or delivered twice when a run ends or the host restarts |
| event fan-out (`session/mod.rs`, `transport`) and the client's connection (`rustRuntimeConnection.ts`) | retained window, subscribers, credits, tickets; cursor and view of the reader | publish, subscribe, replay, acknowledge, resynchronise | a slow reader, a reader that joins during a commit, a connection replaced while a record is applied |
| list index, summary cache | rows, dirty entries | refresh, publish | stale rows |
| history store (`storage/jsonl/history`) | objects, heads, pins, context fences | append, switch head, fork, compact, purge | stale heads, crash during a copy |
| agent loop (`agent/runner.rs`) and model client (`llm`) | phase, undelivered events, retry budget | start, deliver, acknowledge, tool results, retry | acknowledgements out of order, reconnects |
| host: run coordinator, recovery, stream writer, subagents, permissions, processes, auto resume (`agent-runtime/*.ts`) | run handles, timers, queues, captured fences | execute, interrupt, confirm, recover, sweep | actions that are not awaited, restarts, timeouts racing answers |
| merge requests, file generation, super coding, terminals, updater, user interface | own stores | own workflows | crash recovery of multi-step jobs |

The host talks to the sidecar over a socket. Every mutation carries a request id, the
epoch and the revision it was decided on; `append` carries the epoch only. Each session
has one actor and its lock is held for one operation at a time, so an operation is
atomic to every other one; what interleaves is the *sequence* of operations, and what
a host task read before it sent one. `PROJECT.json` lists every component with its
status and every hazard with the line where it bites.

## 2. Modules

| module | models |
|---|---|
| `SessionLifecycle` | one session inside the sidecar and the stream writers of the host |
| `MCSessionLifecycle` | symmetry of its runs and lease generations |
| `SessionLifecycleProofs` | its theorems |
| `SegmentLog` | the log of one session: files, seals, rollback, flush, checkpoint, crash, load |
| `DurableLog` | what the log promises; `SegmentLog` is shown to implement it |
| `SequenceLemmas` | lemmas about prefixes, truncations and flattened sequences |
| `SegmentLogReplay` | what replaying a log yields, as lemmas about `SegmentLog`'s operators |
| `SegmentLogProofs` | the theorems of `SegmentLog`, the refinement included |
| `RequestReceipts` | a request from its sender to the flush behind its commit: retries, receipts, barrier, session cache |
| `RequestService` | what a session promises a sender; `RequestReceipts` is shown to implement it |
| `MCRequestReceipts` | how many frames of each request are sent in the run |
| `RequestReceiptsProofs` | its theorems, the refinement included |
| `InputQueue` | the input queue of one session, the host tasks that use it, host deaths |
| `InputInbox` | what the queue promises the user; `InputQueue` is shown to implement it |
| `InputQueueProofs` | its theorems, the refinement included |
| `EventFanout` | the events of one session on their way to one reader, and the reader |
| `EventFanoutProofs` | its theorems |
| `StopProtocol` | the stop of a run by the host: fences, confirmation, repetition, recovery |
| `StopProtocolProofs` | its theorems |

They describe the same session at different grains. A commit is one step of
`SessionLifecycle` and `RequestReceipts` and many of `SegmentLog`; what `SegmentLog` shows of
crashes (`ImplementsDurableLog`) is what the other two assume of one. `EventFanout` starts
where `SegmentLog` ends, with committed events, and `StopProtocol` takes from
`RequestReceipts` that a command whose id is known is answered from its receipt.

### SessionLifecycle

State and code: `epoch`, `active`, `seqs` are `SnapshotCond`; `lease`, `control`, `perms`,
`forms` are `ControlState`; `ui` is the part of the projection the guards read (session
status, projected run pointer, whether a resume token is set, the projected run and its
status); `terminated` is `SessionActor.terminated_runs`, lost by `Reload`; `writers` is
what each stream writer of the host captured (`streamFence`: run and epoch, once) and
read (`authoritativeRecordState`: the session state, before every batch). `admitted`
bounds the host: it names only runs that were granted. `fenced` is a history variable.

An action is one accepted operation. A request with a stale epoch or revision is refused
before it changes anything, and a retry is answered from its receipt; neither is a step.
Control commands go through `withSessionRevision`, which re-reads the revision after a
conflict, so a command decided long ago can still be accepted: the model therefore lets
every command arrive at any time. `SettlePointer` is the rule at the end of
`control_write`: a command that did not assign the pointer clears it when the projection
is settled without a run.

Not in the model: the revision (it only refuses), process leases, the input queue that
`admit` consumes, the texts of events, and operations that edit titles and metadata.

Properties: `FencedWritersStayOut` (a writer whose run was settled under it never appends
again, however the session is pointed later), `LiveWriterInStep` (a writer of the current
epoch is never refused for its sequence), `LiveExecutorKept` (an executor that holds the
lease of the pointed run keeps the pointer until it closes the lease or finishes), and
`MaintenanceExcludesRuns` (no run is pointed at during a compaction or a restore).

`LiveExecutorKept` names the two other ways in which the pointer leaves such an executor. One
is the restore of an older history. The other is the settling rule (`hot/control.rs:886-899`): a
terminal patch clears only the pointer of the projection, as the comment at `control.rs:903-906`
says; but the next command that assigns no pointer, a permission that is denied for instance,
finds a settled session without a run in the projection and clears the durable pointer too,
with the lease open. The guard behind that comment looks at `session_patch` only and does not
stop it. The executor still has its epoch, and loses its lease to the next admission
(`AdmitRetiring`); the comment promises more than the code keeps.

### SegmentLog

State and code: `disk` is `events-v2/`, a sequence of segments of three files; the unit
of length is a frame, and `Torn` is a frame that is only partly there (`frame_at` returns
none). `extent`, `before`, `failed` are the `Publisher`'s; `mem` is the session as
`SessionActor` holds it, reduced to the transactions it consists of and their events;
`staging` and `checkpoint` are the snapshot on its way to `runtime-checkpoint.bin`. `synced`
and `Torn` are how the environment is modelled; `durable` is a history variable.

A transaction holds the lock from `Begin` to its seal but is several steps, because the
process may die between them. `Load` is one step: what replaying yields is stated over
the files (`Replayable`, `Recovered`) and not as a loop. A failed append leaves the file
as it was or a torn frame; a rollback truncates the files in order and stops at the first
failure. `PowerLoss` keeps any part of the unsynced suffix of each file, "ordered" only
such that a seal comes with the data it covers.

Not in the model: the legacy version 1 log, session deletion, the limit of 16 MiB per
segment (the other half of the same test), and the receipt frame of a transaction, which
is part of its control frame. Assumed of the environment: a rename is atomic, a flushed
file's directory entry is found again, a truncation that was followed by no crash is not
undone by a later one, and a failed flush does not discard data a later flush reports as
written.

Properties: `CrashKeepsCommits` (if the process dies now, between any two writes, exactly
the sealed transactions are replayed), `OrderedLossReadable` (only a power loss that kept
writes out of order leaves a session that cannot be read), `FlushedSurvives` (a session
that can be read after a power loss holds every flushed transaction and no part of
another), `CheckpointRebuilds` (the checkpoint may be thrown away, unless a rollback has
failed), `UncommittedDiscarded` (a writer that takes transactions has nothing but sealed
ones in its files) and `ImplementsDurableLog`. `CheckpointDisposable` and
`FlushedStaysReadable` are the stronger claims of the documentation, which fail. The
history variables `stuck` and `scrambled` tell the two apart: whether a rollback has
failed, and whether power was lost with writes out of order.

### RequestReceipts

State and code: `log` holds the ids of committed requests, so the revision is its length;
`synced` is how far the disk has confirmed it; `receipts` is `SessionActor.receipts`,
bounded by `RECEIPT_RING`; `slot` is the session's slot in `SessionCache` (absent,
registered, opened) and `evictor` the place `evict_prepared` is at. A frame that a client
has sent is a job of the sidecar, with a task of its own that outlives the connection:
`jobs` has one record per frame and says how far it is, the revision it carries, and
whether the sender still listens (`heard`). `caller` is the task of the host that sent the
request: what it was told, the revision it uses, and whether an attempt timed out (`late`).

`Lookup`, `Open`, then `Reuse`, `Refuse` or `Commit`, then `Barrier` are the steps of one
job, and everything may happen between them: the handle is let go before the barrier
(`runtime/actor.rs`), so the session may be evicted there. An eviction is three steps
(the handle counted, the session flushed outside the lock of the cache, the handle and the
last use looked at again inside it). `Timeout` and `Resend` repeat the frame, the first on a
socket that still works; `HearConflict` is `withSessionRevision`, which takes a newer revision
as long as no attempt of 30 s can have timed out, since its own limit is 5 s.

Assumed or left out: no request is pending while 8192 others commit (`Retained`; the
lifetime of 24 hours and clocks that go backwards are excluded with it), fingerprints of
requests, the group commit delay, backpressure (a lost request), and a sender that gives
up early. A flush that failed is reported as unavailable storage and not repeated:
`DURABILITY_UNKNOWN`, which the client can handle, is never sent by this sidecar. An
admission that is answered from its receipt does not cross the barrier (`Admissions`,
`actor.rs:250`); the properties about answers leave these out, and the run has none.

Properties: `AnsweredSurvives` (what was answered is on the disk for good),
`RefusedHasNoEffect` (a request its sender was refused for its revision never takes effect,
through no earlier attempt either), `HandlesAreCurrent` (no job works on a session that the
cache has let go of), `ImplementsRequestService` (at most once, and answers stand).

### InputQueue

State and code: `queue` is `QueueState` (items in order, the forced one, the pending
delivery) as the projection mirrors it; `active`, `runs` and `fence` are the run pointer,
the run documents with the input they were admitted with, and whether a stop has fenced
the session; `saved` and `cached` are the injected messages that are in the history and
that the host has appended but not flushed. `owner` and `stopping` are the
`RunCoordinator`'s entry for the session, `loop` the place the turn is at, `tasks` the two
host tasks that turn an input into a run (`dispatchQueuedInput`, `submitGoalContinuation`),
`forcing` a `forceQueuedInput` that has marked its input and not dispatched it. `enqueued`
and `discarded` are history variables.

A command of the sidecar is one step. The host's reading of a snapshot and the command it
decides on are two steps, so everything may happen in between: `LoopReadsForce`,
`LoopSnapshot` and `LoopConsume` for the injection, `PickQueued` and `DispatchAdmit` for
the dispatch. A fault is a call that fails with or without its effect, an answer that was
lost and asked for again (`LaunchReused`), or the death of the host, after which recovery
ends the run it finds (`Recover`) before anything is admitted.

The loop that injects is `AgentLoopRuntime`, which is in the source and its tests and
speaks the sidecar's consume and acknowledge commands (as `scripts/runtime-sidecar-queue-smoke.ts`
does); `backend-registry.ts` of this commit runs turns through `RustNativeBackend`, which
never injects. Its behaviours are the ones of the model in which the loop takes no step.

`InputInbox` is the promise: an accepted input waits until it becomes a turn, a message of a
turn or an input the user took back, once and for good. An input waits while it is queued or
delivered and not yet a flushed message, so a host that dies with the message unflushed has not
settled it. `saved` says which messages were flushed; a restore that later cuts one out of the
conversation is the history's business and changes nothing here. A restore may also clear a
delivery whose message is saved and not acknowledged (the host died in between); `discarded`
records it, `InputInbox` counts it as the message it is.

Not in the model: runs that wait for an answer and their resumes, the reclaim of a pointer
(in `SessionLifecycle`), a stop that arrives before the launch, the retry of an
unconfirmed stop, and a second process that drives the same session.

Properties: `NoInputLost` (an accepted input is queued, being delivered, the input of a
run, a saved message, or was taken back), `HandledOnce` (at most one run or message comes
of it, and none while it is queued), `DeliveryAcknowledged`.

### EventFanout

State and code: `cursor`, `retained`, `first` are the last event, where replay starts and
what is in memory; `channel` is the mailbox of the subscription (`fan_out` drops a
subscriber whose mailbox is full), `pump` the task of `handle_wire_subscription` with its
backlog, its pending event and the `CreditWindow`; `toReader` and `toServer` are the wires;
`reader` is `RustRuntimeConnection` (cursor, last acknowledgement, the record it applies)
and `view` what the projector let through. Events are their sequence numbers.

`Subscribe` is one step because the sidecar reads the backlog and registers the mailbox
under the session's lock. `ReceiveEvent` and `Advance` are two: the record is applied,
then the connection awaits, then the cursor moves, and `Break`, `Restart` or an error may
come in between. `Recover(TRUE)` forgets the cursor and starts from a snapshot.

Left out: the limits in bytes (they refuse and stop like those in numbers), tickets and
heartbeats, a second subscription, the fallback to the Node stream. The reader runs on the
sidecar's machine, so a power loss takes it along and the log it follows never gets
shorter. A session in the old format may be loaded without its old events (`Load`).

Properties: `ViewIsPrefix` (the reader has applied the first events, each once and in
order), `FeedIsComplete` (what a subscription has yet to send has no gap and reaches the
last event while its mailbox is registered), `NeverMisjudged` (no reader is told that its
cursor or its acknowledgement is ahead of the session, which would repeat for ever),
`ReaderCatchesUp`.

### StopProtocol

State and code: `owner` is the session's entry in `RunCoordinator.owners` (its `task` is
`stopTask`: the confirmation it waits for, or the error it ended with), `finalizers` what its
stops were asked to run, by owner, because a confirmation that was given up keeps its owner;
`confirms` the `confirmStop` calls under way with the requests that wait for each, `retry` the
entry in `stopRetries`, `quarantine` the owner that `quarantinePersistenceFailure` waits for.
`fence` is `runtimeControl` in the metadata the host holds, `durable` the one of the sidecar;
`critical` and `normal` are the two lanes of `sidecar-client.ts`, each in order; `receipts`
are the command ids the sidecar has executed. `workers` says of each run whether its drive is
there, its worker or processes are left without one, were released by recovery, or are gone.
`requests` says what became of the request that asked for each stop, `ran` how often its
finalizer ran, by whoever ran it.

An await of the host is a boundary between steps: `Interrupt` (which begins a stop or joins
one) up to the first one, `ConfirmWorker` when driver and drive are done, `NormalCommand` when
`stop_ack` was answered, `ConfirmFinalize`, `ConfirmRelease`; `CriticalCommand` is the sidecar
executing `stop_begin`, which nobody awaits, or `stop_unconfirmed`, whose answer makes the stop
fail: the fence becomes "unconfirmed", a repetition is scheduled unless one is there, the
requests learn the error. A confirmation fails because the worker could not be stopped, in time
(`DELETE_TIMEOUT`, the error the cancel route takes for an unconfirmed stop) or otherwise,
because a command or a finalizer failed. `Overdue` gives a background attempt up while it goes
on. `DriveFails` is a drive whose outcome could not be written, `QuarantineSettles` and
`QuarantineFails` the two ends of the quarantine that follows. `Shutdown` is the finalizer of a
cancel request, `stopSessionAuthoritative`: it ends whatever run is active and writes the
metadata without the fence, whether a worker is alive or not. The confirmation runs it
(`ConfirmFinalize`), and so does the request that was told its stop is unconfirmed
(`StopShutdown`, `transport/http/agent-runtime.ts:1327`); both count in `ran`.

`Settle` is `recoverRuntimeSession`: it stops the recorded processes, releases those it cannot
stop (`left`) and settles the fences all the same. A run whose processes were released is not
finished (`runtime-recovery.ts:429-440`), so the pointer may stay at it until another host
recovers the session. Where neither a pointer, nor a fence in the sidecar, nor an unresolved
process is there, nothing is done and the host's fence stays (`runtime-recovery.ts:277`).

Assumed or left out: one quarantine at a time; the host's check of its fence and the sidecar's
of its own are one step of `Submit`; the reads before an await and the awaits between two
commands of the same finalizer are not boundaries; the archive of a session, which ends its run
by itself after the stop, is a stop without a finalizer (`Silent`); the stops of descendants,
the resume of waiting runs and a stop that races an admission in flight are not modelled. The
status of a session (the last part of the test at `runtime-recovery.ts:277`) is taken to be
none of those that make recovery go on: with one of them it would settle more.

Properties: `FinalizersOnce` (what the caller of a stop asked for is run once by the
confirmations, and once more only by the request that ran it itself), `AcknowledgedIsGone` (the
sidecar hears that a stop is confirmed only when the worker is gone), `StopHeals` (a fenced
session whose owner is stopping gets rid of the one or the other), and two claims that fail,
`OneWorker` and `FenceClears`.

## 3. Runs

| run | bounds | shows |
|---|---|---|
| `lifecycle_writers` | 2 runs, 1 generation, 1 writer, epochs to 3, 1 batch per writer | `FencedWritersStayOut`, `LiveWriterInStep` |
| `lifecycle_operations` | 2 runs, 2 generations, 1 maintenance operation, 1 permission, 1 form, epochs to 2 | `TypeOK`, `MaintenanceExcludesRuns`, `LiveExecutorKept` |
| `lifecycle_pointers` | as the first | violation, see below |
| `log` | 2 seals per segment, 3 transactions, every fault and every crash | `TypeOK`, `CrashKeepsCommits`, `OrderedLossReadable`, `FlushedSurvives`, `CheckpointRebuilds`, `UncommittedDiscarded`, `ImplementsDurableLog` |
| `log_rebuild` | rollbacks fail | violation |
| `log_unreadable` | unordered power loss | violation |
| `receipts` | 1 request of up to 3 frames, 2 others, a ring of 2 | `TypeOK`, `AnsweredSurvives`, `RefusedHasNoEffect`, `HandlesAreCurrent`, `ImplementsRequestService` |
| `queue` | 2 inputs, 3 runs, a queue of 2, 2 faults | `TypeOK`, `NoInputLost`, `HandledOnce`, `DeliveryAcknowledged`, `ImplementsInputInbox` |
| `fanout` | window 3, mailbox 2, 2 credits, 5 events, 2 faults, 1 ephemeral frame | `TypeOK`, `ViewIsPrefix`, `FeedIsComplete`, `NeverMisjudged`, `ReaderCatchesUp` |
| `stop` | 2 runs, 2 stops, 1 background attempt, 2 confirmations at a time, 2 faults (a call, a drive, the host) | `TypeOK`, `FinalizersOnce`, `AcknowledgedIsGone`, `StopHeals` |
| `stop_worker` | 3 runs, 1 stop, 1 background attempt, 1 confirmation at a time, 1 failing call | violation |
| `stop_fence` | 1 run, 2 stops, no fault | violation |

Two runs are enough for the lifecycle because every guard compares at most the pointed
run with one other; three epochs allow a fence, a takeover and a further fence. In the
runs that need it a patch may only clear the run pointer (`PatchRuns = {None}`), which is
what the host sends; patches that name runs are covered by the theorems except for
`MaintenanceExcludesRuns`, which needs that assumption. Three transactions cross a segment
boundary with two seals before it and one behind it, with a checkpoint in either segment.
Three frames of one request allow an attempt that timed out, a refusal and a new revision
next to it; two others move the revision twice and, with a ring of two, push the receipt out
if nothing kept it (the run is about one followed request, since jobs of different requests
meet only in the log and the slot; two with two frames each were checked as well and are not
kept as a run). Two inputs
are the least that can be reordered and the least of which one is forced past the other;
three runs allow a turn that is followed by the turns of both, or a turn between them; two
faults allow a host to die and the restarted one to lose an answer. Five events overflow a
mailbox of two behind two credits and expire from a window of three, before and after a
reconnection. Two stops of two runs allow one to repeat, to join or to be overtaken by the
next; two faults are the least with which one repetition is suppressed by another (both stops
fail), with which a repetition fails as well, or with which a host dies in the middle of a
failed stop. The three invariants of `stop` hold with a third fault too (5.2 million states) and
with a stop that has no finalizer (`Silent = {2}`); with three runs, three stops, three
confirmations at a time and two background attempts TLC met no violation among the first 6.7
million states, a search that was not finished. The theorems hold for all of these bounds.

Deadlock is not checked where the bounds stop the system: the lifecycle has a last epoch,
the queue a last run, `receipts` a last frame, `fanout` a last event, `stop` a last run. It
is checked for the log.

Fairness. `DeliveryAcknowledged` assumes it of the loop's steps: the loop awaits one call
after the other, and a call is answered or fails when its deadline (45 s of retries) has
passed. `ReaderCatchesUp` assumes it of the subscription's task in the sidecar and of the
reader's promises and timers (25 ms for an acknowledgement, reconnection after an error);
broken connections and restarts are finitely many. `StopHeals` assumes weak fairness of
`Progress`, one disjunction: as long as an aborted worker can end, a promise, a timer or a
command in the sidecar can go on, a host that died can be started, or somebody can submit to a
fenced session (the submission repeats a stop whose background attempts are used up), some of
this happens; nothing says which. No fairness is assumed of users, dispatchers or faults.

`StopHeals` speaks of the host's fence and owner, and is as strong as the code allows. That an
owner which is stopping is always released, fence or not, holds with one fault and fails with
two: a stop fails, the request that was told so runs its finalizer, which clears the host's
fence, and then the repetition fails too; or it is never scheduled, because that of an earlier
stop still sleeps (`run-coordinator.ts:908`). A submission looks at the owner only when it finds
the host's fence, so the owner stays, and with it the fence `stop_unconfirmed` left in the
sidecar: submissions are refused until a restart.

### What the violations say

* `lifecycle_pointers`: a comment in `hot/control.rs` says projection and durable pointer
  never disagree about the live run. A stop of the previous run that arrives after the
  next admission (the host does not await `stop_begin`) makes them disagree, and the
  next run's appends are refused.
* `log_rebuild`: a rollback whose truncation fails leaves the extent advanced; a
  checkpoint stores it, and without that checkpoint the replay applies a transaction
  that was reported as failed.
* `log_unreadable`: seals and data are separate files without an order between them until
  the barrier; a power loss can keep a seal without its data, and then the load refuses
  the flushed transactions too, which the sidecar's README promises to keep readable.
* `stop_worker`: a comment of the coordinator says that the fence keeps the next turn out until
  the worker is really gone, another that finalizers run once. The cancel route passes
  `stopShutdown` as the finalizer and, when the stop is unconfirmed, calls it directly as well;
  it stays with the owner. In the run the first call clears the host's fence while the stop is
  repeated in the background, the repetition's `stop_ack` lets the sidecar's down, a second run
  is admitted, and then the repetition runs the finalizer again: it ends the run that is active
  now, the second, whose worker goes on, and a third run is admitted next to it. A second
  worker also appears when a release lets down the fence of a later stop
  (`run-coordinator.ts:856` writes `runtimeControl: null` whoever's fence it is), or when
  recovery releases processes it could not stop.
* `stop_fence`: a comment of the coordinator says the fence clears itself once the worker is
  gone. `stop_begin` has its reason in its request id and `stop_ack` has not, so a run that is
  stopped twice for different reasons raises the sidecar's fence twice and lowers it once: the
  second `stop_ack` is answered from the receipt of the first. Or a `stop_begin`, which nobody
  awaits and which travels in a lane of its own, commits behind the `stop_ack` of its stop. The
  host has no fence any more and nobody repeats anything; admissions are refused until a restart.

## 4. Proofs

`SessionLifecycleProofs` proves, for every value of the constants that satisfies
`ConstantsAssumption`:

* `TypeCorrect`: `TypeOK` is invariant;
* `FencedWritersAreOut`, `LiveWritersInStep`: from one inductive invariant that says a
  fenced writer's epoch is behind the session's, an open writer's epoch is not ahead of
  it, and the writers of the current epoch have sent what the session counted. The
  properties themselves are not inductive: a fenced writer is out only because the epoch
  moved when it was fenced and never moves back;
* `LiveExecutorIsKept`: every action is examined under the hypothesis that the lease of
  the pointed run is open, and keeps the pointer with the epoch, or is one of the three that
  may take it away: the run's own finish, a restore, the settling rule;
* `MaintenanceExclusion`: under `PatchRuns \subseteq {None}`.

`RequestReceiptsProofs` proves, for every set of requests, every number of frames and every
size of the ring:

* `TypeOKHolds`, `HandlesAreCurrentHolds`, `AnsweredSurvivesHolds`, from the inductive
  invariant `IInv`. Its core is `Durable` with `Evicting`: a job that has committed and not
  yet flushed has its commit on the disk or in an open session, because an eviction goes
  through only if nobody touched the slot since it flushed. The second look inside the lock
  is what `Evicting` speaks about; without it the barrier of such a job finds no session and
  flushes nothing;
* `ServiceImplemented`: every step is one of `RequestService` or changes nothing it knows of.
  At most once needs `Kept` (the receipt of a pending request is in the ring, and is read
  back from the log when the session is opened again), where `Retained` enters, `Current`
  (the memory of an open session is what the log says) and `Held`;
* `RefusedHasNoEffectHolds`: from `Fenced`, which bounds the revision of every frame of a
  request by the one its sender uses, and a refused one by the log. The sender takes a newer
  revision only while it hears of a single frame.

`EventFanoutProofs` proves, for every window, mailbox, number of credits and every bound,
`InvariantHolds`, and from it `ViewIsPrefixHolds` and `NeverMisjudgedHolds`. `ViewIsPrefix` alone
is inductive only together with `Applied` and `Ascending` (the cursor never runs ahead of what
was applied, and what is under way comes in order). `NeverMisjudged` rests on `Handshake`: the
reader asks once per connection and nothing else is on the wires until it is answered, so the
cursor it asked with is still its cursor when the sidecar compares it; and on `Sent` and `Fair`:
every acknowledgement on the way names something that was sent on this connection.

`FeedIsCompleteHolds` and `TypeOKHolds` come from the same invariant. `Due` is the set of events a
subscription owes; `Gapless` says that it is an interval, and that while the mailbox is registered
it reaches the session's cursor, or nothing is owed and the cursor was sent. A mailbox that is full
ends the registration in the same step, and a new subscription closes the gap from the backlog. That the backlog has what it should needs `Windowed`: a session
that has no event in memory retains none, so it refuses a reader that is behind. `Counted`, `Roomy`,
`Credited` and `Known` are the bounds of `TypeOK`: counters, mailbox, credits, and that nobody
speaks of an event that does not exist.

`SegmentLogProofs` proves, for any number of transactions and seals per segment and for every fault
and crash, `TypeOKHolds`, `CrashKeepsCommitsHolds`, `OrderedLossReadableHolds`, `FlushedSurvivesHolds`,
`CheckpointRebuildsHolds`, `UncommittedDiscardedHolds`, and `DurableLogImplemented`, the refinement of
`DurableLog`. The properties are about what a replay of the files would yield, so none of them is
inductive: a step keeps what a replay yields only if the frames are where they should be, for the
point recovery picks now and for the one it picks behind the next publication, or when the
prepared checkpoint is lost. `Inv` therefore speaks of every point in `Points` (the start of the
log, the published and the prepared checkpoint):

* `Shape`: the segments behind the newest are whole (`FrozenPart`), what they and the checkpoint hold
  is a prefix of the session (`BasePart`), and in the newest segment every transaction is at its
  place, or a torn frame is, or nothing (`SealsPart`, `ControlsPart`, `EventsPart`);
* `DurablePart`: what was flushed is behind seals that are synced, out of reach of a crash;
* `Sound`: whatever a seal counts is whole, unless a power loss kept writes out of order; in an open
  session always, because the load has checked it;
* `OpenPart`: the frames of the transaction under way are behind the reach of the replay and no seal
  counts them;
* `Aligned`: a point enters the newest segment where the start of the log does, unless a rollback
  failed; this is what `CheckpointRebuilds` needs;
* `Refused`: a session that a power loss made unreadable has nothing left to lose.

`SegmentLogReplay` turns these into what a replay yields. Its operators flatten sequences of segments;
the prover cannot do induction over an operator, but `FlattenSeq` is a recursive function, whose
results `SequenceLemmas` proves from a least counterexample.

`InputQueueProofs` proves, for any inputs and runs, any capacity of the queue and any number of
faults, `TypeOKHolds`, `NoInputLostHolds` and `HandledOnceHolds`, all from `IInv`. The books
(`Accounted`, `Handled`) say what has become of each input; they stay right because of where the
actors are. `LoopInStep`: a turn that is about to save an input has the delivery of exactly that
input, and one that is about to acknowledge it has appended it, so the flush before the command
saves it. `Ownership` and `AdmittedAlone`: a stop holds the fence, so an admission finds no
owner, and until its launch nobody executes anything; hence nobody takes the session from a
turn in the middle of an injection. The lemmas about `RemoveAt` and `InsertAt` on sequences
without repeats come first. `InputInboxImplemented` is the refinement of `InputInbox`; it needs
two more parts of `IInv`. `Unflushed`: the host holds back at most the message of the pending
delivery, and only during a turn, so a restore, which waits for the end of the turn, cannot take
back an input that is flushed as a message afterwards. `TakenBack`: an input that was taken back
is neither queued nor delivered again.

`StopProtocolProofs` proves, for any number of runs, stops, confirmations at a time, repetitions
and faults, with or without finalizers, `TypeOKHolds`, `FinalizersOnceHolds` and
`AcknowledgedIsGoneHolds`, all from `IInv`, which `InvariantHolds` states. `InStep` says that
whoever confirms or repeats a stop of the present owner finds it stopping, which needs that an
owner gets an id nothing in use has (`FreshIdIsNew`, by counting: the code compares references);
`Joined` that a stop which can be joined is still confirmed; `Lanes` that a command somebody
waits for is the only one of its confirmation.

`Once` follows a finalizer: it is kept for one owner, its request waits for one confirmation, and
as long as it is kept it was run only by its request, if at all. Taking all finalizers of an
owner and forgetting them in one step is therefore safe however many confirmations overlap, and
the second run of `FinalizersOnce` can come only from the request, which does it once because it
is then `ended`. `Gone` says that what the sidecar has executed as acknowledged, or is about to,
names a run that has begun and whose worker is gone or was released; a run that is over does not
begin again, because runs begin one after the other.

What the theorems assume is `ConstantsAssumption` of each module, which TLC evaluates in the
runs, and for `MaintenanceExclusion` the restriction on patches.

Model-checked only: liveness (`ReaderCatchesUp`, `DeliveryAcknowledged`, `StopHeals`) and
everything about `ENABLED`. All invariants and action properties of the passing runs, and the
three refinements, are stated by a theorem.

## 5. State of the plan

Done: `SessionLifecycle`, `RequestReceipts` and `EventFanout` with their proofs, `SegmentLog`
with `DurableLog`, `InputQueue` with `InputInbox`, and `StopProtocol`, each with its proofs.
Next would be the parts below.

### Not modelled

* Process leases, agent loop, history store, summary cache, subagents, compaction, auto
  resume, resource admission, merge requests, file generation, super coding, updater: each
  keeps state of its own and could be modelled like the parts above; they are further from
  the durable core than what was done. `PROJECT.json` has a line for each.
* The limits in bytes of the window, the queue and the client, and the encodings: they
  refuse or stop like the limits in numbers, or are data conversion.
* The legacy log of version 1 and its migration, and session deletion.
* The user interface beyond its connection, the tools, the adapters to providers and
  processes, the command line, tests, scripts and benchmarks. They are most of the
  repository's lines: the share of the implementation that the modules cover is small, and
  is the part that decides whether a session is kept, run once, stopped and shown.
* Known and not stated as a property: when the answer to the dispatcher's admission is lost, the
  client repeats the request and the receipt answers `reused`; `dispatchQueuedInputOnce`
  (`run-coordinator.ts:280`) launches only a run that was not reused, so this one stays queued
  without an executor until a restart (`InputQueue` models it, `LaunchReused`; `launchAccepted`
  goes by what the host executes and has no such gap); recovery leaves the host's fence in the metadata when
  the host died between `stop_ack` and the write that removes it (`runtime-recovery.ts:277`;
  `Settle` models it); an admission that is answered from its receipt after a failed flush
  may be lost with the power (`actor.rs:250`; `Admissions` models it).
