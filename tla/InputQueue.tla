----------------------------- MODULE InputQueue -----------------------------
(***************************************************************************)
(* The input queue of one session: what the user typed while a turn was    *)
(* running.  An input leaves the queue in one of two ways.  Between turns  *)
(* a dispatcher of the host admits it as a new run, and the sidecar takes  *)
(* it off the queue in that same transaction.  During a turn the running   *)
(* loop may take the input the user forced to the front: the sidecar turns *)
(* it into a pending delivery, the host saves it as a message of the       *)
(* conversation, flushes, and acknowledges the delivery.                   *)
(*                                                                         *)
(* Each command of the sidecar is atomic, but the host reads a snapshot,   *)
(* decides, and sends the command later; an answer may stay away after the *)
(* command took effect; and the host may die between any two steps.  A     *)
(* conflict of revisions is retried with the same payload and is no step.  *)
(*                                                                         *)
(* The loop that injects is AgentLoopRuntime.  The backend registry runs   *)
(* turns through RustNativeBackend, which leaves the forced input to the   *)
(* dispatchers: its turns are the ones that stay at "step".                *)
(***************************************************************************)
EXTENDS Integers, FiniteSets, SequencesExt

CONSTANTS Items,     \* ids of queued inputs, each enqueued at most once
          Runs,      \* run ids, each admitted at most once
          None,
          MaxQueue,  \* MAX_QUEUE
          MaxFaults  \* bound: host deaths, failed calls and lost answers

ASSUME ConstantsAssumption ==
  /\ None \notin Items \cup Runs
  /\ MaxQueue \in Nat \ {0}
  /\ MaxFaults \in Nat

(* The tasks of the host that start a queued input as a turn: the queue    *)
(* dispatch after a turn or a request, and the continuation of a goal.     *)
Dispatchers == {"queue", "goal"}

VARIABLES
  queue,      \* QueueState: items, force_inject_item_id, delivery
  active,     \* SnapshotCond.active_run_id
  runs,       \* the run documents: status and the input they were admitted with
  fence,      \* ControlState.runtime_control is set by a stop
  saved,      \* messages in the history, <<run, input>>
  cached,     \* messages the host has appended but not flushed
  owner,      \* RunCoordinator.owners: the run this host executes
  stopping,   \* Owner.stopping
  loop,       \* the turn: where it is, and the input it works on
  tasks,      \* the dispatchers
  forcing,    \* a forceQueuedInput has marked its input and not yet dispatched
  last,       \* how the latest run ended, the session's status between turns
  recovered,  \* SessionRecovery.completed has the session
  enqueued,   \* history variable: inputs that were accepted
  discarded,  \* history variable: inputs that were removed or restored away
  faults

sidecar == <<queue, active, runs, fence, saved>>
host == <<cached, owner, stopping, loop, tasks, forcing, last, recovered>>
history == <<enqueued, discarded, faults>>
vars == <<sidecar, host, history>>

NoDelivery == [run |-> None, item |-> None]

Queued(q) == ToSet(q.items)

(*-------------------------- QueueState::apply ---------------------------*)
Position(q, i) == CHOOSE k \in DOMAIN q.items : q.items[k] = i

(* Mutant: the marker outlives its input.                                  *)
RemovedKeepsForce(q, i) ==
  [q EXCEPT !.items = RemoveAt(@, Position(q, i))]

(* An input that leaves the queue takes the force marker with it.          *)
Removed(q, i) ==
  [q EXCEPT !.items = RemoveAt(@, Position(q, i)),
            !.force = IF @ = i THEN None ELSE @]

Moved(q, i, to) ==
  [q EXCEPT !.items = InsertAt(RemoveAt(@, Position(q, i)), to, i)]

Consumed(q, i, r) ==
  [Removed(q, i) EXCEPT !.delivery = [run |-> r, item |-> i]]

(* What `validate' demands of every state a command leaves.                *)
Valid(q) ==
  /\ Len(q.items) <= MaxQueue
  /\ IsInjective(q.items)
  /\ q.force \in Queued(q) \cup {None}

(*------------------------ Commands of the user --------------------------*)
EnqueueItem(i) ==
  /\ i \notin enqueued
  /\ Len(queue.items) < MaxQueue
  /\ queue' = [queue EXCEPT !.items = Append(@, i)]
  /\ enqueued' = enqueued \cup {i}
  /\ UNCHANGED <<active, runs, fence, saved, host, discarded, faults>>

RemoveItem(i) ==
  /\ i \in Queued(queue)
  /\ queue' = Removed(queue, i)
  /\ discarded' = discarded \cup {i}
  /\ UNCHANGED <<active, runs, fence, saved, host, enqueued, faults>>

MoveItem(i, to) ==
  /\ i \in Queued(queue)
  /\ to \in DOMAIN queue.items \ {Position(queue, i)}
  /\ queue' = Moved(queue, i, to)
  /\ UNCHANGED <<active, runs, fence, saved, host, history>>

MarkForceInject(i) ==
  /\ i \in Queued(queue)
  /\ queue' = [queue EXCEPT !.force = i]
  /\ forcing' = TRUE
  /\ UNCHANGED <<active, runs, fence, saved, cached, owner, stopping, loop, tasks,
                 last, recovered, history>>

(* Mutant: a restore during a turn.                                        *)
RestoreDuringTurn ==
  /\ ~fence
  /\ discarded' = discarded \cup Queued(queue) \cup ({queue.delivery.item} \ {None})
  /\ queue' = [items |-> <<>>, force |-> None, delivery |-> NoDelivery]
  /\ UNCHANGED <<active, runs, fence, saved, host, enqueued, faults>>

(* A history restore empties the queue, a pending delivery included.       *)
Restore ==
  /\ active = None
  /\ ~fence
  /\ discarded' = discarded \cup Queued(queue) \cup ({queue.delivery.item} \ {None})
  /\ queue' = [items |-> <<>>, force |-> None, delivery |-> NoDelivery]
  /\ UNCHANGED <<active, runs, fence, saved, host, enqueued, faults>>

(*------------------------------- Runs -----------------------------------*)
(* What an admission asks of the session; the reclaim of a pointer left    *)
(* behind by an unfinished run is not part of this module.                 *)
Admissible(r) ==
  /\ recovered
  /\ runs[r].status = "new"
  /\ active = None
  /\ ~fence
  /\ queue.delivery = NoDelivery

Admitted(r, i) ==
  /\ active' = r
  /\ runs' = [runs EXCEPT ![r] = [status |-> "queued", item |-> i]]

(* The user sends a turn directly; `launchAccepted' launches the run even  *)
(* when the admission was answered from its receipt.                       *)
Submit(r) ==
  /\ owner = None
  /\ Admissible(r)
  /\ Admitted(r, None)
  /\ owner' = r
  /\ UNCHANGED <<queue, fence, saved, cached, stopping, loop, tasks, forcing, last,
                 recovered, history>>

Activate ==
  /\ owner # None
  /\ active = owner
  /\ runs[owner].status = "queued"
  /\ ~fence
  /\ runs' = [runs EXCEPT ![owner].status = "running"]
  /\ loop' = [at |-> "step", item |-> None]
  /\ UNCHANGED <<queue, active, fence, saved, cached, owner, stopping, tasks,
                 forcing, last, recovered, history>>

(* Mutant: a turn may end before it acknowledged what it consumed.         *)
FinishAnywhere ==
  /\ owner # None
  /\ active = owner
  /\ cached = {}
  /\ active' = None
  /\ runs' = [runs EXCEPT ![owner].status = "ended"]
  /\ loop' = [at |-> "off", item |-> None]
  /\ last' = IF stopping THEN "interrupted" ELSE "completed"
  /\ owner' = IF stopping THEN owner ELSE None
  /\ UNCHANGED <<queue, fence, saved, cached, stopping, tasks, forcing, recovered, history>>

(* The turn ends between two injections, or because a call failed; what it *)
(* appended is flushed before the run is finished.                         *)
Finish ==
  /\ owner # None
  /\ active = owner
  /\ loop.at \in {"off", "step", "failed"}
  /\ cached = {}
  /\ active' = None
  /\ runs' = [runs EXCEPT ![owner].status = "ended"]
  /\ loop' = [at |-> "off", item |-> None]
  /\ last' \in IF stopping THEN {"interrupted"}
               ELSE IF loop.at = "step" THEN {"completed", "failed"} ELSE {"failed"}
  /\ owner' = IF stopping THEN owner ELSE None
  /\ UNCHANGED <<queue, fence, saved, cached, stopping, tasks, forcing, recovered, history>>

Interrupt ==
  /\ owner # None
  /\ ~stopping
  /\ stopping' = TRUE
  /\ fence' = TRUE
  /\ UNCHANGED <<queue, active, runs, saved, cached, owner, loop, tasks, forcing, last,
                 recovered, history>>

ConfirmStop ==
  /\ stopping
  /\ active = None
  /\ fence' = FALSE
  /\ stopping' = FALSE
  /\ owner' = None
  /\ UNCHANGED <<queue, active, runs, saved, cached, loop, tasks, forcing, last,
                 recovered, history>>

(* The host dies.  The restarted one ends the run it finds before it       *)
(* admits anything.                                                        *)
HostDies ==
  /\ faults < MaxFaults
  /\ faults' = faults + 1
  /\ cached' = {}
  /\ owner' = None
  /\ stopping' = FALSE
  /\ loop' = [at |-> "off", item |-> None]
  /\ tasks' = [d \in Dispatchers |-> [at |-> "idle", item |-> None, run |-> None]]
  /\ forcing' = FALSE
  /\ recovered' = FALSE
  /\ UNCHANGED <<sidecar, last, enqueued, discarded>>

Recover ==
  /\ ~recovered
  /\ recovered' = TRUE
  /\ active' = None
  /\ runs' = IF active = None THEN runs ELSE [runs EXCEPT ![active].status = "ended"]
  /\ last' = IF active = None /\ ~fence THEN last ELSE "interrupted"
  /\ fence' = FALSE
  /\ UNCHANGED <<queue, saved, cached, owner, stopping, loop, tasks, forcing, history>>

(*------------------------ Injection into a turn -------------------------*)
(* A call of the loop succeeds, or fails and so ends the turn.             *)
CallReturns(at, i) ==
  /\ loop' = [at |-> at, item |-> i]
  /\ UNCHANGED faults

CallFails ==
  /\ faults < MaxFaults
  /\ faults' = faults + 1
  /\ loop' = [loop EXCEPT !.at = "failed"]

(* getForceInjectId at a boundary of the turn, before anything is saved.   *)
LoopReadsForce ==
  /\ loop.at = "step"
  /\ LET i == IF queue.delivery = NoDelivery THEN queue.force ELSE queue.delivery.item
     IN  /\ i # None
         /\ loop' = [at |-> "forced", item |-> i]
  /\ UNCHANGED <<sidecar, cached, owner, stopping, tasks, forcing, last, recovered, history>>

(* consumeForced reads again: a delivery of this run is taken up, another  *)
(* run's is an error, and a forced input that changed is left alone.       *)
LoopSnapshot ==
  /\ loop.at = "forced"
  /\ \/ /\ queue.delivery.run = owner
        /\ loop' = [at |-> "apply", item |-> queue.delivery.item]
     \/ /\ queue.delivery = NoDelivery
        /\ queue.force # loop.item
        /\ loop' = [at |-> "step", item |-> None]
     \/ /\ queue.delivery = NoDelivery
        /\ queue.force = loop.item
        /\ loop' = [loop EXCEPT !.at = "consume"]
     \/ /\ queue.delivery.run \notin {None, owner}
        /\ loop' = [loop EXCEPT !.at = "failed"]
  /\ UNCHANGED <<sidecar, cached, owner, stopping, tasks, forcing, last, recovered, history>>

(* queue_mutation `consume': the run is still the active one and the input *)
(* still the forced one.                                                   *)
Consumable(i) ==
  /\ active = owner
  /\ queue.force = i
  /\ queue.delivery = NoDelivery

LoopConsume ==
  /\ loop.at = "consume"
  /\ Consumable(loop.item)
  /\ queue' = Consumed(queue, loop.item, owner)
  /\ CallReturns("apply", loop.item) \/ CallFails
  /\ UNCHANGED <<active, runs, fence, saved, cached, owner, stopping, tasks,
                 forcing, last, recovered, enqueued, discarded>>

LoopConsumeRefused ==
  /\ loop.at = "consume"
  /\ ~Consumable(loop.item)
  /\ loop' = [loop EXCEPT !.at = "failed"]
  /\ UNCHANGED <<sidecar, cached, owner, stopping, tasks, forcing, last, recovered, history>>

(* The message's id is made of run and input, so it is appended once.      *)
LoopApply ==
  /\ loop.at = "apply"
  /\ cached' = cached \cup ({<<owner, loop.item>>} \ saved)
  /\ loop' = [loop EXCEPT !.at = "ack"]
  /\ UNCHANGED <<sidecar, owner, stopping, tasks, forcing, last, recovered, history>>

HostFlush ==
  /\ cached # {}
  /\ saved' = saved \cup cached
  /\ cached' = {}
  /\ UNCHANGED <<queue, active, runs, fence, owner, stopping, loop, tasks, forcing, last,
                 recovered, history>>

(* Mutant: the acknowledgement does not wait for the flush.                *)
AcknowledgeUnflushed ==
  /\ loop.at = "ack"
  /\ queue.delivery = [run |-> owner, item |-> loop.item]
  /\ queue' = [queue EXCEPT !.delivery = NoDelivery]
  /\ CallReturns("step", None) \/ CallFails
  /\ UNCHANGED <<active, runs, fence, saved, cached, owner, stopping, tasks,
                 forcing, last, recovered, enqueued, discarded>>

(* Every queue command first flushes what the host has appended.           *)
LoopAcknowledge ==
  /\ loop.at = "ack"
  /\ cached = {}
  /\ queue.delivery = [run |-> owner, item |-> loop.item]
  /\ queue' = [queue EXCEPT !.delivery = NoDelivery]
  /\ CallReturns("step", None) \/ CallFails
  /\ UNCHANGED <<active, runs, fence, saved, cached, owner, stopping, tasks,
                 forcing, last, recovered, enqueued, discarded>>

(* A call that failed without an effect.                                   *)
LoopCallLost ==
  /\ loop.at \in {"forced", "consume", "ack"}
  /\ CallFails
  /\ UNCHANGED <<sidecar, cached, owner, stopping, tasks, forcing, last, recovered,
                 enqueued, discarded>>

(*------------------------------ Dispatch --------------------------------*)
TaskMoves(d, at, i, r) ==
  tasks' = [tasks EXCEPT ![d] = [at |-> at, item |-> i, run |-> r]]

(* dispatchQueuedInputOnce: the forced input, or else the oldest.  Only a  *)
(* user's force starts it after a turn that did not complete.              *)
PickQueued(forced) ==
  /\ tasks["queue"].at = "idle"
  /\ owner = None /\ active = None /\ ~fence
  /\ IF forced THEN forcing ELSE last = "completed"
  /\ queue.items # <<>>
  /\ TaskMoves("queue", "picked",
               IF queue.force # None THEN queue.force ELSE Head(queue.items), None)
  /\ forcing' = (forcing /\ ~forced)
  /\ UNCHANGED <<sidecar, cached, owner, stopping, loop, last, recovered, history>>

(* submitGoalContinuation: the forced input replaces the goal's own text.  *)
PickForGoal ==
  /\ tasks["goal"].at = "idle"
  /\ owner = None
  /\ last = "completed"
  /\ queue.force # None
  /\ TaskMoves("goal", "picked", queue.force, None)
  /\ UNCHANGED <<sidecar, cached, owner, stopping, loop, forcing, last, recovered, history>>

(* Mutant: the admission leaves the input on the queue.                    *)
DispatchAdmitKeeps(d, r) ==
  /\ tasks[d].at = "picked"
  /\ tasks[d].item \in Queued(queue)
  /\ Admissible(r)
  /\ Admitted(r, tasks[d].item)
  /\ TaskMoves(d, "admitted", tasks[d].item, r)
  /\ UNCHANGED <<queue, fence, saved, cached, owner, stopping, loop, forcing, last,
                 recovered, history>>

(* run_admission with a queue item: the stored input is compared and taken *)
(* off the queue in the admission's own transaction.                       *)
DispatchAdmit(d, r) ==
  /\ tasks[d].at = "picked"
  /\ tasks[d].item \in Queued(queue)
  /\ Admissible(r)
  /\ Admitted(r, tasks[d].item)
  /\ queue' = Removed(queue, tasks[d].item)
  /\ TaskMoves(d, "admitted", tasks[d].item, r)
  /\ UNCHANGED <<fence, saved, cached, owner, stopping, loop, forcing, last, recovered, history>>

DispatchRefused(d) ==
  /\ tasks[d].at = "picked"
  /\ TaskMoves(d, "idle", None, None)
  /\ UNCHANGED <<sidecar, cached, owner, stopping, loop, forcing, last, recovered, history>>

Launch(d) ==
  /\ tasks[d].at = "admitted"
  /\ owner' = tasks[d].run
  /\ TaskMoves(d, "idle", None, None)
  /\ UNCHANGED <<sidecar, cached, stopping, loop, forcing, last, recovered, history>>

(* The answer was lost and the client sent the admission again: the        *)
(* receipt answers `reused'.  The queue dispatch then takes the run for    *)
(* somebody else's; the goal continuation goes by what this host executes, *)
(* unless no answer came within the client's deadline.                     *)
LaunchReused(d) ==
  /\ tasks[d].at = "admitted"
  /\ faults < MaxFaults
  /\ faults' = faults + 1
  /\ owner' \in {owner} \cup IF d = "goal" /\ owner = None THEN {tasks[d].run} ELSE {}
  /\ TaskMoves(d, "idle", None, None)
  /\ UNCHANGED <<sidecar, cached, stopping, loop, forcing, last, recovered, enqueued, discarded>>

-----------------------------------------------------------------------------
Init ==
  /\ queue = [items |-> <<>>, force |-> None, delivery |-> NoDelivery]
  /\ active = None
  /\ runs = [r \in Runs |-> [status |-> "new", item |-> None]]
  /\ fence = FALSE
  /\ saved = {} /\ cached = {}
  /\ owner = None /\ stopping = FALSE
  /\ loop = [at |-> "off", item |-> None]
  /\ tasks = [d \in Dispatchers |-> [at |-> "idle", item |-> None, run |-> None]]
  /\ last = "none"
  /\ forcing = FALSE /\ recovered = TRUE
  /\ enqueued = {} /\ discarded = {}
  /\ faults = 0

UserStep ==
  \/ \E i \in Items :
       \/ EnqueueItem(i) \/ RemoveItem(i) \/ MarkForceInject(i)
       \/ \E to \in 1 .. MaxQueue : MoveItem(i, to)
  \/ Restore
  \/ Interrupt
  \/ \E r \in Runs : Submit(r)

LoopStep ==
  \/ LoopReadsForce \/ LoopSnapshot
  \/ LoopConsume \/ LoopConsumeRefused
  \/ LoopApply \/ HostFlush \/ LoopAcknowledge

HostStep ==
  \/ Activate \/ Finish \/ ConfirmStop \/ Recover
  \/ PickForGoal
  \/ \E forced \in BOOLEAN : PickQueued(forced)
  \/ \E d \in Dispatchers :
       \/ DispatchRefused(d) \/ Launch(d)
       \/ \E r \in Runs : DispatchAdmit(d, r)

Fault ==
  \/ HostDies \/ LoopCallLost
  \/ \E d \in Dispatchers : LaunchReused(d)

Next == UserStep \/ LoopStep \/ HostStep \/ Fault

(* A turn goes on: its awaited calls are answered or time out.             *)
Fairness == WF_vars(LoopStep)

Spec == Init /\ [][Next]_vars /\ Fairness

(*------------------------------ Properties ------------------------------*)
Messages == saved \cup cached

(* Everything that has become of an input.                                 *)
Turns(i) == {r \in Runs : runs[r].item = i}
Injections(i) == {r \in Runs : <<r, i>> \in Messages}

(* The values are the ones the code stores, `validate' never refuses what  *)
(* a command left, and an input on its way is no longer queued.            *)
TypeOK ==
  /\ queue \in [items : Seq(Items), force : Items \cup {None},
                delivery : [run : Runs, item : Items] \cup {NoDelivery}]
  /\ Valid(queue)
  /\ queue.delivery.item \notin Queued(queue)
  /\ active \in Runs \cup {None}
  /\ runs \in [Runs -> [status : {"new", "queued", "running", "ended"},
                       item : Items \cup {None}]]
  /\ fence \in BOOLEAN /\ stopping \in BOOLEAN
  /\ forcing \in BOOLEAN /\ recovered \in BOOLEAN
  /\ saved \subseteq Runs \X Items /\ cached \subseteq Runs \X Items
  /\ owner \in Runs \cup {None}
  /\ loop \in [at : {"off", "step", "forced", "consume", "apply", "ack", "failed"},
               item : Items \cup {None}]
  /\ tasks \in [Dispatchers -> [at : {"idle", "picked", "admitted"},
                               item : Items \cup {None}, run : Runs \cup {None}]]
  /\ last \in {"none", "completed", "failed", "interrupted"}
  /\ enqueued \subseteq Items /\ discarded \subseteq Items
  /\ faults \in 0 .. MaxFaults

(* No input is lost: what was accepted is queued, on its way into a turn,  *)
(* the input of a run, a message that survives the host, or was taken back *)
(* by the user.  In between the host may die and answers may be lost.      *)
NoInputLost ==
  \A i \in enqueued :
    \/ i \in Queued(queue)
    \/ i = queue.delivery.item
    \/ Turns(i) # {}
    \/ \E r \in Runs : <<r, i>> \in saved
    \/ i \in discarded

(* No input is handled twice: it becomes one turn or one message of one    *)
(* turn, and not while it is still queued, whichever of the loop, the      *)
(* dispatch and the goal continuation came first.                          *)
HandledOnce ==
  \A i \in Items :
    /\ Cardinality(Turns(i)) + Cardinality(Injections(i)) <= 1
    /\ i \in Queued(queue) => Turns(i) \cup Injections(i) = {}

(* An input the sidecar has handed to a turn is acknowledged, also when    *)
(* the user stops the turn meanwhile, unless a call failed or the host     *)
(* died: until then it bars every admission.                               *)
DeliveryAcknowledged ==
  (queue.delivery # NoDelivery) ~> (queue.delivery = NoDelivery \/ faults > 0)

(* A message counts from its flush.  A restore may record as taken back an *)
(* input whose message is saved and not yet acknowledged: it is a message. *)
SavedItems == {m[2] : m \in saved}
Waiting == (Queued(queue) \cup {queue.delivery.item}) \ ({None} \cup SavedItems)
Started == {p \in Runs \X Items : runs[p[1]].item = p[2]}
Withdrawn == discarded \ SavedItems

Inbox == INSTANCE InputInbox
           WITH waiting <- Waiting, turns <- Started, messages <- saved,
                withdrawn <- Withdrawn

(* The queue keeps its promise: an accepted input waits until it becomes   *)
(* one turn, one message or a withdrawn input, and stays what it became,   *)
(* through restarts, stops, restores and lost answers.                     *)
ImplementsInputInbox == Inbox!Spec

=============================================================================
