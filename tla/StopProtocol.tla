---------------------------- MODULE StopProtocol ----------------------------
(***************************************************************************)
(* Stopping the run of one session.  The host raises a fence in its own    *)
(* memory and one in the sidecar, aborts the run, waits until the worker   *)
(* and its processes are gone, lets the sidecar's fence down, runs what    *)
(* the caller of the stop asked for and lets its own fence down.  Until    *)
(* then no run is to be admitted.  A confirmation that fails is repeated   *)
(* in the background a few times, and again when somebody submits a        *)
(* message; the request that was told so ends the run meanwhile.  A new    *)
(* host recovers the session before it admits a run.                       *)
(*                                                                         *)
(* The two commands that raise the sidecar's fence and the one that lets   *)
(* it down travel in different lanes, each in order, and a command whose   *)
(* id the sidecar knows is answered from its receipt.                      *)
(***************************************************************************)
EXTENDS Naturals, Sequences, FiniteSetsExt

CONSTANTS Reasons,    \* texts a stop may be given
          Recheck,    \* the text of a stop that a submission repeats
          Silent,     \* stops whose caller passes no finalizer
          Retries,    \* attempts of SILENT_STOP_RETRY_DELAYS_MS
          Failures,   \* what may fail, of "call", "drive" and "host"
          MaxRuns,    \* bound: runs of the session
          MaxStops,   \* bound: stops that are asked for
          MaxFaults,  \* bound: failures
          MaxConfirms,  \* bound: confirmations at the same time
          None

Runs == 1 .. MaxRuns
Slots == 1 .. MaxConfirms
Requests == 1 .. MaxStops
Ids == 1 .. MaxConfirms + 4  \* more than are in use at a time
Rejected == 0                \* what is left of a stop that failed
Kinds == {"foreground", "retry", "forgotten"}
Steps == {"worker", "ack", "finalize", "release", "unconfirmed", "error"}
Confirmations == [owner : Ids, run : Runs, kind : Kinds, step : Steps,
                  callers : SUBSET Requests]

Owners == [id : Ids, run : Runs, stopping : BOOLEAN, failed : BOOLEAN,
           task : Slots \cup {Rejected, None}]

ASSUME ConstantsAssumption ==
  /\ Recheck \notin Reasons
  /\ {MaxRuns, MaxStops, MaxFaults, MaxConfirms} \subseteq Nat /\ Retries \in Nat \ {0}
  /\ None \notin Confirmations /\ None \notin Owners /\ None \notin Nat
  /\ None \notin {"stopping", "unconfirmed"}

VARIABLES
  workers,    \* of each run: none, driven, orphaned (its drive is over), released, gone
  pointer,    \* active_run_id in the sidecar
  owner,      \* RunCoordinator.owners: who drives or stops the session
  finalizers, \* of each owner: what its stops were asked to run at the end
  confirms,   \* the confirmStop calls under way, and the requests waiting for each
  retry,      \* RunCoordinator.stopRetries: whose stop is repeated, attempts left
  quarantine, \* whose failed drive quarantinePersistenceFailure is waiting for
  fence,      \* sessionMetadata.runtimeControl in the host
  durable,    \* ControlState.runtime_control in the sidecar
  receipts,   \* ids of the commands the sidecar has executed
  critical,   \* commands in the lane of stop_begin and stop_unconfirmed
  normal,     \* commands in the lane of stop_ack
  recovered,  \* whether this host has recovered the session
  stops,      \* stops asked for so far
  requests,   \* of each: waiting, unconfirmed (so it was told), ended (so it did the run)
  ran,        \* how often the finalizer of each stop ran
  faults

host == <<owner, finalizers, confirms, retry, quarantine, fence>>
sidecar == <<pointer, durable, receipts>>
lanes == <<critical, normal>>
asked == <<stops, requests, ran>>
vars == <<workers, host, sidecar, lanes, recovered, asked, faults>>

Init ==
  /\ workers = [r \in Runs |-> "none"] /\ pointer = None
  /\ owner = None /\ retry = None /\ quarantine = None /\ fence = None
  /\ finalizers = [i \in Ids |-> {}]
  /\ confirms = [s \in Slots |-> None]
  /\ durable = None /\ receipts = {}
  /\ critical = <<>> /\ normal = <<>>
  /\ recovered = TRUE
  /\ stops = 0 /\ requests = [n \in Requests |-> "waiting"] /\ ran = [n \in Requests |-> 0]
  /\ faults = 0

Alive == {r \in Runs : workers[r] \in {"driven", "orphaned"}}
LastRun == Cardinality({r \in Runs : workers[r] # "none"})
Confirming == {s \in Slots : confirms[s] # None}
Fails(what) == what \in Failures /\ faults < MaxFaults /\ faults' = faults + 1

(* A name no owner in use has: owners are told apart by identity. *)
FreshId ==
  Min(Ids \ ({confirms[s].owner : s \in Confirming}
      \cup (IF owner = None THEN {} ELSE {owner.id})
      \cup (IF retry = None THEN {} ELSE {retry.owner})
      \cup {quarantine}))

Owner(run, stopping) == [id |-> FreshId, run |-> run, stopping |-> stopping,
                         failed |-> FALSE, task |-> None]
Owns(c) == owner # None /\ owner.id = c.owner
Command(op, id, from) == [op |-> op, id |-> <<op, id>>, from |-> from]
FreeSlot == Min(Slots \ Confirming)

Started(kind, o, callers) ==
  confirms' = [confirms EXCEPT ![FreeSlot] =
                 [owner |-> o.id, run |-> o.run, kind |-> kind, step |-> "worker",
                  callers |-> callers]]

(***************************************************************************)
(* Runs                                                                    *)
(***************************************************************************)

(* The host looks at its fence, the sidecar at its own and at its pointer. *)
Submit == \E r \in Runs :
  /\ recovered /\ r = LastRun + 1
  /\ fence = None /\ durable = None /\ pointer = None
  /\ workers' = [workers EXCEPT ![r] = "driven"] /\ pointer' = r
  /\ owner' = Owner(r, FALSE) /\ finalizers' = [finalizers EXCEPT ![owner'.id] = {}]
  /\ UNCHANGED <<confirms, retry, quarantine, fence, durable, receipts, lanes>>
  /\ UNCHANGED <<recovered, asked, faults>>

Finished(r) == IF pointer = r THEN None ELSE pointer

(* A drive that is still there writes the end of its run. *)
WorkerEnds(r) ==
  /\ r \in Alive
  /\ workers' = [workers EXCEPT ![r] = "gone"]
  /\ pointer' = IF workers[r] = "driven" THEN Finished(r) ELSE pointer
  /\ UNCHANGED <<host, durable, receipts, lanes, recovered, asked, faults>>

DriveEnds ==
  /\ owner # None /\ ~owner.stopping /\ workers[owner.run] # "driven"
  /\ owner' = None
  /\ UNCHANGED <<workers, finalizers, confirms, retry, quarantine, fence, sidecar, lanes>>
  /\ UNCHANGED <<recovered, asked, faults>>

(* What became of the run could not be written, or could without an        *)
(* answer; the host fences the session and stops the worker.  One at a     *)
(* time.                                                                   *)
DriveFails(r) ==
  /\ workers[r] = "driven" /\ quarantine = None /\ Fails("drive")
  /\ \/ workers' = [workers EXCEPT ![r] = "orphaned"] /\ UNCHANGED pointer
     \/ workers' = [workers EXCEPT ![r] = "gone"] /\ pointer' = Finished(r)
  /\ IF owner # None /\ owner.run = r
     THEN /\ owner' = [owner EXCEPT !.stopping = TRUE, !.failed = TRUE]
          /\ quarantine' = owner.id /\ fence' = "unconfirmed"
     ELSE UNCHANGED <<owner, quarantine, fence>>
  /\ UNCHANGED <<finalizers, confirms, retry, durable, receipts, lanes, recovered, asked>>

QuarantineSettles ==
  /\ quarantine # None /\ quarantine' = None
  /\ IF owner # None /\ owner.id = quarantine
     THEN owner.run \notin Alive /\ owner' = None /\ fence' = None
     ELSE UNCHANGED <<owner, fence>>
  /\ UNCHANGED <<workers, finalizers, confirms, retry, sidecar, lanes, recovered, asked, faults>>

(* The worker could not be stopped, or not in time. *)
QuarantineFails ==
  /\ quarantine # None /\ quarantine' = None
  /\ Fails("call") /\ fence' = "unconfirmed"
  /\ UNCHANGED <<workers, owner, finalizers, confirms, retry, sidecar, lanes, recovered, asked>>

(***************************************************************************)
(* A stop                                                                  *)
(***************************************************************************)

Begin(o, reason, callers) ==
  /\ Confirming # Slots
  /\ owner' = [o EXCEPT !.stopping = TRUE, !.task = FreeSlot]
  /\ finalizers' = [finalizers EXCEPT ![o.id] = callers]
  /\ fence' = "stopping"
  /\ critical' = Append(critical, Command("stop_begin", <<o.run, reason>>, None))
  /\ Started("foreground", o, callers)
  /\ UNCHANGED <<retry, quarantine, normal>>

Told(ns) == requests' = [n \in Requests |-> IF n \in ns THEN "unconfirmed" ELSE requests[n]]

(* A stop under way is waited for.  One that has failed is answered at     *)
(* once, with the error it failed with.                                    *)
Join(callers) ==
  /\ finalizers' = [finalizers EXCEPT ![owner.id] = @ \cup callers]
  /\ IF owner.task = Rejected
     THEN (Told(callers) \/ UNCHANGED requests) /\ UNCHANGED confirms
     ELSE /\ confirms' = [confirms EXCEPT ![owner.task].callers = @ \cup callers]
          /\ UNCHANGED requests
  /\ UNCHANGED <<owner, retry, quarantine, fence, lanes>>

(* A cancel request passes a finalizer, other callers pass none. *)
Interrupt == \E reason \in Reasons : LET callers == {stops + 1} \ Silent IN
  /\ recovered /\ stops < MaxStops /\ LastRun > 0
  /\ stops' = stops + 1
  /\ IF owner # None /\ owner.task # None THEN Join(callers)
     ELSE /\ Begin(IF owner = None THEN Owner(LastRun, TRUE) ELSE owner, reason, callers)
          /\ UNCHANGED requests
  /\ UNCHANGED <<workers, sidecar, recovered, ran, faults>>

Ran(ns) == ran' = [n \in Requests |-> IF n \in ns THEN ran[n] + 1 ELSE ran[n]]

(* The finalizer of a cancel request: stopSessionAuthoritative ends the    *)
(* run that is the active one now, and writes the session's metadata anew, *)
(* the host's fence included.                                              *)
Shutdown(ns) ==
  /\ Ran(ns)
  /\ pointer' = IF ns = {} THEN pointer ELSE None
  /\ fence' = IF ns = {} THEN fence ELSE None

(* The request that was told its stop is unconfirmed runs it itself. *)
StopShutdown(n) ==
  /\ requests[n] = "unconfirmed"
  /\ requests' = [requests EXCEPT ![n] = "ended"]
  /\ Shutdown({n})
  /\ UNCHANGED <<workers, owner, finalizers, confirms, retry, quarantine, durable, receipts>>
  /\ UNCHANGED <<lanes, recovered, stops, faults>>

Step(s, step) == confirms' = [confirms EXCEPT ![s].step = step]

(* Mutant: the worker is told to stop but not awaited. *)
ConfirmWorkerUnawaited(s) == LET c == confirms[s] IN
  /\ c.step = "worker"
  /\ Step(s, "ack")
  /\ normal' = Append(normal, Command("stop_ack", c.run, s))
  /\ UNCHANGED <<workers, owner, finalizers, retry, quarantine, fence, sidecar, critical>>
  /\ UNCHANGED <<recovered, asked, faults>>

(* The worker is gone, and so is the drive of this host, with what a       *)
(* failed one does at last.                                                *)
ConfirmWorker(s) == LET c == confirms[s] IN
  /\ c.step = "worker" /\ c.run \notin Alive /\ c.owner # quarantine
  /\ Step(s, "ack")
  /\ normal' = Append(normal, Command("stop_ack", c.run, s))
  /\ UNCHANGED <<workers, owner, finalizers, retry, quarantine, fence, sidecar, critical>>
  /\ UNCHANGED <<recovered, asked, faults>>

(* The repetition sleeps until its next attempt, or ends with its last. *)
Asleep == IF retry.left = 0 THEN None ELSE retry

(* A confirmation that is not the background's tells the sidecar. *)
Reject(s, step) == LET c == confirms[s] IN
  IF c.kind = "foreground"
  THEN /\ Step(s, step)
       /\ owner' = IF Owns(c) THEN [owner EXCEPT !.failed = TRUE] ELSE owner
       /\ critical' = Append(critical, Command("stop_unconfirmed", c.run, s))
       /\ UNCHANGED retry
  ELSE /\ confirms' = [confirms EXCEPT ![s] = None]
       /\ retry' = IF c.kind = "retry" THEN Asleep ELSE retry
       /\ UNCHANGED <<owner, critical>>

(* driver.interrupt could not stop the worker: not in time, which is the   *)
(* error the request looks for, or it failed in another way.               *)
ConfirmFails(s) ==
  /\ confirms[s].step = "worker" /\ confirms[s].run \in Alive
  /\ Fails("call")
  /\ Reject(s, "unconfirmed") \/ Reject(s, "error")
  /\ UNCHANGED <<workers, finalizers, quarantine, fence, sidecar, normal, recovered, asked>>

(* Mutant: the attempt that is given up ends. *)
OverdueEnds(s) ==
  /\ confirms[s].kind = "retry" /\ confirms[s].step # "release"
  /\ confirms' = [confirms EXCEPT ![s] = None]
  /\ retry' = Asleep
  /\ UNCHANGED <<workers, owner, finalizers, quarantine, fence, sidecar, lanes>>
  /\ UNCHANGED <<recovered, asked, faults>>

(* The background gives an attempt up, which goes on nevertheless. *)
Overdue(s) ==
  /\ confirms[s].kind = "retry" /\ confirms[s].step # "release"
  /\ confirms' = [confirms EXCEPT ![s].kind = "forgotten"]
  /\ retry' = Asleep
  /\ UNCHANGED <<workers, owner, finalizers, quarantine, fence, sidecar, lanes>>
  /\ UNCHANGED <<recovered, asked, faults>>

(* Mutant: the finalizers are kept for a later attempt. *)
ConfirmFinalizeKept(s) == LET c == confirms[s] IN
  /\ c.step = "finalize" /\ finalizers[c.owner] # {}
  /\ Shutdown(finalizers[c.owner])
  /\ UNCHANGED finalizers
  /\ \/ Step(s, "release") /\ UNCHANGED <<owner, retry, critical, faults>>
     \/ Fails("call") /\ Reject(s, "error")
  /\ UNCHANGED <<workers, quarantine, durable, receipts, normal>>
  /\ UNCHANGED <<recovered, stops, requests>>

(* Whether they succeed or one of them fails, they are not run again by    *)
(* another confirmation of this owner.  Without one the confirmation goes  *)
(* on to the release at once.                                              *)
ConfirmFinalize(s) == LET c == confirms[s] IN
  /\ c.step = "finalize" /\ finalizers[c.owner] # {}
  /\ Shutdown(finalizers[c.owner])
  /\ finalizers' = [finalizers EXCEPT ![c.owner] = {}]
  /\ \/ Step(s, "release") /\ UNCHANGED <<owner, retry, critical, faults>>
     \/ Fails("call") /\ Reject(s, "error")
  /\ UNCHANGED <<workers, quarantine, durable, receipts, normal>>
  /\ UNCHANGED <<recovered, stops, requests>>

ConfirmRelease(s) == LET c == confirms[s] IN
  /\ c.step = "release" \/ (c.step = "finalize" /\ finalizers[c.owner] = {})
  /\ confirms' = [confirms EXCEPT ![s] = None]
  /\ fence' = None
  /\ owner' = IF Owns(c) THEN None ELSE owner
  /\ retry' = IF c.kind = "retry" THEN None ELSE retry
  /\ UNCHANGED <<workers, finalizers, quarantine, sidecar, lanes, recovered, asked, faults>>

(***************************************************************************)
(* Repetitions                                                             *)
(***************************************************************************)

Repeating == \E s \in Confirming : confirms[s].kind = "retry"
Obsolete == owner # None => owner.id # retry.owner

RetryStarts ==
  /\ retry # None /\ retry.left > 0 /\ ~Repeating /\ ~Obsolete
  /\ Confirming # Slots
  /\ retry' = [retry EXCEPT !.left = @ - 1]
  /\ Started("retry", owner, {})
  /\ UNCHANGED <<workers, owner, finalizers, quarantine, fence, sidecar, lanes>>
  /\ UNCHANGED <<recovered, asked, faults>>

RetryEnds ==
  /\ retry # None /\ ~Repeating /\ Obsolete
  /\ retry' = None
  /\ UNCHANGED <<workers, owner, finalizers, confirms, quarantine, fence, sidecar, lanes>>
  /\ UNCHANGED <<recovered, asked, faults>>

Failed == recovered /\ fence # None /\ owner # None /\ owner.stopping /\ owner.failed

(* Mutant: the stop that failed is still taken for the one under way. *)
ReconcileJoinsFailed ==
  /\ Failed
  /\ \/ owner.task = None /\ Begin([owner EXCEPT !.failed = FALSE], Recheck, {})
     \/ /\ owner.task # None /\ owner' = [owner EXCEPT !.failed = FALSE]
        /\ UNCHANGED <<finalizers, confirms, retry, quarantine, fence, lanes>>
  /\ UNCHANGED <<workers, sidecar, recovered, asked, faults>>

(* A submission meets the fence of a stop that failed, and stops anew. *)
ReconcileFailedStop ==
  /\ Failed
  /\ Begin([owner EXCEPT !.failed = FALSE], Recheck, {})
  /\ UNCHANGED <<workers, sidecar, recovered, asked, faults>>

(* recoverRuntimeSession stops the recorded processes; those it cannot are *)
(* released, and the pointer stays at a run whose processes were.  Without *)
(* a pointer, a fence in the sidecar or such a process it changes nothing: *)
(* the status of a session is then not one of those it also looks at.      *)
Settle == \E left \in SUBSET Alive :
  /\ workers' = [r \in Runs |-> IF r \notin Alive THEN workers[r]
                                ELSE IF r \in left THEN "released" ELSE "gone"]
  /\ IF pointer = None /\ durable = None /\ left = {}
     THEN UNCHANGED <<pointer, fence, durable>>
     ELSE /\ fence' = None /\ durable' = None
          /\ pointer' = IF left = {} THEN None ELSE pointer

(* A submission meets a fence that nobody owns. *)
RecoverFence ==
  /\ recovered /\ fence # None /\ owner = None
  /\ Settle
  /\ UNCHANGED <<owner, finalizers, confirms, retry, quarantine, receipts, lanes>>
  /\ UNCHANGED <<recovered, asked, faults>>

(***************************************************************************)
(* The sidecar                                                             *)
(***************************************************************************)

Executed(c) ==
  /\ receipts' = receipts \cup {c.id}
  /\ durable' = IF c.id \in receipts THEN durable
                ELSE CASE c.op = "stop_begin" -> "stopping"
                       [] c.op = "stop_unconfirmed" -> "unconfirmed"
                       [] OTHER -> None

(* Nobody waits for stop_begin, and an error of either is ignored.  The    *)
(* stop that failed ends when stop_unconfirmed was answered, and is not    *)
(* repeated while the repetition of an earlier one sleeps.                 *)
CriticalCommand ==
  /\ critical # <<>>
  /\ critical' = Tail(critical)
  /\ \/ Executed(Head(critical)) /\ UNCHANGED faults
     \/ Fails("call") /\ UNCHANGED <<durable, receipts>>
  /\ LET s == Head(critical).from IN
       IF s = None THEN UNCHANGED <<owner, confirms, fence, retry, requests>>
       ELSE /\ confirms' = [confirms EXCEPT ![s] = None]
            /\ owner' = IF owner # None /\ owner.task = s
                        THEN [owner EXCEPT !.task = Rejected] ELSE owner
            /\ fence' = "unconfirmed"
            /\ retry' = IF retry # None THEN retry
                        ELSE [owner |-> confirms[s].owner, left |-> Retries]
            /\ Told(IF confirms[s].step = "unconfirmed" THEN confirms[s].callers ELSE {})
  /\ UNCHANGED <<workers, pointer, finalizers, quarantine, normal, recovered, stops, ran>>

NormalCommand ==
  /\ normal # <<>>
  /\ normal' = Tail(normal)
  /\ LET s == Head(normal).from IN
       \/ /\ Executed(Head(normal))
          /\ Step(s, "finalize")
          /\ UNCHANGED <<owner, retry, critical, faults>>
       \/ /\ Fails("call")
          /\ Executed(Head(normal)) \/ UNCHANGED <<durable, receipts>>
          /\ Reject(s, "error")
  /\ UNCHANGED <<workers, pointer, finalizers, quarantine, fence, recovered, asked>>

(***************************************************************************)
(* A new host                                                              *)
(***************************************************************************)

(* The sidecar may have stored an older fence than the host had. *)
HostDies ==
  /\ Fails("host")
  /\ workers' = [r \in Runs |-> IF workers[r] = "driven" THEN "orphaned" ELSE workers[r]]
  /\ owner' = None /\ retry' = None /\ quarantine' = None
  /\ confirms' = [s \in Slots |-> None] /\ finalizers' = [i \in Ids |-> {}]
  /\ fence' \in {fence, None} \cup (IF stops > 0 THEN {"stopping"} ELSE {})
  /\ critical' = <<>> /\ normal' = <<>>
  /\ requests' = [n \in Requests |-> IF requests[n] = "ended" THEN "ended" ELSE "waiting"]
  /\ recovered' = FALSE
  /\ UNCHANGED <<sidecar, stops, ran>>

RecoverSession ==
  /\ ~recovered
  /\ recovered' = TRUE
  /\ Settle
  /\ UNCHANGED <<owner, finalizers, confirms, retry, quarantine, receipts, lanes, asked, faults>>

Quarantined == QuarantineSettles \/ QuarantineFails
Confirm(s) == ConfirmWorker(s) \/ ConfirmFinalize(s) \/ ConfirmRelease(s)
ConfirmDisturbed(s) == ConfirmFails(s) \/ Overdue(s)
Reconcile == ReconcileFailedStop \/ RecoverFence

Next ==
  \/ Submit \/ (\E r \in Runs : WorkerEnds(r) \/ DriveFails(r)) \/ DriveEnds \/ Quarantined
  \/ Interrupt \/ (\E n \in Requests : StopShutdown(n))
  \/ \E s \in Confirming : Confirm(s) \/ ConfirmDisturbed(s)
  \/ RetryStarts \/ RetryEnds \/ Reconcile
  \/ CriticalCommand \/ NormalCommand
  \/ HostDies \/ RecoverSession

(* An aborted worker ends, the host's promises and timers and the sidecar  *)
(* go on, and somebody submits to a fenced session sooner or later: as     *)
(* long as something of this is due, some of it is done.                   *)
Progress ==
  \/ (\E r \in Runs : WorkerEnds(r)) \/ DriveEnds \/ QuarantineSettles
  \/ (\E s \in Confirming : Confirm(s))
  \/ RetryStarts \/ RetryEnds \/ Reconcile
  \/ CriticalCommand \/ NormalCommand \/ RecoverSession

Fairness == WF_vars(Progress)

Spec == Init /\ [][Next]_vars /\ Fairness

(***************************************************************************)
(* Properties                                                              *)
(***************************************************************************)

States == {"stopping", "unconfirmed", None}
Commands == UNION {{critical[i] : i \in DOMAIN critical}, {normal[i] : i \in DOMAIN normal}}

(* Everything has its type, and whoever sent a command and waits for it is *)
(* still there.                                                            *)
TypeOK ==
  /\ workers \in [Runs -> {"none", "driven", "orphaned", "released", "gone"}]
  /\ pointer \in Runs \cup {None}
  /\ owner # None => /\ owner \in Owners
                     /\ owner.failed \/ owner.task # None => owner.stopping
                     /\ owner.task \in Slots => owner.task \in Confirming
  /\ finalizers \in [Ids -> SUBSET Requests]
  /\ \A s \in Confirming : confirms[s] \in Confirmations
  /\ retry # None => retry.left \in 0 .. Retries
  /\ fence \in States /\ durable \in States
  /\ \A c \in Commands : c.from # None =>
       /\ c.from \in Confirming
       /\ confirms[c.from].step \in IF c.op = "stop_ack" THEN {"ack"} ELSE {"unconfirmed", "error"}
  /\ requests \in [Requests -> {"waiting", "unconfirmed", "ended"}]
  /\ recovered \in BOOLEAN
  /\ stops \in 0 .. MaxStops /\ faults \in 0 .. MaxFaults

(* What the caller of a stop asked for runs once, whether the stop is      *)
(* confirmed at once, by a repetition, or by several at a time.  Only the  *)
(* request that was told its stop is unconfirmed and ran it itself gets it *)
(* twice, from the repetition that finally succeeds.                       *)
FinalizersOnce == \A n \in Requests : ran[n] <= IF requests[n] = "ended" THEN 2 ELSE 1

(* The sidecar is told that a stop is confirmed, so that its fence goes    *)
(* down and the next run may come, only when the worker of the run that    *)
(* was stopped is gone (or nobody can say whether it is): by none of the   *)
(* confirmations that go on after they were given up, nor by one of an     *)
(* owner that is no longer there.                                          *)
AcknowledgedIsGone == \A r \in Runs : <<"stop_ack", r>> \in receipts => r \notin Alive

(* A stop heals: a fenced session whose owner is stopping gets rid of the  *)
(* one or the other, although confirmations fail, are overdue or overlap,  *)
(* and although the repetition of a failed stop is left out because that   *)
(* of an earlier one still sleeps.                                         *)
StopHeals == owner # None /\ owner.stopping /\ fence # None ~> owner = None \/ fence = None

(* The claim that a fence keeps the next turn out until the worker is      *)
(* really gone.                                                            *)
OneWorker == Cardinality(Alive) <= 1

(* The claim that a fence heals by itself once the worker is gone, for the *)
(* fence of the sidecar.                                                   *)
FenceClears == durable # None ~> durable = None
=============================================================================
