-------------------------- MODULE SessionLifecycle --------------------------
(***************************************************************************)
(* The lifecycle of one session inside the Rust runtime sidecar: run       *)
(* admission, activation and completion, the execution lease, the runtime  *)
(* control fence (stop, compaction, history restore), permissions, forms   *)
(* and the stream writers that append events to the session.               *)
(*                                                                         *)
(* Every operation runs under the session actor's lock, so it is one       *)
(* action.  An operation that carries a stale revision or epoch is refused *)
(* before it changes anything and a retried request is answered from its   *)
(* receipt, so only accepted operations are steps here.  `append' is the   *)
(* exception: it carries an epoch that its writer captured earlier and no  *)
(* revision, hence the writers' captured fences are part of the state.     *)
(***************************************************************************)
EXTENDS Naturals

CONSTANTS Runs,          \* run ids
          Gens,          \* lease generations (`epoch' and `hostId' of a lease)
          Keepers,       \* ids of compactions and history restores
          Permissions,   \* permission ids
          Forms,         \* interaction ids
          Writers,       \* stream producers of the execution host
          PatchRuns,     \* what a session patch may set `activeRunId' to
          PatchStatuses, \* statuses a session patch carries
          FinishStatuses,\* terminal run statuses `finish' is called with
          None,
          MaxEpoch, MaxSeq   \* bounds of the model

(* The statuses a session may have and the ones a run may have. *)
SessionStatuses ==
  {"stopping", "queued", "running", "waiting_permission", "waiting_input",
   "paused", "completed", "failed", "cancelled", "interrupted"}

TerminalRuns == {"completed", "failed", "cancelled", "interrupted", "blocked"}

RunStatuses ==
  TerminalRuns \cup {"queued", "running", "waiting_permission", "waiting_input"}

(* Statuses that settle a session for good. *)
Settled == {"completed", "failed", "cancelled"}

ASSUME ConstantsAssumption ==
  /\ None \notin Runs \cup Gens \cup Keepers \cup SessionStatuses \cup RunStatuses
  /\ PatchRuns \subseteq Runs \cup {None}
  /\ PatchStatuses \subseteq SessionStatuses
  /\ FinishStatuses \subseteq TerminalRuns
  /\ MaxEpoch \in Nat
  /\ MaxSeq \in Nat

(* The identity an executor proves its ownership with. *)
Owners == [run : Runs, gen : Gens]

VARIABLES
  epoch,       \* SnapshotCond.epoch
  active,      \* SnapshotCond.active_run_id, the durable run pointer
  seqs,        \* SnapshotCond.producer_sequences
  lease,       \* ControlState.execution_lease
  control,     \* ControlState.runtime_control
  perms,       \* ControlState.permissions: the pending asks
  forms,       \* ControlState.interactions: the ones not consumed yet
  ui,          \* the projection's session state and projected run
  admitted,    \* the runs the sidecar has granted: the host names no other
  terminated,  \* SessionActor.terminated_runs, kept in memory only
  writers,     \* what each stream writer captured
  fenced       \* history variable: writers whose run was settled under them

vars == <<epoch, active, seqs, lease, control, perms, forms, ui, admitted,
          terminated, writers, fenced>>

(* Groups of them that most operations leave alone. *)
fence == <<epoch, seqs>>
asks == <<perms, forms>>
host == <<admitted, terminated, writers, fenced>>

NoControl == [state |-> "none", by |-> None, prior |-> None]

NoState == [status |-> None, active |-> None, token |-> FALSE]

(* What may hold the session, and by whom; a restore keeps the status the *)
(* session had.                                                            *)
Controls ==
  {NoControl}
    \cup [state : {"compacting"}, by : Keepers, prior : {None}]
    \cup [state : {"restoring"}, by : Keepers, prior : SessionStatuses]
    \cup [state : {"stopping", "unconfirmed"}, by : Runs, prior : {None}]

Leases == [run : Runs, gen : Gens, closed : BOOLEAN]

(* The fields of a stream record; the resume token is only null or not.    *)
RecordStates ==
  [status : SessionStatuses, active : Runs \cup {None}, token : BOOLEAN]

Projections ==
  [status : SessionStatuses, active : Runs \cup {None}, token : BOOLEAN,
   run : Runs \cup {None}, runStatus : RunStatuses \cup {None}]

StreamWriters ==
  [phase : {"new", "open", "dead"}, run : Runs \cup {None}, epoch : Nat, sent : Nat,
   state : RecordStates \cup {NoState}]

TypeOK ==
  /\ epoch \in Nat
  /\ active \in Runs \cup {None}
  /\ seqs \in [Writers -> Nat]
  /\ lease \in Leases \cup {None}
  /\ control \in Controls
  /\ perms \in [Permissions -> [run : Runs, resumable : BOOLEAN] \cup {None}]
  /\ forms \in [Forms -> [run : Runs, answered : BOOLEAN] \cup {None}]
  /\ ui \in Projections
  /\ admitted \subseteq Runs
  /\ terminated \subseteq Runs
  /\ writers \in [Writers -> StreamWriters]
  /\ fenced \subseteq Writers

(***************************************************************************)
(* ExecutionLease.                                                         *)
(***************************************************************************)
SameOwner(l, o) == l.run = o.run /\ l.gen = o.gen

IsOpen(l) == l # None /\ ~l.closed

OpenFor(l, r) == IsOpen(l) /\ l.run = r

Opened(o) == [run |-> o.run, gen |-> o.gen, closed |-> FALSE]

CloseLease(l) == IF l = None THEN None ELSE [l EXCEPT !.closed = TRUE]

CloseLeaseOf(l, r) == IF l # None /\ l.run = r THEN CloseLease(l) ELSE l

(* Mutant: a competing generation of the same run may take the lease.      *)
OpenableByAnyGeneration(o) == lease # None => (lease.closed => ~SameOwner(lease, o))

(* assert_openable: a competing generation of the same run and a closed    *)
(* generation are refused.                                                 *)
Openable(o) ==
  lease # None =>
    /\ ~lease.closed /\ lease.run = o.run => SameOwner(lease, o)
    /\ lease.closed => ~SameOwner(lease, o)

(* The run document `finish' got may name its lease; the owner must match. *)
OwnerAgrees(r, o) ==
  lease # None /\ lease.run = r /\ o # None => SameOwner(lease, o)

(***************************************************************************)
(* Helpers of the projection and of the transaction.                       *)
(***************************************************************************)
Project(status, run, token) ==
  [ui EXCEPT !.status = status, !.active = run, !.token = token]

(* Projection::apply refuses an event whose state names another run. *)
EventFits(state, r) == state.active \in {None, r}

(* Mutant: settling a run does not move the epoch. *)
SameEpoch == epoch < MaxEpoch /\ epoch' = epoch

NextEpoch == epoch < MaxEpoch /\ epoch' = epoch + 1

ResetSeqs == seqs' = [w \in Writers |-> 0]

(* Writers attached to a run of rs are cut off by the step. *)
Fence(rs) == fenced' = fenced \cup {w \in Writers : writers[w].run \in rs}

(* reclaimable_run: a settled session that still points at a settled run. *)
Reclaimable ==
  /\ ui.status \in Settled
  /\ ~ui.token
  /\ ui.run = active => ui.runStatus \in Settled

(* The durable pointer after a control command that did not assign it. *)
SettlePointer(next) ==
  active' = IF active # None /\ next.active = None /\ next.status \in Settled
            THEN None ELSE active

(***************************************************************************)
(* Admission, activation and completion.                                   *)
(***************************************************************************)
Init ==
  /\ epoch = 0
  /\ active = None
  /\ seqs = [w \in Writers |-> 0]
  /\ lease = None
  /\ control = NoControl
  /\ perms = [p \in Permissions |-> None]
  /\ forms = [f \in Forms |-> None]
  /\ ui = [status |-> "queued", active |-> None, token |-> FALSE,
           run |-> None, runStatus |-> None]
  /\ admitted = {}
  /\ terminated = {}
  /\ writers = [w \in Writers |-> [phase |-> "new", run |-> None, epoch |-> 0,
                                    sent |-> 0, state |-> NoState]]
  /\ fenced = {}

(* A settled run whose `finish' never committed keeps the pointer: the     *)
(* admission takes it over and moves to a new epoch.                       *)
AdmitReclaiming ==
  /\ active # None
  /\ ~OpenFor(lease, active)
  /\ Reclaimable
  /\ NextEpoch
  /\ lease' = CloseLeaseOf(lease, active)
  /\ terminated' = terminated \cup {active}
  /\ Fence({active})

(* The pointer is gone but the lease is still open: retire the orphan. *)
AdmitRetiring ==
  /\ active = None
  /\ IsOpen(lease)
  /\ NextEpoch
  /\ lease' = CloseLease(lease)
  /\ Fence({lease.run})
  /\ UNCHANGED terminated

AdmitIdle ==
  /\ active = None
  /\ ~IsOpen(lease)
  /\ UNCHANGED <<epoch, lease, terminated, fenced>>

Admit(r) ==
  /\ r \notin admitted
  /\ control = NoControl
  /\ AdmitReclaiming \/ AdmitRetiring \/ AdmitIdle
  /\ active' = r
  /\ ui' = [status |-> "queued", active |-> r, token |-> FALSE,
            run |-> r, runStatus |-> "queued"]
  /\ admitted' = admitted \cup {r}
  /\ UNCHANGED <<seqs, control, writers, asks>>

(* The run document may carry the lease it runs under (o) or none. *)
Activate(r, o) ==
  /\ active = r
  /\ r \notin terminated
  /\ control = NoControl
  /\ o # None => o.run = r /\ Openable(o)
  /\ lease' = IF o = None THEN lease ELSE Opened(o)
  /\ ui' = [status |-> "running", active |-> r, token |-> FALSE,
            run |-> r, runStatus |-> "running"]
  /\ UNCHANGED <<active, control, host, fence, asks>>

Finish(r, status, o) ==
  /\ active = r
  /\ OwnerAgrees(r, o)
  /\ NextEpoch
  /\ active' = None
  /\ lease' = CloseLeaseOf(lease, r)
  /\ ResetSeqs
  /\ terminated' = terminated \cup {r}
  /\ ui' = [status |-> IF status = "blocked" THEN "completed" ELSE status,
            active |-> None, token |-> FALSE, run |-> r, runStatus |-> status]
  /\ Fence({r})
  /\ UNCHANGED <<control, writers, admitted, asks>>

(* The pointer was already cleared by a patch or a denial; only the fence  *)
(* is left to write.                                                       *)
FinishSettledRun(r, o) ==
  /\ active = None
  /\ ui.run = r
  /\ ui.runStatus \in TerminalRuns
  /\ OwnerAgrees(r, o)
  /\ NextEpoch
  /\ lease' = CloseLeaseOf(lease, r)
  /\ ResetSeqs
  /\ terminated' = terminated \cup {r}
  /\ Fence({r})
  /\ UNCHANGED <<active, control, ui, writers, admitted, asks>>

(***************************************************************************)
(* Stream writers.  A writer captures its fence once, when it is created   *)
(* for a run, reads the session's record state before every batch and      *)
(* appends the batch with that state.                                      *)
(***************************************************************************)
StreamFence(w, r) ==
  /\ writers[w].phase = "new"
  /\ active = r
  /\ writers' = [writers EXCEPT ![w] = [phase |-> "open", run |-> r, epoch |-> epoch,
                                       sent |-> 0, state |-> NoState]]
  /\ UNCHANGED <<active, lease, control, ui, terminated, admitted, fenced, fence, asks>>

RecordState(w) ==
  /\ writers[w].phase = "open"
  /\ writers[w].state = NoState
  /\ writers[w].sent < MaxSeq
  /\ writers' = [writers EXCEPT ![w].state =
                   [status |-> ui.status, active |-> ui.active, token |-> ui.token]]
  /\ UNCHANGED <<active, lease, control, ui, terminated, admitted, fenced, fence, asks>>

(* What the sidecar checks before it commits a batch of w. *)
AppendAccepted(w) ==
  /\ writers[w].epoch = epoch
  /\ active = writers[w].run
  /\ writers[w].sent = seqs[w]
  /\ EventFits(writers[w].state, writers[w].run)

(* A batch may carry the run document of its run (`run_started', a        *)
(* terminal chunk); `carried' is that document's status or None.           *)
Append(w, carried) ==
  /\ writers[w].phase = "open"
  /\ writers[w].state # NoState
  /\ AppendAccepted(w)
  /\ ui' = [status |-> writers[w].state.status, active |-> writers[w].state.active,
            token |-> writers[w].state.token,
            run |-> IF carried = None THEN ui.run ELSE writers[w].run,
            runStatus |-> IF carried = None THEN ui.runStatus ELSE carried]
  /\ seqs' = [seqs EXCEPT ![w] = writers[w].sent + 1]
  /\ writers' = [writers EXCEPT ![w].sent = @ + 1, ![w].state = NoState]
  /\ UNCHANGED <<epoch, active, lease, control, terminated, fenced, admitted, asks>>

(* A refused batch stops its writer for good. *)
AppendRefused(w) ==
  /\ writers[w].phase = "open"
  /\ writers[w].state # NoState
  /\ ~AppendAccepted(w)
  /\ writers' = [writers EXCEPT ![w].phase = "dead", ![w].state = NoState]
  /\ UNCHANGED <<active, lease, control, ui, terminated, admitted, fenced, fence, asks>>

(***************************************************************************)
(* Control commands: execution ownership.                                  *)
(***************************************************************************)
ExecutionOpen(o) ==
  /\ ui.run = o.run
  /\ active = o.run
  /\ control = NoControl
  /\ Openable(o)
  /\ EventFits(ui, o.run)
  /\ lease' = Opened(o)
  /\ SettlePointer(ui)
  /\ UNCHANGED <<control, ui, host, fence, asks>>

ExecutionClose(o) ==
  /\ ui.run = o.run
  /\ lease # None
  /\ SameOwner(lease, o)
  /\ EventFits(ui, o.run)
  /\ lease' = CloseLease(lease)
  /\ SettlePointer(ui)
  /\ UNCHANGED <<control, ui, host, fence, asks>>

(* Recovery closes an open lease that the pointer no longer backs.  The    *)
(* observed pointer is compared under the lock.                            *)
ExecutionReconcile(o, observed) ==
  /\ active = observed
  /\ active # o.run
  /\ IsOpen(lease)
  /\ SameOwner(lease, o)
  /\ NextEpoch
  /\ lease' = CloseLease(lease)
  /\ ResetSeqs
  /\ SettlePointer(ui)
  /\ Fence({o.run})
  /\ UNCHANGED <<control, ui, terminated, writers, admitted, asks>>

(* A launch that never acquired its lease gives the run up, unless some    *)
(* executor owns it.                                                       *)
ExecutionFailStart(o) ==
  /\ active = o.run
  /\ ui.run = o.run
  /\ ~OpenFor(lease, o.run)
  /\ NextEpoch
  /\ lease' = CloseLease(lease)
  /\ ResetSeqs
  /\ Fence({o.run})
  /\ \/ /\ ui.runStatus \in {"queued", "running"}
        /\ ui' = [status |-> "failed", active |-> None, token |-> FALSE,
                  run |-> o.run, runStatus |-> "failed"]
        /\ active' = None
     \/ /\ ui.runStatus \notin {"queued", "running"}
        /\ SettlePointer(ui)
        /\ UNCHANGED ui
  /\ UNCHANGED <<control, terminated, writers, admitted, asks>>

(***************************************************************************)
(* Control commands: the maintenance fence.                                *)
(***************************************************************************)
(* Mutant: the lock looks at the fence but not at the run pointer. *)
CompactionLockAnyRun(k) ==
  /\ control = NoControl
  /\ control' = [state |-> "compacting", by |-> k, prior |-> None]
  /\ UNCHANGED <<active, lease, ui, host, fence, asks>>

CompactionLock(k) ==
  /\ active = None
  /\ control = NoControl
  /\ control' = [state |-> "compacting", by |-> k, prior |-> None]
  /\ UNCHANGED <<active, lease, ui, host, fence, asks>>

CompactionUnlock(k) ==
  /\ control.state = "compacting"
  /\ control.by = k
  /\ control' = NoControl
  /\ SettlePointer(ui)
  /\ UNCHANGED <<lease, ui, host, fence, asks>>

(* Mutant: the status to come back to is not kept. *)
HistoryBeginForgetful(k) ==
  /\ active = None
  /\ control = NoControl
  /\ control' = [state |-> "restoring", by |-> k, prior |-> None]
  /\ ui' = Project("stopping", None, FALSE)
  /\ UNCHANGED <<active, lease, host, fence, asks>>

HistoryBegin(k) ==
  /\ active = None
  /\ control = NoControl
  /\ control' = [state |-> "restoring", by |-> k, prior |-> ui.status]
  /\ ui' = Project("stopping", None, FALSE)
  /\ UNCHANGED <<active, lease, host, fence, asks>>

(* The restore replaces the branch: nothing of the old one may survive it. *)
HistoryEnd(k) ==
  /\ control.state = "restoring"
  /\ control.by = k
  /\ NextEpoch
  /\ active' = None
  /\ lease' = None
  /\ control' = NoControl
  /\ ResetSeqs
  /\ perms' = [p \in Permissions |-> None]
  /\ forms' = [f \in Forms |-> None]
  /\ ui' = [status |-> "completed", active |-> None, token |-> FALSE,
            run |-> None, runStatus |-> None]
  /\ Fence(Runs)
  /\ UNCHANGED <<terminated, writers, admitted>>

HistoryCancel(k) ==
  /\ control.state = "restoring"
  /\ control.by = k
  /\ control' = NoControl
  /\ ui' = Project(control.prior, None, FALSE)
  /\ SettlePointer(ui')
  /\ UNCHANGED <<lease, host, fence, asks>>

(***************************************************************************)
(* Control commands: stop and resume.                                      *)
(***************************************************************************)
StopFence(r, state) ==
  /\ control' = [state |-> state, by |-> r, prior |-> None]
  /\ ui' = Project("stopping", r, FALSE)
  /\ UNCHANGED <<active, lease, host, fence, asks>>

StopBegin(r) == StopFence(r, "stopping")

StopUnconfirmed(r) == StopFence(r, "unconfirmed")

StopAck ==
  /\ control' = NoControl
  /\ ui' = Project("interrupted", None, FALSE)
  /\ UNCHANGED <<active, lease, host, fence, asks>>

(* Mutant: a resume also clears the producer counters. *)
ResumeClearsCounters(r) ==
  /\ control' = NoControl
  /\ ui' = Project("running", r, FALSE)
  /\ active' = IF active = None THEN r ELSE active
  /\ ResetSeqs
  /\ UNCHANGED <<epoch, lease, host, asks>>

(* Resuming brings a cleared pointer back; it never reassigns one. *)
Resume(r) ==
  /\ control' = NoControl
  /\ ui' = Project("running", r, FALSE)
  /\ active' = IF active = None THEN r ELSE active
  /\ UNCHANGED <<lease, host, fence, asks>>

(***************************************************************************)
(* Control commands: permissions and forms.  A resolved permission and a   *)
(* consumed form are dropped in the same transaction.                      *)
(***************************************************************************)
PermissionRequest(p, r, resumable) ==
  /\ perms[p] = None
  /\ perms' = [perms EXCEPT ![p] = [run |-> r, resumable |-> resumable]]
  /\ ui' = Project("waiting_permission", r, resumable)
  /\ UNCHANGED <<active, lease, control, forms, host, fence>>

(* A decision that is recorded already resolved is dropped at once. *)
PermissionRecord(r) ==
  /\ EventFits(ui, r)
  /\ SettlePointer(ui)
  /\ UNCHANGED <<lease, control, ui, host, fence, asks>>

PermissionExpire(p) ==
  /\ perms[p] # None
  /\ EventFits(ui, perms[p].run)
  /\ perms' = [perms EXCEPT ![p] = None]
  /\ SettlePointer(ui)
  /\ UNCHANGED <<lease, control, forms, ui, host, fence>>

(* Allowing a resumable ask continues its run; any other reply settles the *)
(* session and blocks the projected run.                                   *)
PermissionReply(p, allow) ==
  /\ perms[p] # None
  /\ perms' = [perms EXCEPT ![p] = None]
  /\ ui' = IF allow /\ perms[p].resumable
           THEN Project("running", perms[p].run, FALSE)
           ELSE [Project("completed", None, FALSE) EXCEPT
                   !.runStatus = IF ui.run = perms[p].run THEN "blocked" ELSE @]
  /\ SettlePointer(ui')
  /\ UNCHANGED <<lease, control, forms, host, fence>>

InteractionRequest(f, r) ==
  /\ forms[f] = None
  /\ forms' = [forms EXCEPT ![f] = [run |-> r, answered |-> FALSE]]
  /\ ui' = Project("waiting_input", r, TRUE)
  /\ UNCHANGED <<active, lease, control, perms, host, fence>>

(* An answer and a cancelling answer both resolve the form and keep it     *)
(* until it is consumed.                                                   *)
InteractionReply(f) ==
  /\ forms[f] # None
  /\ ~forms[f].answered
  /\ EventFits(ui, forms[f].run)
  /\ forms' = [forms EXCEPT ![f].answered = TRUE]
  /\ SettlePointer(ui)
  /\ UNCHANGED <<lease, control, perms, ui, host, fence>>

InteractionConsume(f) ==
  /\ forms[f] # None
  /\ forms' = [forms EXCEPT ![f] = None]
  /\ ui' = Project("running", forms[f].run, FALSE)
  /\ UNCHANGED <<active, lease, control, perms, host, fence>>

InteractionCancel(f) ==
  /\ forms[f] # None
  /\ EventFits(ui, forms[f].run)
  /\ forms' = [forms EXCEPT ![f] = None]
  /\ SettlePointer(ui)
  /\ UNCHANGED <<lease, control, perms, ui, host, fence>>

(***************************************************************************)
(* Control commands: patches of the session and of its run.                *)
(***************************************************************************)
RunPatch(r, status) ==
  /\ ui.run = r
  /\ EventFits(ui, r)
  /\ ui' = [ui EXCEPT !.runStatus = status]
  /\ SettlePointer(ui)
  /\ UNCHANGED <<lease, control, host, fence, asks>>

(* A patch without `activeRunId' leaves the pointer to the settling rule. *)
SessionPatchStatus(status) ==
  /\ ui' = [ui EXCEPT !.status = status]
  /\ SettlePointer(ui')
  /\ UNCHANGED <<lease, control, host, fence, asks>>

(* A patch that names a run, or none, assigns the pointer; while the lease *)
(* of the pointed run is open it may only clear the projection.            *)
SessionPatchRun(status, next, token) ==
  /\ OpenFor(lease, active) => next \in {None, active}
  /\ ui' = Project(status, next, token)
  /\ active' = IF OpenFor(lease, active) THEN active ELSE next
  /\ UNCHANGED <<lease, control, host, fence, asks>>

(* The sidecar restarts, or evicts and reloads the session: only the       *)
(* committed state comes back.                                             *)
Reload ==
  /\ terminated # {}
  /\ terminated' = {}
  /\ UNCHANGED <<active, lease, control, ui, writers, admitted, fenced, fence, asks>>

-----------------------------------------------------------------------------
RunOperation ==
  \/ \E r \in Runs : Admit(r)
  \/ \E r \in admitted :
       \/ \E o \in Owners \cup {None} :
            \/ Activate(r, o) \/ FinishSettledRun(r, o)
            \/ \E s \in FinishStatuses : Finish(r, s, o)
       \/ StopBegin(r) \/ StopUnconfirmed(r) \/ Resume(r)
       \/ \E s \in FinishStatuses : RunPatch(r, s)
  \/ StopAck

LeaseOperation ==
  \E o \in Owners :
    \/ ExecutionOpen(o) \/ ExecutionClose(o) \/ ExecutionFailStart(o)
    \/ \E observed \in Runs \cup {None} : ExecutionReconcile(o, observed)

KeeperOperation ==
  \E k \in Keepers :
    \/ CompactionLock(k) \/ CompactionUnlock(k)
    \/ HistoryBegin(k) \/ HistoryEnd(k) \/ HistoryCancel(k)

UserOperation ==
  \/ \E r \in admitted : PermissionRecord(r)
  \/ \E p \in Permissions :
       \/ \E r \in admitted, resumable \in BOOLEAN : PermissionRequest(p, r, resumable)
       \/ PermissionExpire(p)
       \/ \E allow \in BOOLEAN : PermissionReply(p, allow)
  \/ \E f \in Forms :
       \/ \E r \in admitted : InteractionRequest(f, r)
       \/ InteractionReply(f) \/ InteractionConsume(f) \/ InteractionCancel(f)

PatchOperation ==
  \E s \in PatchStatuses \cup {ui.status} :
    \/ SessionPatchStatus(s)
    \/ \E next \in PatchRuns \cap (admitted \cup {None}), token \in {FALSE, ui.token} :
         SessionPatchRun(s, next, token)

WriterOperation ==
  \E w \in Writers :
    \/ \E r \in admitted : StreamFence(w, r)
    \/ RecordState(w) \/ AppendRefused(w)
    \/ \E carried \in FinishStatuses \cup {"running", None} : Append(w, carried)

Next ==
  \/ RunOperation
  \/ LeaseOperation
  \/ KeeperOperation
  \/ UserOperation
  \/ PatchOperation
  \/ WriterOperation
  \/ Reload

Spec == Init /\ [][Next]_vars

-----------------------------------------------------------------------------
(***************************************************************************)
(* What must hold.                                                         *)
(***************************************************************************)

(* A writer whose run was finished, taken over, reconciled or restored     *)
(* away while it was attached never writes to the session again, even when *)
(* a resume or a patch points the session back at its run: its epoch is    *)
(* behind for good (ops.rs, ensure_epoch in `append').                     *)
FencedWritersStayOut == \A w \in fenced : ~AppendAccepted(w)

(* A writer of the current epoch is never refused over its sequence: what  *)
(* it has sent is what the sidecar counted, because the counters are only  *)
(* cleared together with a move of the epoch.                              *)
LiveWriterInStep ==
  \A w \in Writers :
    writers[w].phase = "open" /\ writers[w].epoch = epoch => writers[w].sent = seqs[w]

(* While the lease of the pointed run is open, no admission, recovery,     *)
(* failed launch, maintenance or late finish of another run preempts it.   *)
(* It stays where it is, or closes its lease; only its own finish moves    *)
(* the epoch.  But for that, and for the restore of an older history, it   *)
(* loses the pointer in one case: a command that assigns no pointer leaves *)
(* a session that is settled and whose projection names no run, which is   *)
(* what an earlier terminal patch makes of it.                             *)
LiveExecutorStep ==
  OpenFor(lease, active) =>
    \/ active' = active /\ epoch' = epoch /\ lease' \in {lease, CloseLease(lease)}
    \/ active' = None /\ epoch' = epoch + 1 /\ lease' = CloseLease(lease)
    \/ active' = None /\ control.state = "restoring" /\ lease' = None
    \/ /\ active' = None /\ epoch' = epoch /\ lease' \in {lease, CloseLease(lease)}
       /\ ui'.active = None /\ ui'.status \in Settled

LiveExecutorKept == [][LiveExecutorStep]_vars

(* No run is pointed at while a compaction or a history restore holds the  *)
(* session, when session patches do not name runs.                         *)
MaintenanceExcludesRuns ==
  control.state \in {"compacting", "restoring"} => active = None

(* The claim of control.rs that the projection and the durable pointer     *)
(* never disagree about which run is live.                                 *)
PointersAgree == active # None /\ ui.active # None => ui.active = active
=============================================================================
