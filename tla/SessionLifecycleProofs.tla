----------------------- MODULE SessionLifecycleProofs -----------------------
(***************************************************************************)
(* Proofs about SessionLifecycle, for every set of runs, generations,      *)
(* keepers, asks, forms and writers and for every bound.                   *)
(***************************************************************************)
EXTENDS SessionLifecycle, TLAPS

LEMMA CloseLeaseType ==
  ASSUME NEW l \in Leases \cup {None}, NEW r
  PROVE  CloseLease(l) \in Leases \cup {None} /\ CloseLeaseOf(l, r) \in Leases \cup {None}
BY DEF CloseLease, CloseLeaseOf, Leases

LEMMA OpenedType ==
  ASSUME NEW o \in Owners
  PROVE  Opened(o) \in Leases
BY DEF Opened, Leases, Owners

LEMMA ProjectType ==
  ASSUME TypeOK, NEW status \in SessionStatuses, NEW r \in Runs \cup {None}, NEW t \in BOOLEAN
  PROVE  Project(status, r, t) \in Projections
BY DEF TypeOK, Project, Projections

LEMMA SettlePointerType ==
  ASSUME TypeOK, NEW next, SettlePointer(next)
  PROVE  active' \in Runs \cup {None}
BY DEF TypeOK, SettlePointer

LEMMA RunOperationType == TypeOK /\ RunOperation => TypeOK'
<1> SUFFICES ASSUME TypeOK, RunOperation PROVE TypeOK'
  OBVIOUS
<1> USE ConstantsAssumption
<1>1. ASSUME NEW r \in Runs, Admit(r)
     PROVE  TypeOK'
  <2>1. lease' \in Leases \cup {None}
    BY <1>1, CloseLeaseType
    DEF Admit, TypeOK, AdmitReclaiming, AdmitRetiring, AdmitIdle, IsOpen,
         CloseLeaseOf, CloseLease, Leases
  <2>2. ui' \in Projections
    BY <1>1 DEF Admit, Projections, SessionStatuses, RunStatuses
  <2>3. epoch' \in Nat /\ fenced' \subseteq Writers /\ terminated' \subseteq Runs
    BY <1>1
    DEF Admit, TypeOK, AdmitReclaiming, AdmitRetiring, AdmitIdle, NextEpoch, Fence
  <2> QED
    BY <1>1, <2>1, <2>2, <2>3 DEF TypeOK, Admit, fence, asks, host
<1>2. ASSUME NEW r \in admitted, NEW o \in Owners \cup {None}, Activate(r, o)
     PROVE  TypeOK'
  <2>1. lease' \in Leases \cup {None}
    BY <1>2, OpenedType DEF Activate, TypeOK
  <2>2. ui' \in Projections
    BY <1>2 DEF Activate, Projections, SessionStatuses, RunStatuses, TypeOK
  <2> QED
    BY <1>2, <2>1, <2>2 DEF TypeOK, Activate, fence, asks, host
<1>3. ASSUME NEW r \in admitted, NEW o \in Owners \cup {None}, FinishSettledRun(r,
            o)
     PROVE  TypeOK'
  <2>1. lease' \in Leases \cup {None}
    BY <1>3, CloseLeaseType DEF FinishSettledRun, TypeOK
  <2>2. epoch' \in Nat
    BY <1>3 DEF FinishSettledRun, NextEpoch, TypeOK
  <2>3. seqs' \in [Writers -> Nat]
    BY <1>3 DEF FinishSettledRun, ResetSeqs
  <2>4. fenced' \subseteq Writers
    BY <1>3 DEF FinishSettledRun, Fence, TypeOK
  <2>5. terminated' \subseteq Runs
    BY <1>3 DEF FinishSettledRun, TypeOK
  <2> QED
    BY <1>3, <2>1, <2>2, <2>3, <2>4, <2>5
    DEF TypeOK, FinishSettledRun, fence, asks, host
<1>4. ASSUME NEW r \in admitted, NEW o \in Owners \cup {None}, NEW s \in
            FinishStatuses, Finish(r, s, o)
     PROVE  TypeOK'
  <2>1. lease' \in Leases \cup {None}
    BY <1>4, CloseLeaseType DEF Finish, TypeOK
  <2>2. epoch' \in Nat
    BY <1>4 DEF Finish, NextEpoch, TypeOK
  <2>3. seqs' \in [Writers -> Nat]
    BY <1>4 DEF Finish, ResetSeqs
  <2>4. fenced' \subseteq Writers
    BY <1>4 DEF Finish, Fence, TypeOK
  <2>5. terminated' \subseteq Runs
    BY <1>4 DEF Finish, TypeOK
  <2>6. ui' \in Projections
    BY <1>4
    DEF Finish, Projections, SessionStatuses, RunStatuses, TerminalRuns, TypeOK
  <2> QED
    BY <1>4, <2>1, <2>2, <2>3, <2>4, <2>5, <2>6
    DEF TypeOK, Finish, fence, asks, host
<1>5. ASSUME NEW r \in admitted, StopBegin(r)
     PROVE  TypeOK'
  BY <1>5, ProjectType
  DEF TypeOK, Projections, Leases, Controls, NoControl, RecordStates, StreamWriters,
       Owners, fence, asks, host, SessionStatuses, StopBegin, StopFence
<1>6. ASSUME NEW r \in admitted, StopUnconfirmed(r)
     PROVE  TypeOK'
  BY <1>6, ProjectType
  DEF TypeOK, Projections, Leases, Controls, NoControl, RecordStates, StreamWriters,
       Owners, fence, asks, host, SessionStatuses, StopUnconfirmed, StopFence
<1>7. ASSUME NEW r \in admitted, Resume(r)
     PROVE  TypeOK'
  BY <1>7, ProjectType
  DEF TypeOK, Projections, Leases, Controls, NoControl, RecordStates, StreamWriters,
       Owners, fence, asks, host, SessionStatuses, Resume
<1>8. ASSUME NEW r \in admitted, NEW s \in FinishStatuses, RunPatch(r, s)
     PROVE  TypeOK'
  BY <1>8, SettlePointerType
  DEF TypeOK, Projections, Leases, Controls, NoControl, RecordStates, StreamWriters,
       Owners, fence, asks, host, SessionStatuses, RunPatch, RunStatuses,
       TerminalRuns
<1>9. ASSUME StopAck
     PROVE  TypeOK'
  BY <1>9, ProjectType
  DEF TypeOK, Projections, Leases, Controls, NoControl, RecordStates, StreamWriters,
       Owners, fence, asks, host, SessionStatuses, StopAck
<1> QED
  BY <1>1, <1>2, <1>3, <1>4, <1>5, <1>6, <1>7, <1>8, <1>9 DEF RunOperation

LEMMA LeaseOperationType == TypeOK /\ LeaseOperation => TypeOK'
<1> SUFFICES ASSUME TypeOK, LeaseOperation PROVE TypeOK'
  OBVIOUS
<1> USE ConstantsAssumption
<1>1. ASSUME NEW o \in Owners, ExecutionOpen(o)
     PROVE  TypeOK'
  BY <1>1, OpenedType, SettlePointerType
  DEF TypeOK, Projections, Leases, Controls, NoControl, RecordStates, StreamWriters,
       Owners, fence, asks, host, SessionStatuses, ExecutionOpen
<1>2. ASSUME NEW o \in Owners, ExecutionClose(o)
     PROVE  TypeOK'
  <2>1. lease' \in Leases \cup {None}
    BY <1>2, CloseLeaseType DEF ExecutionClose, TypeOK
  <2>2. active' \in Runs \cup {None}
    BY <1>2, SettlePointerType DEF ExecutionClose
  <2> QED
    BY <1>2, <2>1, <2>2 DEF TypeOK, ExecutionClose, fence, asks, host
<1>3. ASSUME NEW o \in Owners, ExecutionFailStart(o)
     PROVE  TypeOK'
  <2>1. lease' \in Leases \cup {None}
    BY <1>3, CloseLeaseType DEF ExecutionFailStart, TypeOK
  <2>2. epoch' \in Nat
    BY <1>3 DEF ExecutionFailStart, NextEpoch, TypeOK
  <2>3. seqs' \in [Writers -> Nat]
    BY <1>3 DEF ExecutionFailStart, ResetSeqs
  <2>4. fenced' \subseteq Writers
    BY <1>3 DEF ExecutionFailStart, Fence, TypeOK
  <2>5. o.run \in Runs
    BY <1>3 DEF ExecutionFailStart, Owners
  <2>6. ui' \in Projections
    <3>1. CASE UNCHANGED ui
      BY <3>1 DEF TypeOK
    <3>2. CASE ui' = [status |-> "failed", active |-> None, token |-> FALSE,
                      run |-> o.run, runStatus |-> "failed"]
      BY <2>5, <3>2 DEF Projections, SessionStatuses, RunStatuses, TerminalRuns
    <3> QED
      BY <1>3, <3>1, <3>2 DEF ExecutionFailStart
  <2>7. active' \in Runs \cup {None}
    BY <1>3 DEF ExecutionFailStart, SettlePointer, TypeOK
  <2> QED
    BY <1>3, <2>1, <2>2, <2>3, <2>4, <2>5, <2>6, <2>7
    DEF TypeOK, ExecutionFailStart, fence, asks, host
<1>4. ASSUME NEW o \in Owners, NEW observed \in Runs \cup {None},
            ExecutionReconcile(o, observed)
     PROVE  TypeOK'
  <2>1. lease' \in Leases \cup {None}
    BY <1>4, CloseLeaseType DEF ExecutionReconcile, TypeOK
  <2>2. epoch' \in Nat
    BY <1>4 DEF ExecutionReconcile, NextEpoch, TypeOK
  <2>3. seqs' \in [Writers -> Nat]
    BY <1>4 DEF ExecutionReconcile, ResetSeqs
  <2>4. fenced' \subseteq Writers
    BY <1>4 DEF ExecutionReconcile, Fence, TypeOK
  <2>5. active' \in Runs \cup {None}
    BY <1>4, SettlePointerType DEF ExecutionReconcile
  <2> QED
    BY <1>4, <2>1, <2>2, <2>3, <2>4, <2>5
    DEF TypeOK, ExecutionReconcile, fence, asks, host
<1> QED
  BY <1>1, <1>2, <1>3, <1>4 DEF LeaseOperation

LEMMA KeeperOperationType == TypeOK /\ KeeperOperation => TypeOK'
<1> SUFFICES ASSUME TypeOK, KeeperOperation PROVE TypeOK'
  OBVIOUS
<1> USE ConstantsAssumption
<1>1. ASSUME NEW k \in Keepers, CompactionLock(k)
     PROVE  TypeOK'
  BY <1>1
  DEF TypeOK, Projections, Leases, Controls, NoControl, RecordStates, StreamWriters,
       Owners, fence, asks, host, SessionStatuses, CompactionLock
<1>2. ASSUME NEW k \in Keepers, CompactionUnlock(k)
     PROVE  TypeOK'
  BY <1>2, SettlePointerType
  DEF TypeOK, Projections, Leases, Controls, NoControl, RecordStates, StreamWriters,
       Owners, fence, asks, host, SessionStatuses, CompactionUnlock
<1>3. ASSUME NEW k \in Keepers, HistoryBegin(k)
     PROVE  TypeOK'
  BY <1>3, ProjectType
  DEF TypeOK, Projections, Leases, Controls, NoControl, RecordStates, StreamWriters,
       Owners, fence, asks, host, SessionStatuses, HistoryBegin
<1>4. ASSUME NEW k \in Keepers, HistoryEnd(k)
     PROVE  TypeOK'
  BY <1>4
  DEF TypeOK, Projections, Leases, Controls, NoControl, RecordStates, StreamWriters,
       Owners, fence, asks, host, SessionStatuses, HistoryEnd, NextEpoch, Fence,
       ResetSeqs
<1>5. ASSUME NEW k \in Keepers, HistoryCancel(k)
     PROVE  TypeOK'
  <2>1. control.prior \in SessionStatuses
    BY <1>5 DEF HistoryCancel, TypeOK, Controls, NoControl
  <2>2. ui' \in Projections
    BY <1>5, <2>1, ProjectType DEF HistoryCancel
  <2>3. active' \in Runs \cup {None}
    BY <1>5, SettlePointerType DEF HistoryCancel
  <2>4. control' \in Controls
    BY <1>5 DEF HistoryCancel, Controls
  <2> QED
    BY <1>5, <2>1, <2>2, <2>3, <2>4 DEF TypeOK, HistoryCancel, fence, asks, host
<1> QED
  BY <1>1, <1>2, <1>3, <1>4, <1>5 DEF KeeperOperation

LEMMA UserOperationType == TypeOK /\ UserOperation => TypeOK'
<1> SUFFICES ASSUME TypeOK, UserOperation PROVE TypeOK'
  OBVIOUS
<1> USE ConstantsAssumption
<1>1. ASSUME NEW r \in admitted, PermissionRecord(r)
     PROVE  TypeOK'
  BY <1>1, SettlePointerType
  DEF TypeOK, Projections, Leases, Controls, NoControl, RecordStates, StreamWriters,
       Owners, fence, asks, host, SessionStatuses, PermissionRecord
<1>2. ASSUME NEW p \in Permissions, NEW r \in admitted, NEW resumable \in BOOLEAN,
            PermissionRequest(p, r, resumable)
     PROVE  TypeOK'
  BY <1>2, ProjectType
  DEF TypeOK, Projections, Leases, Controls, NoControl, RecordStates, StreamWriters,
       Owners, fence, asks, host, SessionStatuses, PermissionRequest
<1>3. ASSUME NEW p \in Permissions, PermissionExpire(p)
     PROVE  TypeOK'
  BY <1>3, SettlePointerType
  DEF TypeOK, Projections, Leases, Controls, NoControl, RecordStates, StreamWriters,
       Owners, fence, asks, host, SessionStatuses, PermissionExpire
<1>4. ASSUME NEW p \in Permissions, NEW allow \in BOOLEAN, PermissionReply(p, allow)
     PROVE  TypeOK'
  <2>1. ui' \in Projections
    BY <1>4
    DEF PermissionReply, Project, Projections, SessionStatuses, RunStatuses,
         TerminalRuns, TypeOK
  <2>2. active' \in Runs \cup {None}
    BY <1>4, SettlePointerType DEF PermissionReply
  <2>3. perms' \in [Permissions -> [run : Runs, resumable : BOOLEAN] \cup {None}]
    BY <1>4 DEF PermissionReply, TypeOK
  <2> QED
    BY <1>4, <2>1, <2>2, <2>3 DEF TypeOK, PermissionReply, fence, asks, host
<1>5. ASSUME NEW f \in Forms, NEW r \in admitted, InteractionRequest(f, r)
     PROVE  TypeOK'
  BY <1>5, ProjectType
  DEF TypeOK, Projections, Leases, Controls, NoControl, RecordStates, StreamWriters,
       Owners, fence, asks, host, SessionStatuses, InteractionRequest
<1>6. ASSUME NEW f \in Forms, InteractionReply(f)
     PROVE  TypeOK'
  <2>1. active' \in Runs \cup {None}
    BY <1>6, SettlePointerType DEF InteractionReply
  <2>2. forms' \in [Forms -> [run : Runs, answered : BOOLEAN] \cup {None}]
    BY <1>6 DEF InteractionReply, TypeOK
  <2> QED
    BY <1>6, <2>1, <2>2 DEF TypeOK, InteractionReply, fence, asks, host
<1>7. ASSUME NEW f \in Forms, InteractionConsume(f)
     PROVE  TypeOK'
  <2>1. ui' \in Projections
    BY <1>7, ProjectType DEF InteractionConsume, TypeOK, SessionStatuses
  <2>2. forms' \in [Forms -> [run : Runs, answered : BOOLEAN] \cup {None}]
    BY <1>7 DEF InteractionConsume, TypeOK
  <2> QED
    BY <1>7, <2>1, <2>2 DEF TypeOK, InteractionConsume, fence, asks, host
<1>8. ASSUME NEW f \in Forms, InteractionCancel(f)
     PROVE  TypeOK'
  BY <1>8, SettlePointerType
  DEF TypeOK, Projections, Leases, Controls, NoControl, RecordStates, StreamWriters,
       Owners, fence, asks, host, SessionStatuses, InteractionCancel
<1> QED
  BY <1>1, <1>2, <1>3, <1>4, <1>5, <1>6, <1>7, <1>8 DEF UserOperation

LEMMA PatchOperationType == TypeOK /\ PatchOperation => TypeOK'
<1> SUFFICES ASSUME TypeOK, PatchOperation PROVE TypeOK'
  OBVIOUS
<1> USE ConstantsAssumption
<1>1. ASSUME NEW s \in PatchStatuses \cup {ui.status}, SessionPatchStatus(s)
     PROVE  TypeOK'
  BY <1>1, SettlePointerType
  DEF TypeOK, Projections, Leases, Controls, NoControl, RecordStates, StreamWriters,
       Owners, fence, asks, host, SessionStatuses, SessionPatchStatus
<1>2. ASSUME NEW s \in PatchStatuses \cup {ui.status}, NEW next \in PatchRuns \cap
            (admitted \cup {None}), NEW token \in {FALSE, ui.token},
            SessionPatchRun(s, next, token)
     PROVE  TypeOK'
  <2>1. s \in SessionStatuses /\ next \in Runs \cup {None} /\ token \in BOOLEAN
    BY <1>2 DEF SessionPatchRun, TypeOK, Projections
  <2>2. ui' \in Projections
    BY <1>2, <2>1, ProjectType DEF SessionPatchRun
  <2>3. active' \in Runs \cup {None}
    BY <1>2, <2>1 DEF SessionPatchRun, TypeOK
  <2> QED
    BY <1>2, <2>1, <2>2, <2>3 DEF TypeOK, SessionPatchRun, fence, asks, host
<1> QED
  BY <1>1, <1>2 DEF PatchOperation

LEMMA WriterOperationType == TypeOK /\ WriterOperation => TypeOK'
<1> SUFFICES ASSUME TypeOK, WriterOperation PROVE TypeOK'
  OBVIOUS
<1> USE ConstantsAssumption
<1>1. ASSUME NEW w \in Writers, NEW r \in admitted, StreamFence(w, r)
     PROVE  TypeOK'
  BY <1>1
  DEF TypeOK, Projections, Leases, Controls, NoControl, RecordStates, StreamWriters,
       Owners, fence, asks, host, SessionStatuses, StreamFence
<1>2. ASSUME NEW w \in Writers, RecordState(w)
     PROVE  TypeOK'
  BY <1>2
  DEF TypeOK, Projections, Leases, Controls, NoControl, RecordStates, StreamWriters,
       Owners, fence, asks, host, SessionStatuses, RecordState
<1>3. ASSUME NEW w \in Writers, AppendRefused(w)
     PROVE  TypeOK'
  BY <1>3
  DEF TypeOK, Projections, Leases, Controls, NoControl, RecordStates, StreamWriters,
       Owners, fence, asks, host, SessionStatuses, AppendRefused
<1>4. ASSUME NEW w \in Writers, NEW carried \in FinishStatuses \cup {"running",
            None}, Append(w, carried)
     PROVE  TypeOK'
  BY <1>4
  DEF TypeOK, Projections, Leases, Controls, NoControl, RecordStates, StreamWriters,
       Owners, fence, asks, host, SessionStatuses, Append, RunStatuses, TerminalRuns
<1> QED
  BY <1>1, <1>2, <1>3, <1>4 DEF WriterOperation

(* Every variable of the session keeps its type, whatever the host sends. *)
THEOREM TypeCorrect == Spec => []TypeOK
<1>1. Init => TypeOK
  BY ConstantsAssumption
  DEF Init, TypeOK, Controls, Projections, SessionStatuses, StreamWriters, NoState
<1>2. TypeOK /\ [Next]_vars => TypeOK'
  <2> SUFFICES ASSUME TypeOK, [Next]_vars PROVE TypeOK'
    OBVIOUS
  <2>1. CASE Next
    <3>1. CASE Reload
      BY <3>1 DEF Reload, TypeOK, fence, asks
    <3> QED
      BY <2>1, <3>1, RunOperationType, LeaseOperationType, KeeperOperationType,
         UserOperationType, PatchOperationType, WriterOperationType DEF Next
  <2>2. CASE UNCHANGED vars
    BY <2>2 DEF vars, TypeOK
  <2> QED
    BY <2>1, <2>2
<1> QED
  BY <1>1, <1>2, PTL DEF Spec

-----------------------------------------------------------------------------
(***************************************************************************)
(* The writers and the epoch.                                              *)
(***************************************************************************)

(* What makes FencedWritersStayOut and LiveWriterInStep inductive: no      *)
(* writer is ahead of the epoch and a fenced one is strictly behind it, so *)
(* that only a writer of the current epoch has to agree with the counters. *)
WriterInv ==
  /\ \A w \in Writers :
       /\ writers[w].epoch <= epoch
       /\ writers[w].phase = "new" => writers[w].run = None /\ seqs[w] = 0
       /\ writers[w].phase = "open" /\ writers[w].epoch = epoch =>
            writers[w].sent = seqs[w]
  /\ \A w \in fenced : writers[w].phase # "new" /\ writers[w].epoch < epoch

(* A step that has nothing to do with the writers. *)
Quiet == UNCHANGED <<epoch, seqs, writers, fenced>>

(* A step that moves the epoch and cuts attached writers off. *)
Cut ==
  /\ epoch' = epoch + 1
  /\ writers' = writers
  /\ seqs' = seqs \/ seqs' = [w \in Writers |-> 0]
  /\ fenced' \subseteq fenced \cup {w \in Writers : writers[w].run # None}

LEMMA RunOperationKind == TypeOK /\ RunOperation => Quiet \/ Cut
<1> SUFFICES ASSUME TypeOK, RunOperation PROVE Quiet \/ Cut
  OBVIOUS
<1> USE ConstantsAssumption DEF Quiet, Cut, host, fence, TypeOK
<1>1. ASSUME NEW r \in Runs, Admit(r) PROVE Quiet \/ Cut
  BY <1>1 DEF Admit, AdmitReclaiming, AdmitRetiring, AdmitIdle, NextEpoch, Fence,
              IsOpen, Leases
<1>2. ASSUME NEW r \in admitted, NEW o \in Owners \cup {None}, FinishSettledRun(r, o)
      PROVE  Cut
  BY <1>2 DEF FinishSettledRun, NextEpoch, Fence, ResetSeqs
<1>3. ASSUME NEW r \in admitted, NEW o \in Owners \cup {None},
             NEW s \in FinishStatuses, Finish(r, s, o)
      PROVE  Cut
  BY <1>3 DEF Finish, NextEpoch, Fence, ResetSeqs
<1>4. ASSUME StopAck PROVE Quiet
  BY <1>4 DEF StopAck
<1> HIDE DEF Quiet, Cut, TypeOK
<1>5. \A r \in admitted, o \in Owners \cup {None} : Activate(r, o) => Quiet
  BY DEF Activate, Quiet, host, fence
<1>6. \A r \in admitted : StopBegin(r) \/ StopUnconfirmed(r) \/ Resume(r) => Quiet
  BY DEF StopBegin, StopUnconfirmed, StopFence, Resume, Quiet, host, fence
<1>7. \A r \in admitted, s \in FinishStatuses : RunPatch(r, s) => Quiet
  BY DEF RunPatch, Quiet, host, fence
<1> QED
  BY <1>1, <1>2, <1>3, <1>4, <1>5, <1>6, <1>7 DEF RunOperation

LEMMA LeaseOperationKind == TypeOK /\ LeaseOperation => Quiet \/ Cut
<1> SUFFICES ASSUME TypeOK, NEW o \in Owners, NEW observed \in Runs \cup {None},
                    \/ ExecutionOpen(o) \/ ExecutionClose(o) \/ ExecutionFailStart(o)
                    \/ ExecutionReconcile(o, observed)
             PROVE  Quiet \/ Cut
  BY DEF LeaseOperation
<1>1. o.run \in Runs
  BY DEF Owners
<1>2. CASE ExecutionOpen(o) \/ ExecutionClose(o)
  BY <1>2 DEF ExecutionOpen, ExecutionClose, Quiet, host, fence
<1>3. CASE ExecutionFailStart(o)
  BY <1>1, <1>3, ConstantsAssumption
  DEF ExecutionFailStart, NextEpoch, Fence, ResetSeqs, Cut
<1>4. CASE ExecutionReconcile(o, observed)
  BY <1>1, <1>4, ConstantsAssumption
  DEF ExecutionReconcile, NextEpoch, Fence, ResetSeqs, Cut
<1> QED
  BY <1>2, <1>3, <1>4

LEMMA KeeperOperationKind == TypeOK /\ KeeperOperation => Quiet \/ Cut
<1> SUFFICES ASSUME TypeOK, NEW k \in Keepers,
                    \/ CompactionLock(k) \/ CompactionUnlock(k)
                    \/ HistoryBegin(k) \/ HistoryEnd(k) \/ HistoryCancel(k)
             PROVE  Quiet \/ Cut
  BY DEF KeeperOperation
<1>1. CASE CompactionLock(k) \/ CompactionUnlock(k) \/ HistoryBegin(k) \/ HistoryCancel(k)
  BY <1>1
  DEF CompactionLock, CompactionUnlock, HistoryBegin, HistoryCancel, Quiet, host, fence
<1>2. CASE HistoryEnd(k)
  BY <1>2, ConstantsAssumption DEF HistoryEnd, NextEpoch, Fence, ResetSeqs, Cut
<1> QED
  BY <1>1, <1>2

LEMMA OtherOperationsQuiet == UserOperation \/ PatchOperation \/ Reload => Quiet
<1>1. UserOperation => Quiet
  BY DEF UserOperation, PermissionRecord, PermissionRequest, PermissionExpire,
         PermissionReply, InteractionRequest, InteractionReply, InteractionConsume,
         InteractionCancel, Quiet, host, fence
<1>2. PatchOperation => Quiet
  BY DEF PatchOperation, SessionPatchStatus, SessionPatchRun, Quiet, host, fence
<1>3. Reload => Quiet
  BY DEF Reload, Quiet, fence
<1> QED
  BY <1>1, <1>2, <1>3

LEMMA QuietKeepsWriters == WriterInv /\ Quiet => WriterInv'
BY DEF WriterInv, Quiet

LEMMA CutKeepsWriters == TypeOK /\ WriterInv /\ Cut => WriterInv'
<1> SUFFICES ASSUME TypeOK, WriterInv, Cut PROVE WriterInv'
  OBVIOUS
<1>1. \A w \in Writers : writers[w].epoch \in Nat /\ writers[w].epoch < epoch'
  BY DEF TypeOK, StreamWriters, WriterInv, Cut
<1>2. ASSUME NEW w \in Writers, writers[w].phase = "new"
      PROVE  writers[w].run = None /\ seqs'[w] = 0
  BY <1>2 DEF WriterInv, Cut
<1>3. fenced' \subseteq Writers
  BY DEF TypeOK, Cut
<1>4. ASSUME NEW w \in fenced' PROVE writers[w].phase # "new"
  BY <1>3, <1>4 DEF TypeOK, WriterInv, Cut
<1> QED
  BY <1>1, <1>2, <1>3, <1>4 DEF WriterInv, Cut, TypeOK

LEMMA WriterOperationKeepsWriters == TypeOK /\ WriterInv /\ WriterOperation => WriterInv'
<1> SUFFICES ASSUME TypeOK, WriterInv, NEW w \in Writers,
                    \/ \E r \in admitted : StreamFence(w, r)
                    \/ RecordState(w) \/ AppendRefused(w)
                    \/ \E carried \in FinishStatuses \cup {"running", None} : Append(w, carried)
             PROVE  WriterInv'
  BY DEF WriterOperation
<1> USE DEF TypeOK, StreamWriters, WriterInv, fence
<1>1. ASSUME NEW r \in admitted, StreamFence(w, r) PROVE WriterInv'
  BY <1>1 DEF StreamFence
<1>2. CASE RecordState(w)
  BY <1>2 DEF RecordState
<1>3. CASE AppendRefused(w)
  BY <1>3 DEF AppendRefused
<1>4. ASSUME NEW carried, Append(w, carried) PROVE WriterInv'
  BY <1>4 DEF Append, AppendAccepted
<1> QED
  BY <1>1, <1>2, <1>3, <1>4

LEMMA WriterInvariant == Spec => []WriterInv
<1>1. Init => WriterInv
  BY DEF Init, WriterInv
<1>2. TypeOK /\ WriterInv /\ [Next]_vars => WriterInv'
  <2>1. UNCHANGED vars => Quiet
    BY DEF vars, Quiet
  <2> QED
    BY <2>1, RunOperationKind, LeaseOperationKind, KeeperOperationKind,
       OtherOperationsQuiet, QuietKeepsWriters, CutKeepsWriters,
       WriterOperationKeepsWriters
    DEF Next
<1> QED
  BY <1>1, <1>2, TypeCorrect, PTL DEF Spec

(* A writer cut off by the settling of its run never appends again. *)
THEOREM FencedWritersAreOut == Spec => []FencedWritersStayOut
<1>1. TypeOK /\ WriterInv => FencedWritersStayOut
  BY DEF TypeOK, StreamWriters, WriterInv, FencedWritersStayOut, AppendAccepted
<1> QED
  BY <1>1, TypeCorrect, WriterInvariant, PTL

(* A writer of the current epoch agrees with the sidecar's counter. *)
THEOREM LiveWritersInStep == Spec => []LiveWriterInStep
<1>1. WriterInv => LiveWriterInStep
  BY DEF WriterInv, LiveWriterInStep
<1> QED
  BY <1>1, WriterInvariant, PTL

-----------------------------------------------------------------------------
(***************************************************************************)
(* The executor that holds the open lease of the pointed run.              *)
(***************************************************************************)
LEMMA RunOperationKeepsExecutor == TypeOK /\ RunOperation => LiveExecutorStep
<1> SUFFICES ASSUME TypeOK, RunOperation, OpenFor(lease, active) PROVE LiveExecutorStep
  BY DEF LiveExecutorStep
<1> USE ConstantsAssumption DEF LiveExecutorStep, OpenFor, IsOpen, TypeOK, Leases
<1>1. ASSUME NEW r \in Runs, Admit(r)
     PROVE  LiveExecutorStep
  BY <1>1 DEF Admit, AdmitReclaiming, AdmitRetiring, AdmitIdle, fence, host
<1>2. ASSUME NEW r \in admitted, NEW o \in Owners \cup {None}, Activate(r, o)
     PROVE  LiveExecutorStep
  BY <1>2 DEF Activate, Openable, Opened, SameOwner, fence, host, Owners
<1>3. ASSUME NEW r \in admitted, NEW o \in Owners \cup {None}, FinishSettledRun(r,
            o)
     PROVE  LiveExecutorStep
  BY <1>3 DEF FinishSettledRun, fence, host
<1>4. ASSUME NEW r \in admitted, NEW o \in Owners \cup {None}, NEW s \in
            FinishStatuses, Finish(r, s, o)
     PROVE  LiveExecutorStep
  BY <1>4 DEF Finish, NextEpoch, CloseLeaseOf, fence, host
<1>5. ASSUME NEW r \in admitted, StopBegin(r)
     PROVE  LiveExecutorStep
  BY <1>5 DEF StopBegin, StopFence, fence, host
<1>6. ASSUME NEW r \in admitted, StopUnconfirmed(r)
     PROVE  LiveExecutorStep
  BY <1>6 DEF StopUnconfirmed, StopFence, fence, host
<1>7. ASSUME NEW r \in admitted, Resume(r)
     PROVE  LiveExecutorStep
  BY <1>7 DEF Resume, fence, host
<1>8. ASSUME NEW r \in admitted, NEW s \in FinishStatuses, RunPatch(r, s)
     PROVE  LiveExecutorStep
  BY <1>8 DEF RunPatch, SettlePointer, fence, host
<1>9. ASSUME StopAck
     PROVE  LiveExecutorStep
  BY <1>9 DEF StopAck, fence, host
<1> HIDE DEF LiveExecutorStep, OpenFor, IsOpen, TypeOK, Leases
<1> QED
  BY <1>1, <1>2, <1>3, <1>4, <1>5, <1>6, <1>7, <1>8, <1>9 DEF RunOperation

LEMMA LeaseOperationKeepsExecutor == TypeOK /\ LeaseOperation => LiveExecutorStep
<1> SUFFICES ASSUME TypeOK, LeaseOperation, OpenFor(lease, active) PROVE LiveExecutorStep
  BY DEF LiveExecutorStep
<1> USE ConstantsAssumption DEF LiveExecutorStep, OpenFor, IsOpen, TypeOK, Leases
<1>1. ASSUME NEW o \in Owners, ExecutionOpen(o)
     PROVE  LiveExecutorStep
  BY <1>1
  DEF ExecutionOpen, Openable, Opened, SameOwner, SettlePointer, fence, host, Owners
<1>2. ASSUME NEW o \in Owners, ExecutionClose(o)
     PROVE  LiveExecutorStep
  BY <1>2 DEF ExecutionClose, SettlePointer, fence, host
<1>3. ASSUME NEW o \in Owners, ExecutionFailStart(o)
     PROVE  LiveExecutorStep
  BY <1>3 DEF ExecutionFailStart, SettlePointer, fence, host
<1>4. ASSUME NEW o \in Owners, NEW observed \in Runs \cup {None},
            ExecutionReconcile(o, observed)
     PROVE  LiveExecutorStep
  BY <1>4 DEF ExecutionReconcile, SameOwner, fence, host, Owners
<1> HIDE DEF LiveExecutorStep, OpenFor, IsOpen, TypeOK, Leases
<1> QED
  BY <1>1, <1>2, <1>3, <1>4 DEF LeaseOperation

LEMMA KeeperOperationKeepsExecutor == TypeOK /\ KeeperOperation => LiveExecutorStep
<1> SUFFICES ASSUME TypeOK, KeeperOperation, OpenFor(lease, active) PROVE LiveExecutorStep
  BY DEF LiveExecutorStep
<1> USE ConstantsAssumption DEF LiveExecutorStep, OpenFor, IsOpen, TypeOK, Leases
<1>1. ASSUME NEW k \in Keepers, CompactionLock(k)
     PROVE  LiveExecutorStep
  BY <1>1 DEF CompactionLock, fence, host
<1>2. ASSUME NEW k \in Keepers, CompactionUnlock(k)
     PROVE  LiveExecutorStep
  BY <1>2 DEF CompactionUnlock, SettlePointer, fence, host
<1>3. ASSUME NEW k \in Keepers, HistoryBegin(k)
     PROVE  LiveExecutorStep
  BY <1>3 DEF HistoryBegin, fence, host
<1>4. ASSUME NEW k \in Keepers, HistoryEnd(k)
     PROVE  LiveExecutorStep
  BY <1>4 DEF HistoryEnd, fence, host
<1>5. ASSUME NEW k \in Keepers, HistoryCancel(k)
     PROVE  LiveExecutorStep
  BY <1>5 DEF HistoryCancel, SettlePointer, fence, host
<1> HIDE DEF LiveExecutorStep, OpenFor, IsOpen, TypeOK, Leases
<1> QED
  BY <1>1, <1>2, <1>3, <1>4, <1>5 DEF KeeperOperation

LEMMA UserOperationKeepsExecutor == TypeOK /\ UserOperation => LiveExecutorStep
<1> SUFFICES ASSUME TypeOK, UserOperation, OpenFor(lease, active) PROVE LiveExecutorStep
  BY DEF LiveExecutorStep
<1> USE ConstantsAssumption DEF LiveExecutorStep, OpenFor, IsOpen, TypeOK, Leases
<1>1. ASSUME NEW r \in admitted, PermissionRecord(r)
     PROVE  LiveExecutorStep
  BY <1>1 DEF PermissionRecord, SettlePointer, fence, host
<1>2. ASSUME NEW p \in Permissions, NEW r \in admitted, NEW resumable \in BOOLEAN,
            PermissionRequest(p, r, resumable)
     PROVE  LiveExecutorStep
  BY <1>2 DEF PermissionRequest, fence, host
<1>3. ASSUME NEW p \in Permissions, PermissionExpire(p)
     PROVE  LiveExecutorStep
  BY <1>3 DEF PermissionExpire, SettlePointer, fence, host
<1>4. ASSUME NEW p \in Permissions, NEW allow \in BOOLEAN, PermissionReply(p, allow)
     PROVE  LiveExecutorStep
  BY <1>4 DEF PermissionReply, SettlePointer, fence, host
<1>5. ASSUME NEW f \in Forms, NEW r \in admitted, InteractionRequest(f, r)
     PROVE  LiveExecutorStep
  BY <1>5 DEF InteractionRequest, fence, host
<1>6. ASSUME NEW f \in Forms, InteractionReply(f)
     PROVE  LiveExecutorStep
  BY <1>6 DEF InteractionReply, SettlePointer, fence, host
<1>7. ASSUME NEW f \in Forms, InteractionConsume(f)
     PROVE  LiveExecutorStep
  BY <1>7 DEF InteractionConsume, fence, host
<1>8. ASSUME NEW f \in Forms, InteractionCancel(f)
     PROVE  LiveExecutorStep
  BY <1>8 DEF InteractionCancel, SettlePointer, fence, host
<1> HIDE DEF LiveExecutorStep, OpenFor, IsOpen, TypeOK, Leases
<1> QED
  BY <1>1, <1>2, <1>3, <1>4, <1>5, <1>6, <1>7, <1>8 DEF UserOperation

LEMMA PatchOperationKeepsExecutor == TypeOK /\ PatchOperation => LiveExecutorStep
<1> SUFFICES ASSUME TypeOK, PatchOperation, OpenFor(lease, active) PROVE LiveExecutorStep
  BY DEF LiveExecutorStep
<1> USE ConstantsAssumption DEF LiveExecutorStep, OpenFor, IsOpen, TypeOK, Leases
<1>1. ASSUME NEW s \in PatchStatuses \cup {ui.status}, SessionPatchStatus(s)
     PROVE  LiveExecutorStep
  BY <1>1 DEF SessionPatchStatus, SettlePointer, fence, host
<1>2. ASSUME NEW s \in PatchStatuses \cup {ui.status}, NEW next \in PatchRuns \cap
            (admitted \cup {None}), NEW token \in {FALSE, ui.token},
            SessionPatchRun(s, next, token)
     PROVE  LiveExecutorStep
  BY <1>2 DEF SessionPatchRun, fence, host
<1> HIDE DEF LiveExecutorStep, OpenFor, IsOpen, TypeOK, Leases
<1> QED
  BY <1>1, <1>2 DEF PatchOperation

LEMMA WriterOperationKeepsExecutor == TypeOK /\ WriterOperation => LiveExecutorStep
<1> SUFFICES ASSUME TypeOK, WriterOperation, OpenFor(lease, active) PROVE LiveExecutorStep
  BY DEF LiveExecutorStep
<1> USE ConstantsAssumption DEF LiveExecutorStep, OpenFor, IsOpen, TypeOK, Leases
<1>1. ASSUME NEW w \in Writers, NEW r \in admitted, StreamFence(w, r)
     PROVE  LiveExecutorStep
  BY <1>1 DEF StreamFence, fence, host
<1>2. ASSUME NEW w \in Writers, RecordState(w)
     PROVE  LiveExecutorStep
  BY <1>2 DEF RecordState, fence, host
<1>3. ASSUME NEW w \in Writers, AppendRefused(w)
     PROVE  LiveExecutorStep
  BY <1>3 DEF AppendRefused, fence, host
<1>4. ASSUME NEW w \in Writers, NEW carried \in FinishStatuses \cup {"running",
            None}, Append(w, carried)
     PROVE  LiveExecutorStep
  BY <1>4 DEF Append, fence, host
<1> HIDE DEF LiveExecutorStep, OpenFor, IsOpen, TypeOK, Leases
<1> QED
  BY <1>1, <1>2, <1>3, <1>4 DEF WriterOperation

(* The executor of the pointed run stays, closes its lease, finishes, or   *)
(* loses the pointer to the restore of an older history or to the settling *)
(* rule: for any runs, generations, writers and epochs.                    *)
THEOREM LiveExecutorIsKept == Spec => LiveExecutorKept
<1>1. TypeOK /\ [Next]_vars => [LiveExecutorStep]_vars
  <2>1. Reload => LiveExecutorStep
    BY DEF Reload, LiveExecutorStep, fence
  <2> QED
    BY <2>1, RunOperationKeepsExecutor, LeaseOperationKeepsExecutor,
       KeeperOperationKeepsExecutor, UserOperationKeepsExecutor,
       PatchOperationKeepsExecutor, WriterOperationKeepsExecutor
    DEF Next
<1> QED
  BY <1>1, TypeCorrect, PTL DEF Spec, LiveExecutorKept

-----------------------------------------------------------------------------
(* When session patches name no run, a maintenance fence and a run pointer *)
(* exclude each other.                                                     *)
THEOREM MaintenanceExclusion ==
  ASSUME PatchRuns \subseteq {None}
  PROVE  Spec => []MaintenanceExcludesRuns
<1>1. Init => MaintenanceExcludesRuns
  BY DEF Init, MaintenanceExcludesRuns
<1>2. MaintenanceExcludesRuns /\ [Next]_vars => MaintenanceExcludesRuns'
  <2> SUFFICES ASSUME MaintenanceExcludesRuns, [Next]_vars PROVE MaintenanceExcludesRuns'
    OBVIOUS
  <2> USE DEF MaintenanceExcludesRuns, NoControl, SettlePointer, fence, host
  <2>1. CASE RunOperation
    <3>1. ASSUME NEW r \in Runs, Admit(r) PROVE MaintenanceExcludesRuns'
      BY <3>1 DEF Admit
    <3>2. ASSUME NEW r \in admitted, NEW o \in Owners \cup {None},
                 \/ Activate(r, o) \/ FinishSettledRun(r, o)
                 \/ \E s \in FinishStatuses : Finish(r, s, o)
          PROVE  MaintenanceExcludesRuns'
      BY <3>2 DEF Activate, FinishSettledRun, Finish
    <3>3. ASSUME NEW r \in admitted, StopBegin(r) \/ StopUnconfirmed(r) \/ Resume(r)
          PROVE  MaintenanceExcludesRuns'
      <4>1. CASE StopBegin(r)
        BY <4>1 DEF StopBegin, StopFence
      <4>2. CASE StopUnconfirmed(r)
        BY <4>2 DEF StopUnconfirmed, StopFence
      <4>3. CASE Resume(r)
        BY <4>3 DEF Resume
      <4> QED
        BY <3>3, <4>1, <4>2, <4>3
    <3>4. ASSUME NEW r \in admitted, NEW s \in FinishStatuses, RunPatch(r, s)
          PROVE  MaintenanceExcludesRuns'
      BY <3>4 DEF RunPatch
    <3>5. StopAck => MaintenanceExcludesRuns'
      BY DEF StopAck
    <3> HIDE DEF MaintenanceExcludesRuns
    <3> QED
      BY <2>1, <3>1, <3>2, <3>3, <3>4, <3>5 DEF RunOperation
  <2>2. CASE LeaseOperation
    BY <2>2
    DEF LeaseOperation, ExecutionOpen, ExecutionClose, ExecutionFailStart,
        ExecutionReconcile
  <2>3. CASE KeeperOperation
    BY <2>3
    DEF KeeperOperation, CompactionLock, CompactionUnlock, HistoryBegin, HistoryEnd,
        HistoryCancel
  <2>4. CASE UserOperation
    BY <2>4
    DEF UserOperation, PermissionRecord, PermissionRequest, PermissionExpire,
        PermissionReply, InteractionRequest, InteractionReply, InteractionConsume,
        InteractionCancel
  <2>5. CASE PatchOperation
    BY <2>5 DEF PatchOperation, SessionPatchStatus, SessionPatchRun
  <2>6. CASE WriterOperation
    BY <2>6 DEF WriterOperation, StreamFence, RecordState, AppendRefused, Append
  <2>7. CASE Reload
    BY <2>7 DEF Reload
  <2>8. CASE UNCHANGED vars
    BY <2>8 DEF vars
  <2> QED
    BY <2>1, <2>2, <2>3, <2>4, <2>5, <2>6, <2>7, <2>8 DEF Next
<1> QED
  BY <1>1, <1>2, PTL DEF Spec

=============================================================================
