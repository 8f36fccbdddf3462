----------------------------- MODULE SegmentLog -----------------------------
(***************************************************************************)
(* The segmented commit log of one session (events-v2/): how a transaction *)
(* is appended and sealed, rolled back when an append fails, flushed,      *)
(* rolled into a new segment, captured in a checkpoint, and read back      *)
(* after the process died or the session was evicted from the cache.       *)
(*                                                                         *)
(* A segment has three files.  A transaction appends its field changes to  *)
(* `controls', its event, if it has one, to `events', and then a seal that *)
(* states how far the transaction extends in the other two files.  The     *)
(* unit of length is a frame; a frame that was only partly written is Torn.*)
(* The writer holds the actor's lock from Begin to the seal, but the       *)
(* process may die at every step of it.                                    *)
(***************************************************************************)
EXTENDS Naturals, FiniteSets, SequencesExt

CONSTANTS MaxFrames,   \* seals a segment holds before the writer rolls
          MaxBatches,  \* bound of the model: transactions attempted
          Faults,      \* what may fail: "write", "rollback", "sync"
          Crashes      \* "process", or power lost with the unsynced writes
                       \* kept in order ("ordered") or in any order

ASSUME ConstantsAssumption ==
  /\ MaxFrames \in Nat \ {0}
  /\ MaxBatches \in Nat
  /\ Faults \subseteq {"write", "rollback", "sync"}
  /\ Crashes \subseteq {"process", "ordered", "unordered"}

VARIABLES
  disk,        \* the segments: what the three files of each contain
  synced,      \* how much of the newest segment's files is on stable media
  mode,        \* whether the session is loaded
  phase,       \* what the writer does next; it holds the lock unless idle
  batch,       \* the transaction being written
  before,      \* Publisher::commit's copy of the extent to roll back to
  extent,      \* Publisher.extent
  failed,      \* Publisher.failed
  commit,      \* SessionActor.commit
  mem,         \* what the session consists of: transactions, their events
  saved,       \* SessionActor.checkpoint_commit
  staging,     \* the checkpoint being staged outside the lock
  checkpoint,  \* the published checkpoint file
  issued,      \* number of transactions attempted so far
  durable,     \* history variable: transactions behind the last full flush
  stuck,       \* history variable: a rollback has failed
  scrambled    \* history variable: power was lost with writes out of order

writer == <<phase, batch, before, extent, failed>>
history == <<stuck, scrambled>>
vars == <<disk, synced, mode, writer, commit, mem, saved, staging, checkpoint,
          issued, durable, history>>

Kinds == {"controls", "events", "seals"}

(* Kind::ALL, the order of every sync and of every rollback. *)
KindOrder == <<"controls", "events", "seals">>

FirstKinds(n) == {KindOrder[i] : i \in 1 .. n}

Batches == [id : Nat, event : BOOLEAN]

Frames == [commit : Nat, batch : Batches]

Seals == [commit : Nat, controls : Nat, events : Nat]

NoBatch == [id |-> 0, event |-> FALSE]

Torn(kind) == IF kind = "seals" THEN [commit |-> 0, controls |-> 0, events |-> 0]
              ELSE [commit |-> 0, batch |-> NoBatch]

EmptySegment == [k \in Kinds |-> <<>>]

NoExtent == [k \in Kinds |-> 0]

NoMem == [log |-> <<>>, events |-> <<>>]

Scratch == [segment |-> 1, extent |-> NoExtent, ends |-> [k \in Kinds |-> <<>>],
            commit |-> 0, mem |-> NoMem]

NoCheckpoint == [Scratch EXCEPT !.segment = 0]

Newest == Len(disk)

Lengths(segment) == [k \in Kinds |-> Len(segment[k])]

-----------------------------------------------------------------------------
(***************************************************************************)
(* Reading the log back.                                                   *)
(***************************************************************************)

(* visit_complete_from stops at the first frame that is not whole. *)
Whole(file) ==
  LET torn == {i \in DOMAIN file : file[i].commit = 0}
  IN IF torn = {} THEN file ELSE SubSeq(file, 1, Min(torn) - 1)

(* Position::valid compares a digest of the bytes that end at the offset.  *)
EndsAt(file, offset) == IF offset = 0 THEN <<>> ELSE <<file[offset]>>

Valid(c) ==
  /\ c.segment \in 1 .. Newest
  /\ \A k \in Kinds : /\ Len(disk[c.segment][k]) >= c.extent[k]
                      /\ EndsAt(disk[c.segment][k], c.extent[k]) = c.ends[k]

(* load resumes from the checkpoint if it still fits the files. *)
Resume == IF Valid(checkpoint) THEN checkpoint ELSE Scratch

StartOf(from, s) == IF s = from.segment THEN from.extent ELSE NoExtent

(* How far the data files are covered after the i-th seal of segment s. *)
CoveredBy(from, s, i) ==
  IF i = StartOf(from, s).seals THEN StartOf(from, s)
  ELSE [controls |-> disk[s].seals[i].controls, events |-> disk[s].seals[i].events]

LastSeal(s) == Len(Whole(disk[s].seals))

SealsRead(from) ==
  FlattenSeq([n \in 1 .. Newest - from.segment + 1 |->
    LET s == from.segment + n - 1
    IN SubSeq(disk[s].seals, StartOf(from, s).seals + 1, LastSeal(s))])

(* A data file must hold every frame its seal covers, whole and written by *)
(* that transaction.                                                       *)
HoldsFrames(file, start, end, c) ==
  /\ start <= end
  /\ end <= Len(file)
  /\ \A j \in start + 1 .. end : file[j].commit = c

HoldsEvents(file, start, end) ==
  /\ start <= end
  /\ end <= Len(file)
  /\ \A j \in start + 1 .. end : file[j].commit # 0

Replayable(from) ==
  /\ \A s \in from.segment .. Newest : \A i \in StartOf(from, s).seals + 1 .. LastSeal(s) :
       LET seal == disk[s].seals[i]
           prior == CoveredBy(from, s, i - 1)
       IN /\ HoldsFrames(disk[s].controls, prior.controls, seal.controls, seal.commit)
          /\ HoldsEvents(disk[s].events, prior.events, seal.events)
  /\ LET read == SealsRead(from)
     IN \A i \in DOMAIN read :
          read[i].commit > IF i = 1 THEN from.commit ELSE read[i - 1].commit

(* What replaying the sealed part of one data file yields. *)
Replay(from, kind) ==
  FlattenSeq([n \in 1 .. Newest - from.segment + 1 |->
    LET s == from.segment + n - 1
        file == disk[s][kind]
        start == StartOf(from, s)[kind]
        end == CoveredBy(from, s, LastSeal(s))[kind]
    IN [j \in 1 .. end - start |-> file[start + j].batch]])

Recovered(from) == [log |-> from.mem.log \o Replay(from, "controls"),
                    events |-> from.mem.events \o Replay(from, "events")]

RecoveredCommit(from) ==
  LET read == SealsRead(from) IN IF read = <<>> THEN from.commit ELSE Last(read).commit

RecoveredExtent(from) ==
  LET covered == CoveredBy(from, Newest, LastSeal(Newest))
  IN [controls |-> covered.controls, events |-> covered.events, seals |-> LastSeal(Newest)]

-----------------------------------------------------------------------------
Init ==
  /\ disk = <<EmptySegment>>
  /\ synced = NoExtent
  /\ mode = "closed"
  /\ phase = "idle" /\ batch = NoBatch
  /\ before = NoExtent /\ extent = NoExtent /\ failed = FALSE
  /\ commit = 0
  /\ mem = NoMem
  /\ saved = 0
  /\ staging = NoCheckpoint
  /\ checkpoint = NoCheckpoint
  /\ issued = 0
  /\ durable = 0
  /\ stuck = FALSE /\ scrambled = FALSE

Idle == mode = "open" /\ phase = "idle"

Full == extent.seals >= MaxFrames

AllSynced == Lengths(disk[Newest])

(***************************************************************************)
(* One transaction: begin, append the frames in the order of the files,    *)
(* seal.                                                                   *)
(***************************************************************************)
StartBatch ==
  /\ issued < MaxBatches
  /\ issued' = issued + 1
  /\ \E event \in BOOLEAN : batch' = [id |-> issued + 1, event |-> event]
  /\ phase' = "controls"

(* Mutant: a transaction is begun behind a rollback that failed. *)
BeginFailed ==
  /\ Idle
  /\ ~Full
  /\ StartBatch
  /\ before' = extent
  /\ failed' = FALSE
  /\ UNCHANGED <<disk, synced, mode, extent, commit, mem, saved, staging, checkpoint,
                 durable, history>>

(* A writer whose rollback failed takes no further transaction. *)
Begin ==
  /\ Idle
  /\ ~Full
  /\ ~failed
  /\ StartBatch
  /\ before' = extent
  /\ UNCHANGED <<disk, synced, mode, extent, failed, commit, mem, saved, staging,
                 checkpoint, durable, history>>

(* The full segment is flushed before its successor is opened.             *)
Roll ==
  /\ Idle
  /\ Full
  /\ StartBatch
  /\ disk' = Append(disk, EmptySegment)
  /\ synced' = NoExtent
  /\ before' = NoExtent /\ extent' = NoExtent /\ failed' = FALSE
  /\ durable' = Len(mem.log)
  /\ UNCHANGED <<mode, commit, mem, saved, staging, checkpoint, history>>

Appended(kind, frame) ==
  /\ disk' = [disk EXCEPT ![Newest][kind] = Append(@, frame)]
  /\ extent' = [extent EXCEPT ![kind] = @ + 1]

AppendControls ==
  /\ phase = "controls"
  /\ Appended("controls", [commit |-> commit + 1, batch |-> batch])
  /\ phase' = IF batch.event THEN "events" ELSE "seals"
  /\ UNCHANGED <<synced, mode, batch, before, failed, commit, mem, saved, staging,
                 checkpoint, issued, durable, history>>

AppendEvent ==
  /\ phase = "events"
  /\ Appended("events", [commit |-> commit + 1, batch |-> batch])
  /\ phase' = "seals"
  /\ UNCHANGED <<synced, mode, batch, before, failed, commit, mem, saved, staging,
                 checkpoint, issued, durable, history>>

(* The seal commits: the session's memory follows in the same step.        *)
AppendSeal ==
  /\ phase = "seals"
  /\ Appended("seals", [commit |-> commit + 1, controls |-> extent.controls,
                        events |-> extent.events])
  /\ commit' = commit + 1
  /\ mem' = [log |-> Append(mem.log, batch),
             events |-> IF batch.event THEN Append(mem.events, batch) ELSE mem.events]
  /\ phase' = "idle"
  /\ batch' = NoBatch
  /\ UNCHANGED <<synced, mode, before, failed, saved, staging, checkpoint, issued,
                 durable, history>>

(* A write error leaves the file as it was or a part of the frame behind.  *)
AppendFails ==
  /\ "write" \in Faults
  /\ phase \in Kinds
  /\ \/ disk' = [disk EXCEPT ![Newest][phase] = Append(@, Torn(phase))]
     \/ UNCHANGED disk
  /\ failed' = TRUE
  /\ phase' = "rollback"
  /\ batch' = NoBatch
  /\ UNCHANGED <<synced, mode, before, extent, commit, mem, saved, staging,
                 checkpoint, issued, durable, history>>

Cut(segment, lengths) ==
  [k \in Kinds |-> IF lengths[k] < Len(segment[k]) THEN SubSeq(segment[k], 1, lengths[k])
                   ELSE segment[k]]

Lower(a, b) == [k \in Kinds |-> IF a[k] < b[k] THEN a[k] ELSE b[k]]

(* Mutant: only the seals are cut back, the data files are not. *)
RollbackSealsOnly(n) ==
  /\ phase = "rollback"
  /\ n = 3
  /\ LET kept == [Lengths(disk[Newest]) EXCEPT !.seals = before.seals]
     IN /\ disk' = [disk EXCEPT ![Newest] = Cut(@, kept)]
        /\ synced' = Lower(synced, kept)
  /\ extent' = before
  /\ failed' = FALSE
  /\ phase' = "idle"
  /\ UNCHANGED <<mode, batch, before, commit, mem, saved, staging, checkpoint, issued,
                 durable, history>>

(* Mutant: the rollback takes back a commit number that was never given.   *)
RollbackCountsDown(n) ==
  /\ phase = "rollback"
  /\ n = 3
  /\ disk' = [disk EXCEPT ![Newest] = Cut(@, before)]
  /\ synced' = Lower(synced, before)
  /\ extent' = before
  /\ failed' = FALSE
  /\ phase' = "idle"
  /\ commit' = commit - 1
  /\ UNCHANGED <<mode, batch, before, mem, saved, staging, checkpoint, issued,
                 durable, history>>

(* The files are truncated one after the other; the first one that cannot  *)
(* be truncated ends the rollback, the extent stays where the writes left  *)
(* it and the writer stays failed.                                         *)
Rollback(n) ==
  /\ phase = "rollback"
  /\ n < 3 => "rollback" \in Faults
  /\ LET kept == [k \in Kinds |-> IF k \in FirstKinds(n) THEN before[k]
                                  ELSE Len(disk[Newest][k])]
     IN /\ disk' = [disk EXCEPT ![Newest] = Cut(@, kept)]
        /\ synced' = Lower(synced, kept)
  /\ extent' = IF n = 3 THEN before ELSE extent
  /\ failed' = (n < 3)
  /\ stuck' = (stuck \/ n < 3)
  /\ phase' = "idle"
  /\ UNCHANGED <<mode, batch, before, commit, mem, saved, staging, checkpoint, issued,
                 durable, scrambled>>

(***************************************************************************)
(* Flush, checkpoint, eviction.                                            *)
(***************************************************************************)

(* Mutant: only the data files are flushed. *)
FlushDataOnly ==
  /\ Idle
  /\ synced' = [AllSynced EXCEPT !.seals = synced.seals]
  /\ durable' = Len(mem.log)
  /\ UNCHANGED <<disk, mode, writer, commit, mem, saved, staging, checkpoint, issued,
                 history>>

(* The barrier in front of every acknowledgement: the three files in turn. *)
Flush ==
  /\ Idle
  /\ synced' = AllSynced
  /\ durable' = Len(mem.log)
  /\ UNCHANGED <<disk, mode, writer, commit, mem, saved, staging, checkpoint, issued,
                 history>>

(* Mutant: the error of the flush is dropped. *)
FlushErrorDropped(n) ==
  /\ "sync" \in Faults
  /\ Idle
  /\ synced' = [k \in Kinds |-> IF k \in FirstKinds(n) THEN AllSynced[k] ELSE synced[k]]
  /\ durable' = Len(mem.log)
  /\ UNCHANGED <<disk, mode, writer, commit, mem, saved, staging, checkpoint, issued,
                 history>>

(* It fails behind n files: the caller is told, nothing else happens.      *)
FlushFails(n) ==
  /\ "sync" \in Faults
  /\ Idle
  /\ synced' = [k \in Kinds |-> IF k \in FirstKinds(n) THEN AllSynced[k] ELSE synced[k]]
  /\ UNCHANGED <<disk, mode, writer, commit, mem, saved, staging, checkpoint, issued,
                 durable, history>>

(* Captured under the lock, behind a flush, only if something is new; a    *)
(* capture that an extent beyond its file makes impossible is dropped.     *)
CheckpointPrepare ==
  /\ Idle
  /\ staging = NoCheckpoint
  /\ commit # saved
  /\ synced' = AllSynced
  /\ durable' = Len(mem.log)
  /\ staging' = IF \A k \in Kinds : extent[k] <= Len(disk[Newest][k])
                THEN [segment |-> Newest, extent |-> extent,
                      ends |-> [k \in Kinds |-> EndsAt(disk[Newest][k], extent[k])],
                      commit |-> commit, mem |-> mem]
                ELSE NoCheckpoint
  /\ UNCHANGED <<disk, mode, writer, commit, mem, saved, checkpoint, issued, history>>

(* Staged and renamed outside the lock, while writes go on.                *)
CheckpointPublish ==
  /\ staging # NoCheckpoint
  /\ checkpoint' = staging
  /\ saved' = staging.commit
  /\ staging' = NoCheckpoint
  /\ UNCHANGED <<disk, synced, mode, writer, commit, mem, issued, durable, history>>

CheckpointDiscard ==
  /\ "write" \in Faults
  /\ staging # NoCheckpoint
  /\ staging' = NoCheckpoint
  /\ UNCHANGED <<disk, synced, mode, writer, commit, mem, saved, checkpoint, issued,
                 durable, history>>

(* What is left of the session once it is out of memory. *)
Closed ==
  /\ mode' = "closed"
  /\ phase' = "idle" /\ batch' = NoBatch
  /\ before' = NoExtent /\ extent' = NoExtent /\ failed' = FALSE
  /\ saved' = 0
  /\ staging' = NoCheckpoint

(* An idle session leaves the cache behind a flush. *)
Evict ==
  /\ Idle
  /\ staging = NoCheckpoint
  /\ synced' = AllSynced
  /\ durable' = Len(mem.log)
  /\ Closed
  /\ UNCHANGED <<disk, commit, mem, checkpoint, issued, history>>

(***************************************************************************)
(* The process or the machine dies; the session is loaded again.           *)
(***************************************************************************)
ProcessCrash ==
  /\ "process" \in Crashes
  /\ mode = "open"
  /\ Closed
  /\ UNCHANGED <<disk, synced, commit, mem, checkpoint, issued, durable, history>>

(* What a power loss leaves of a file of which the first n frames survive. *)
Remains(file, n, kind) ==
  {SubSeq(file, 1, n)} \cup
    IF n < Len(file) THEN {Append(SubSeq(file, 1, n), Torn(kind))} ELSE {}

(* A seal that survives is preceded by the data it covers. *)
InOrder(segment) ==
  \A i \in DOMAIN Whole(segment.seals) :
    /\ segment.seals[i].controls <= Len(Whole(segment.controls))
    /\ segment.seals[i].events <= Len(Whole(segment.events))

PowerLoss ==
  /\ \E c \in synced.controls .. Len(disk[Newest].controls),
        e \in synced.events .. Len(disk[Newest].events),
        s \in synced.seals .. Len(disk[Newest].seals) :
     \E controls \in Remains(disk[Newest].controls, c, "controls"),
        events \in Remains(disk[Newest].events, e, "events"),
        seals \in Remains(disk[Newest].seals, s, "seals") :
       LET left == [k \in Kinds |-> CASE k = "controls" -> controls
                                      [] k = "events" -> events
                                      [] k = "seals" -> seals]
       IN /\ \/ "unordered" \in Crashes
             \/ "ordered" \in Crashes /\ InOrder(left)
          /\ disk' = [disk EXCEPT ![Newest] = left]
          /\ synced' = Lengths(left)
          /\ scrambled' = (scrambled \/ ~InOrder(left))
  /\ Closed
  /\ UNCHANGED <<commit, mem, checkpoint, issued, durable, stuck>>

(* Mutant: the files are opened without cutting off what no seal covers.   *)
LoadKeepsTail ==
  /\ mode = "closed"
  /\ Replayable(Resume)
  /\ mode' = "open"
  /\ mem' = Recovered(Resume)
  /\ commit' = RecoveredCommit(Resume)
  /\ extent' = RecoveredExtent(Resume)
  /\ saved' = Resume.commit
  /\ UNCHANGED <<disk, synced, phase, batch, before, failed, staging, checkpoint,
                 issued, durable, history>>

(* A log that does not replay is reported as corrupt and never opened.     *)
Load ==
  /\ mode = "closed"
  /\ Replayable(Resume)
  /\ mode' = "open"
  /\ mem' = Recovered(Resume)
  /\ commit' = RecoveredCommit(Resume)
  /\ extent' = RecoveredExtent(Resume)
  /\ saved' = Resume.commit
  /\ disk' = [disk EXCEPT ![Newest] = Cut(@, extent')]
  /\ synced' = Lower(synced, extent')
  /\ UNCHANGED <<phase, batch, before, failed, staging, checkpoint, issued, durable,
                 history>>

Next ==
  \/ Begin \/ Roll
  \/ AppendControls \/ AppendEvent \/ AppendSeal
  \/ AppendFails
  \/ \E n \in 0 .. 3 : Rollback(n)
  \/ Flush
  \/ \E n \in 0 .. 2 : FlushFails(n)
  \/ CheckpointPrepare \/ CheckpointPublish \/ CheckpointDiscard
  \/ Evict \/ ProcessCrash \/ PowerLoss
  \/ Load

Spec == Init /\ [][Next]_vars

-----------------------------------------------------------------------------
(***************************************************************************)
(* What must hold.                                                         *)
(***************************************************************************)
Checkpoints ==
  [segment : Nat, extent : [Kinds -> Nat], ends : [Kinds -> Seq(Frames \cup Seals)],
   commit : Nat, mem : [log : Seq(Batches), events : Seq(Batches)]]

Segments == [controls : Seq(Frames), events : Seq(Frames), seals : Seq(Seals)]

TypeOK ==
  /\ disk \in Seq(Segments)
  /\ synced \in [Kinds -> Nat] /\ \A k \in Kinds : synced[k] <= Len(disk[Newest][k])
  /\ mode \in {"open", "closed"}
  /\ phase \in {"idle", "rollback"} \cup Kinds
  /\ batch \in Batches
  /\ before \in [Kinds -> Nat] /\ extent \in [Kinds -> Nat] /\ failed \in BOOLEAN
  /\ mem \in [log : Seq(Batches), events : Seq(Batches)]
  /\ {commit, saved, issued, durable} \subseteq Nat
  /\ {staging, checkpoint} \subseteq Checkpoints
  /\ {stuck, scrambled} \subseteq BOOLEAN

EventsOf(log) ==
  FlattenSeq([i \in 1 .. Len(log) |-> IF log[i].event THEN <<log[i]>> ELSE <<>>])

(* Whatever has happened to a session that is up, if the process dies now,  *)
(* between any two writes of a transaction or of a rollback, the log       *)
(* replays to exactly the transactions that were sealed: none is lost, none *)
(* shows up in part, and the log is readable.                              *)
CrashKeepsCommits ==
  mode = "open" => Replayable(Resume) /\ Recovered(Resume) = mem

(* Only a power loss that kept writes out of order can leave a session that *)
(* cannot be read (load: the seal is the last frame of a transaction).     *)
OrderedLossReadable == ~scrambled => Replayable(Resume)

(* The checkpoint is disposable: a log that replays through it replays to  *)
(* the same session from the segments alone (the claim of checkpoint.rs,   *)
(* `rebuildable snapshots').                                               *)
CheckpointDisposable ==
  Replayable(Resume) => Replayable(Scratch) /\ Recovered(Scratch) = Recovered(Resume)

(* It is, unless a rollback has failed: through write errors, evictions,   *)
(* crashes and power losses, with checkpoints older or newer than what is  *)
(* left of the files (checkpoint.rs: `rebuildable snapshots').             *)
CheckpointRebuilds == ~stuck => CheckpointDisposable

(* After a power loss a log that replays yields a prefix of the sealed     *)
(* transactions that contains every flushed one, each with its event.      *)
FlushedSurvives ==
  Replayable(Resume) =>
    LET r == Recovered(Resume)
    IN /\ IsPrefix(r.log, mem.log)
       /\ durable <= Len(r.log)
       /\ r.events = EventsOf(r.log)

(* A writer that takes transactions has no byte beyond the sealed ones in  *)
(* its files (Publisher::commit: `discard every uncommitted byte before    *)
(* allowing another transaction').                                         *)
UncommittedDiscarded ==
  Idle /\ ~failed => /\ extent = RecoveredExtent(Resume)
                     /\ Lengths(disk[Newest]) = extent

(* The segmented log implements the durable log its callers see. *)
Durable == INSTANCE DurableLog
  WITH log <- IF mode = "open" THEN mem.log
              ELSE IF Replayable(Resume) THEN Recovered(Resume).log ELSE <<>>,
       up <- mode = "open",
       readable <- mode = "open" \/ Replayable(Resume)

ImplementsDurableLog == Durable!Spec

(* Flushed transactions stay readable (README of the sidecar: committed    *)
(* text stays readable after an interruption, only the tail before the     *)
(* disk confirmed is not guaranteed).                                      *)
FlushedStaysReadable == durable > 0 => Replayable(Resume)
=============================================================================
