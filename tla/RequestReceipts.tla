-------------------------- MODULE RequestReceipts --------------------------
(***************************************************************************)
(* Requests to one session, from the task of the host that sends one to    *)
(* the flush that makes it durable.  A sender repeats a request under the  *)
(* same id when its answer stays away, and under a newer revision when it  *)
(* was refused for the old one.  The sidecar runs every frame it receives  *)
(* as a job of its own: the job takes a handle from the session cache,     *)
(* executes under the lock of the session (or answers from the receipt     *)
(* that an earlier job of the request left), lets the handle go, crosses   *)
(* the flush barrier and answers.  Meanwhile the cache may evict the       *)
(* session, the connection may break, the process or the machine may die.  *)
(*                                                                         *)
(* One commit is one step here; SegmentLog shows what it takes.            *)
(***************************************************************************)
EXTENDS Naturals, Sequences, Functions

CONSTANTS Requests,    \* ids of requests whose frames are followed
          Others,      \* ids of requests that other tasks send
          Admissions,  \* the ones that admit a run
          Sends,       \* bound: how many frames of a request are sent
          Ring         \* RECEIPT_RING

ASSUME ConstantsAssumption ==
  /\ Requests \cap Others = {}
  /\ Admissions \subseteq Requests
  /\ Sends \in [Requests -> Nat \ {0}]
  /\ Ring \in Nat \ {0}

Attempts(r) == 1 .. Sends[r]

VARIABLES
  log,       \* the committed requests, oldest first; the revision is their number
  synced,    \* how many of them the disk has confirmed
  receipts,  \* SessionActor.receipts: the requests that are answered from memory
  slot,      \* the session's slot in SessionCache: absent, registered, opened
  evictor,   \* evict_prepared: its step, and whether the slot was touched since it looked
  jobs,      \* the frames of each request and what became of them
  caller     \* the sender of each request: its state, its fence, whether an attempt timed out

vars == <<log, synced, receipts, slot, evictor, jobs, caller>>

Unsent == [phase |-> "none", rev |-> 0, seen |-> 0, heard |-> FALSE, stale |-> FALSE]

(* At most so many receipts are kept, the latest ones. *)
Latest(entries) == {entries[i] : i \in {j \in DOMAIN entries : j > Len(entries) - Ring}}

Init ==
  /\ log = <<>> /\ synced = 0 /\ receipts = {}
  /\ slot = "none"
  /\ evictor = [step |-> "idle", touched |-> FALSE]
  /\ jobs = [r \in Requests |-> [n \in Attempts(r) |-> Unsent]]
  /\ caller = [r \in Requests |-> [state |-> "idle", fence |-> 0, late |-> FALSE]]

Gone == [Unsent EXCEPT !.phase = "gone"]
Phase(r, n) == jobs[r][n].phase
Moved(r, n, phase) == [jobs EXCEPT ![r][n].phase = phase]
Ended(r, n) == [jobs EXCEPT ![r][n] = Gone]
Somewhere(phases) == \E r \in Requests : \E n \in Attempts(r) : Phase(r, n) \in phases

Touched == evictor' = [evictor EXCEPT !.touched = evictor.step # "idle"]

(* Mutant: the receipts are not read back from the log. *)
OpenedForgetful ==
  /\ slot' = "open"
  /\ receipts' = IF slot = "open" THEN receipts ELSE {}
  /\ Touched

(* A reader finds the session in memory or replays its log. *)
Opened ==
  /\ slot' = "open"
  /\ receipts' = IF slot = "open" THEN receipts ELSE Latest(log)
  /\ Touched

(***************************************************************************)
(* The sender                                                              *)
(***************************************************************************)

NextFrame(r, n) == Phase(r, n) = "none" /\ \A m \in 1 .. n - 1 : Phase(r, m) # "none"

Frame(rev) == [phase |-> "queued", rev |-> rev, seen |-> 0, heard |-> TRUE, stale |-> FALSE]

(* The revision is read once, then the request is sent. *)
Call(r) ==
  /\ caller[r].state = "idle"
  /\ caller' = [caller EXCEPT ![r] = [state |-> "waiting", fence |-> Len(log), late |-> FALSE]]
  /\ jobs' = [jobs EXCEPT ![r][1] = Frame(Len(log))]
  /\ Opened
  /\ UNCHANGED <<log, synced>>

Waiting(r) == caller[r].state = "waiting"

(* An attempt times out; the socket stays, and so do its earlier frames.   *)
(* The time a refused request may be sent again under a new revision is    *)
(* over long before.                                                       *)
Timeout(r) == \E n \in Attempts(r) :
  /\ Waiting(r) /\ NextFrame(r, n)
  /\ jobs' = [jobs EXCEPT ![r][n] = Frame(caller[r].fence)]
  /\ caller' = [caller EXCEPT ![r].late = TRUE]
  /\ UNCHANGED <<log, synced, receipts, slot, evictor>>

(* The socket broke and is made anew. *)
Resend(r) == \E n \in Attempts(r) :
  /\ Waiting(r) /\ NextFrame(r, n)
  /\ \A m \in Attempts(r) : ~jobs[r][m].heard
  /\ jobs' = [jobs EXCEPT ![r][n] = Frame(caller[r].fence)]
  /\ UNCHANGED <<log, synced, receipts, slot, evictor, caller>>

HearOutcome(r, n) ==
  /\ Waiting(r) /\ jobs[r][n].heard /\ Phase(r, n) \in {"ok", "failed"}
  /\ jobs' = Ended(r, n)
  /\ caller' = [caller EXCEPT ![r].state = IF Phase(r, n) = "ok" THEN "answered" ELSE "unknown"]
  /\ UNCHANGED <<log, synced, receipts, slot, evictor>>

(* Mutant: the time limit for a new revision starts with each attempt. *)
HearConflictAnytime(r, n) ==
  /\ Waiting(r) /\ jobs[r][n].heard /\ Phase(r, n) = "conflict"
  /\ \/ /\ jobs' = Ended(r, n)
        /\ caller' = [caller EXCEPT ![r].state = "refused"]
     \/ \E m \in Attempts(r) :
          /\ jobs[r][n].rev = caller[r].fence
          /\ NextFrame(r, m)
          /\ jobs' = [Ended(r, n) EXCEPT ![r][m] = Frame(jobs[r][n].seen)]
          /\ caller' = [caller EXCEPT ![r].fence = jobs[r][n].seen]
  /\ UNCHANGED <<log, synced, receipts, slot, evictor>>

(* Refused for its revision: the sender gives up, or sends it again under  *)
(* the one it was told, as long as no attempt has timed out.               *)
HearConflict(r, n) ==
  /\ Waiting(r) /\ jobs[r][n].heard /\ Phase(r, n) = "conflict"
  /\ \/ /\ jobs' = Ended(r, n)
        /\ caller' = [caller EXCEPT ![r].state = "refused"]
     \/ \E m \in Attempts(r) :
          /\ ~caller[r].late /\ jobs[r][n].rev = caller[r].fence
          /\ NextFrame(r, m)
          /\ jobs' = [Ended(r, n) EXCEPT ![r][m] = Frame(jobs[r][n].seen)]
          /\ caller' = [caller EXCEPT ![r].fence = jobs[r][n].seen]
  /\ UNCHANGED <<log, synced, receipts, slot, evictor>>

(***************************************************************************)
(* A job                                                                   *)
(***************************************************************************)

Lookup(r, n) ==
  /\ Phase(r, n) = "queued"
  /\ jobs' = Moved(r, n, "slot")
  /\ slot' = IF slot = "none" THEN "registered" ELSE slot
  /\ UNCHANGED <<log, synced, receipts, evictor, caller>>

Open(r, n) ==
  /\ Phase(r, n) = "slot"
  /\ jobs' = Moved(r, n, "held")
  /\ Opened
  /\ UNCHANGED <<log, synced, caller>>

(* Mutant: no retry crosses the barrier. *)
ReuseUnflushed(r, n) ==
  /\ Phase(r, n) = "held" /\ r \in receipts
  /\ jobs' = Moved(r, n, "ok")
  /\ UNCHANGED <<log, synced, receipts, slot, evictor, caller>>

Reuse(r, n) ==
  /\ Phase(r, n) = "held" /\ r \in receipts
  /\ jobs' = Moved(r, n, IF r \in Admissions THEN "ok" ELSE "barrier")
  /\ UNCHANGED <<log, synced, receipts, slot, evictor, caller>>

(* Mutant: a refusal leaves a receipt. *)
RefuseRecorded(r, n) ==
  /\ Phase(r, n) = "held" /\ r \notin receipts /\ jobs[r][n].rev # Len(log)
  /\ jobs' = [Moved(r, n, "conflict") EXCEPT ![r][n].seen = Len(log)]
  /\ receipts' = receipts \cup {r}
  /\ UNCHANGED <<log, synced, slot, evictor, caller>>

Refuse(r, n) ==
  /\ Phase(r, n) = "held" /\ r \notin receipts /\ jobs[r][n].rev # Len(log)
  /\ jobs' = [Moved(r, n, "conflict") EXCEPT ![r][n].seen = Len(log)]
  /\ UNCHANGED <<log, synced, receipts, slot, evictor, caller>>

(* Assumed: no request is pending while RECEIPT_RING others commit. *)
Pending(r) == Waiting(r) \/ \E n \in Attempts(r) : Phase(r, n) \in {"queued", "slot", "held"}
Retained(kept) == \A r \in Requests \cap Latest(log) : Pending(r) => r \in kept

Commit(r, n) ==
  /\ Phase(r, n) = "held" /\ r \notin receipts /\ jobs[r][n].rev = Len(log)
  /\ log' = Append(log, r)
  /\ receipts' = Latest(log')
  /\ Retained(receipts')
  /\ jobs' = Moved(r, n, "barrier")
  /\ UNCHANGED <<synced, slot, evictor, caller>>

(* The request of another task: it moves the revision and fills the ring. *)
OtherCommit(o) ==
  /\ o \notin Range(log)
  /\ log' = Append(log, o)
  /\ receipts' = Latest(log')
  /\ Retained(receipts')
  /\ slot' = "open" /\ Touched
  /\ UNCHANGED <<synced, jobs, caller>>

(* flush_session: a session that is not in the cache has nothing to flush. *)
Barrier(r, n) ==
  /\ Phase(r, n) = "barrier"
  /\ synced' = IF slot = "open" THEN Len(log) ELSE synced
  /\ jobs' = Moved(r, n, "ok")
  /\ Touched
  /\ UNCHANGED <<log, receipts, slot, caller>>

BarrierFails(r, n) ==
  /\ Phase(r, n) = "barrier" /\ slot = "open"
  /\ jobs' = Moved(r, n, "failed")
  /\ Touched
  /\ UNCHANGED <<log, synced, receipts, slot, caller>>

(***************************************************************************)
(* Eviction                                                                *)
(***************************************************************************)

Unused == ~Somewhere({"slot", "held"})

(* The candidate's last use is noted, then nobody may hold it. *)
EvictRelease ==
  /\ evictor.step = "idle" /\ slot # "none" /\ Unused
  /\ evictor' = [step |-> "released", touched |-> FALSE]
  /\ UNCHANGED <<log, synced, receipts, slot, jobs, caller>>

EvictPrepare ==
  /\ evictor.step = "released"
  /\ \/ /\ synced' = IF slot = "open" THEN Len(log) ELSE synced
        /\ evictor' = [evictor EXCEPT !.step = "prepared"]
     \/ /\ evictor' = [step |-> "idle", touched |-> FALSE]
        /\ UNCHANGED synced
  /\ UNCHANGED <<log, receipts, slot, jobs, caller>>

(* A job that still has the evicted session works on a copy of its own. *)
Detached == [r \in Requests |-> [n \in Attempts(r) |->
  [jobs[r][n] EXCEPT !.stale = @ \/ Phase(r, n) \in {"slot", "held"}]]]

(* Mutant: only the handles are counted again, not the last use. *)
EvictDetachUsed ==
  /\ evictor.step = "prepared"
  /\ evictor' = [step |-> "idle", touched |-> FALSE]
  /\ IF ~Somewhere({"held"})
     THEN slot' = "none" /\ receipts' = {} /\ jobs' = Detached
     ELSE UNCHANGED <<slot, receipts, jobs>>
  /\ UNCHANGED <<log, synced, caller>>

EvictDetach ==
  /\ evictor.step = "prepared"
  /\ evictor' = [step |-> "idle", touched |-> FALSE]
  /\ IF Unused /\ ~evictor.touched
     THEN slot' = "none" /\ receipts' = {} /\ jobs' = Detached
     ELSE UNCHANGED <<slot, receipts, jobs>>
  /\ UNCHANGED <<log, synced, caller>>

(***************************************************************************)
(* Faults                                                                  *)
(***************************************************************************)

Disconnect ==
  /\ \E r \in Requests : \E n \in Attempts(r) : jobs[r][n].heard
  /\ jobs' = [r \in Requests |-> [n \in Attempts(r) |->
       IF Phase(r, n) \in {"ok", "failed", "conflict"} THEN Gone
       ELSE [jobs[r][n] EXCEPT !.heard = FALSE]]]
  /\ UNCHANGED <<log, synced, receipts, slot, evictor, caller>>

Down ==
  /\ slot' = "none" /\ receipts' = {}
  /\ evictor' = [step |-> "idle", touched |-> FALSE]
  /\ jobs' = [r \in Requests |-> [n \in Attempts(r) |->
       IF Phase(r, n) = "none" THEN Unsent ELSE Gone]]

ProcessCrash ==
  /\ Down
  /\ UNCHANGED <<log, synced, caller>>

(* The host goes down with the machine. *)
PowerLoss == \E n \in synced .. Len(log) :
  /\ Down
  /\ log' = SubSeq(log, 1, n)
  /\ caller' = [r \in Requests |->
       [caller[r] EXCEPT !.state = IF @ = "waiting" THEN "unknown" ELSE @]]
  /\ UNCHANGED synced

Sender == \E r \in Requests :
  \/ Call(r) \/ Timeout(r) \/ Resend(r)
  \/ \E n \in Attempts(r) : HearOutcome(r, n) \/ HearConflict(r, n)
Job == \E r \in Requests : \E n \in Attempts(r) :
  \/ Lookup(r, n) \/ Open(r, n) \/ Reuse(r, n) \/ Refuse(r, n) \/ Commit(r, n)
  \/ Barrier(r, n) \/ BarrierFails(r, n)
Eviction == EvictRelease \/ EvictPrepare \/ EvictDetach
Fault == Disconnect \/ ProcessCrash \/ PowerLoss

Next == Sender \/ Job \/ (\E o \in Others : OtherCommit(o)) \/ Eviction \/ Fault
Spec == Init /\ [][Next]_vars

(***************************************************************************)
(* Properties                                                              *)
(***************************************************************************)

Phases == {"none", "queued", "slot", "held", "barrier", "ok", "failed", "conflict", "gone"}

(* Everything has its type, and a receipt stands for a commit. *)
TypeOK ==
  /\ log \in Seq(Requests \cup Others)
  /\ synced \in 0 .. Len(log)
  /\ receipts \subseteq Range(log)
  /\ slot \in {"none", "registered", "open"}
  /\ evictor \in [step : {"idle", "released", "prepared"}, touched : BOOLEAN]
  /\ DOMAIN jobs = Requests
  /\ \A r \in Requests : jobs[r] \in [Attempts(r) -> [phase : Phases, rev : Nat, seen : Nat,
                                                     heard : BOOLEAN, stale : BOOLEAN]]
  /\ caller \in [Requests -> [state : {"idle", "waiting", "answered", "refused", "unknown"},
                              fence : Nat, late : BOOLEAN]]

Answered == {r \in Requests : caller[r].state = "answered"}

(* A request that was answered is in the log for good: through evictions,  *)
(* deaths of the process and losses of power, whichever attempt was        *)
(* answered and whether it executed the request or found its receipt       *)
(* (flush_session before the answer in runtime/actor.rs).                  *)
AnsweredSurvives == Answered \ Admissions \subseteq Range(SubSeq(log, 1, synced))

(* A request the sender was refused for its revision never takes effect,   *)
(* not even through an earlier attempt that timed out and is still in the  *)
(* sidecar: the sender takes no new revision once that may be the case     *)
(* (the time limit of withSessionRevision in control-commands.ts).         *)
RefusedHasNoEffect == \A r \in Requests : caller[r].state = "refused" => r \notin Range(log)

(* No job works on a session that the cache has let go of while another    *)
(* may load it anew: the eviction looks outside the cache's lock and looks *)
(* again inside it (session_cache.rs).                                     *)
HandlesAreCurrent == \A r \in Requests : \A n \in Attempts(r) :
  Phase(r, n) \in {"slot", "held"} => ~jobs[r][n].stale

Service == INSTANCE RequestService
             WITH Requests <- Requests \cup Others, applied <- log,
                  answered <- Answered \ Admissions

(* The session keeps its promise: a request takes effect at most once,     *)
(* however often it is sent, under however many revisions, and whatever    *)
(* part of the receipts is still in memory; an answer stands.              *)
ImplementsRequestService == Service!Spec
=============================================================================
