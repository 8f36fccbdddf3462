----------------------- MODULE RequestReceiptsProofs -----------------------
(***************************************************************************)
(* Proofs about RequestReceipts, for every set of requests, every number   *)
(* of frames and every size of the ring: an answer stands, a request takes *)
(* effect at most once, a refusal is final, and no job works on a session  *)
(* the cache let go of.  What is assumed of the ring is the guard Retained *)
(* of the model.                                                           *)
(***************************************************************************)
EXTENDS RequestReceipts, TLAPS, SequenceTheorems

(* The shapes of the records. *)
JobRecords == [phase : Phases, rev : Nat, seen : Nat, heard : BOOLEAN, stale : BOOLEAN]
Jobs(f) == DOMAIN f = Requests /\ \A r \in Requests : f[r] \in [Attempts(r) -> JobRecords]
Callers == [state : {"idle", "waiting", "answered", "refused", "unknown"},
            fence : Nat, late : BOOLEAN]
Evictors == [step : {"idle", "released", "prepared"}, touched : BOOLEAN]

(* Every variable has its shape, and a receipt stands for a commit. *)
TypeInv ==
  /\ log \in Seq(Requests \cup Others)
  /\ synced \in Nat /\ synced <= Len(log)
  /\ receipts \subseteq Range(log)
  /\ slot \in {"none", "registered", "open"}
  /\ evictor \in Evictors
  /\ Jobs(jobs)
  /\ caller \in [Requests -> Callers]

(* The phases of a frame that somebody still works on or has to answer. *)
Live == {"queued", "slot", "held", "barrier", "ok", "failed", "conflict"}

(* Nothing but one frame differs. *)
OnlyAt(r, n, f) == \A q \in Requests : \A m \in Attempts(q) :
  q # r \/ m # n => f[q][m] = jobs[q][m]

(* The memory of an open session knows the latest commits. *)
Current == slot = "open" => receipts = Latest(log)

(* A job that has the session has the one that the cache knows. *)
Held == \A r \in Requests : \A n \in Attempts(r) :
  /\ jobs[r][n].phase = "held" => slot = "open"
  /\ ~jobs[r][n].stale

(* A request that may still be executed, or answered from a receipt. *)
Waits(r) == \/ caller[r].state = "waiting"
            \/ \E n \in Attempts(r) : jobs[r][n].phase \in {"queued", "slot", "held"}

(* Its receipt is among those that are kept, if it was executed. *)
Kept == \A r \in Requests : Waits(r) /\ r \in Range(log) => r \in Latest(log)

(* A request that was not sent has left no trace. *)
Fresh == \A r \in Requests : caller[r].state = "idle" =>
  r \notin Range(log) /\ \A n \in Attempts(r) : jobs[r][n].phase \notin Live

(* No request is twice in the log. *)
Distinct == \A i, j \in 1 .. Len(log) : log[i] = log[j] => i = j

(* The requests the disk has confirmed. *)
Flushed == {log[i] : i \in 1 .. synced}

(* What was answered, or is about to be, is on the disk, and what only a *)
(* flush separates from its answer is on the disk or in an open session. *)
Durable == \A r \in Requests :
  /\ caller[r].state = "answered" /\ r \notin Admissions => r \in Flushed
  /\ \A n \in Attempts(r) :
       /\ jobs[r][n].phase = "barrier" => r \in Range(log) /\ (slot # "open" => r \in Flushed)
       /\ jobs[r][n].phase = "ok" /\ r \notin Admissions => r \in Flushed

(* As long as nobody touched the slot the evictor looked at, nobody has the *)
(* session, and all of it is on the disk once it was prepared.              *)
Evicting ==
  /\ evictor.step # "idle" /\ ~evictor.touched =>
       \A r \in Requests : \A n \in Attempts(r) : jobs[r][n].phase # "held"
  /\ evictor.step = "prepared" /\ ~evictor.touched /\ slot = "open" => synced = Len(log)

(* A frame has its shape. *)
LEMMA JobType ==
  ASSUME Jobs(jobs), NEW r \in Requests, NEW n \in Attempts(r)
  PROVE  /\ jobs[r][n] \in JobRecords
         /\ jobs[r][n].phase \in Phases /\ jobs[r][n].rev \in Nat /\ jobs[r][n].seen \in Nat
         /\ jobs[r][n].heard \in BOOLEAN /\ jobs[r][n].stale \in BOOLEAN
BY DEF Jobs, JobRecords

(* The changes of one frame, as functions. *)
Sending(r, n, rev) == [jobs EXCEPT ![r][n] = Frame(rev)]
Replacing(r, n, m, rev) == [Ended(r, n) EXCEPT ![r][m] = Frame(rev)]
Refusing(r, n, seen) == [Moved(r, n, "conflict") EXCEPT ![r][n].seen = seen]

(* A job goes on to its next phase. *)
LEMMA MovedJob ==
  ASSUME Jobs(jobs), NEW r \in Requests, NEW n \in Attempts(r), NEW phase \in Phases
  PROVE  /\ Jobs(Moved(r, n, phase))
         /\ Moved(r, n, phase)[r][n] = [jobs[r][n] EXCEPT !.phase = phase]
         /\ OnlyAt(r, n, Moved(r, n, phase))
<1>1. [jobs[r][n] EXCEPT !.phase = phase] \in JobRecords
  BY JobType DEF JobRecords
<1>2. Moved(r, n, phase)[r][n] = [jobs[r][n] EXCEPT !.phase = phase]
  BY DEF Moved, Jobs
<1>3. OnlyAt(r, n, Moved(r, n, phase))
  BY DEF Moved, OnlyAt, Jobs
<1>4. Jobs(Moved(r, n, phase))
  BY <1>1 DEF Moved, Jobs
<1> QED
  BY <1>2, <1>3, <1>4

(* A frame is done with. *)
LEMMA EndedJob ==
  ASSUME Jobs(jobs), NEW r \in Requests, NEW n \in Attempts(r)
  PROVE  /\ Jobs(Ended(r, n)) /\ Ended(r, n)[r][n] = Gone
         /\ OnlyAt(r, n, Ended(r, n))
<1>1. Gone \in JobRecords
  BY DEF JobRecords, Gone, Unsent, Phases
<1> QED
  BY <1>1 DEF Ended, OnlyAt, Jobs

(* A frame is sent. *)
LEMMA SentJob ==
  ASSUME Jobs(jobs), NEW r \in Requests, NEW n \in Attempts(r), NEW rev \in Nat
  PROVE  /\ Jobs(Sending(r, n, rev)) /\ Sending(r, n, rev)[r][n] = Frame(rev)
         /\ OnlyAt(r, n, Sending(r, n, rev))
<1>1. Frame(rev) \in JobRecords
  BY DEF JobRecords, Frame, Phases
<1> QED
  BY <1>1 DEF Sending, OnlyAt, Jobs

(* A refused frame makes room for one under the newer revision. *)
LEMMA ReplacedJob ==
  ASSUME Jobs(jobs), NEW r \in Requests, NEW n \in Attempts(r), NEW m \in Attempts(r), m # n,
         NEW rev \in Nat
  PROVE  /\ Jobs(Replacing(r, n, m, rev))
         /\ Replacing(r, n, m, rev)[r][n] = Gone /\ Replacing(r, n, m, rev)[r][m] = Frame(rev)
         /\ \A q \in Requests : \A k \in Attempts(q) :
              q # r \/ (k # m /\ k # n) => Replacing(r, n, m, rev)[q][k] = jobs[q][k]
<1> DEFINE f == Replacing(r, n, m, rev)
<1>1. Frame(rev) \in JobRecords /\ Gone \in JobRecords
  BY DEF JobRecords, Frame, Phases, Gone, Unsent
<1>2. jobs[r] \in [Attempts(r) -> JobRecords] /\ r \in DOMAIN jobs
  BY DEF Jobs
<1>3. f = [jobs EXCEPT ![r] = [jobs[r] EXCEPT ![n] = Gone, ![m] = Frame(rev)]]
  BY <1>2 DEF Ended, Replacing
<1> HIDE DEF f
<1>4. [jobs[r] EXCEPT ![n] = Gone, ![m] = Frame(rev)] \in [Attempts(r) -> JobRecords]
  BY <1>1, <1>2
<1>5. f[r] = [jobs[r] EXCEPT ![n] = Gone, ![m] = Frame(rev)]
  BY <1>2, <1>3
<1>6. DOMAIN f = Requests /\ \A q \in Requests : q # r => f[q] = jobs[q]
  BY <1>3 DEF Jobs
<1>7. Jobs(f)
  BY <1>4, <1>5, <1>6 DEF Jobs
<1>8. f[r][n] = Gone /\ f[r][m] = Frame(rev)
      /\ \A k \in Attempts(r) : k # m /\ k # n => f[r][k] = jobs[r][k]
  BY <1>2, <1>5
<1> QED
  BY <1>6, <1>7, <1>8 DEF f

(* A frame is refused. *)
LEMMA RefusedJob ==
  ASSUME Jobs(jobs), NEW r \in Requests, NEW n \in Attempts(r), NEW seen \in Nat
  PROVE  /\ Jobs(Refusing(r, n, seen)) /\ OnlyAt(r, n, Refusing(r, n, seen))
         /\ LET j == Refusing(r, n, seen)[r][n] IN
              /\ j.phase = "conflict" /\ j.rev = jobs[r][n].rev /\ j.seen = seen
              /\ j.heard = jobs[r][n].heard /\ j.stale = jobs[r][n].stale
<1> DEFINE f == Refusing(r, n, seen)
<1>1. PICK j \in JobRecords : j = [jobs[r][n] EXCEPT !.phase = "conflict", !.seen = seen]
  BY JobType DEF JobRecords, Phases
<1>2. jobs[r] \in [Attempts(r) -> JobRecords] /\ r \in DOMAIN jobs
  BY DEF Jobs
<1>3. f = [jobs EXCEPT ![r] = [jobs[r] EXCEPT ![n] = j]]
  BY <1>1, <1>2 DEF Moved, Refusing
<1> HIDE DEF f
<1>4. f[r] = [jobs[r] EXCEPT ![n] = j]
  BY <1>2, <1>3
<1>8. f[r] \in [Attempts(r) -> JobRecords]
  BY <1>2, <1>4
<1>5. DOMAIN f = Requests /\ \A q \in Requests : q # r => f[q] = jobs[q]
  BY <1>3 DEF Jobs
<1>6. Jobs(f)
  BY <1>5, <1>8 DEF Jobs
<1>7. f[r][n] = j /\ \A m \in Attempts(r) : m # n => f[r][m] = jobs[r][m]
  BY <1>2, <1>4
<1>9. /\ j.phase = "conflict" /\ j.rev = jobs[r][n].rev /\ j.seen = seen
      /\ j.heard = jobs[r][n].heard /\ j.stale = jobs[r][n].stale
  BY <1>1, JobType DEF JobRecords
<1> QED
  BY <1>5, <1>6, <1>7, <1>9 DEF OnlyAt, f

(* The process dies with all of its jobs. *)
LEMMA DownJobs ==
  ASSUME Jobs(jobs), Down
  PROVE  /\ Jobs(jobs')
         /\ \A q \in Requests : \A m \in Attempts(q) :
              jobs'[q][m] = IF jobs[q][m].phase = "none" THEN Unsent ELSE Gone
<1>1. Unsent \in JobRecords /\ Gone \in JobRecords
  BY DEF JobRecords, Phases, Gone, Unsent
<1> QED
  BY <1>1 DEF Down, Phase, Jobs

(* A broken connection loses the answers. *)
LEMMA DisconnectJobs ==
  ASSUME Jobs(jobs), Disconnect
  PROVE  /\ Jobs(jobs')
         /\ \A q \in Requests : \A m \in Attempts(q) :
              jobs'[q][m] = IF jobs[q][m].phase \in {"ok", "failed", "conflict"} THEN Gone
                            ELSE [jobs[q][m] EXCEPT !.heard = FALSE]
<1>1. Gone \in JobRecords /\ \A q \in Requests : \A m \in Attempts(q) :
        [jobs[q][m] EXCEPT !.heard = FALSE] \in JobRecords
  BY JobType DEF JobRecords, Phases, Gone, Unsent
<1> QED
  BY <1>1 DEF Disconnect, Phase, Jobs

(* An eviction that goes through finds no job in the session. *)
LEMMA DetachedJobs ==
  ASSUME Jobs(jobs), Unused
  PROVE  Jobs(Detached) /\ \A q \in Requests : \A m \in Attempts(q) : Detached[q][m] = jobs[q][m]
<1>1. \A q \in Requests : \A m \in Attempts(q) : Detached[q][m] = jobs[q][m]
  BY JobType DEF Unused, Somewhere, Phase, Detached, JobRecords
<1>2. Jobs(Detached)
  BY <1>1, JobType DEF Detached, Jobs
<1> QED
  BY <1>1, <1>2

(* A commit adds one request to those in the log. *)
LEMMA RangeAppend ==
  ASSUME NEW S, NEW s \in Seq(S), NEW e \in S
  PROVE  Range(Append(s, e)) = Range(s) \cup {e}
<1> DEFINE t == Append(s, e)
<1>1. /\ t \in Seq(S) /\ Len(t) = Len(s) + 1 /\ t[Len(s) + 1] = e
      /\ \A i \in 1 .. Len(s) : t[i] = s[i]
  BY AppendProperties
<1>2. DOMAIN t = 1 .. Len(s) + 1 /\ DOMAIN s = 1 .. Len(s) /\ Len(s) \in Nat
  BY <1>1, LenProperties
<1> QED
  BY <1>1, <1>2 DEF Range

(* What a prefix of a sequence holds. *)
LEMMA PrefixRange ==
  ASSUME NEW S, NEW s \in Seq(S), NEW n \in 0 .. Len(s)
  PROVE  /\ SubSeq(s, 1, n) \in Seq(S) /\ Len(SubSeq(s, 1, n)) = n
         /\ \A i \in 1 .. n : SubSeq(s, 1, n)[i] = s[i]
         /\ Range(SubSeq(s, 1, n)) = {s[i] : i \in 1 .. n}
         /\ Range(SubSeq(s, 1, n)) \subseteq Range(s)
<1>1. /\ SubSeq(s, 1, n) \in Seq(S) /\ Len(SubSeq(s, 1, n)) = n
      /\ \A i \in 1 .. n : SubSeq(s, 1, n)[i] = s[i]
  BY SubSeqProperties, ElementOfSeq, LenProperties
<1>2. DOMAIN SubSeq(s, 1, n) = 1 .. n /\ DOMAIN s = 1 .. Len(s) /\ Len(s) \in Nat
  BY <1>1, LenProperties
<1>3. Range(SubSeq(s, 1, n)) = {s[i] : i \in 1 .. n}
  <2>1. Range(SubSeq(s, 1, n)) = {SubSeq(s, 1, n)[i] : i \in 1 .. n}
    BY <1>2 DEF Range
  <2> QED
    BY <1>1, <2>1
<1>4. {s[i] : i \in 1 .. n} \subseteq Range(s)
  BY <1>2 DEF Range
<1> QED
  BY <1>1, <1>3, <1>4

(* The latest commits are commits, the last one is among them. *)
LEMMA LatestFacts ==
  ASSUME NEW s \in Seq(Requests \cup Others)
  PROVE  /\ Latest(s) \subseteq Range(s)
         /\ s = <<>> => Latest(s) = {}
         /\ \A e \in Requests \cup Others : e \in Latest(Append(s, e))
<1>1. Latest(s) \subseteq Range(s)
  BY DEF Latest, Range
<1>2. s = <<>> => Latest(s) = {}
  BY DEF Latest
<1>3. ASSUME NEW e \in Requests \cup Others
      PROVE  e \in Latest(Append(s, e))
  <2>1. /\ Append(s, e) \in Seq(Requests \cup Others) /\ Len(Append(s, e)) = Len(s) + 1
        /\ Append(s, e)[Len(s) + 1] = e /\ Len(s) \in Nat
    BY AppendProperties, LenProperties
  <2>2. DOMAIN Append(s, e) = 1 .. Len(s) + 1
    BY <2>1, LenProperties
  <2>3. Len(s) + 1 > Len(Append(s, e)) - Ring
    BY <2>1, ConstantsAssumption
  <2> QED
    BY <2>1, <2>2, <2>3 DEF Latest
<1> QED
  BY <1>1, <1>2, <1>3

(* A session that was opened has receipts of its log only. *)
LEMMA OpenedType == TypeInv /\ Opened /\ log' = log =>
  receipts' \subseteq Range(log') /\ slot' = "open" /\ evictor' \in Evictors
<1> SUFFICES ASSUME TypeInv, Opened, log' = log
             PROVE  receipts' \subseteq Range(log') /\ slot' = "open" /\ evictor' \in Evictors
  OBVIOUS
<1>1. receipts' \subseteq Range(log')
  BY LatestFacts DEF TypeInv, Opened
<1>2. evictor' \in Evictors
  BY DEF TypeInv, Opened, Touched, Evictors
<1> QED
  BY <1>1, <1>2 DEF Opened

(* Every step keeps the shapes. *)
LEMMA TypeStep == TypeInv /\ [Next]_vars => TypeInv'
<1> SUFFICES ASSUME TypeInv, [Next]_vars PROVE TypeInv'
  OBVIOUS
<1>0. Len(log) \in Nat
  BY DEF TypeInv
<1>1. ASSUME NEW r \in Requests, Call(r)
      PROVE  TypeInv'
  <2>1. 1 \in Attempts(r)
    BY ConstantsAssumption DEF Attempts
  <2>2. Jobs(jobs')
    BY <1>0, <1>1, <2>1, SentJob DEF Call, TypeInv, Sending
  <2>3. caller' \in [Requests -> Callers]
    BY <1>0, <1>1 DEF Call, TypeInv, Callers
  <2> QED
    BY <1>1, <2>2, <2>3, OpenedType DEF Call, TypeInv
<1>2. ASSUME NEW r \in Requests, Timeout(r)
      PROVE  TypeInv'
  <2>1. caller[r].fence \in Nat
    BY DEF TypeInv, Callers
  <2>2. Jobs(jobs')
    <3>1. PICK n \in Attempts(r) : jobs' = Sending(r, n, caller[r].fence)
      BY <1>2 DEF Timeout, Sending
    <3> QED
      BY <2>1, <3>1, SentJob DEF TypeInv
  <2>3. caller' \in [Requests -> Callers]
    BY <1>2 DEF Timeout, TypeInv, Callers
  <2> QED
    BY <1>2, <2>2, <2>3 DEF Timeout, TypeInv
<1>3. ASSUME NEW r \in Requests, Resend(r)
      PROVE  TypeInv'
  <2>1. caller[r].fence \in Nat
    BY DEF TypeInv, Callers
  <2>2. Jobs(jobs')
    <3>1. PICK n \in Attempts(r) : jobs' = Sending(r, n, caller[r].fence)
      BY <1>3 DEF Resend, Sending
    <3> QED
      BY <2>1, <3>1, SentJob DEF TypeInv
  <2> QED
    BY <1>3, <2>2 DEF Resend, TypeInv
<1>4. ASSUME NEW r \in Requests, NEW n \in Attempts(r), HearOutcome(r, n)
      PROVE  TypeInv'
  <2>2. Jobs(jobs')
    BY <1>4, EndedJob DEF HearOutcome, TypeInv
  <2>3. caller' \in [Requests -> Callers]
    BY <1>4 DEF HearOutcome, TypeInv, Callers
  <2> QED
    BY <1>4, <2>2, <2>3 DEF HearOutcome, TypeInv
<1>5. ASSUME NEW r \in Requests, NEW n \in Attempts(r), HearConflict(r, n)
      PROVE  TypeInv'
  <2>1. CASE jobs' = Ended(r, n) /\ caller' = [caller EXCEPT ![r].state = "refused"]
    <3>1. Jobs(jobs')
      BY <2>1, EndedJob DEF TypeInv
    <3>2. caller' \in [Requests -> Callers]
      BY <2>1 DEF TypeInv, Callers
    <3> QED
      BY <1>5, <3>1, <3>2 DEF HearConflict, TypeInv
  <2>2. ASSUME NEW m \in Attempts(r), NextFrame(r, m),
               jobs' = Replacing(r, n, m, jobs[r][n].seen),
               caller' = [caller EXCEPT ![r].fence = jobs[r][n].seen]
        PROVE  TypeInv'
    <3>1. jobs[r][n].seen \in Nat
      BY JobType DEF TypeInv
    <3>2. m # n
      BY <1>5, <2>2 DEF HearConflict, NextFrame
    <3>3. Jobs(jobs')
      BY <2>2, <3>1, <3>2, ReplacedJob DEF TypeInv
    <3>4. caller' \in [Requests -> Callers]
      BY <2>2, <3>1 DEF TypeInv, Callers
    <3> QED
      BY <1>5, <3>3, <3>4 DEF HearConflict, TypeInv
  <2> QED
    BY <1>5, <2>1, <2>2 DEF HearConflict, Replacing
<1>6. ASSUME NEW r \in Requests, NEW n \in Attempts(r), Lookup(r, n)
      PROVE  TypeInv'
  <2>1. Jobs(jobs')
    BY <1>6, MovedJob DEF Lookup, TypeInv, Phases
  <2> QED
    BY <1>6, <2>1 DEF Lookup, TypeInv
<1>7. ASSUME NEW r \in Requests, NEW n \in Attempts(r), Open(r, n)
      PROVE  TypeInv'
  <2>1. Jobs(jobs')
    BY <1>7, MovedJob DEF Open, TypeInv, Phases
  <2> QED
    BY <1>7, <2>1, OpenedType DEF Open, TypeInv
<1>8. ASSUME NEW r \in Requests, NEW n \in Attempts(r), Reuse(r, n)
      PROVE  TypeInv'
  <2>1. Jobs(jobs')
    BY <1>8, MovedJob DEF Reuse, TypeInv, Phases
  <2> QED
    BY <1>8, <2>1 DEF Reuse, TypeInv
<1>9. ASSUME NEW r \in Requests, NEW n \in Attempts(r), Refuse(r, n)
      PROVE  TypeInv'
  <2>1. Jobs(jobs')
    BY <1>0, <1>9, RefusedJob DEF Refuse, TypeInv, Refusing
  <2> QED
    BY <1>9, <2>1 DEF Refuse, TypeInv
<1>10. ASSUME NEW r \in Requests \cup Others, log' = Append(log, r), receipts' = Latest(log')
       PROVE  /\ log' \in Seq(Requests \cup Others) /\ Len(log') = Len(log) + 1
              /\ receipts' \subseteq Range(log')
  <2>1. log' \in Seq(Requests \cup Others) /\ Len(log') = Len(log) + 1
    BY <1>10, AppendProperties DEF TypeInv
  <2> QED
    BY <1>10, <2>1, LatestFacts
<1>11. ASSUME NEW r \in Requests, NEW n \in Attempts(r), Commit(r, n)
       PROVE  TypeInv'
  <2>1. Jobs(jobs')
    BY <1>11, MovedJob DEF Commit, TypeInv, Phases
  <2>2. /\ log' \in Seq(Requests \cup Others) /\ Len(log') = Len(log) + 1
        /\ receipts' \subseteq Range(log')
    BY <1>10, <1>11 DEF Commit
  <2> QED
    BY <1>0, <1>11, <2>1, <2>2 DEF Commit, TypeInv
<1>12. ASSUME NEW o \in Others, OtherCommit(o)
       PROVE  TypeInv'
  <2>1. evictor' \in Evictors
    BY <1>12 DEF OtherCommit, Touched, TypeInv, Evictors
  <2>2. /\ log' \in Seq(Requests \cup Others) /\ Len(log') = Len(log) + 1
        /\ receipts' \subseteq Range(log')
    BY <1>10, <1>12 DEF OtherCommit
  <2> QED
    BY <1>0, <1>12, <2>1, <2>2 DEF OtherCommit, TypeInv
<1>13. ASSUME NEW r \in Requests, NEW n \in Attempts(r), Barrier(r, n) \/ BarrierFails(r, n)
       PROVE  TypeInv'
  <2>1. evictor' \in Evictors
    BY <1>13 DEF Barrier, BarrierFails, Touched, TypeInv, Evictors
  <2>2. Jobs(jobs')
    <3>1. jobs' = Moved(r, n, "ok") \/ jobs' = Moved(r, n, "failed")
      BY <1>13 DEF Barrier, BarrierFails
    <3>2. Jobs(Moved(r, n, "ok")) /\ Jobs(Moved(r, n, "failed"))
      BY MovedJob DEF TypeInv, Phases
    <3> QED
      BY <3>1, <3>2
  <2>3. synced' \in Nat /\ synced' <= Len(log)
    BY <1>0, <1>13 DEF Barrier, BarrierFails, TypeInv
  <2> QED
    BY <1>13, <2>1, <2>2, <2>3 DEF Barrier, BarrierFails, TypeInv
<1>14. CASE EvictRelease
  BY <1>14 DEF EvictRelease, TypeInv, Evictors
<1>15. CASE EvictPrepare
  <2>1. evictor' \in Evictors
    <3>1. \/ evictor' = [evictor EXCEPT !.step = "prepared"]
          \/ evictor' = [step |-> "idle", touched |-> FALSE]
      BY <1>15 DEF EvictPrepare
    <3>2. CASE evictor' = [evictor EXCEPT !.step = "prepared"]
      BY <3>2 DEF TypeInv, Evictors
    <3>3. CASE evictor' = [step |-> "idle", touched |-> FALSE]
      BY <3>3 DEF Evictors
    <3> QED
      BY <3>1, <3>2, <3>3
  <2>2. synced' \in Nat /\ synced' <= Len(log)
    BY <1>0, <1>15 DEF EvictPrepare, TypeInv
  <2> QED
    BY <1>15, <2>1, <2>2 DEF EvictPrepare, TypeInv
<1>16. CASE EvictDetach
  <2>1. evictor' \in Evictors
    BY <1>16 DEF EvictDetach, Evictors
  <2>2. CASE Unused /\ ~evictor.touched
    BY <1>16, <2>1, <2>2, DetachedJobs DEF EvictDetach, TypeInv
  <2>3. CASE ~(Unused /\ ~evictor.touched)
    BY <1>16, <2>1, <2>3 DEF EvictDetach, TypeInv
  <2> QED
    BY <2>2, <2>3
<1>17. CASE Disconnect
  <2>1. Jobs(jobs')
    BY <1>17, DisconnectJobs DEF TypeInv
  <2> QED
    BY <1>17, <2>1 DEF Disconnect, TypeInv
<1>18. CASE ProcessCrash
  BY <1>18, DownJobs DEF ProcessCrash, Down, TypeInv, Evictors
<1>19. CASE PowerLoss
  <2>1. PICK n \in synced .. Len(log) :
          /\ Down /\ log' = SubSeq(log, 1, n) /\ synced' = synced
          /\ caller' = [r \in Requests |->
               [caller[r] EXCEPT !.state = IF @ = "waiting" THEN "unknown" ELSE @]]
    BY <1>19 DEF PowerLoss
  <2>2. n \in 0 .. Len(log) /\ synced <= n
    BY <1>0, <2>1 DEF TypeInv
  <2>3. log' \in Seq(Requests \cup Others) /\ Len(log') = n
    BY <2>1, <2>2, PrefixRange DEF TypeInv
  <2>4. caller' \in [Requests -> Callers]
    BY <2>1 DEF TypeInv, Callers
  <2>5. receipts' = {} /\ slot' = "none" /\ evictor' \in Evictors
    BY <2>1 DEF Down, Evictors
  <2> QED
    BY <2>1, <2>2, <2>3, <2>4, <2>5, DownJobs DEF TypeInv
<1>20. CASE UNCHANGED vars
  BY <1>20 DEF vars, TypeInv
<1>21. CASE Sender
  BY <1>1, <1>2, <1>3, <1>4, <1>5, <1>21 DEF Sender
<1>22. CASE Job
  BY <1>6, <1>7, <1>8, <1>9, <1>11, <1>13, <1>22 DEF Job
<1> QED
  BY <1>12, <1>14, <1>15, <1>16, <1>17, <1>18, <1>19, <1>20, <1>21, <1>22
  DEF Next, Eviction, Fault

(* The fields of a frame that is done with, unsent or just sent. *)
LEMMA GoneFields ==
  /\ Gone.phase = "gone" /\ ~Gone.heard /\ ~Gone.stale
  /\ Unsent.phase = "none" /\ ~Unsent.heard /\ ~Unsent.stale
  /\ \A rev : /\ Frame(rev).phase = "queued" /\ Frame(rev).rev = rev
               /\ Frame(rev).heard /\ ~Frame(rev).stale
BY DEF Gone, Unsent, Frame

(* The fields of a frame that goes on to its next phase. *)
LEMMA MovedFields ==
  ASSUME Jobs(jobs), NEW r \in Requests, NEW n \in Attempts(r), NEW phase \in Phases,
         NEW f, f = Moved(r, n, phase)
  PROVE  /\ f[r][n].phase = phase /\ f[r][n].rev = jobs[r][n].rev /\ f[r][n].seen = jobs[r][n].seen
         /\ f[r][n].heard = jobs[r][n].heard /\ f[r][n].stale = jobs[r][n].stale
         /\ \A q \in Requests : \A m \in Attempts(q) : q # r \/ m # n => f[q][m] = jobs[q][m]
<1>1. f[r][n] = [jobs[r][n] EXCEPT !.phase = phase] /\ OnlyAt(r, n, f)
  BY MovedJob
<1> QED
  BY <1>1, JobType DEF JobRecords, OnlyAt

(* The fields of a refused frame. *)
LEMMA RefusedFields ==
  ASSUME Jobs(jobs), NEW r \in Requests, NEW n \in Attempts(r), NEW seen \in Nat,
         NEW f, f = Refusing(r, n, seen)
  PROVE  /\ f[r][n].phase = "conflict" /\ f[r][n].rev = jobs[r][n].rev /\ f[r][n].seen = seen
         /\ f[r][n].heard = jobs[r][n].heard /\ f[r][n].stale = jobs[r][n].stale
         /\ \A q \in Requests : \A m \in Attempts(q) : q # r \/ m # n => f[q][m] = jobs[q][m]
BY RefusedJob DEF OnlyAt

(* The fields of a frame after the connection broke. *)
LEMMA QuietedFields ==
  ASSUME Jobs(jobs), Disconnect, NEW q \in Requests, NEW m \in Attempts(q)
  PROVE  /\ jobs'[q][m].phase = IF jobs[q][m].phase \in {"ok", "failed", "conflict"} THEN "gone"
                                ELSE jobs[q][m].phase
         /\ ~jobs'[q][m].heard
         /\ jobs'[q][m] = Gone \/ (jobs'[q][m].rev = jobs[q][m].rev
                                   /\ jobs'[q][m].seen = jobs[q][m].seen
                                   /\ jobs'[q][m].stale = jobs[q][m].stale)
<1>1. jobs'[q][m] = IF jobs[q][m].phase \in {"ok", "failed", "conflict"} THEN Gone
                    ELSE [jobs[q][m] EXCEPT !.heard = FALSE]
  BY DisconnectJobs
<1> QED
  BY <1>1, JobType, GoneFields DEF JobRecords

(* The fields of a frame after the process died. *)
LEMMA DownFields ==
  ASSUME Jobs(jobs), Down, NEW q \in Requests, NEW m \in Attempts(q)
  PROVE  /\ jobs'[q][m].phase \in {"none", "gone"} /\ ~jobs'[q][m].heard /\ ~jobs'[q][m].stale
         /\ jobs'[q][m].phase \notin Live
BY DownJobs, GoneFields DEF Live

(* Every step keeps Held: an eviction takes no session from a job, as it *)
(* looks again under the lock of the cache.                              *)
LEMMA HeldStep == TypeInv /\ Held /\ [Next]_vars => Held'
<1> SUFFICES ASSUME TypeInv, Held, [Next]_vars PROVE Held'
  OBVIOUS
<1>0. Jobs(jobs)
  BY DEF TypeInv
<1>1. ASSUME NEW r \in Requests, Call(r)
      PROVE  Held'
  <2>1. 1 \in Attempts(r) /\ Len(log) \in Nat
    BY ConstantsAssumption DEF Attempts, TypeInv
  <2>2. jobs'[r][1] = Frame(Len(log)) /\ OnlyAt(r, 1, jobs')
    BY <1>0, <1>1, <2>1, SentJob DEF Call, Sending
  <2> QED
    BY <1>1, <2>1, <2>2, GoneFields DEF Call, Opened, Held, OnlyAt
<1>2. ASSUME NEW r \in Requests, Timeout(r) \/ Resend(r)
      PROVE  Held'
  <2>1. PICK n \in Attempts(r) : jobs' = Sending(r, n, caller[r].fence)
    BY <1>2 DEF Timeout, Resend, Sending
  <2>2. caller[r].fence \in Nat
    BY DEF TypeInv, Callers
  <2>3. jobs'[r][n] = Frame(caller[r].fence) /\ OnlyAt(r, n, jobs')
    BY <1>0, <2>1, <2>2, SentJob
  <2>4. slot' = slot
    BY <1>2 DEF Timeout, Resend
  <2> QED
    BY <2>3, <2>4, GoneFields DEF Held, OnlyAt
<1>3. ASSUME NEW r \in Requests, NEW n \in Attempts(r), jobs' = Ended(r, n), slot' = slot
      PROVE  Held'
  <2>1. jobs'[r][n] = Gone /\ OnlyAt(r, n, jobs')
    BY <1>0, <1>3, EndedJob
  <2> QED
    BY <1>3, <2>1, GoneFields DEF Held, OnlyAt
<1>4. ASSUME NEW r \in Requests, NEW n \in Attempts(r), NEW phase \in Phases,
             jobs' = Moved(r, n, phase), slot' = slot \/ slot' = "open" \/ slot # "open",
             phase # "held" \/ slot' = "open"
      PROVE  Held'
  BY <1>0, <1>4, MovedFields DEF Held
<1>5. ASSUME NEW r \in Requests, NEW n \in Attempts(r), HearConflict(r, n)
      PROVE  Held'
  <2>1. CASE jobs' = Ended(r, n)
    BY <1>3, <1>5, <2>1 DEF HearConflict
  <2>2. ASSUME NEW m \in Attempts(r), NextFrame(r, m),
               jobs' = Replacing(r, n, m, jobs[r][n].seen)
        PROVE  Held'
    <3>1. m # n /\ slot' = slot
      BY <1>5, <2>2 DEF HearConflict, NextFrame
    <3>2. PICK rev \in Nat : rev = jobs[r][n].seen
      BY <1>0, JobType
    <3>3. /\ jobs'[r][n] = Gone /\ jobs'[r][m] = Frame(rev)
          /\ \A q \in Requests : \A k \in Attempts(q) :
               q # r \/ (k # m /\ k # n) => jobs'[q][k] = jobs[q][k]
      BY <1>0, <2>2, <3>1, <3>2, ReplacedJob
    <3> QED
      BY <3>1, <3>3, GoneFields DEF Held
  <2> QED
    BY <1>5, <2>1, <2>2 DEF HearConflict, Replacing
<1>6. ASSUME NEW r \in Requests, NEW n \in Attempts(r), Refuse(r, n)
      PROVE  Held'
  <2>1. PICK seen \in Nat : seen = Len(log)
    BY DEF TypeInv
  <2> QED
    <3>1. jobs' = Refusing(r, n, seen) /\ slot' = slot
      BY <1>6, <2>1 DEF Refuse, Refusing
    <3> QED
      BY <1>0, <3>1, RefusedFields DEF Held
<1>7. ASSUME NEW r \in Requests, NEW n \in Attempts(r),
             \/ Lookup(r, n) \/ Open(r, n) \/ Reuse(r, n) \/ Commit(r, n)
             \/ Barrier(r, n) \/ BarrierFails(r, n)
      PROVE  Held'
  <2>1. CASE Lookup(r, n)
    BY <1>4, <2>1 DEF Lookup, Phases
  <2>2. CASE Open(r, n)
    BY <1>4, <2>2 DEF Open, Opened, Phases
  <2>3. CASE Reuse(r, n)
    BY <1>4, <2>3 DEF Reuse, Phases
  <2>4. CASE Commit(r, n)
    BY <1>4, <2>4 DEF Commit, Phases
  <2>5. CASE Barrier(r, n)
    BY <1>4, <2>5 DEF Barrier, Phases
  <2>6. CASE BarrierFails(r, n)
    BY <1>4, <2>6 DEF BarrierFails, Phases
  <2> QED
    BY <1>7, <2>1, <2>2, <2>3, <2>4, <2>5, <2>6
<1>8. ASSUME NEW o \in Others, OtherCommit(o)
      PROVE  Held'
  BY <1>8 DEF OtherCommit, Held
<1>9. CASE Eviction
  <2>1. CASE EvictDetach /\ Unused /\ ~evictor.touched
    <3>1. \A q \in Requests : \A m \in Attempts(q) :
            jobs'[q][m] = jobs[q][m] /\ jobs[q][m].phase # "held"
      BY <1>0, <2>1, DetachedJobs DEF EvictDetach, Unused, Somewhere, Phase
    <3> QED
      BY <3>1 DEF Held
  <2>2. CASE ~(EvictDetach /\ Unused /\ ~evictor.touched)
    BY <1>9, <2>2 DEF Eviction, EvictRelease, EvictPrepare, EvictDetach, Held
  <2> QED
    BY <2>1, <2>2
<1>10. CASE Disconnect
  <2>1. \A q \in Requests : \A m \in Attempts(q) :
          /\ jobs'[q][m].phase = "held" => jobs[q][m].phase = "held"
          /\ ~jobs[q][m].stale => ~jobs'[q][m].stale
    BY <1>0, <1>10, QuietedFields, GoneFields
  <2> QED
    BY <1>10, <2>1 DEF Disconnect, Held
<1>11. CASE ProcessCrash \/ PowerLoss
  BY <1>0, <1>11, DownFields DEF ProcessCrash, PowerLoss, Held
<1>12. CASE UNCHANGED vars
  BY <1>12 DEF vars, Held
<1>13. CASE Sender
  BY <1>1, <1>2, <1>3, <1>5, <1>13 DEF Sender, HearOutcome
<1>14. CASE Job
  BY <1>6, <1>7, <1>14 DEF Job
<1> QED
  BY <1>8, <1>9, <1>10, <1>11, <1>12, <1>13, <1>14 DEF Next, Fault

(* Every step keeps Current: a session that is read back has the receipts *)
(* it had when it was evicted.                                            *)
LEMMA CurrentStep == TypeInv /\ Held /\ Current /\ [Next]_vars => Current'
<1> SUFFICES ASSUME TypeInv, Held, Current, [Next]_vars PROVE Current'
  OBVIOUS
<1>0. ASSUME UNCHANGED <<log, receipts>>, slot' = "open" => slot = "open"
      PROVE  Current'
  BY <1>0 DEF Current
<1>1. ASSUME Opened, log' = log
      PROVE  Current'
  BY <1>1 DEF Opened, Current
<1>2. CASE Sender
  <2>1. CASE \E r \in Requests : Call(r)
    BY <2>1, <1>1 DEF Call
  <2>2. CASE \E r \in Requests : \/ Timeout(r) \/ Resend(r)
                                  \/ \E n \in Attempts(r) : HearOutcome(r, n) \/ HearConflict(r, n)
    BY <2>2, <1>0 DEF Timeout, Resend, HearOutcome, HearConflict
  <2> QED
    BY <1>2, <2>1, <2>2 DEF Sender
<1>3. ASSUME NEW r \in Requests, NEW n \in Attempts(r), Open(r, n)
      PROVE  Current'
  BY <1>1, <1>3 DEF Open
<1>4. ASSUME NEW r \in Requests, NEW n \in Attempts(r), Commit(r, n)
      PROVE  Current'
  BY <1>4 DEF Commit, Current
<1>5. ASSUME NEW r \in Requests, NEW n \in Attempts(r), Lookup(r, n)
      PROVE  Current'
  BY <1>0, <1>5 DEF Lookup, TypeInv
<1>6. ASSUME NEW r \in Requests, NEW n \in Attempts(r),
             Reuse(r, n) \/ Refuse(r, n) \/ Barrier(r, n) \/ BarrierFails(r, n)
      PROVE  Current'
  BY <1>0, <1>6 DEF Reuse, Refuse, Barrier, BarrierFails
<1>7. ASSUME NEW o \in Others, OtherCommit(o)
      PROVE  Current'
  BY <1>7 DEF OtherCommit, Current
<1>8. CASE Eviction
  <2>1. \/ UNCHANGED <<log, receipts, slot>>
        \/ log' = log /\ slot' = "none"
    BY <1>8 DEF Eviction, EvictRelease, EvictPrepare, EvictDetach
  <2> QED
    BY <2>1 DEF Current
<1>9. CASE Fault
  <2>1. slot' = "none" \/ UNCHANGED <<log, receipts, slot>>
    BY <1>9 DEF Fault, Disconnect, ProcessCrash, PowerLoss, Down
  <2> QED
    BY <2>1 DEF Current
<1>10. CASE UNCHANGED vars
  BY <1>10 DEF vars, Current
<1>11. CASE Job
  BY <1>3, <1>4, <1>5, <1>6, <1>11 DEF Job
<1> QED
  BY <1>2, <1>7, <1>8, <1>9, <1>10, <1>11 DEF Next

(* A job that finds no receipt is the first to execute its request. *)
LEMMA Unknown ==
  ASSUME TypeInv, Held, Current, Kept, NEW r \in Requests, NEW n \in Attempts(r),
         jobs[r][n].phase = "held", r \notin receipts
  PROVE  r \notin Range(log)
BY DEF Held, Current, Kept, Waits

(* The log after a commit. *)
LEMMA AppendedLog ==
  ASSUME TypeInv, NEW e \in Requests \cup Others, log' = Append(log, e)
  PROVE  /\ log' \in Seq(Requests \cup Others) /\ Len(log') = Len(log) + 1 /\ Len(log) \in Nat
         /\ \A i \in 1 .. Len(log) : log'[i] = log[i]
         /\ log'[Len(log) + 1] = e
         /\ Range(log') = Range(log) \cup {e}
         /\ e \in Latest(log')
<1>1. log \in Seq(Requests \cup Others) /\ Len(log) \in Nat
  BY DEF TypeInv
<1>2. /\ log' \in Seq(Requests \cup Others) /\ Len(log') = Len(log) + 1
      /\ \A i \in 1 .. Len(log) : log'[i] = log[i]
      /\ log'[Len(log) + 1] = e
  BY <1>1, AppendProperties
<1>3. Range(log') = Range(log) \cup {e}
  BY <1>1, RangeAppend
<1>4. e \in Latest(log')
  BY <1>1, LatestFacts
<1> QED
  BY <1>1, <1>2, <1>3, <1>4

(* What a loss of power leaves. *)
LEMMA LostLog ==
  ASSUME TypeInv, PowerLoss
  PROVE  /\ Down /\ synced' = synced
         /\ \E n \in synced .. Len(log) :
              /\ log' \in Seq(Requests \cup Others) /\ Len(log') = n
              /\ \A i \in 1 .. n : log'[i] = log[i]
         /\ Range(log') \subseteq Range(log)
         /\ \A r \in Requests : caller'[r].state = IF caller[r].state = "waiting" THEN "unknown"
                                                   ELSE caller[r].state
<1>1. PICK n \in synced .. Len(log) :
        /\ Down /\ log' = SubSeq(log, 1, n) /\ synced' = synced
        /\ caller' = [r \in Requests |->
             [caller[r] EXCEPT !.state = IF @ = "waiting" THEN "unknown" ELSE @]]
  BY DEF PowerLoss
<1>2. n \in 0 .. Len(log)
  BY <1>1 DEF TypeInv
<1>3. /\ log' \in Seq(Requests \cup Others) /\ Len(log') = n
      /\ \A i \in 1 .. n : log'[i] = log[i]
      /\ Range(log') \subseteq Range(log)
  BY <1>1, <1>2, PrefixRange DEF TypeInv
<1>4. \A r \in Requests : caller'[r].state = IF caller[r].state = "waiting" THEN "unknown"
                                              ELSE caller[r].state
  BY <1>1 DEF TypeInv, Callers
<1> QED
  BY <1>1, <1>3, <1>4

(* No step commits a request again. *)
LEMMA DistinctStep ==
  TypeInv /\ Held /\ Current /\ Kept /\ Distinct /\ [Next]_vars => Distinct'
<1> SUFFICES ASSUME TypeInv, Held, Current, Kept, Distinct, [Next]_vars PROVE Distinct'
  OBVIOUS
<1>1. ASSUME NEW e \in Requests \cup Others, log' = Append(log, e), e \notin Range(log)
      PROVE  Distinct'
  <2>1. \A i \in 1 .. Len(log) : log[i] # e
    BY <1>1, LenProperties DEF Range, TypeInv
  <2> QED
    BY <1>1, <2>1, AppendedLog DEF Distinct
<1>2. ASSUME NEW r \in Requests, NEW n \in Attempts(r), Commit(r, n)
      PROVE  Distinct'
  <2>1. r \notin Range(log)
    BY <1>2, Unknown DEF Commit, Phase
  <2> QED
    BY <1>1, <1>2, <2>1 DEF Commit
<1>3. ASSUME NEW o \in Others, OtherCommit(o)
      PROVE  Distinct'
  BY <1>1, <1>3 DEF OtherCommit
<1>4. CASE PowerLoss
  BY <1>4, LostLog DEF Distinct, TypeInv
<1>5. ASSUME log' = log
      PROVE  Distinct'
  BY <1>5 DEF Distinct
<1>6. CASE Sender
  BY <1>5, <1>6 DEF Sender, Call, Timeout, Resend, HearOutcome, HearConflict
<1>7. ASSUME NEW r \in Requests, NEW n \in Attempts(r),
             \/ Lookup(r, n) \/ Open(r, n) \/ Reuse(r, n) \/ Refuse(r, n)
             \/ Barrier(r, n) \/ BarrierFails(r, n)
      PROVE  Distinct'
  BY <1>5, <1>7 DEF Lookup, Open, Reuse, Refuse, Barrier, BarrierFails
<1>8. CASE Job
  BY <1>2, <1>7, <1>8 DEF Job
<1>9. CASE Eviction \/ Disconnect \/ ProcessCrash \/ UNCHANGED vars
  BY <1>5, <1>9
  DEF Eviction, EvictRelease, EvictPrepare, EvictDetach, Disconnect, ProcessCrash, vars
<1> QED
  BY <1>3, <1>4, <1>6, <1>8, <1>9 DEF Next, Fault

(* Every step keeps Kept: the assumption about the ring is used where a *)
(* commit drops a receipt.                                              *)
LEMMA KeptStep ==
  TypeInv /\ Held /\ Current /\ Fresh /\ Kept /\ [Next]_vars => Kept'
<1> SUFFICES ASSUME TypeInv, Held, Current, Fresh, Kept, [Next]_vars PROVE Kept'
  OBVIOUS
<1>0. Jobs(jobs) /\ caller \in [Requests -> Callers]
  BY DEF TypeInv
<1>1. ASSUME log' = log, \A q \in Requests : Waits(q)' /\ q \in Range(log) => Waits(q)
      PROVE  Kept'
  BY <1>1 DEF Kept
<1>2. ASSUME NEW r \in Requests, Call(r)
      PROVE  Kept'
  <2>1. 1 \in Attempts(r) /\ Len(log) \in Nat
    BY ConstantsAssumption DEF Attempts, TypeInv
  <2>2. OnlyAt(r, 1, jobs')
    BY <1>0, <1>2, <2>1, SentJob DEF Call, Sending
  <2>3. r \notin Range(log)
    BY <1>2 DEF Call, Fresh
  <2>4. \A q \in Requests : q # r => caller'[q] = caller[q]
    BY <1>0, <1>2 DEF Call
  <2>5. \A q \in Requests : q # r => \A m \in Attempts(q) : jobs'[q][m] = jobs[q][m]
    BY <2>2 DEF OnlyAt
  <2>6. \A q \in Requests : q # r /\ Waits(q)' => Waits(q)
    BY <2>4, <2>5 DEF Waits
  <2> QED
    BY <1>1, <1>2, <2>3, <2>6 DEF Call
<1>3. ASSUME NEW r \in Requests, Waiting(r), log' = log,
             \A q \in Requests : q # r => caller'[q] = caller[q]
               /\ \A m \in Attempts(q) : jobs'[q][m] = jobs[q][m]
      PROVE  Kept'
  BY <1>1, <1>3 DEF Waits, Waiting
<1>4. ASSUME NEW r \in Requests, Timeout(r) \/ Resend(r)
      PROVE  Kept'
  <2>1. PICK n \in Attempts(r) : jobs' = Sending(r, n, caller[r].fence)
    BY <1>4 DEF Timeout, Resend, Sending
  <2>2. caller[r].fence \in Nat
    BY DEF TypeInv, Callers
  <2>3. OnlyAt(r, n, jobs')
    BY <1>0, <2>1, <2>2, SentJob
  <2>4. \A q \in Requests : q # r => caller'[q] = caller[q]
    BY <1>0, <1>4 DEF Timeout, Resend
  <2>5. Waiting(r) /\ log' = log
    BY <1>4 DEF Timeout, Resend
  <2> QED
    BY <1>3, <2>3, <2>4, <2>5 DEF OnlyAt
<1>5. ASSUME NEW r \in Requests, NEW n \in Attempts(r), HearOutcome(r, n)
      PROVE  Kept'
  <2>1. OnlyAt(r, n, jobs')
    BY <1>0, <1>5, EndedJob DEF HearOutcome
  <2>2. \A q \in Requests : q # r => caller'[q] = caller[q]
    BY <1>0, <1>5 DEF HearOutcome
  <2>3. Waiting(r) /\ log' = log
    BY <1>5 DEF HearOutcome
  <2> QED
    BY <1>3, <2>1, <2>2, <2>3 DEF OnlyAt
<1>6. ASSUME NEW r \in Requests, NEW n \in Attempts(r), HearConflict(r, n)
      PROVE  Kept'
  <2>1. \A q \in Requests : q # r => caller'[q] = caller[q]
    BY <1>0, <1>6 DEF HearConflict
  <2>2. Waiting(r) /\ log' = log
    BY <1>6 DEF HearConflict
  <2>3. CASE jobs' = Ended(r, n)
    <3>1. OnlyAt(r, n, jobs')
      BY <1>0, <2>3, EndedJob
    <3> QED
      BY <1>3, <2>1, <2>2, <3>1 DEF OnlyAt
  <2>4. ASSUME NEW m \in Attempts(r), NextFrame(r, m),
               jobs' = Replacing(r, n, m, jobs[r][n].seen)
        PROVE  Kept'
    <3>1. m # n
      BY <1>6, <2>4 DEF HearConflict, NextFrame
    <3>2. PICK rev \in Nat : rev = jobs[r][n].seen
      BY <1>0, JobType
    <3>3. \A q \in Requests : \A k \in Attempts(q) : q # r => jobs'[q][k] = jobs[q][k]
      BY <1>0, <2>4, <3>1, <3>2, ReplacedJob
    <3> QED
      BY <1>3, <2>1, <2>2, <3>3
  <2> QED
    BY <1>6, <2>3, <2>4 DEF HearConflict, Replacing
<1>7. ASSUME NEW r \in Requests, NEW n \in Attempts(r), NEW phase \in Phases,
             jobs' = Moved(r, n, phase), caller' = caller, phase # "queued",
             phase \in {"slot", "held"} => jobs[r][n].phase \in {"queued", "slot"}
      PROVE  \A q \in Requests : Waits(q)' => Waits(q)
  <2>1. /\ jobs'[r][n].phase = phase
        /\ \A q \in Requests : \A m \in Attempts(q) :
             q # r \/ m # n => jobs'[q][m] = jobs[q][m]
    BY <1>0, <1>7, MovedFields
  <2> QED
    BY <1>7, <2>1 DEF Waits
<1>8. ASSUME NEW e \in Requests \cup Others, log' = Append(log, e), receipts' = Latest(log'),
             Retained(receipts'), \A q \in Requests : Waits(q)' => Waits(q)
      PROVE  Kept'
  <2>1. ASSUME NEW q \in Requests, Waits(q)', q \in Range(log')
        PROVE  q \in Latest(log')
    <3>1. CASE q = e
      BY <1>8, <3>1, AppendedLog
    <3>2. CASE q # e
      <4>1. q \in Range(log)
        BY <1>8, <2>1, <3>2, AppendedLog
      <4>2. Waits(q)
        BY <1>8, <2>1
      <4>3. q \in Latest(log) /\ Pending(q)
        BY <4>1, <4>2 DEF Kept, Waits, Pending, Waiting, Phase
      <4> QED
        BY <1>8, <4>3 DEF Retained
    <3> QED
      BY <3>1, <3>2
  <2> QED
    BY <2>1 DEF Kept
<1>9. ASSUME NEW r \in Requests, NEW n \in Attempts(r), Commit(r, n)
      PROVE  Kept'
  <2>1. \A q \in Requests : Waits(q)' => Waits(q)
    BY <1>7, <1>9 DEF Commit, Phases
  <2> QED
    BY <1>8, <1>9, <2>1 DEF Commit
<1>10. ASSUME NEW o \in Others, OtherCommit(o)
       PROVE  Kept'
  BY <1>8, <1>10 DEF OtherCommit, Waits
<1>11. ASSUME NEW r \in Requests, NEW n \in Attempts(r), Refuse(r, n)
       PROVE  Kept'
  <2>1. PICK seen \in Nat : seen = Len(log)
    BY DEF TypeInv
  <2>2. jobs' = Refusing(r, n, seen) /\ caller' = caller /\ log' = log
    BY <1>11, <2>1 DEF Refuse, Refusing
  <2>3. \A q \in Requests : Waits(q)' => Waits(q)
    BY <1>0, <2>2, RefusedFields DEF Waits
  <2> QED
    BY <1>1, <2>2, <2>3
<1>12. ASSUME NEW r \in Requests, NEW n \in Attempts(r),
              Lookup(r, n) \/ Open(r, n) \/ Reuse(r, n) \/ Barrier(r, n) \/ BarrierFails(r, n)
       PROVE  Kept'
  <2>1. CASE Lookup(r, n)
    BY <1>1, <1>7, <2>1 DEF Lookup, Phases, Phase
  <2>2. CASE Open(r, n)
    BY <1>1, <1>7, <2>2 DEF Open, Phases, Phase
  <2>3. CASE Reuse(r, n)
    BY <1>1, <1>7, <2>3 DEF Reuse, Phases
  <2>4. CASE Barrier(r, n)
    BY <1>1, <1>7, <2>4 DEF Barrier, Phases
  <2>5. CASE BarrierFails(r, n)
    BY <1>1, <1>7, <2>5 DEF BarrierFails, Phases
  <2> QED
    BY <1>12, <2>1, <2>2, <2>3, <2>4, <2>5
<1>13. CASE Eviction
  <2>1. CASE EvictDetach /\ Unused /\ ~evictor.touched
    <3>1. \A q \in Requests : \A m \in Attempts(q) : jobs'[q][m] = jobs[q][m]
      BY <1>0, <2>1, DetachedJobs DEF EvictDetach
    <3> QED
      BY <1>1, <2>1, <3>1 DEF EvictDetach, Waits
  <2>2. CASE ~(EvictDetach /\ Unused /\ ~evictor.touched)
    <3>1. UNCHANGED <<log, jobs, caller>>
      BY <1>13, <2>2 DEF Eviction, EvictRelease, EvictPrepare, EvictDetach
    <3> QED
      BY <1>1, <3>1 DEF Waits
  <2> QED
    BY <2>1, <2>2
<1>14. CASE Disconnect
  <2>1. \A q \in Requests : \A m \in Attempts(q) :
          jobs'[q][m].phase \in {"queued", "slot", "held"} =>
            jobs[q][m].phase \in {"queued", "slot", "held"}
    BY <1>0, <1>14, QuietedFields
  <2> QED
    BY <1>1, <1>14, <2>1 DEF Disconnect, Waits
<1>15. CASE ProcessCrash
  <2>1. \A q \in Requests : \A m \in Attempts(q) : jobs'[q][m].phase \in {"none", "gone"}
    BY <1>0, <1>15, DownFields DEF ProcessCrash
  <2> QED
    BY <1>1, <1>15, <2>1 DEF ProcessCrash, Waits
<1>16. CASE PowerLoss
  <2>1. \A q \in Requests : caller'[q].state # "waiting"
    BY <1>16, LostLog
  <2>2. \A q \in Requests : \A m \in Attempts(q) : jobs'[q][m].phase \in {"none", "gone"}
    BY <1>0, <1>16, LostLog, DownFields
  <2> QED
    BY <2>1, <2>2 DEF Kept, Waits
<1>17. CASE UNCHANGED vars
  BY <1>1, <1>17 DEF vars, Waits
<1>18. CASE Sender
  BY <1>2, <1>4, <1>5, <1>6, <1>18 DEF Sender
<1>19. CASE Job
  BY <1>9, <1>11, <1>12, <1>19 DEF Job
<1> QED
  BY <1>10, <1>13, <1>14, <1>15, <1>16, <1>17, <1>18, <1>19 DEF Next, Fault

(* No step does anything for a request that was not sent. *)
LEMMA FreshStep == TypeInv /\ Fresh /\ [Next]_vars => Fresh'
<1> SUFFICES ASSUME TypeInv, Fresh, [Next]_vars PROVE Fresh'
  OBVIOUS
<1>0. Jobs(jobs) /\ caller \in [Requests -> Callers]
  BY DEF TypeInv
<1>1. ASSUME NEW r \in Requests, caller'[r].state # "idle", log' = log,
             \A q \in Requests : q # r => caller'[q] = caller[q]
               /\ \A m \in Attempts(q) : jobs'[q][m] = jobs[q][m]
      PROVE  Fresh'
  BY <1>1 DEF Fresh
<1>2. ASSUME NEW r \in Requests, Call(r)
      PROVE  Fresh'
  <2>1. 1 \in Attempts(r) /\ Len(log) \in Nat
    BY ConstantsAssumption DEF Attempts, TypeInv
  <2>2. OnlyAt(r, 1, jobs')
    BY <1>0, <1>2, <2>1, SentJob DEF Call, Sending
  <2>3. caller'[r].state # "idle" /\ \A q \in Requests : q # r => caller'[q] = caller[q]
    BY <1>0, <1>2 DEF Call
  <2> QED
    BY <1>1, <1>2, <2>2, <2>3 DEF Call, OnlyAt
<1>3. ASSUME NEW r \in Requests, Timeout(r) \/ Resend(r)
      PROVE  Fresh'
  <2>1. PICK n \in Attempts(r) : jobs' = Sending(r, n, caller[r].fence)
    BY <1>3 DEF Timeout, Resend, Sending
  <2>2. caller[r].fence \in Nat
    BY DEF TypeInv, Callers
  <2>3. OnlyAt(r, n, jobs')
    BY <1>0, <2>1, <2>2, SentJob
  <2>4. caller'[r].state # "idle" /\ \A q \in Requests : q # r => caller'[q] = caller[q]
    BY <1>0, <1>3 DEF Timeout, Resend, Waiting, Callers
  <2>5. log' = log
    BY <1>3 DEF Timeout, Resend
  <2> QED
    BY <1>1, <2>3, <2>4, <2>5 DEF OnlyAt
<1>4. ASSUME NEW r \in Requests, NEW n \in Attempts(r), HearOutcome(r, n)
      PROVE  Fresh'
  <2>1. OnlyAt(r, n, jobs')
    BY <1>0, <1>4, EndedJob DEF HearOutcome
  <2>2. caller'[r].state # "idle" /\ \A q \in Requests : q # r => caller'[q] = caller[q]
    BY <1>0, <1>4 DEF HearOutcome, Callers
  <2> QED
    BY <1>1, <1>4, <2>1, <2>2 DEF HearOutcome, OnlyAt
<1>5. ASSUME NEW r \in Requests, NEW n \in Attempts(r), HearConflict(r, n)
      PROVE  Fresh'
  <2>1. caller'[r].state # "idle" /\ \A q \in Requests : q # r => caller'[q] = caller[q]
    BY <1>0, <1>5 DEF HearConflict, Waiting, Callers
  <2>2. log' = log
    BY <1>5 DEF HearConflict
  <2>3. CASE jobs' = Ended(r, n)
    <3>1. OnlyAt(r, n, jobs')
      BY <1>0, <2>3, EndedJob
    <3> QED
      BY <1>1, <2>1, <2>2, <3>1 DEF OnlyAt
  <2>4. ASSUME NEW m \in Attempts(r), NextFrame(r, m),
               jobs' = Replacing(r, n, m, jobs[r][n].seen)
        PROVE  Fresh'
    <3>1. m # n
      BY <1>5, <2>4 DEF HearConflict, NextFrame
    <3>2. PICK rev \in Nat : rev = jobs[r][n].seen
      BY <1>0, JobType
    <3>3. \A q \in Requests : \A k \in Attempts(q) : q # r => jobs'[q][k] = jobs[q][k]
      BY <1>0, <2>4, <3>1, <3>2, ReplacedJob
    <3> QED
      BY <1>1, <2>1, <2>2, <3>3
  <2> QED
    BY <1>5, <2>3, <2>4 DEF HearConflict, Replacing
<1>6. ASSUME NEW r \in Requests, NEW n \in Attempts(r), NEW phase \in Phases,
             jobs' = Moved(r, n, phase), caller' = caller, jobs[r][n].phase \in Live,
             log' = log \/ log' = Append(log, r)
      PROVE  Fresh'
  <2>1. \A q \in Requests : \A m \in Attempts(q) : q # r \/ m # n => jobs'[q][m] = jobs[q][m]
    BY <1>0, <1>6, MovedFields
  <2>2. caller[r].state # "idle"
    BY <1>6 DEF Fresh
  <2>3. Range(log') \subseteq Range(log) \cup {r}
    BY <1>6, AppendedLog
  <2> QED
    BY <1>6, <2>1, <2>2, <2>3 DEF Fresh
<1>7. ASSUME NEW r \in Requests, NEW n \in Attempts(r), Refuse(r, n)
      PROVE  Fresh'
  <2>1. PICK seen \in Nat : seen = Len(log)
    BY DEF TypeInv
  <2>2. jobs' = Refusing(r, n, seen) /\ caller' = caller /\ log' = log
    BY <1>7, <2>1 DEF Refuse, Refusing
  <2>3. \A q \in Requests : \A m \in Attempts(q) : q # r \/ m # n => jobs'[q][m] = jobs[q][m]
    BY <1>0, <2>2, RefusedFields
  <2>4. caller[r].state # "idle"
    BY <1>7 DEF Fresh, Refuse, Phase, Live
  <2> QED
    BY <2>2, <2>3, <2>4 DEF Fresh
<1>8. ASSUME NEW r \in Requests, NEW n \in Attempts(r),
             \/ Lookup(r, n) \/ Open(r, n) \/ Reuse(r, n) \/ Commit(r, n)
             \/ Barrier(r, n) \/ BarrierFails(r, n)
      PROVE  Fresh'
  <2>1. CASE Lookup(r, n)
    BY <1>6, <2>1 DEF Lookup, Phases, Phase, Live
  <2>2. CASE Open(r, n)
    BY <1>6, <2>2 DEF Open, Phases, Phase, Live
  <2>3. CASE Reuse(r, n)
    BY <1>6, <2>3 DEF Reuse, Phases, Phase, Live
  <2>4. CASE Commit(r, n)
    BY <1>6, <2>4 DEF Commit, Phases, Phase, Live
  <2>5. CASE Barrier(r, n)
    BY <1>6, <2>5 DEF Barrier, Phases, Phase, Live
  <2>6. CASE BarrierFails(r, n)
    BY <1>6, <2>6 DEF BarrierFails, Phases, Phase, Live
  <2> QED
    BY <1>8, <2>1, <2>2, <2>3, <2>4, <2>5, <2>6
<1>9. ASSUME NEW o \in Others, OtherCommit(o)
      PROVE  Fresh'
  <2>1. Range(log') = Range(log) \cup {o}
    BY <1>9, AppendedLog DEF OtherCommit
  <2>2. o \notin Requests
    BY ConstantsAssumption
  <2> QED
    BY <1>9, <2>1, <2>2 DEF OtherCommit, Fresh
<1>10. CASE Eviction
  <2>1. CASE EvictDetach /\ Unused /\ ~evictor.touched
    <3>1. \A q \in Requests : \A m \in Attempts(q) : jobs'[q][m] = jobs[q][m]
      BY <1>0, <2>1, DetachedJobs DEF EvictDetach
    <3> QED
      BY <2>1, <3>1 DEF EvictDetach, Fresh
  <2>2. CASE ~(EvictDetach /\ Unused /\ ~evictor.touched)
    <3>1. UNCHANGED <<log, jobs, caller>>
      BY <1>10, <2>2 DEF Eviction, EvictRelease, EvictPrepare, EvictDetach
    <3> QED
      BY <3>1 DEF Fresh
  <2> QED
    BY <2>1, <2>2
<1>11. CASE Disconnect
  <2>1. \A q \in Requests : \A m \in Attempts(q) :
          jobs'[q][m].phase \in Live => jobs[q][m].phase \in Live
    BY <1>0, <1>11, QuietedFields DEF Live
  <2> QED
    BY <1>11, <2>1 DEF Disconnect, Fresh
<1>12. CASE ProcessCrash
  <2>1. \A q \in Requests : \A m \in Attempts(q) : jobs'[q][m].phase \notin Live
    BY <1>0, <1>12, DownFields DEF ProcessCrash
  <2> QED
    BY <1>12, <2>1 DEF ProcessCrash, Fresh
<1>13. CASE PowerLoss
  <2>1. \A q \in Requests : \A m \in Attempts(q) : jobs'[q][m].phase \notin Live
    BY <1>0, <1>13, LostLog, DownFields
  <2> QED
    BY <1>13, <2>1, LostLog DEF Fresh
<1>14. CASE UNCHANGED vars
  BY <1>14 DEF vars, Fresh
<1>15. CASE Sender
  BY <1>2, <1>3, <1>4, <1>5, <1>15 DEF Sender
<1>16. CASE Job
  BY <1>7, <1>8, <1>16 DEF Job
<1> QED
  BY <1>9, <1>10, <1>11, <1>12, <1>13, <1>14, <1>15, <1>16 DEF Next, Fault

(* Every step keeps Evicting: whoever takes the session touches the slot. *)
LEMMA EvictingStep == TypeInv /\ Held /\ Evicting /\ [Next]_vars => Evicting'
<1> SUFFICES ASSUME TypeInv, Held, Evicting, [Next]_vars PROVE Evicting'
  OBVIOUS
<1>0. Jobs(jobs) /\ evictor \in Evictors /\ Len(log) \in Nat
  BY DEF TypeInv
<1>1. ASSUME Touched \/ evictor'.step = "idle"
      PROVE  Evicting'
  BY <1>0, <1>1 DEF Touched, Evicting, Evictors
<1>2. ASSUME evictor' = evictor, UNCHANGED <<log, synced>>,
             slot' = "open" => slot = "open",
             \A q \in Requests : \A m \in Attempts(q) :
               jobs'[q][m].phase = "held" => jobs[q][m].phase = "held"
      PROVE  Evicting'
  BY <1>2 DEF Evicting
<1>3. ASSUME NEW r \in Requests, Timeout(r) \/ Resend(r)
      PROVE  Evicting'
  <2>1. PICK n \in Attempts(r) : jobs' = Sending(r, n, caller[r].fence)
    BY <1>3 DEF Timeout, Resend, Sending
  <2>2. caller[r].fence \in Nat
    BY DEF TypeInv, Callers
  <2>3. jobs'[r][n] = Frame(caller[r].fence) /\ OnlyAt(r, n, jobs')
    BY <1>0, <2>1, <2>2, SentJob
  <2>4. \A q \in Requests : \A m \in Attempts(q) :
          jobs'[q][m].phase = "held" => jobs[q][m].phase = "held"
    BY <2>3, GoneFields DEF OnlyAt
  <2> QED
    BY <1>2, <1>3, <2>4 DEF Timeout, Resend
<1>4. ASSUME NEW r \in Requests, NEW n \in Attempts(r), jobs' = Ended(r, n),
             UNCHANGED <<log, synced, slot, evictor>>
      PROVE  Evicting'
  <2>1. jobs'[r][n] = Gone /\ OnlyAt(r, n, jobs')
    BY <1>0, <1>4, EndedJob
  <2>2. \A q \in Requests : \A m \in Attempts(q) :
          jobs'[q][m].phase = "held" => jobs[q][m].phase = "held"
    BY <2>1, GoneFields DEF OnlyAt
  <2> QED
    BY <1>2, <1>4, <2>2
<1>5. ASSUME NEW r \in Requests, NEW n \in Attempts(r), HearConflict(r, n)
      PROVE  Evicting'
  <2>1. CASE jobs' = Ended(r, n)
    BY <1>4, <1>5, <2>1 DEF HearConflict
  <2>2. ASSUME NEW m \in Attempts(r), NextFrame(r, m),
               jobs' = Replacing(r, n, m, jobs[r][n].seen)
        PROVE  Evicting'
    <3>1. m # n
      BY <1>5, <2>2 DEF HearConflict, NextFrame
    <3>2. PICK rev \in Nat : rev = jobs[r][n].seen
      BY <1>0, JobType
    <3>3. /\ jobs'[r][n] = Gone /\ jobs'[r][m] = Frame(rev)
          /\ \A q \in Requests : \A k \in Attempts(q) :
               q # r \/ (k # m /\ k # n) => jobs'[q][k] = jobs[q][k]
      BY <1>0, <2>2, <3>1, <3>2, ReplacedJob
    <3>4. \A q \in Requests : \A k \in Attempts(q) :
            jobs'[q][k].phase = "held" => jobs[q][k].phase = "held"
      BY <3>3, GoneFields
    <3> QED
      BY <1>2, <1>5, <3>4 DEF HearConflict
  <2> QED
    BY <1>5, <2>1, <2>2 DEF HearConflict, Replacing
<1>6. ASSUME NEW r \in Requests, NEW n \in Attempts(r), NEW phase \in Phases,
             jobs' = Moved(r, n, phase), phase # "held"
      PROVE  \A q \in Requests : \A m \in Attempts(q) :
               jobs'[q][m].phase = "held" => jobs[q][m].phase = "held"
  BY <1>0, <1>6, MovedFields
<1>7. ASSUME NEW r \in Requests, NEW n \in Attempts(r), Lookup(r, n) \/ Reuse(r, n)
      PROVE  Evicting'
  <2>1. \A q \in Requests : \A m \in Attempts(q) :
          jobs'[q][m].phase = "held" => jobs[q][m].phase = "held"
    <3>1. jobs' = Moved(r, n, "slot") \/ jobs' = Moved(r, n, "ok") \/ jobs' = Moved(r, n, "barrier")
      BY <1>7 DEF Lookup, Reuse
    <3> QED
      BY <1>6, <3>1 DEF Phases
  <2>2. slot' = "open" => slot = "open"
    BY <1>7 DEF Lookup, Reuse
  <2> QED
    BY <1>2, <1>7, <2>1, <2>2 DEF Lookup, Reuse
<1>8. ASSUME NEW r \in Requests, NEW n \in Attempts(r), Refuse(r, n)
      PROVE  Evicting'
  <2>1. PICK seen \in Nat : seen = Len(log)
    BY DEF TypeInv
  <2>2. jobs' = Refusing(r, n, seen)
    BY <1>8, <2>1 DEF Refuse, Refusing
  <2>3. \A q \in Requests : \A m \in Attempts(q) :
          jobs'[q][m].phase = "held" => jobs[q][m].phase = "held"
    BY <1>0, <2>2, RefusedFields
  <2> QED
    BY <1>2, <1>8, <2>3 DEF Refuse
<1>9. ASSUME NEW r \in Requests, NEW n \in Attempts(r), Commit(r, n)
      PROVE  Evicting'
  <2>1. evictor.step = "idle" \/ evictor.touched
    BY <1>9 DEF Commit, Phase, Evicting
  <2>2. evictor' = evictor
    BY <1>9 DEF Commit
  <2> QED
    BY <2>1, <2>2 DEF Evicting
<1>10. ASSUME NEW r \in Requests, NEW n \in Attempts(r),
              Open(r, n) \/ Barrier(r, n) \/ BarrierFails(r, n)
       PROVE  Evicting'
  BY <1>1, <1>10 DEF Open, Opened, Barrier, BarrierFails
<1>11. CASE EvictRelease
  <2>1. /\ evictor'.step = "released" /\ jobs' = jobs
        /\ \A q \in Requests : \A m \in Attempts(q) : jobs[q][m].phase # "held"
    BY <1>11 DEF EvictRelease, Unused, Somewhere, Phase
  <2> QED
    BY <2>1 DEF Evicting
<1>12. CASE EvictPrepare
  <2>1. CASE evictor' = [step |-> "idle", touched |-> FALSE]
    BY <1>1, <2>1
  <2>2. CASE /\ synced' = IF slot = "open" THEN Len(log) ELSE synced
             /\ evictor' = [evictor EXCEPT !.step = "prepared"]
    <3>1. evictor'.touched = evictor.touched /\ evictor.step # "idle"
      BY <1>0, <1>12, <2>2 DEF EvictPrepare, Evictors
    <3>2. UNCHANGED <<log, slot, jobs>>
      BY <1>12 DEF EvictPrepare
    <3> QED
      BY <2>2, <3>1, <3>2 DEF Evicting
  <2> QED
    BY <1>12, <2>1, <2>2 DEF EvictPrepare
<1>13. CASE Disconnect
  <2>1. \A q \in Requests : \A m \in Attempts(q) :
          jobs'[q][m].phase = "held" => jobs[q][m].phase = "held"
    BY <1>0, <1>13, QuietedFields
  <2> QED
    BY <1>2, <1>13, <2>1 DEF Disconnect
<1>14. CASE EvictDetach \/ ProcessCrash \/ PowerLoss
  BY <1>1, <1>14 DEF EvictDetach, ProcessCrash, PowerLoss, Down
<1>15. CASE UNCHANGED vars
  BY <1>2, <1>15 DEF vars
<1>16. CASE Sender
  <2>1. CASE \E r \in Requests : Call(r)
    BY <1>1, <2>1 DEF Call, Opened
  <2>2. ASSUME NEW r \in Requests, NEW n \in Attempts(r), HearOutcome(r, n)
        PROVE  Evicting'
    BY <1>4, <2>2 DEF HearOutcome
  <2> QED
    BY <1>3, <1>5, <1>16, <2>1, <2>2 DEF Sender
<1>17. CASE Job
  BY <1>7, <1>8, <1>9, <1>10, <1>17 DEF Job
<1>18. ASSUME NEW o \in Others, OtherCommit(o)
       PROVE  Evicting'
  BY <1>1, <1>18 DEF OtherCommit
<1> QED
  BY <1>11, <1>12, <1>13, <1>14, <1>15, <1>16, <1>17, <1>18 DEF Next, Eviction, Fault

(* What the disk has confirmed stays. *)
LEMMA FlushedGrows ==
  ASSUME TypeInv, [Next]_vars
  PROVE  /\ Flushed \subseteq Flushed' /\ synced <= synced'
         /\ \A i \in 1 .. synced : log'[i] = log[i]
<1>0. log \in Seq(Requests \cup Others) /\ Len(log) \in Nat /\ synced \in Nat /\ synced <= Len(log)
  BY DEF TypeInv
<1>1. synced <= synced' /\ synced' \in Int
  <2>1. CASE \E r \in Requests : \E n \in Attempts(r) : Barrier(r, n)
    BY <1>0, <2>1 DEF Barrier
  <2>2. CASE EvictPrepare
    BY <1>0, <2>2 DEF EvictPrepare
  <2>3. CASE Sender
    BY <1>0, <2>3 DEF Sender, Call, Timeout, Resend, HearOutcome, HearConflict
  <2>4. CASE Job /\ ~(\E r \in Requests : \E n \in Attempts(r) : Barrier(r, n))
    BY <1>0, <2>4 DEF Job, Lookup, Open, Reuse, Refuse, Commit, BarrierFails
  <2>5. CASE Fault \/ EvictRelease \/ EvictDetach \/ (\E o \in Others : OtherCommit(o))
    BY <1>0, <2>5 DEF Fault, Disconnect, ProcessCrash, PowerLoss, EvictRelease, EvictDetach,
                      OtherCommit
  <2>6. CASE UNCHANGED vars
    BY <1>0, <2>6 DEF vars
  <2> QED
    BY <2>1, <2>2, <2>3, <2>4, <2>5, <2>6 DEF Next, Eviction
<1>2. \A i \in 1 .. synced : log'[i] = log[i]
  <2>1. CASE PowerLoss
    BY <1>0, <2>1, LostLog
  <2>2. ASSUME NEW e \in Requests \cup Others, log' = Append(log, e)
        PROVE  \A i \in 1 .. synced : log'[i] = log[i]
    BY <1>0, <2>2, AppendedLog
  <2>3. CASE \/ \E r \in Requests : \E n \in Attempts(r) : Commit(r, n)
             \/ \E o \in Others : OtherCommit(o)
    BY <2>2, <2>3 DEF Commit, OtherCommit
  <2>4. CASE Sender \/ UNCHANGED vars
    BY <2>4 DEF Sender, Call, Timeout, Resend, HearOutcome, HearConflict, vars
  <2>5. CASE Job /\ ~(\E r \in Requests : \E n \in Attempts(r) : Commit(r, n))
    BY <2>5 DEF Job, Lookup, Open, Reuse, Refuse, Barrier, BarrierFails
  <2>6. CASE Eviction \/ Disconnect \/ ProcessCrash
    BY <2>6 DEF Eviction, EvictRelease, EvictPrepare, EvictDetach, Disconnect, ProcessCrash
  <2> QED
    BY <2>1, <2>3, <2>4, <2>5, <2>6 DEF Next, Fault
<1>3. Flushed \subseteq Flushed'
  <2>1. ASSUME NEW i \in 1 .. synced
        PROVE  log[i] \in Flushed'
    BY <1>0, <1>1, <1>2 DEF Flushed
  <2> QED
    BY <2>1 DEF Flushed
<1> QED
  BY <1>1, <1>2, <1>3

(* After a flush the disk has all of the log. *)
LEMMA AllFlushed == TypeInv /\ synced = Len(log) => Flushed = Range(log)
BY LenProperties DEF TypeInv, Flushed, Range

(* Every step keeps Durable: an eviction flushes before it lets the session *)
(* go, so a barrier that finds no session has nothing to wait for.          *)
LEMMA DurableStep ==
  TypeInv /\ Held /\ Evicting /\ Durable /\ [Next]_vars => Durable'
<1> SUFFICES ASSUME TypeInv, Held, Evicting, Durable, [Next]_vars PROVE Durable'
  OBVIOUS
<1>0. Jobs(jobs) /\ caller \in [Requests -> Callers] /\ Len(log) \in Nat
  BY DEF TypeInv
<1>1. Flushed \subseteq Flushed'
  BY FlushedGrows
<1>2. TypeInv'
  BY TypeStep
<1>3. ASSUME Range(log) \subseteq Range(log'),
             slot' # "open" => slot # "open" \/ synced = Len(log),
             \A q \in Requests : caller'[q].state = "answered" => caller[q].state = "answered",
             \A q \in Requests : \A m \in Attempts(q) :
               jobs'[q][m].phase \in {"barrier", "ok"} => jobs'[q][m].phase = jobs[q][m].phase
      PROVE  Durable'
  <2>1. ASSUME NEW q \in Requests
        PROVE  caller'[q].state = "answered" /\ q \notin Admissions => q \in Flushed'
    BY <1>1, <1>3 DEF Durable
  <2>2. ASSUME NEW q \in Requests, NEW m \in Attempts(q), jobs'[q][m].phase = "barrier"
        PROVE  q \in Range(log') /\ (slot' # "open" => q \in Flushed')
    <3>1. jobs[q][m].phase = "barrier"
      BY <1>3, <2>2
    <3>2. q \in Range(log) /\ (slot # "open" => q \in Flushed)
      BY <3>1 DEF Durable
    <3>3. synced = Len(log) => q \in Flushed
      BY <3>2, AllFlushed
    <3> QED
      BY <1>1, <1>3, <3>2, <3>3
  <2>3. ASSUME NEW q \in Requests, NEW m \in Attempts(q), jobs'[q][m].phase = "ok",
               q \notin Admissions
        PROVE  q \in Flushed'
    BY <1>1, <1>3, <2>3 DEF Durable
  <2> QED
    BY <2>1, <2>2, <2>3 DEF Durable
<1>4. ASSUME NEW r \in Requests, Call(r)
      PROVE  Durable'
  <2>1. 1 \in Attempts(r)
    BY ConstantsAssumption DEF Attempts
  <2>2. jobs'[r][1] = Frame(Len(log)) /\ OnlyAt(r, 1, jobs')
    BY <1>0, <1>4, <2>1, SentJob DEF Call, Sending
  <2>3. \A q \in Requests : \A m \in Attempts(q) :
          jobs'[q][m].phase \in {"barrier", "ok"} => jobs'[q][m].phase = jobs[q][m].phase
    BY <2>2, GoneFields DEF OnlyAt
  <2>4. \A q \in Requests : caller'[q].state = "answered" => caller[q].state = "answered"
    BY <1>0, <1>4 DEF Call
  <2> QED
    BY <1>3, <1>4, <2>3, <2>4 DEF Call, Opened
<1>5. ASSUME NEW r \in Requests, Timeout(r) \/ Resend(r)
      PROVE  Durable'
  <2>1. PICK n \in Attempts(r) : jobs' = Sending(r, n, caller[r].fence)
    BY <1>5 DEF Timeout, Resend, Sending
  <2>2. caller[r].fence \in Nat
    BY DEF TypeInv, Callers
  <2>3. jobs'[r][n] = Frame(caller[r].fence) /\ OnlyAt(r, n, jobs')
    BY <1>0, <2>1, <2>2, SentJob
  <2>4. \A q \in Requests : \A m \in Attempts(q) :
          jobs'[q][m].phase \in {"barrier", "ok"} => jobs'[q][m].phase = jobs[q][m].phase
    BY <2>3, GoneFields DEF OnlyAt
  <2>5. \A q \in Requests : caller'[q].state = "answered" => caller[q].state = "answered"
    BY <1>0, <1>5 DEF Timeout, Resend, Callers
  <2>6. log' = log /\ slot' = slot
    BY <1>5 DEF Timeout, Resend
  <2> QED
    BY <1>3, <2>4, <2>5, <2>6
<1>6. ASSUME NEW r \in Requests, NEW n \in Attempts(r), jobs' = Ended(r, n)
      PROVE  \A q \in Requests : \A m \in Attempts(q) :
               jobs'[q][m].phase \in {"barrier", "ok"} => jobs'[q][m].phase = jobs[q][m].phase
  <2>1. jobs'[r][n] = Gone /\ OnlyAt(r, n, jobs')
    BY <1>0, <1>6, EndedJob
  <2> QED
    BY <2>1, GoneFields DEF OnlyAt
<1>7. ASSUME NEW r \in Requests, NEW n \in Attempts(r), HearOutcome(r, n)
      PROVE  Durable'
  <2>1. \A q \in Requests : \A m \in Attempts(q) :
          jobs'[q][m].phase \in {"barrier", "ok"} => jobs'[q][m].phase = jobs[q][m].phase
    BY <1>6, <1>7 DEF HearOutcome
  <2>2. UNCHANGED <<log, synced, slot>>
    BY <1>7 DEF HearOutcome
  <2>3. CASE Phase(r, n) = "ok"
    <3>1. r \notin Admissions => r \in Flushed'
      BY <1>1, <2>3 DEF Durable, Phase
    <3>2. \A q \in Requests : q # r => caller'[q] = caller[q]
      BY <1>0, <1>7 DEF HearOutcome
    <3>3. \A q \in Requests : caller'[q].state = "answered" /\ q \notin Admissions =>
            q \in Flushed'
      BY <1>1, <3>1, <3>2 DEF Durable
    <3>4. \A q \in Requests : \A m \in Attempts(q) :
            /\ jobs'[q][m].phase = "barrier" => q \in Range(log) /\ (slot # "open" => q \in Flushed)
            /\ jobs'[q][m].phase = "ok" /\ q \notin Admissions => q \in Flushed
      BY <2>1 DEF Durable
    <3> QED
      BY <1>1, <2>2, <3>3, <3>4 DEF Durable
  <2>4. CASE Phase(r, n) # "ok"
    <3>1. \A q \in Requests : caller'[q].state = "answered" => caller[q].state = "answered"
      BY <1>0, <1>7, <2>4 DEF HearOutcome, Callers
    <3> QED
      BY <1>3, <2>1, <2>2, <3>1
  <2> QED
    BY <2>3, <2>4
<1>8. ASSUME NEW r \in Requests, NEW n \in Attempts(r), HearConflict(r, n)
      PROVE  Durable'
  <2>1. \A q \in Requests : caller'[q].state = "answered" => caller[q].state = "answered"
    BY <1>0, <1>8 DEF HearConflict, Callers
  <2>2. UNCHANGED <<log, synced, slot>>
    BY <1>8 DEF HearConflict
  <2>3. CASE jobs' = Ended(r, n)
    BY <1>3, <1>6, <2>1, <2>2, <2>3
  <2>4. ASSUME NEW m \in Attempts(r), NextFrame(r, m),
               jobs' = Replacing(r, n, m, jobs[r][n].seen)
        PROVE  Durable'
    <3>1. m # n
      BY <1>8, <2>4 DEF HearConflict, NextFrame
    <3>2. PICK rev \in Nat : rev = jobs[r][n].seen
      BY <1>0, JobType
    <3>3. /\ jobs'[r][n] = Gone /\ jobs'[r][m] = Frame(rev)
          /\ \A q \in Requests : \A k \in Attempts(q) :
               q # r \/ (k # m /\ k # n) => jobs'[q][k] = jobs[q][k]
      BY <1>0, <2>4, <3>1, <3>2, ReplacedJob
    <3>4. \A q \in Requests : \A k \in Attempts(q) :
            jobs'[q][k].phase \in {"barrier", "ok"} => jobs'[q][k].phase = jobs[q][k].phase
      BY <3>3, GoneFields
    <3> QED
      BY <1>3, <2>1, <2>2, <3>4
  <2> QED
    BY <1>8, <2>3, <2>4 DEF HearConflict, Replacing
<1>9. ASSUME NEW r \in Requests, NEW n \in Attempts(r), NEW phase \in Phases,
             jobs' = Moved(r, n, phase), caller' = caller, Range(log) \subseteq Range(log'),
             slot' # "open" => slot # "open",
             phase = "barrier" => r \in Range(log') /\ slot' = "open",
             phase = "ok" /\ r \notin Admissions => r \in Flushed'
      PROVE  Durable'
  <2>1. /\ jobs'[r][n].phase = phase
        /\ \A q \in Requests : \A m \in Attempts(q) :
             q # r \/ m # n => jobs'[q][m] = jobs[q][m]
    BY <1>0, <1>9, MovedFields
  <2>2. ASSUME NEW q \in Requests, NEW m \in Attempts(q), q # r \/ m # n
        PROVE  /\ jobs'[q][m].phase = "barrier" =>
                    q \in Range(log') /\ (slot' # "open" => q \in Flushed')
               /\ jobs'[q][m].phase = "ok" /\ q \notin Admissions => q \in Flushed'
    <3>1. jobs'[q][m] = jobs[q][m]
      BY <2>1, <2>2
    <3> QED
      BY <1>1, <1>9, <3>1 DEF Durable
  <2>3. /\ jobs'[r][n].phase = "barrier" =>
             r \in Range(log') /\ (slot' # "open" => r \in Flushed')
        /\ jobs'[r][n].phase = "ok" /\ r \notin Admissions => r \in Flushed'
    BY <1>9, <2>1
  <2>4. \A q \in Requests : caller'[q].state = "answered" /\ q \notin Admissions => q \in Flushed'
    BY <1>1, <1>9 DEF Durable
  <2> QED
    BY <2>2, <2>3, <2>4 DEF Durable
<1>10. ASSUME NEW r \in Requests, NEW n \in Attempts(r), Lookup(r, n) \/ Open(r, n)
       PROVE  Durable'
  <2>1. jobs' = Moved(r, n, "slot") \/ jobs' = Moved(r, n, "held")
    BY <1>10 DEF Lookup, Open
  <2>2. slot' # "open" => slot # "open"
    BY <1>10 DEF Lookup, Open, Opened
  <2>3. caller' = caller /\ log' = log
    BY <1>10 DEF Lookup, Open
  <2> QED
    BY <1>9, <2>1, <2>2, <2>3 DEF Phases
<1>11. ASSUME NEW r \in Requests, NEW n \in Attempts(r), Reuse(r, n)
       PROVE  Durable'
  <2>1. r \in Range(log) /\ slot = "open"
    BY <1>11 DEF Reuse, Held, Phase, TypeInv
  <2>2. UNCHANGED <<log, slot, caller>>
    BY <1>11 DEF Reuse
  <2>3. CASE r \in Admissions
    BY <1>9, <1>11, <2>2, <2>3 DEF Reuse, Phases
  <2>4. CASE r \notin Admissions
    BY <1>9, <1>11, <2>1, <2>2, <2>4 DEF Reuse, Phases
  <2> QED
    BY <2>3, <2>4
<1>12. ASSUME NEW r \in Requests, NEW n \in Attempts(r), Refuse(r, n)
       PROVE  Durable'
  <2>1. PICK seen \in Nat : seen = Len(log)
    BY DEF TypeInv
  <2>2. jobs' = Refusing(r, n, seen)
    BY <1>12, <2>1 DEF Refuse, Refusing
  <2>3. \A q \in Requests : \A m \in Attempts(q) :
          jobs'[q][m].phase \in {"barrier", "ok"} => jobs'[q][m].phase = jobs[q][m].phase
    BY <1>0, <2>2, RefusedFields
  <2> QED
    BY <1>3, <1>12, <2>3 DEF Refuse
<1>13. ASSUME NEW r \in Requests, NEW n \in Attempts(r), Commit(r, n)
       PROVE  Durable'
  <2>1. slot = "open"
    BY <1>13 DEF Commit, Held, Phase
  <2>2. Range(log') = Range(log) \cup {r}
    BY <1>13, AppendedLog DEF Commit
  <2> QED
    BY <1>9, <1>13, <2>1, <2>2 DEF Commit, Phases
<1>14. ASSUME NEW r \in Requests, NEW n \in Attempts(r), Barrier(r, n)
       PROVE  Durable'
  <2>1. r \in Range(log) /\ (slot # "open" => r \in Flushed)
    BY <1>14 DEF Barrier, Phase, Durable
  <2>2. UNCHANGED <<log, slot, caller>>
    BY <1>14 DEF Barrier
  <2>3. slot = "open" => Flushed' = Range(log)
    BY <1>14, <2>2 , LenProperties DEF Barrier, TypeInv, Flushed, Range
  <2>4. r \in Flushed'
    BY <1>1, <2>1, <2>3
  <2> QED
    BY <1>9, <1>14, <2>2, <2>4 DEF Barrier, Phases
<1>15. ASSUME NEW r \in Requests, NEW n \in Attempts(r), BarrierFails(r, n)
       PROVE  Durable'
  BY <1>9, <1>15 DEF BarrierFails, Phases
<1>16. ASSUME NEW o \in Others, OtherCommit(o)
       PROVE  Durable'
  <2>1. Range(log') = Range(log) \cup {o}
    BY <1>16, AppendedLog DEF OtherCommit
  <2> QED
    BY <1>3, <1>16, <2>1 DEF OtherCommit
<1>17. CASE Eviction
  <2>1. CASE EvictDetach /\ Unused /\ ~evictor.touched
    <3>1. \A q \in Requests : \A m \in Attempts(q) : jobs'[q][m] = jobs[q][m]
      BY <1>0, <2>1, DetachedJobs DEF EvictDetach
    <3>2. slot # "open" \/ synced = Len(log)
      BY <2>1 DEF EvictDetach, Evicting
    <3> QED
      BY <1>3, <2>1, <3>1, <3>2 DEF EvictDetach
  <2>2. CASE ~(EvictDetach /\ Unused /\ ~evictor.touched)
    <3>1. UNCHANGED <<log, slot, jobs, caller>>
      BY <1>17, <2>2 DEF Eviction, EvictRelease, EvictPrepare, EvictDetach
    <3> QED
      BY <1>3, <3>1
  <2> QED
    BY <2>1, <2>2
<1>18. CASE Disconnect
  <2>1. \A q \in Requests : \A m \in Attempts(q) :
          jobs'[q][m].phase \in {"barrier", "ok"} => jobs'[q][m].phase = jobs[q][m].phase
    BY <1>0, <1>18, QuietedFields
  <2> QED
    BY <1>3, <1>18, <2>1 DEF Disconnect
<1>19. CASE ProcessCrash \/ PowerLoss
  <2>1. Down
    BY <1>19 DEF ProcessCrash, PowerLoss
  <2>2. \A q \in Requests : \A m \in Attempts(q) : jobs'[q][m].phase \notin {"barrier", "ok"}
    BY <1>0, <2>1, DownFields
  <2>3. \A q \in Requests : caller'[q].state = "answered" => caller[q].state = "answered"
    BY <1>19, LostLog DEF ProcessCrash
  <2> QED
    BY <1>1, <2>2, <2>3 DEF Durable
<1>20. CASE UNCHANGED vars
  BY <1>3, <1>20 DEF vars
<1>21. CASE Sender
  BY <1>4, <1>5, <1>7, <1>8, <1>21 DEF Sender
<1>22. CASE Job
  BY <1>10, <1>11, <1>12, <1>13, <1>14, <1>15, <1>22 DEF Job
<1> QED
  BY <1>16, <1>17, <1>18, <1>19, <1>20, <1>21, <1>22 DEF Next, Fault

(* The inductive invariant. *)
IInv == TypeInv /\ Held /\ Current /\ Fresh /\ Kept /\ Distinct /\ Evicting /\ Durable

(* It holds at the start. *)
LEMMA InitHolds == Init => IInv
<1> SUFFICES ASSUME Init PROVE IInv
  OBVIOUS
<1>0. Range(log) = {} /\ log \in Seq(Requests \cup Others) /\ Len(log) = 0
  BY DEF Init, Range
<1>1. \A r \in Requests : \A n \in Attempts(r) : jobs[r][n] = Unsent
  BY DEF Init
<1>2. Unsent \in JobRecords
  BY DEF JobRecords, Phases, Unsent
<1>3. \A r \in Requests : caller[r].state = "idle"
  BY DEF Init
<1>4. TypeInv
  <2>1. Jobs(jobs)
    BY <1>2 DEF Init, Jobs
  <2>2. caller \in [Requests -> Callers]
    BY DEF Init, Callers
  <2> QED
    BY <1>0, <2>1, <2>2 DEF Init, TypeInv, Evictors
<1>5. Held /\ Current /\ Evicting
  BY <1>1, GoneFields DEF Init, Held, Current, Evicting
<1>6. Fresh /\ Kept
  BY <1>0, <1>1, GoneFields DEF Fresh, Kept, Live
<1>7. Distinct
  BY <1>0 DEF Distinct
<1>8. Durable
  BY <1>1, <1>3, GoneFields DEF Durable
<1> QED
  BY <1>4, <1>5, <1>6, <1>7, <1>8 DEF IInv

(* It always holds. *)
THEOREM InvariantHolds == Spec => []IInv
<1>1. Init => IInv
  BY InitHolds
<1>2. IInv /\ [Next]_vars => IInv'
  BY TypeStep, HeldStep, CurrentStep, FreshStep, KeptStep, DistinctStep, EvictingStep, DurableStep
  DEF IInv
<1> QED
  BY <1>1, <1>2, PTL DEF Spec

(* Everything has its type, and a receipt stands for a commit. *)
THEOREM TypeOKHolds == Spec => []TypeOK
<1>1. IInv => TypeOK
  BY DEF IInv, TypeInv, TypeOK, Evictors, Callers, Jobs, JobRecords
<1> QED
  BY <1>1, InvariantHolds, PTL

(* No job works on a session that the cache has let go of *)
(* (SessionCache::evict_prepared).                        *)
THEOREM HandlesAreCurrentHolds == Spec => []HandlesAreCurrent
<1>1. IInv => HandlesAreCurrent
  BY DEF IInv, Held, HandlesAreCurrent
<1> QED
  BY <1>1, InvariantHolds, PTL

(* What the disk has confirmed, as a prefix of the log. *)
LEMMA FlushedPrefix == TypeInv => Flushed = Range(SubSeq(log, 1, synced))
<1> SUFFICES ASSUME TypeInv PROVE Flushed = Range(SubSeq(log, 1, synced))
  OBVIOUS
<1>1. log \in Seq(Requests \cup Others) /\ synced \in 0 .. Len(log)
  BY DEF TypeInv
<1> QED
  BY <1>1, PrefixRange DEF Flushed

(* A request that was answered is on the disk, through evictions, deaths of *)
(* the process and losses of power (flush_session before every answer).     *)
THEOREM AnsweredSurvivesHolds == Spec => []AnsweredSurvives
<1>1. IInv => AnsweredSurvives
  BY FlushedPrefix DEF IInv, Durable, Answered, AnsweredSurvives
<1> QED
  BY <1>1, InvariantHolds, PTL

(* Nothing of what the service promises changes. *)
Stable == log' = log /\ Answered' = Answered

(* Every step is one of the service, or changes nothing of it: a commit     *)
(* applies a request that was not applied, an answer tells of one that was, *)
(* and a loss of power keeps what was answered.                             *)
LEMMA ServiceStep == IInv /\ [Next]_vars => [Service!Next]_(Service!vars)
<1> SUFFICES ASSUME IInv, [Next]_vars PROVE [Service!Next]_(Service!vars)
  OBVIOUS
<1>0. TypeInv /\ Held /\ Current /\ Kept /\ Durable /\ caller \in [Requests -> Callers]
  BY DEF IInv, TypeInv
<1>1. ASSUME Stable
      PROVE  [Service!Next]_(Service!vars)
  BY <1>1 DEF Stable, Service!vars
<1>2. ASSUME NEW e \in Requests \cup Others, e \notin Range(log), log' = Append(log, e),
             caller' = caller
      PROVE  Service!Next
  <2>1. Answered' = Answered
    BY <1>2 DEF Answered
  <2>2. Service!Apply(e)
    BY <1>2, <2>1 DEF Service!Apply, Service!Range, Range
  <2> QED
    BY <2>2 DEF Service!Next
<1>3. ASSUME NEW r \in Requests, NEW n \in Attempts(r), HearOutcome(r, n)
      PROVE  [Service!Next]_(Service!vars)
  <2>1. CASE Phase(r, n) = "ok"
    <3>1. Answered' = Answered \cup {r} /\ log' = log
      BY <1>0, <1>3, <2>1 DEF HearOutcome, Answered, Callers
    <3>2. CASE r \in Admissions
      BY <3>1, <3>2 DEF Service!vars
    <3>3. CASE r \notin Admissions
      <4>1. r \in Range(log)
        <5>1. r \in Flushed
          BY <1>0, <2>1, <3>3 DEF Durable, Phase
        <5>2. Flushed \subseteq Range(log)
          BY <1>0, LenProperties DEF TypeInv, Flushed, Range
        <5> QED
          BY <5>1, <5>2
      <4>2. (Answered \ Admissions)' = (Answered \ Admissions) \cup {r}
        BY <3>1, <3>3
      <4> QED
        <5>1. Service!Answer(r)
          BY <3>1, <4>1, <4>2 DEF Service!Answer, Service!Range, Range
        <5> QED
          BY <5>1 DEF Service!Next
    <3> QED
      BY <3>2, <3>3
  <2>2. CASE Phase(r, n) # "ok"
    BY <1>0, <1>1, <1>3, <2>2 DEF HearOutcome, Waiting, Answered, Stable, Callers
  <2> QED
    BY <2>1, <2>2
<1>4. ASSUME NEW r \in Requests, Call(r) \/ Timeout(r) \/ Resend(r)
      PROVE  Stable
  <2>1. CASE Call(r)
    BY <1>0, <2>1 DEF Call, Answered, Stable, Callers
  <2>2. CASE Timeout(r)
    BY <1>0, <2>2 DEF Timeout, Answered, Stable, Callers
  <2>3. CASE Resend(r)
    BY <2>3 DEF Resend, Answered, Stable
  <2> QED
    BY <1>4, <2>1, <2>2, <2>3
<1>5. ASSUME NEW r \in Requests, NEW n \in Attempts(r), HearConflict(r, n)
      PROVE  Stable
  BY <1>0, <1>5 DEF HearConflict, Waiting, Answered, Stable, Callers
<1>6. ASSUME NEW r \in Requests, NEW n \in Attempts(r), Commit(r, n)
      PROVE  Service!Next
  <2>1. r \notin Range(log)
    BY <1>0, <1>6, Unknown DEF Commit, Phase
  <2> QED
    BY <1>2, <1>6, <2>1 DEF Commit
<1>7. ASSUME NEW o \in Others, OtherCommit(o)
      PROVE  Service!Next
  BY <1>2, <1>7 DEF OtherCommit
<1>8. ASSUME NEW r \in Requests, NEW n \in Attempts(r),
             \/ Lookup(r, n) \/ Open(r, n) \/ Reuse(r, n) \/ Refuse(r, n)
             \/ Barrier(r, n) \/ BarrierFails(r, n)
      PROVE  Stable
  BY <1>8 DEF Lookup, Open, Reuse, Refuse, Barrier, BarrierFails, Answered, Stable
<1>9. CASE PowerLoss
  <2>1. PICK n \in synced .. Len(log) : log' = SubSeq(log, 1, n)
    BY <1>9 DEF PowerLoss
  <2>2. n \in 0 .. Len(log) /\ log \in Seq(Requests \cup Others)
    BY <1>0, <2>1 DEF TypeInv
  <2>3. Answered' = Answered
    BY <1>0, <1>9, LostLog DEF Answered
  <2>4. Answered \ Admissions \subseteq {log[i] : i \in 1 .. n}
    BY <1>0, <2>1 DEF Durable, Flushed, Answered, TypeInv
  <2>5. Answered \ Admissions \subseteq Range(SubSeq(log, 1, n))
    BY <2>2, <2>4, PrefixRange
  <2> QED
    <3>1. Service!Lose(n)
      BY <2>1, <2>3, <2>5 DEF Service!Lose, Service!Range, Range
    <3> QED
      BY <2>2, <3>1 DEF Service!Next
<1>10. CASE Eviction \/ Disconnect \/ ProcessCrash \/ UNCHANGED vars
  <2>1. UNCHANGED <<log, caller>>
    BY <1>10
    DEF Eviction, EvictRelease, EvictPrepare, EvictDetach, Disconnect, ProcessCrash, vars
  <2> QED
    BY <1>1, <2>1 DEF Stable, Answered
<1>11. CASE Sender
  BY <1>1, <1>3, <1>4, <1>5, <1>11 DEF Sender
<1>12. CASE Job
  BY <1>1, <1>6, <1>8, <1>12 DEF Job
<1> QED
  BY <1>7, <1>9, <1>10, <1>11, <1>12 DEF Next, Fault

(* Requests are applied at most once and answers stand, however often a *)
(* request is sent and whatever part of the receipts is in memory.      *)
THEOREM ServiceImplemented == Spec => ImplementsRequestService
<1>1. Init => Service!Init
  BY DEF Init, Service!Init, Answered
<1>2. IInv /\ [Next]_vars => [Service!Next]_(Service!vars)
  BY ServiceStep
<1> QED
  BY <1>1, <1>2, InvariantHolds, PTL DEF Spec, Service!Spec, ImplementsRequestService

(* What the revisions of the frames of a request say: none is newer than the *)
(* one its sender uses, and a refused one is older than the log.             *)
FrameFenced(r, n) == jobs[r][n].phase \in Live =>
  /\ jobs[r][n].rev <= Len(log) /\ jobs[r][n].rev <= caller[r].fence
  /\ caller[r].state = "refused" => jobs[r][n].rev < Len(log)
  /\ jobs[r][n].heard => jobs[r][n].rev = caller[r].fence
  /\ jobs[r][n].phase = "conflict" =>
       /\ jobs[r][n].rev < jobs[r][n].seen /\ jobs[r][n].seen <= Len(log)
       /\ jobs[r][n].rev = caller[r].fence => r \notin Range(log)

(* A sender that was refused has no commit, and hears of one frame at most *)
(* until an attempt of its timed out.                                      *)
SenderFenced(r) ==
  /\ caller[r].state = "waiting" => caller[r].fence <= Len(log)
  /\ caller[r].state = "refused" => r \notin Range(log)
  /\ ~caller[r].late =>
       \A m, n \in Attempts(r) : jobs[r][m].heard /\ jobs[r][n].heard => m = n
  /\ \A n \in Attempts(r) : jobs[r][n].heard => jobs[r][n].phase \in Live

(* Both, for every request. *)
Fenced == \A r \in Requests : SenderFenced(r) /\ \A n \in Attempts(r) : FrameFenced(r, n)

(* A frame goes on under its revision, and is not refused. *)
Kin(r, n) ==
  /\ jobs'[r][n].phase \in Live =>
       /\ jobs[r][n].phase \in Live
       /\ jobs'[r][n].rev = jobs[r][n].rev /\ jobs'[r][n].seen = jobs[r][n].seen
       /\ jobs'[r][n].phase = "conflict" => jobs[r][n].phase = "conflict"
  /\ jobs'[r][n].heard => jobs[r][n].heard /\ jobs'[r][n].phase \in Live

(* A request whose frames only go on stays fenced. *)
LEMMA KinFenced ==
  ASSUME TypeInv, TypeInv', Fenced, NEW r \in Requests,
         caller'[r] = caller[r], Len(log) <= Len(log'), r \in Range(log') => r \in Range(log),
         \A n \in Attempts(r) : Kin(r, n)
  PROVE  SenderFenced(r)' /\ \A n \in Attempts(r) : FrameFenced(r, n)'
<1>0. Len(log) \in Nat /\ Len(log') \in Nat /\ caller[r].fence \in Nat
  BY DEF TypeInv, Callers
<1>1. SenderFenced(r)'
  BY <1>0 DEF Fenced, SenderFenced, Kin
<1>2. ASSUME NEW n \in Attempts(r)
      PROVE  FrameFenced(r, n)'
  <2>1. jobs[r][n].rev \in Nat /\ jobs[r][n].seen \in Nat
    BY JobType DEF TypeInv
  <2>2. Kin(r, n) /\ FrameFenced(r, n)
    BY <1>2 DEF Fenced
  <2>3. jobs'[r][n].phase \in Live /\ jobs'[r][n].heard => jobs[r][n].heard
    BY <2>2 DEF Kin
  <2> QED
    BY <1>0, <2>1, <2>2, <2>3 DEF FrameFenced, Kin
<1> QED
  BY <1>1, <1>2

(* Every step keeps Fenced: a newer revision is taken only after the one *)
(* frame that could be executed under the older was refused.             *)
LEMMA FencedStep ==
  TypeInv /\ Held /\ Current /\ Fresh /\ Kept /\ Fenced /\ [Next]_vars => Fenced'
<1> SUFFICES ASSUME TypeInv, Held, Current, Fresh, Kept, Fenced, [Next]_vars PROVE Fenced'
  OBVIOUS
<1>0. Jobs(jobs) /\ caller \in [Requests -> Callers] /\ Len(log) \in Nat
  BY DEF TypeInv
<1>1. TypeInv' /\ Len(log') \in Nat
  BY TypeStep DEF TypeInv
<1>2. ASSUME caller' = caller, Len(log) <= Len(log'),
             \A q \in Requests : q \in Range(log') => q \in Range(log),
             \A q \in Requests : \A m \in Attempts(q) : Kin(q, m)
      PROVE  Fenced'
  BY <1>1, <1>2, KinFenced DEF Fenced
<1>3. ASSUME NEW r \in Requests, NEW f, NEW c, jobs' = f, caller' = c, log' = log,
             \A q \in Requests : q # r => c[q] = caller[q]
               /\ \A m \in Attempts(q) : f[q][m] = jobs[q][m],
             SenderFenced(r)', \A n \in Attempts(r) : FrameFenced(r, n)'
      PROVE  Fenced'
  <2>1. ASSUME NEW q \in Requests, q # r
        PROVE  SenderFenced(q)' /\ \A m \in Attempts(q) : FrameFenced(q, m)'
    <3>1. \A m \in Attempts(q) : Kin(q, m)
      BY <1>3, <2>1 DEF Kin, Fenced, SenderFenced
    <3> QED
      BY <1>0, <1>1, <1>3, <2>1, <3>1, KinFenced
  <2> QED
    BY <1>3, <2>1 DEF Fenced
<1>4. ASSUME NEW r \in Requests, Call(r)
      PROVE  Fenced'
  <2>1. 1 \in Attempts(r)
    BY ConstantsAssumption DEF Attempts
  <2>2. jobs'[r][1] = Frame(Len(log)) /\ OnlyAt(r, 1, jobs')
    BY <1>0, <1>4, <2>1, SentJob DEF Call, Sending
  <2>3. /\ caller'[r] = [state |-> "waiting", fence |-> Len(log), late |-> FALSE]
        /\ \A q \in Requests : q # r => caller'[q] = caller[q]
    BY <1>0, <1>4 DEF Call
  <2>4. \A m \in Attempts(r) : m # 1 =>
          jobs'[r][m] = jobs[r][m] /\ jobs[r][m].phase \notin Live /\ ~jobs[r][m].heard
    BY <1>4, <2>2 DEF Call, Fresh, OnlyAt, Fenced, SenderFenced
  <2>5. log' = log
    BY <1>4 DEF Call
  <2>6. SenderFenced(r)'
    BY <1>0, <2>2, <2>3, <2>4, <2>5, GoneFields DEF SenderFenced, Live
  <2>7. \A n \in Attempts(r) : FrameFenced(r, n)'
    BY <1>0, <2>2, <2>3, <2>4, <2>5, GoneFields DEF FrameFenced
  <2> QED
    BY <1>3, <2>2, <2>3, <2>5, <2>6, <2>7 DEF OnlyAt
<1>5. ASSUME NEW r \in Requests, Timeout(r) \/ Resend(r)
      PROVE  Fenced'
  <2>1. PICK n \in Attempts(r) : /\ jobs' = Sending(r, n, caller[r].fence)
                                 /\ Timeout(r) \/ \A m \in Attempts(r) : ~jobs[r][m].heard
    BY <1>5 DEF Timeout, Resend, Sending
  <2>2. caller[r].fence \in Nat
    BY DEF TypeInv, Callers
  <2>3. jobs'[r][n] = Frame(caller[r].fence) /\ OnlyAt(r, n, jobs')
    BY <1>0, <2>1, <2>2, SentJob
  <2>4. /\ caller[r].state = "waiting" /\ caller'[r].state = "waiting"
        /\ caller'[r].fence = caller[r].fence
        /\ caller'[r].late \/ (~caller'[r].late => ~caller[r].late)
        /\ Timeout(r) => caller'[r].late
        /\ \A q \in Requests : q # r => caller'[q] = caller[q]
    BY <1>0, <1>5 DEF Timeout, Resend, Waiting, Callers
  <2>5. log' = log
    BY <1>5 DEF Timeout, Resend
  <2>6. \A m \in Attempts(r) : m # n => jobs'[r][m] = jobs[r][m]
    BY <2>3 DEF OnlyAt
  <2>7. SenderFenced(r) /\ \A m \in Attempts(r) : FrameFenced(r, m)
    BY DEF Fenced
  <2>8. SenderFenced(r)'
    BY <2>1, <2>3, <2>4, <2>5, <2>6, <2>7, GoneFields DEF SenderFenced, Live
  <2>9. \A m \in Attempts(r) : FrameFenced(r, m)'
    <3>1. FrameFenced(r, n)'
      BY <1>0, <2>2, <2>3, <2>4, <2>5, <2>7, GoneFields DEF FrameFenced, SenderFenced
    <3>2. ASSUME NEW m \in Attempts(r), m # n
          PROVE  FrameFenced(r, m)'
      BY <2>4, <2>5, <2>6, <2>7, <3>2 DEF FrameFenced
    <3> QED
      BY <3>1, <3>2
  <2> QED
    BY <1>3, <2>3, <2>4, <2>5, <2>8, <2>9 DEF OnlyAt
<1>6. ASSUME NEW r \in Requests, NEW n \in Attempts(r), HearOutcome(r, n)
      PROVE  Fenced'
  <2>1. jobs'[r][n] = Gone /\ OnlyAt(r, n, jobs')
    BY <1>0, <1>6, EndedJob DEF HearOutcome
  <2>2. /\ caller'[r].state \in {"answered", "unknown"}
        /\ caller'[r].fence = caller[r].fence /\ caller'[r].late = caller[r].late
        /\ \A q \in Requests : q # r => caller'[q] = caller[q]
    BY <1>0, <1>6 DEF HearOutcome, Callers
  <2>3. log' = log
    BY <1>6 DEF HearOutcome
  <2>4. \A m \in Attempts(r) : m # n => jobs'[r][m] = jobs[r][m]
    BY <2>1 DEF OnlyAt
  <2>5. SenderFenced(r) /\ \A m \in Attempts(r) : FrameFenced(r, m)
    BY DEF Fenced
  <2>6. SenderFenced(r)'
    BY <2>1, <2>2, <2>3, <2>4, <2>5, GoneFields DEF SenderFenced
  <2>7. \A m \in Attempts(r) : FrameFenced(r, m)'
    BY <2>1, <2>2, <2>3, <2>4, <2>5, GoneFields DEF FrameFenced, Live
  <2> QED
    BY <1>3, <2>1, <2>2, <2>3, <2>6, <2>7 DEF OnlyAt
<1>7. ASSUME NEW r \in Requests, NEW n \in Attempts(r), HearConflict(r, n)
      PROVE  Fenced'
  <2>1. SenderFenced(r) /\ \A m \in Attempts(r) : FrameFenced(r, m)
    BY DEF Fenced
  <2>2. /\ caller[r].state = "waiting" /\ jobs[r][n].heard /\ jobs[r][n].phase = "conflict"
        /\ log' = log
    BY <1>7 DEF HearConflict, Waiting, Phase
  <2>3. PICK seen \in Nat : seen = jobs[r][n].seen
    BY <1>0, JobType
  <2>4. /\ jobs[r][n].rev = caller[r].fence /\ caller[r].fence < seen /\ seen <= Len(log)
        /\ r \notin Range(log)
    BY <2>1, <2>2, <2>3 DEF FrameFenced, Live
  <2>5. caller[r].fence \in Nat /\ \A m \in Attempts(r) : jobs[r][m].rev \in Nat
    BY <1>0, JobType DEF Callers
  <2>6. \A m \in Attempts(r) : jobs[r][m].phase \in Live => jobs[r][m].rev <= caller[r].fence
    BY <2>1 DEF FrameFenced
  <2>7. CASE jobs' = Ended(r, n) /\ caller' = [caller EXCEPT ![r].state = "refused"]
    <3>1. jobs'[r][n] = Gone /\ OnlyAt(r, n, jobs')
      BY <1>0, <2>7, EndedJob
    <3>2. /\ caller'[r].state = "refused"
          /\ caller'[r].fence = caller[r].fence /\ caller'[r].late = caller[r].late
          /\ \A q \in Requests : q # r => caller'[q] = caller[q]
      BY <1>0, <2>7 DEF Callers
    <3>3. \A m \in Attempts(r) : m # n => jobs'[r][m] = jobs[r][m]
      BY <3>1 DEF OnlyAt
    <3>4. SenderFenced(r)'
      BY <2>1, <2>2, <2>4, <3>1, <3>2, <3>3, GoneFields DEF SenderFenced
    <3>5. FrameFenced(r, n)'
      BY <3>1, GoneFields DEF FrameFenced, Live
    <3>6. ASSUME NEW m \in Attempts(r), m # n
          PROVE  FrameFenced(r, m)'
      <4>1. jobs[r][m].phase \in Live => jobs[r][m].rev < Len(log)
        BY <1>0, <2>4, <2>5, <2>6
      <4> QED
        BY <2>1, <2>2, <3>2, <3>3, <3>6, <4>1 DEF FrameFenced
    <3> QED
      BY <1>3, <2>2, <3>1, <3>2, <3>4, <3>5, <3>6 DEF OnlyAt
  <2>8. ASSUME NEW k \in Attempts(r), NextFrame(r, k), ~caller[r].late,
               jobs' = Replacing(r, n, k, jobs[r][n].seen),
               caller' = [caller EXCEPT ![r].fence = jobs[r][n].seen]
        PROVE  Fenced'
    <3>1. k # n
      BY <2>2, <2>8 DEF NextFrame, Phase
    <3>2. /\ jobs'[r][n] = Gone /\ jobs'[r][k] = Frame(seen)
          /\ \A q \in Requests : \A m \in Attempts(q) :
               q # r \/ (m # k /\ m # n) => jobs'[q][m] = jobs[q][m]
      BY <1>0, <2>3, <2>8, <3>1, ReplacedJob
    <3>3. /\ caller'[r].state = "waiting" /\ caller'[r].fence = seen /\ ~caller'[r].late
          /\ \A q \in Requests : q # r => caller'[q] = caller[q]
      BY <1>0, <2>2, <2>3, <2>8 DEF Callers
    <3>4. \A m \in Attempts(r) : m # n => ~jobs[r][m].heard
      BY <2>1, <2>2, <2>8 DEF SenderFenced
    <3>5. \A m \in Attempts(r) : jobs'[r][m].heard => m = k
      BY <3>2, <3>4, GoneFields
    <3>6. SenderFenced(r)'
      BY <2>2, <2>4, <3>2, <3>3, <3>5, GoneFields DEF SenderFenced, Live
    <3>7. FrameFenced(r, n)'
      BY <3>2, GoneFields DEF FrameFenced, Live
    <3>8. FrameFenced(r, k)'
      BY <2>2, <2>3, <2>4, <3>2, <3>3, GoneFields DEF FrameFenced
    <3>9. ASSUME NEW m \in Attempts(r), m # n, m # k
          PROVE  FrameFenced(r, m)'
      <4>1. jobs[r][m].phase \in Live => jobs[r][m].rev < seen
        BY <2>3, <2>4, <2>5, <2>6
      <4> QED
        BY <1>0, <2>1, <2>2, <2>3, <2>5, <3>2, <3>3, <3>4, <3>9, <4>1 DEF FrameFenced
    <3>10. \A q \in Requests : q # r => \A m \in Attempts(q) : jobs'[q][m] = jobs[q][m]
      BY <3>2
    <3> QED
      BY <1>3, <2>2, <3>3, <3>6, <3>7, <3>8, <3>9, <3>10
  <2> QED
    BY <1>7, <2>7, <2>8 DEF HearConflict, Replacing
<1>8. ASSUME NEW r \in Requests, NEW n \in Attempts(r), NEW phase \in Live \ {"conflict"},
             jobs' = Moved(r, n, phase), jobs[r][n].phase \in Live
      PROVE  \A q \in Requests : \A m \in Attempts(q) : Kin(q, m)
  <2>1. phase \in Phases
    BY DEF Live, Phases
  <2> QED
    BY <1>0, <1>8, <2>1, MovedFields DEF Kin, Fenced, SenderFenced
<1>9. ASSUME NEW r \in Requests, NEW n \in Attempts(r),
             Lookup(r, n) \/ Open(r, n) \/ Reuse(r, n) \/ Barrier(r, n) \/ BarrierFails(r, n)
      PROVE  Fenced'
  <2>1. PICK phase \in Live \ {"conflict"} : jobs' = Moved(r, n, phase)
    BY <1>9 DEF Lookup, Open, Reuse, Barrier, BarrierFails, Live
  <2>2. jobs[r][n].phase \in Live
    BY <1>9 DEF Lookup, Open, Reuse, Barrier, BarrierFails, Live, Phase
  <2>3. UNCHANGED <<log, caller>>
    BY <1>9 DEF Lookup, Open, Reuse, Barrier, BarrierFails
  <2> QED
    BY <1>0, <1>2, <1>8, <2>1, <2>2, <2>3
<1>10. ASSUME NEW r \in Requests, NEW n \in Attempts(r), Refuse(r, n)
       PROVE  Fenced'
  <2>1. PICK seen \in Nat : seen = Len(log)
    BY <1>0
  <2>2. jobs' = Refusing(r, n, seen) /\ caller' = caller /\ log' = log
    BY <1>10, <2>1 DEF Refuse, Refusing
  <2>3. /\ jobs'[r][n].phase = "conflict" /\ jobs'[r][n].rev = jobs[r][n].rev
        /\ jobs'[r][n].seen = seen /\ jobs'[r][n].heard = jobs[r][n].heard
        /\ \A q \in Requests : \A m \in Attempts(q) : q # r \/ m # n => jobs'[q][m] = jobs[q][m]
    BY <1>0, <2>2, RefusedFields
  <2>4. jobs[r][n].phase = "held" /\ r \notin receipts /\ jobs[r][n].rev # Len(log)
    BY <1>10 DEF Refuse, Phase
  <2>5. r \notin Range(log)
    BY <2>4, Unknown
  <2>6. SenderFenced(r) /\ \A m \in Attempts(r) : FrameFenced(r, m)
    BY DEF Fenced
  <2>7. jobs[r][n].rev \in Nat
    BY <1>0, JobType
  <2>8. SenderFenced(r)'
    BY <2>2, <2>3, <2>6 DEF SenderFenced, Live
  <2>9. FrameFenced(r, n)'
    BY <1>0, <2>1, <2>2, <2>3, <2>4, <2>5, <2>6, <2>7 DEF FrameFenced, Live
  <2>10. ASSUME NEW m \in Attempts(r), m # n
         PROVE  FrameFenced(r, m)'
    BY <2>2, <2>3, <2>6, <2>10 DEF FrameFenced
  <2>11. \A q \in Requests : q # r => \A m \in Attempts(q) : jobs'[q][m] = jobs[q][m]
    BY <2>3
  <2> QED
    BY <1>3, <2>2, <2>8, <2>9, <2>10, <2>11
<1>11. ASSUME NEW r \in Requests, NEW n \in Attempts(r), Commit(r, n)
       PROVE  Fenced'
  <2>1. /\ jobs[r][n].phase = "held" /\ jobs[r][n].rev = Len(log) /\ caller' = caller
        /\ jobs' = Moved(r, n, "barrier")
    BY <1>11 DEF Commit, Phase
  <2>2. Range(log') = Range(log) \cup {r} /\ Len(log') = Len(log) + 1
    BY <1>11, AppendedLog DEF Commit
  <2>3. \A q \in Requests : \A m \in Attempts(q) : Kin(q, m)
    BY <1>8, <2>1 DEF Live
  <2>4. ASSUME NEW q \in Requests, q # r
        PROVE  SenderFenced(q)' /\ \A m \in Attempts(q) : FrameFenced(q, m)'
    BY <1>0, <1>1, <2>1, <2>2, <2>3, <2>4, KinFenced
  <2>5. SenderFenced(r) /\ \A m \in Attempts(r) : FrameFenced(r, m)
    BY DEF Fenced
  <2>6. caller[r].fence \in Nat /\ \A m \in Attempts(r) : jobs[r][m].rev \in Nat
                                                   /\ jobs[r][m].seen \in Nat
    BY <1>0, JobType DEF Callers
  <2>7. caller[r].state # "refused" /\ Len(log) <= caller[r].fence
    BY <1>0, <2>1, <2>5, <2>6 DEF FrameFenced, Live
  <2>8. SenderFenced(r)'
    BY <1>0, <2>1, <2>2, <2>3, <2>5, <2>6, <2>7 DEF SenderFenced, Kin
  <2>9. ASSUME NEW m \in Attempts(r)
        PROVE  FrameFenced(r, m)'
    <3>1. Kin(r, m) /\ FrameFenced(r, m)
      BY <2>3, <2>5
    <3>2. jobs[r][m].phase = "conflict" => jobs[r][m].rev # caller[r].fence
      BY <1>0, <2>6, <2>7, <3>1 DEF FrameFenced, Live
    <3> QED
      BY <1>0, <2>1, <2>2, <2>6, <2>7, <3>1, <3>2 DEF FrameFenced, Kin
  <2> QED
    BY <2>4, <2>8, <2>9 DEF Fenced
<1>12. ASSUME NEW o \in Others, OtherCommit(o)
       PROVE  Fenced'
  <2>1. Range(log') = Range(log) \cup {o} /\ Len(log') = Len(log) + 1
    BY <1>12, AppendedLog DEF OtherCommit
  <2>2. o \notin Requests
    BY ConstantsAssumption
  <2>3. \A q \in Requests : \A m \in Attempts(q) : Kin(q, m)
    BY <1>12 DEF OtherCommit, Kin, Fenced, SenderFenced
  <2> QED
    BY <1>0, <1>2, <1>12, <2>1, <2>2, <2>3 DEF OtherCommit
<1>13. ASSUME UNCHANGED <<log, caller>>,
              \A q \in Requests : \A m \in Attempts(q) : jobs'[q][m] = jobs[q][m]
       PROVE  Fenced'
  <2>1. \A q \in Requests : \A m \in Attempts(q) : Kin(q, m)
    BY <1>13 DEF Kin, Fenced, SenderFenced
  <2> QED
    BY <1>0, <1>2, <1>13, <2>1
<1>14. CASE Eviction
  <2>1. CASE EvictDetach /\ Unused /\ ~evictor.touched
    BY <1>0, <1>13, <2>1, DetachedJobs DEF EvictDetach
  <2>2. CASE ~(EvictDetach /\ Unused /\ ~evictor.touched)
    BY <1>13, <1>14, <2>2 DEF Eviction, EvictRelease, EvictPrepare, EvictDetach
  <2> QED
    BY <2>1, <2>2
<1>15. CASE Disconnect
  <2>1. \A q \in Requests : \A m \in Attempts(q) : Kin(q, m)
    BY <1>0, <1>15, QuietedFields, GoneFields DEF Kin, Live
  <2> QED
    BY <1>0, <1>2, <1>15, <2>1 DEF Disconnect
<1>16. CASE ProcessCrash
  <2>1. \A q \in Requests : \A m \in Attempts(q) : Kin(q, m)
    BY <1>0, <1>16, DownFields DEF ProcessCrash, Kin
  <2> QED
    BY <1>0, <1>2, <1>16, <2>1 DEF ProcessCrash
<1>17. CASE PowerLoss
  <2>1. \A q \in Requests : \A m \in Attempts(q) :
          jobs'[q][m].phase \notin Live /\ ~jobs'[q][m].heard
    BY <1>0, <1>17, LostLog, DownFields
  <2>2. \A q \in Requests : /\ caller'[q].state # "waiting"
                            /\ caller'[q].state = "refused" => q \notin Range(log')
    BY <1>17, LostLog DEF Fenced, SenderFenced
  <2> QED
    BY <2>1, <2>2 DEF Fenced, SenderFenced, FrameFenced
<1>18. CASE UNCHANGED vars
  BY <1>13, <1>18 DEF vars
<1>19. CASE Sender
  BY <1>4, <1>5, <1>6, <1>7, <1>19 DEF Sender
<1>20. CASE Job
  BY <1>9, <1>10, <1>11, <1>20 DEF Job
<1> QED
  BY <1>12, <1>14, <1>15, <1>16, <1>17, <1>18, <1>19, <1>20 DEF Next, Fault

(* A request that was refused for its revision never takes effect, not even *)
(* through an attempt that timed out (withSessionRevision).                 *)
THEOREM RefusedHasNoEffectHolds == Spec => []RefusedHasNoEffect
<1>1. Init => Fenced
  <2>1. ASSUME Init, NEW r \in Requests, NEW n \in Attempts(r)
        PROVE  jobs[r][n].phase = "none" /\ ~jobs[r][n].heard
    BY <2>1, GoneFields DEF Init
  <2>2. ASSUME Init, NEW r \in Requests
        PROVE  caller[r].state = "idle"
    BY <2>2 DEF Init
  <2> QED
    BY <2>1, <2>2 DEF Fenced, SenderFenced, FrameFenced, Live
<1>2. IInv /\ Fenced /\ [Next]_vars => Fenced'
  BY FencedStep DEF IInv
<1>3. Fenced => RefusedHasNoEffect
  BY DEF Fenced, SenderFenced, RefusedHasNoEffect
<1> QED
  BY <1>1, <1>2, <1>3, InvariantHolds, PTL DEF Spec
=============================================================================
