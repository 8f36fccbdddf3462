-------------------------- MODULE InputQueueProofs --------------------------
(***************************************************************************)
(* Proofs about the input queue, for any set of inputs and of runs, any    *)
(* capacity of the queue and any number of faults: no accepted input is    *)
(* lost, and none is handled twice.                                        *)
(*                                                                         *)
(* Neither is inductive.  An input that leaves the queue for a turn is     *)
(* safe because of where the three actors are: a loop that is about to     *)
(* save an input still has its delivery, a loop that is about to           *)
(* acknowledge has saved it, and whoever admits a run finds no owner and   *)
(* no delivery.  The parts of IInv say so.                                 *)
(***************************************************************************)
EXTENDS InputQueue, SequenceTheorems, FiniteSetTheorems, TLAPS

(*--------------------------- The invariant ------------------------------*)
(* Everything that is known of an input was once accepted. *)
Accounted ==
  /\ Queued(queue) \subseteq enqueued
  /\ queue.delivery.item \in enqueued \cup {None}
  /\ \A r \in Runs : runs[r].item \in enqueued \cup {None}
  /\ \A m \in Messages : m[2] \in enqueued

(* A run nobody admitted has no input. *)
NewRunsEmpty == \A r \in Runs : runs[r].status = "new" => runs[r].item = None

(* A host that executes a run has recovered, and its run is the session's *)
(* unless it was stopped; a stop that goes on holds the fence.            *)
Ownership ==
  /\ stopping => fence /\ owner # None
  /\ owner # None => recovered /\ (active = owner \/ stopping)

(* A run that was admitted and not yet launched is the session's, nobody *)
(* executes anything, and no other admission is under way.               *)
AdmittedAlone ==
  \A d \in Dispatchers : tasks[d].at = "admitted" =>
    /\ owner = None /\ recovered
    /\ active # None /\ tasks[d].run = active
    /\ \A e \in Dispatchers : tasks[e].at = "admitted" => e = d

(* What a turn works on: before it consumes an input it knows which, until *)
(* it acknowledges it the delivery is its own, and what it acknowledges it *)
(* has appended.                                                           *)
LoopInStep ==
  /\ loop.at # "off" => owner # None /\ active = owner
  /\ loop.at \in {"forced", "consume"} => loop.item # None
  /\ loop.at \in {"apply", "ack"} =>
       queue.delivery = [run |-> owner, item |-> loop.item]
  /\ loop.at = "ack" => <<owner, loop.item>> \in Messages

(* An input has one turn or one message, none while it is queued, and at *)
(* most the message of the turn it is delivered to while that is pending. *)
Handled ==
  /\ \A r, s \in Runs : runs[r].item # None /\ runs[r].item = runs[s].item => r = s
  /\ \A m, n \in Messages : m[2] = n[2] => m = n
  /\ \A r \in Runs, m \in Messages : runs[r].item # m[2]
  /\ \A r \in Runs : runs[r].item \notin Queued(queue)
  /\ \A m \in Messages : m[2] \notin Queued(queue)
  /\ queue.delivery # NoDelivery =>
       /\ \A r \in Runs : runs[r].item # queue.delivery.item
       /\ \A m \in Messages :
            m[2] = queue.delivery.item => m[1] = queue.delivery.run

(* What the host has not flushed is the message of the pending delivery, of  *)
(* a turn that goes on.                                                      *)
Unflushed ==
  cached # {} =>
    /\ loop.at # "off"
    /\ \A m \in cached : queue.delivery = [run |-> m[1], item |-> m[2]]

(* What was taken back had been accepted, and no longer waits. *)
TakenBack ==
  /\ discarded \subseteq enqueued
  /\ \A i \in discarded : i \notin Queued(queue) /\ i # queue.delivery.item

(* The inductive invariant. *)
IInv ==
  /\ TypeOK /\ Accounted /\ NewRunsEmpty /\ Ownership /\ AdmittedAlone
  /\ LoopInStep /\ Handled /\ NoInputLost /\ Unflushed /\ TakenBack


(*------------------------ Sequences without repeats ---------------------*)
(* What taking an element out of a sequence leaves at each place. *)
LEMMA RemoveAtElements ==
  ASSUME NEW S, NEW s \in Seq(S), NEW k \in 1 .. Len(s)
  PROVE  /\ RemoveAt(s, k) \in Seq(S)
         /\ Len(RemoveAt(s, k)) = Len(s) - 1
         /\ \A j \in 1 .. Len(s) - 1 : RemoveAt(s, k)[j] = IF j < k THEN s[j] ELSE s[j + 1]
<1> DEFINE a == SubSeq(s, 1, k - 1)
           b == SubSeq(s, k + 1, Len(s))
<1>1. Len(s) \in Nat /\ \A j \in 1 .. Len(s) : s[j] \in S
  BY LenProperties, ElementOfSeq
<1>2. /\ a \in Seq(S) /\ Len(a) = k - 1
      /\ \A j \in 1 .. k - 1 : a[j] = s[j]
  <2>1. /\ a \in Seq(S)
        /\ Len(a) = IF 1 <= k - 1 THEN (k - 1) - 1 + 1 ELSE 0
        /\ \A j \in 1 .. (k - 1) - 1 + 1 : a[j] = s[1 + j - 1]
    BY <1>1, SubSeqProperties
  <2> QED
    BY <1>1, <2>1
<1>3. /\ b \in Seq(S) /\ Len(b) = Len(s) - k
      /\ \A j \in 1 .. Len(s) - k : b[j] = s[j + k]
  <2>1. /\ b \in Seq(S)
        /\ Len(b) = IF k + 1 <= Len(s) THEN Len(s) - (k + 1) + 1 ELSE 0
        /\ \A j \in 1 .. Len(s) - (k + 1) + 1 : b[j] = s[(k + 1) + j - 1]
    BY <1>1, SubSeqProperties
  <2> QED
    BY <1>1, <2>1
<1>4. /\ a \o b \in Seq(S) /\ Len(a \o b) = Len(s) - 1
      /\ \A j \in 1 .. Len(a) + Len(b) :
           (a \o b)[j] = IF j <= Len(a) THEN a[j] ELSE b[j - Len(a)]
  <2> HIDE DEF a, b
  <2> QED
    BY <1>1, <1>2, <1>3, ConcatProperties
<1>5. RemoveAt(s, k) = a \o b
  BY DEF RemoveAt
<1> HIDE DEF a, b
<1>6. ASSUME NEW j \in 1 .. Len(s) - 1
      PROVE  (a \o b)[j] = IF j < k THEN s[j] ELSE s[j + 1]
  <2>1. CASE j < k
    BY <1>1, <1>2, <1>3, <1>4, <2>1
  <2>2. CASE ~(j < k)
    <3>1. /\ ~(j <= Len(a)) /\ j \in 1 .. Len(a) + Len(b)
          /\ j - Len(a) \in 1 .. Len(s) - k /\ (j - Len(a)) + k = j + 1
      BY <1>1, <1>2, <1>3, <2>2
    <3>2. b[j - Len(a)] = s[(j - Len(a)) + k]
      BY <1>3, <3>1
    <3>3. (a \o b)[j] = b[j - Len(a)]
      BY <1>4, <3>1
    <3> QED
      BY <2>2, <3>1, <3>2, <3>3
  <2> QED
    BY <2>1, <2>2
<1> QED
  BY <1>4, <1>5, <1>6

(* What putting an element into a sequence leaves at each place. *)
LEMMA InsertAtElements ==
  ASSUME NEW S, NEW s \in Seq(S), NEW k \in 1 .. Len(s) + 1, NEW e \in S
  PROVE  /\ InsertAt(s, k, e) \in Seq(S)
         /\ Len(InsertAt(s, k, e)) = Len(s) + 1
         /\ InsertAt(s, k, e)[k] = e
         /\ \A j \in 1 .. k - 1 : InsertAt(s, k, e)[j] = s[j]
         /\ \A j \in k + 1 .. Len(s) + 1 : InsertAt(s, k, e)[j] = s[j - 1]
<1> DEFINE a == SubSeq(s, 1, k - 1)
           c == Append(a, e)
           b == SubSeq(s, k, Len(s))
<1>1. Len(s) \in Nat /\ \A j \in 1 .. Len(s) : s[j] \in S
  BY LenProperties, ElementOfSeq
<1>2. /\ a \in Seq(S) /\ Len(a) = k - 1
      /\ \A j \in 1 .. k - 1 : a[j] = s[j]
  <2>1. /\ a \in Seq(S)
        /\ Len(a) = IF 1 <= k - 1 THEN (k - 1) - 1 + 1 ELSE 0
        /\ \A j \in 1 .. (k - 1) - 1 + 1 : a[j] = s[1 + j - 1]
    BY <1>1, SubSeqProperties
  <2> QED
    BY <1>1, <2>1
<1>3. /\ b \in Seq(S) /\ Len(b) = Len(s) - k + 1
      /\ \A j \in 1 .. Len(s) - k + 1 : b[j] = s[j + k - 1]
  <2>1. /\ b \in Seq(S)
        /\ Len(b) = IF k <= Len(s) THEN Len(s) - k + 1 ELSE 0
        /\ \A j \in 1 .. Len(s) - k + 1 : b[j] = s[k + j - 1]
    BY <1>1, SubSeqProperties
  <2> QED
    BY <1>1, <2>1
<1>4. /\ c \in Seq(S) /\ Len(c) = k /\ c[k] = e
      /\ \A j \in 1 .. k - 1 : c[j] = s[j]
  <2> HIDE DEF a
  <2> QED
    BY <1>1, <1>2, AppendProperties
<1>5. a \o <<e>> = c
  <2> HIDE DEF a
  <2> QED
    BY <1>2, AppendIsConcat
<1>6. InsertAt(s, k, e) = c \o b
  <2> HIDE DEF c
  <2> QED
    BY <1>5 DEF InsertAt
<1> HIDE DEF a, b, c
<1>7. /\ c \o b \in Seq(S) /\ Len(c \o b) = Len(s) + 1
      /\ \A j \in 1 .. Len(c) + Len(b) :
           (c \o b)[j] = IF j <= Len(c) THEN c[j] ELSE b[j - Len(c)]
  <2>1. c \in Seq(S) /\ b \in Seq(S)
    BY <1>3, <1>4
  <2>2. /\ c \o b \in Seq(S) /\ Len(c \o b) = Len(c) + Len(b)
        /\ \A j \in 1 .. Len(c) + Len(b) :
             (c \o b)[j] = IF j <= Len(c) THEN c[j] ELSE b[j - Len(c)]
    BY <2>1, ConcatProperties
  <2>3. Len(c) + Len(b) = Len(s) + 1
    BY <1>1, <1>3, <1>4
  <2> QED
    BY <2>2, <2>3
<1>8. /\ k \in 1 .. Len(c) + Len(b) /\ k <= Len(c)
      /\ \A j \in 1 .. k - 1 : j \in 1 .. Len(c) + Len(b) /\ j <= Len(c)
  BY <1>1, <1>3, <1>4
<1>9. (c \o b)[k] = e /\ \A j \in 1 .. k - 1 : (c \o b)[j] = s[j]
  BY <1>4, <1>7, <1>8
<1>10. ASSUME NEW j \in k + 1 .. Len(s) + 1
       PROVE  (c \o b)[j] = s[j - 1]
  <2>1. j \in 1 .. Len(c) + Len(b) /\ ~(j <= Len(c)) /\ j - Len(c) = j - k
    BY <1>1, <1>3, <1>4
  <2>2. j - k \in 1 .. Len(s) - k + 1 /\ (j - k) + k - 1 = j - 1
    BY <1>1
  <2>3. b[j - k] = s[(j - k) + k - 1]
    BY <1>3, <2>2
  <2>4. (c \o b)[j] = b[j - Len(c)]
    BY <1>7, <2>1
  <2> QED
    BY <2>1, <2>2, <2>3, <2>4
<1> QED
  BY <1>6, <1>7, <1>9, <1>10

(* Taking out an element of a sequence without repeats. *)
LEMMA RemoveAtSet ==
  ASSUME NEW S, NEW s \in Seq(S), NEW k \in DOMAIN s, IsInjective(s)
  PROVE  /\ RemoveAt(s, k) \in Seq(S)
         /\ Len(RemoveAt(s, k)) = Len(s) - 1
         /\ IsInjective(RemoveAt(s, k))
         /\ ToSet(RemoveAt(s, k)) = ToSet(s) \ {s[k]}
<1> DEFINE t == RemoveAt(s, k)
<1>1. Len(s) \in Nat /\ DOMAIN s = 1 .. Len(s)
  BY LenProperties
<1>2. /\ t \in Seq(S) /\ Len(t) = Len(s) - 1
      /\ \A j \in 1 .. Len(s) - 1 : t[j] = IF j < k THEN s[j] ELSE s[j + 1]
  BY <1>1, RemoveAtElements
<1> HIDE DEF t
<1>3. DOMAIN t = 1 .. Len(s) - 1
  BY <1>2, LenProperties
<1>4. \A j \in DOMAIN t :
        \/ j < k /\ j \in DOMAIN s /\ t[j] = s[j]
        \/ ~(j < k) /\ j + 1 \in DOMAIN s /\ j + 1 # k /\ t[j] = s[j + 1]
  BY <1>1, <1>2, <1>3
<1>5. IsInjective(t)
  <2> SUFFICES ASSUME NEW x \in DOMAIN t, NEW y \in DOMAIN t, t[x] = t[y]
               PROVE  x = y
    BY DEF IsInjective
  <2> DEFINE at(j) == IF j < k THEN j ELSE j + 1
  <2>1. at(x) \in DOMAIN s /\ at(y) \in DOMAIN s /\ s[at(x)] = s[at(y)]
    BY <1>4
  <2>2. at(x) = at(y)
    <3> HIDE DEF at
    <3> QED
      BY <2>1 DEF IsInjective
  <2> QED
    BY <1>1, <1>3, <2>2
<1>6. ASSUME NEW v \in ToSet(t)
      PROVE  v \in ToSet(s) \ {s[k]}
  <2>1. PICK j \in DOMAIN t : v = t[j]
    BY DEF ToSet
  <2>2. PICK i \in DOMAIN s : v = s[i] /\ i # k
    <3>1. CASE j < k /\ j \in DOMAIN s /\ t[j] = s[j]
      BY <1>1, <2>1, <3>1
    <3>2. CASE j + 1 \in DOMAIN s /\ j + 1 # k /\ t[j] = s[j + 1]
      BY <2>1, <3>2
    <3> QED
      BY <1>4, <3>1, <3>2
  <2> QED
    <3>1. v # s[k]
      BY <2>2 DEF IsInjective
    <3> QED
      BY <2>2, <3>1 DEF ToSet
<1>7. ASSUME NEW v \in ToSet(s) \ {s[k]}
      PROVE  v \in ToSet(t)
  <2>1. PICK i \in DOMAIN s : v = s[i] /\ i # k
    BY DEF ToSet
  <2>2. PICK j \in DOMAIN t : v = t[j]
    <3>1. CASE i < k
      BY <1>1, <1>2, <1>3, <2>1, <3>1
    <3>2. CASE i > k
      <4>1. i - 1 \in 1 .. Len(s) - 1 /\ ~(i - 1 < k) /\ (i - 1) + 1 = i
        BY <1>1, <3>2
      <4> QED
        BY <1>2, <1>3, <2>1, <4>1
    <3> QED
      BY <1>1, <2>1, <3>1, <3>2
  <2> QED
    BY <2>2 DEF ToSet
<1> QED
  BY <1>2, <1>5, <1>6, <1>7 DEF t

(* Putting in an element that was not there. *)
LEMMA InsertAtSet ==
  ASSUME NEW S, NEW s \in Seq(S), NEW k \in 1 .. Len(s) + 1, NEW e \in S \ ToSet(s),
         IsInjective(s)
  PROVE  /\ InsertAt(s, k, e) \in Seq(S)
         /\ Len(InsertAt(s, k, e)) = Len(s) + 1
         /\ IsInjective(InsertAt(s, k, e))
         /\ ToSet(InsertAt(s, k, e)) = ToSet(s) \cup {e}
<1>1. Len(s) \in Nat /\ DOMAIN s = 1 .. Len(s)
  BY LenProperties
<1>2. e \in S
  OBVIOUS
<1> DEFINE t == InsertAt(s, k, e)
<1>3. /\ t \in Seq(S) /\ Len(t) = Len(s) + 1 /\ t[k] = e
      /\ \A j \in 1 .. k - 1 : t[j] = s[j]
      /\ \A j \in k + 1 .. Len(s) + 1 : t[j] = s[j - 1]
  BY <1>2, InsertAtElements
<1> HIDE DEF t
<1>4. DOMAIN t = 1 .. Len(s) + 1 /\ \A i \in DOMAIN s : s[i] # e
  BY <1>3, LenProperties DEF ToSet
<1>5. \A j \in DOMAIN t :
        \/ j = k /\ t[j] = e
        \/ j < k /\ j \in DOMAIN s /\ t[j] = s[j]
        \/ j > k /\ j - 1 \in DOMAIN s /\ t[j] = s[j - 1]
  BY <1>1, <1>3, <1>4
<1>6. IsInjective(t)
  <2> SUFFICES ASSUME NEW x \in DOMAIN t, NEW y \in DOMAIN t, t[x] = t[y]
               PROVE  x = y
    BY DEF IsInjective
  <2>1. x \in Nat /\ y \in Nat /\ k \in Nat
    BY <1>1, <1>4
  <2>2. CASE x = k
    BY <1>4, <1>5, <2>1, <2>2
  <2>3. CASE y = k
    BY <1>4, <1>5, <2>1, <2>3
  <2>4. CASE x # k /\ y # k
    <3> DEFINE at(j) == IF j < k THEN j ELSE j - 1
    <3>1. at(x) \in DOMAIN s /\ at(y) \in DOMAIN s /\ s[at(x)] = s[at(y)]
      BY <1>5, <2>1, <2>4
    <3>2. at(x) = at(y)
      <4> HIDE DEF at
      <4> QED
        BY <3>1 DEF IsInjective
    <3> QED
      BY <2>1, <2>4, <3>2
  <2> QED
    BY <2>2, <2>3, <2>4
<1>7. ToSet(t) \subseteq ToSet(s) \cup {e}
  BY <1>5 DEF ToSet
<1>8. ASSUME NEW i \in DOMAIN s
      PROVE  s[i] \in ToSet(t)
  <2>1. CASE i < k
    <3>1. i \in DOMAIN t /\ t[i] = s[i]
      BY <1>1, <1>3, <1>4, <2>1
    <3> QED
      BY <3>1 DEF ToSet
  <2>2. CASE ~(i < k)
    <3>1. i + 1 \in DOMAIN t /\ t[i + 1] = s[i]
      BY <1>1, <1>3, <1>4, <2>2
    <3> QED
      BY <3>1 DEF ToSet
  <2> QED
    BY <2>1, <2>2
<1>9. e \in ToSet(t)
  <2>1. k \in DOMAIN t /\ t[k] = e
    BY <1>1, <1>3, <1>4
  <2> QED
    BY <2>1 DEF ToSet
<1>10. ToSet(t) = ToSet(s) \cup {e}
  <2>1. \A v \in ToSet(s) : v \in ToSet(t)
    BY <1>8 DEF ToSet
  <2> QED
    BY <1>7, <1>9, <2>1
<1> QED
  BY <1>3, <1>6, <1>10 DEF t

(* Appending an element that was not there. *)
LEMMA AppendSet ==
  ASSUME NEW S, NEW s \in Seq(S), NEW e \in S \ ToSet(s), IsInjective(s)
  PROVE  /\ Append(s, e) \in Seq(S)
         /\ Len(Append(s, e)) = Len(s) + 1
         /\ IsInjective(Append(s, e))
         /\ ToSet(Append(s, e)) = ToSet(s) \cup {e}
<1> DEFINE t == Append(s, e)
<1>1. Len(s) \in Nat /\ DOMAIN s = 1 .. Len(s)
  BY LenProperties
<1>2. /\ t \in Seq(S) /\ Len(t) = Len(s) + 1 /\ t[Len(s) + 1] = e
      /\ \A j \in 1 .. Len(s) : t[j] = s[j]
  BY AppendProperties
<1> HIDE DEF t
<1>3. DOMAIN t = DOMAIN s \cup {Len(s) + 1}
  BY <1>1, <1>2, LenProperties
<1>4. \A i \in DOMAIN s : s[i] # e
  BY DEF ToSet
<1>5. IsInjective(t)
  BY <1>1, <1>2, <1>3, <1>4 DEF IsInjective
<1>6. ToSet(t) = ToSet(s) \cup {e}
  BY <1>1, <1>2, <1>3 DEF ToSet
<1> QED
  BY <1>2, <1>5, <1>6 DEF t

(*------------------------ Commands on the queue -------------------------*)
(* The types of the structured variables. *)
Queues == [items : Seq(Items), force : Items \cup {None},
           delivery : [run : Runs, item : Items] \cup {NoDelivery}]
Statuses == {"new", "queued", "running", "ended"}
RunDocuments == [Runs -> [status : Statuses, item : Items \cup {None}]]
TaskStates == {"idle", "picked", "admitted"}
Tasks == [Dispatchers ->
            [at : TaskStates, item : Items \cup {None}, run : Runs \cup {None}]]
LoopStates == {"off", "step", "forced", "consume", "apply", "ack", "failed"}
Loops == [at : LoopStates, item : Items \cup {None}]

(* An input that is queued has a position. *)
LEMMA PositionOf ==
  ASSUME NEW q \in Queues, NEW i \in Queued(q)
  PROVE  Position(q, i) \in DOMAIN q.items /\ q.items[Position(q, i)] = i
<1>1. \E k \in DOMAIN q.items : q.items[k] = i
  BY DEF Queued, ToSet
<1> QED
  BY <1>1 DEF Position

(* The inputs without the one that leaves. *)
LEMMA TakenOut ==
  ASSUME NEW q \in Queues, Valid(q), NEW i \in Queued(q)
  PROVE  LET t == RemoveAt(q.items, Position(q, i)) IN
         /\ t \in Seq(Items) /\ Len(t) = Len(q.items) - 1 /\ IsInjective(t)
         /\ ToSet(t) = ToSet(q.items) \ {i}
<1>1. q.items \in Seq(Items)
  BY DEF Queues
<1> QED
  BY <1>1, PositionOf, RemoveAtSet DEF Valid

(* Removing an input takes it, and nothing else, off the queue. *)
LEMMA RemovedQueue ==
  ASSUME NEW q \in Queues, Valid(q), NEW i \in Queued(q)
  PROVE  /\ Removed(q, i) \in Queues /\ Valid(Removed(q, i))
         /\ Queued(Removed(q, i)) = Queued(q) \ {i}
         /\ Removed(q, i).delivery = q.delivery
<1> DEFINE t == RemoveAt(q.items, Position(q, i))
<1>1. q.items \in Seq(Items) /\ Len(q.items) \in Nat
  BY DEF Queues
<1>2. /\ t \in Seq(Items) /\ Len(t) = Len(q.items) - 1 /\ IsInjective(t)
      /\ ToSet(t) = ToSet(q.items) \ {i}
  BY TakenOut
<1>0. Removed(q, i) = [q EXCEPT !.items = t, !.force = IF q.force = i THEN None ELSE q.force]
  BY DEF Removed
<1> HIDE DEF t
<1>3. Removed(q, i) = [items |-> t, force |-> IF q.force = i THEN None ELSE q.force,
                       delivery |-> q.delivery]
  BY <1>0 DEF Queues
<1>4. Removed(q, i) \in Queues
  BY <1>2, <1>3 DEF Queues
<1>5. Len(t) <= MaxQueue
  BY <1>1, <1>2, ConstantsAssumption DEF Valid
<1> QED
  BY <1>2, <1>3, <1>4, <1>5 DEF Valid, Queued

(* Moving an input changes the order only. *)
LEMMA MovedQueue ==
  ASSUME NEW q \in Queues, Valid(q), NEW i \in Queued(q), NEW to \in DOMAIN q.items
  PROVE  /\ Moved(q, i, to) \in Queues /\ Valid(Moved(q, i, to))
         /\ Queued(Moved(q, i, to)) = Queued(q)
         /\ Moved(q, i, to).delivery = q.delivery
<1> DEFINE t == RemoveAt(q.items, Position(q, i))
<1>1. q.items \in Seq(Items) /\ Len(q.items) \in Nat /\ to \in 1 .. Len(q.items)
  BY LenProperties DEF Queues
<1>2. /\ t \in Seq(Items) /\ Len(t) = Len(q.items) - 1 /\ IsInjective(t)
      /\ ToSet(t) = ToSet(q.items) \ {i}
  BY TakenOut
<1>3. i \in Items
  BY <1>1, PositionOf, LenProperties, ElementOfSeq
<1> HIDE DEF t
<1> DEFINE u == InsertAt(t, to, i)
<1>4. i \in Items \ ToSet(t) /\ to \in 1 .. Len(t) + 1
  BY <1>1, <1>2, <1>3
<1>5. /\ u \in Seq(Items) /\ Len(u) = Len(t) + 1 /\ IsInjective(u)
      /\ ToSet(u) = ToSet(t) \cup {i}
  BY <1>2, <1>4, InsertAtSet
<1>6. ToSet(u) = ToSet(q.items) /\ Len(u) = Len(q.items)
  BY <1>1, <1>2, <1>5 DEF Queued
<1>7. Moved(q, i, to) = [items |-> u, force |-> q.force, delivery |-> q.delivery]
  BY DEF Moved, Queues, t
<1> HIDE DEF u
<1>8. Moved(q, i, to) \in Queues
  BY <1>5, <1>7 DEF Queues
<1> QED
  BY <1>5, <1>6, <1>7, <1>8 DEF Valid, Queued

(* What EnqueueItem makes of the queue. *)
Enqueued(q, i) == [q EXCEPT !.items = Append(@, i)]

(* Enqueuing adds the input. *)
LEMMA EnqueuedQueue ==
  ASSUME NEW q \in Queues, Valid(q), NEW i \in Items \ Queued(q), Len(q.items) < MaxQueue
  PROVE  /\ Enqueued(q, i) \in Queues /\ Valid(Enqueued(q, i))
         /\ Queued(Enqueued(q, i)) = Queued(q) \cup {i}
         /\ Enqueued(q, i).delivery = q.delivery
<1> DEFINE u == Append(q.items, i)
<1>1. q.items \in Seq(Items) /\ Len(q.items) \in Nat
  BY DEF Queues
<1>2. /\ u \in Seq(Items) /\ Len(u) = Len(q.items) + 1 /\ IsInjective(u)
      /\ ToSet(u) = ToSet(q.items) \cup {i}
  BY <1>1, AppendSet DEF Valid, Queued
<1>3. Enqueued(q, i) = [items |-> u, force |-> q.force, delivery |-> q.delivery]
  BY DEF Queues, Enqueued
<1> HIDE DEF u
<1>4. Enqueued(q, i) \in Queues
  BY <1>2, <1>3 DEF Queues
<1>5. Len(u) <= MaxQueue
  BY <1>1, <1>2, ConstantsAssumption
<1> QED
  BY <1>2, <1>3, <1>4, <1>5 DEF Valid, Queued

(* Consuming an input turns it into the delivery. *)
LEMMA ConsumedQueue ==
  ASSUME NEW q \in Queues, Valid(q), NEW i \in Queued(q), NEW r \in Runs
  PROVE  /\ Consumed(q, i, r) \in Queues /\ Valid(Consumed(q, i, r))
         /\ Queued(Consumed(q, i, r)) = Queued(q) \ {i}
         /\ Consumed(q, i, r).delivery = [run |-> r, item |-> i]
<1>1. i \in Items
  BY PositionOf, LenProperties, ElementOfSeq DEF Queues
<1> DEFINE p == Removed(q, i)
<1>2. p \in Queues /\ Valid(p) /\ Queued(p) = Queued(q) \ {i}
  BY RemovedQueue
<1> HIDE DEF p
<1>3. Consumed(q, i, r) = [items |-> p.items, force |-> p.force,
                           delivery |-> [run |-> r, item |-> i]]
  BY <1>2 DEF Consumed, Queues, p
<1>4. Consumed(q, i, r) \in Queues
  BY <1>1, <1>2, <1>3 DEF Queues
<1> QED
  BY <1>2, <1>3, <1>4 DEF Valid, Queued

(* An empty queue. *)
LEMMA EmptyQueue ==
  ASSUME NEW p, p = [items |-> <<>>, force |-> None, delivery |-> NoDelivery]
  PROVE  p \in Queues /\ Valid(p) /\ Queued(p) = {} /\ p.delivery = NoDelivery
<1>1. <<>> \in Seq(Items) /\ Len(<<>>) = 0
  BY EmptySeq
<1>2. DOMAIN p.items = {}
  BY <1>1, LenProperties
<1>3. p \in Queues
  BY <1>1 DEF Queues
<1> QED
  BY <1>1, <1>2, <1>3, ConstantsAssumption DEF Valid, Queued, ToSet, IsInjective

(* The runs when one of them has another status. *)
WithStatus(f, r, st) == [f EXCEPT ![r].status = st]

(* A status says nothing about the input of a run. *)
LEMMA StatusSet ==
  ASSUME NEW f \in RunDocuments, NEW r \in Runs, NEW st \in Statuses
  PROVE  /\ WithStatus(f, r, st) \in RunDocuments
         /\ \A s \in Runs :
              /\ WithStatus(f, r, st)[s].item = f[s].item
              /\ WithStatus(f, r, st)[s].status = IF s = r THEN st ELSE f[s].status
<1>1. WithStatus(f, r, st) =
        [s \in Runs |-> IF s = r THEN [f[r] EXCEPT !.status = st] ELSE f[s]]
  BY DEF RunDocuments, WithStatus
<1>2. [f[r] EXCEPT !.status = st] = [status |-> st, item |-> f[r].item]
  BY DEF RunDocuments
<1> QED
  BY <1>1, <1>2 DEF RunDocuments

(* What an admission writes. *)
LEMMA AdmissionSets ==
  ASSUME runs \in RunDocuments, NEW r \in Runs, NEW i \in Items \cup {None}, Admitted(r, i)
  PROVE  /\ runs' \in RunDocuments /\ active' = r
         /\ runs'[r].item = i /\ runs'[r].status = "queued"
         /\ \A s \in Runs \ {r} : runs'[s] = runs[s]
BY DEF Admitted, RunDocuments, Statuses

(* What a move of a dispatcher writes. *)
LEMMA TaskSets ==
  ASSUME tasks \in Tasks, NEW d \in Dispatchers, NEW at \in TaskStates,
         NEW i \in Items \cup {None}, NEW r \in Runs \cup {None}, TaskMoves(d, at, i, r)
  PROVE  /\ tasks' \in Tasks
         /\ tasks'[d] = [at |-> at, item |-> i, run |-> r]
         /\ \A e \in Dispatchers \ {d} : tasks'[e] = tasks[e]
BY DEF TaskMoves, Tasks

(*----------------------- What the steps leave alone ---------------------*)
(* The shapes TypeOK gives to the structured variables. *)
LEMMA Shapes ==
  TypeOK => /\ queue \in Queues /\ Valid(queue) /\ queue.delivery.item \notin Queued(queue)
            /\ runs \in RunDocuments /\ tasks \in Tasks /\ loop \in Loops
BY DEF TypeOK, Queues, RunDocuments, Tasks, Loops, Statuses, TaskStates, LoopStates

(* And back. *)
LEMMA ShapesSuffice ==
  ASSUME queue \in Queues, Valid(queue), queue.delivery.item \notin Queued(queue),
         active \in Runs \cup {None}, runs \in RunDocuments,
         fence \in BOOLEAN, stopping \in BOOLEAN,
         forcing \in BOOLEAN, recovered \in BOOLEAN,
         saved \subseteq Runs \X Items, cached \subseteq Runs \X Items,
         owner \in Runs \cup {None}, loop \in Loops, tasks \in Tasks,
         last \in {"none", "completed", "failed", "interrupted"},
         enqueued \subseteq Items, discarded \subseteq Items, faults \in 0 .. MaxFaults
  PROVE  TypeOK
BY DEF TypeOK, Queues, RunDocuments, Tasks, Loops, Statuses, TaskStates, LoopStates

(* A delivery names a run and an input, neither of which is None. *)
LEMMA DeliveryNames ==
  ASSUME NEW q \in Queues
  PROVE  /\ q.delivery # NoDelivery => q.delivery.run \in Runs /\ q.delivery.item \in Items
         /\ q.delivery = NoDelivery => q.delivery.run = None /\ q.delivery.item = None
         /\ q.delivery = [run |-> q.delivery.run, item |-> q.delivery.item]
BY ConstantsAssumption DEF Queues, NoDelivery

(* The queue, the runs and the messages, with what was accepted and what *)
(* was taken back.                                                       *)
ledger == <<queue, runs, saved, cached, enqueued, discarded>>

(* The steps that change neither. *)
Quiet ==
  \/ Interrupt \/ ConfirmStop
  \/ LoopReadsForce \/ LoopSnapshot \/ LoopConsumeRefused \/ LoopCallLost
  \/ PickForGoal \/ \E forced \in BOOLEAN : PickQueued(forced)
  \/ \E d \in Dispatchers : DispatchRefused(d) \/ Launch(d) \/ LaunchReused(d)
  \/ UNCHANGED vars

(* What these steps keep. *)
LEMMA QuietKeeps == Quiet => UNCHANGED ledger
BY DEF Quiet, ledger, Interrupt, ConfirmStop, LoopReadsForce, LoopSnapshot, LoopConsumeRefused,
       LoopCallLost, PickForGoal, PickQueued, DispatchRefused, Launch, LaunchReused, vars,
       sidecar, host, history

(* The steps that change the status of a run and nothing else of these. *)
StatusStep == Activate \/ Finish \/ Recover

(* No run becomes new again, or changes its input. *)
LEMMA StatusKeeps ==
  ASSUME TypeOK, StatusStep
  PROVE  /\ UNCHANGED <<queue, saved, cached, enqueued, discarded>>
         /\ runs' \in RunDocuments
         /\ \A r \in Runs : /\ runs'[r].item = runs[r].item
                            /\ runs'[r].status = "new" => runs[r].status = "new"
<1>1. runs \in RunDocuments /\ owner \in Runs \cup {None} /\ active \in Runs \cup {None}
  BY Shapes DEF TypeOK
<1>2. ASSUME NEW r \in Runs, NEW st \in {"running", "ended"},
             runs' = WithStatus(runs, r, st)
      PROVE  /\ runs' \in RunDocuments
             /\ \A s \in Runs : /\ runs'[s].item = runs[s].item
                                /\ runs'[s].status = "new" => runs[s].status = "new"
  <2>1. st \in Statuses /\ st # "new"
    BY DEF Statuses
  <2> QED
    BY <1>1, <1>2, <2>1, StatusSet
<1>3. CASE Activate
  <2>1. /\ UNCHANGED <<queue, saved, cached, enqueued, discarded>> /\ owner \in Runs
        /\ runs' = WithStatus(runs, owner, "running")
    BY <1>1, <1>3 DEF Activate, history, WithStatus
  <2> QED
    BY <1>1, <1>2, <2>1
<1>4. CASE Finish
  <2>1. /\ UNCHANGED <<queue, saved, cached, enqueued, discarded>> /\ owner \in Runs
        /\ runs' = WithStatus(runs, owner, "ended")
    BY <1>1, <1>4 DEF Finish, history, WithStatus
  <2> QED
    BY <1>1, <1>2, <2>1
<1>5. CASE Recover
  <2>1. /\ UNCHANGED <<queue, saved, cached, enqueued, discarded>>
        /\ \/ runs' = runs
           \/ active \in Runs /\ runs' = WithStatus(runs, active, "ended")
    BY <1>1, <1>5 DEF Recover, history, WithStatus
  <2> QED
    BY <1>1, <1>2, <2>1
<1> QED
  BY <1>3, <1>4, <1>5 DEF StatusStep

(* What the commands on the queue leave of it. *)
LEMMA QueueEffects ==
  ASSUME TypeOK
  PROVE  /\ \A i \in Items : EnqueueItem(i) /\ Queued(queue) \subseteq enqueued =>
              /\ queue' \in Queues /\ Valid(queue') /\ UNCHANGED queue.delivery
              /\ Queued(queue') = Queued(queue) \cup {i}
         /\ \A i \in Items : RemoveItem(i) =>
              /\ queue' \in Queues /\ Valid(queue') /\ UNCHANGED queue.delivery
              /\ Queued(queue') = Queued(queue) \ {i}
         /\ \A i \in Items, to \in 1 .. MaxQueue : MoveItem(i, to) =>
              /\ queue' \in Queues /\ Valid(queue') /\ UNCHANGED queue.delivery
              /\ Queued(queue') = Queued(queue)
         /\ \A i \in Items : MarkForceInject(i) =>
              /\ queue' \in Queues /\ Valid(queue') /\ UNCHANGED queue.delivery
              /\ Queued(queue') = Queued(queue)
         /\ Restore =>
              /\ queue' \in Queues /\ Valid(queue') /\ queue'.delivery = NoDelivery
              /\ Queued(queue') = {}
         /\ LoopConsume /\ owner # None /\ loop.item # None =>
              /\ queue' \in Queues /\ Valid(queue')
              /\ queue'.delivery = [run |-> owner, item |-> loop.item]
              /\ loop.item \in Queued(queue)
              /\ Queued(queue') = Queued(queue) \ {loop.item}
         /\ LoopAcknowledge =>
              /\ queue' \in Queues /\ Valid(queue') /\ queue'.delivery = NoDelivery
              /\ Queued(queue') = Queued(queue)
         /\ \A d \in Dispatchers, r \in Runs : DispatchAdmit(d, r) =>
              /\ queue' \in Queues /\ Valid(queue') /\ UNCHANGED queue.delivery
              /\ tasks[d].item \in Queued(queue)
              /\ Queued(queue') = Queued(queue) \ {tasks[d].item}
<1> USE Shapes
<1>1. ASSUME NEW i \in Items, EnqueueItem(i), Queued(queue) \subseteq enqueued
      PROVE  /\ queue' \in Queues /\ Valid(queue') /\ UNCHANGED queue.delivery
             /\ Queued(queue') = Queued(queue) \cup {i}
  <2>1. /\ queue' = Enqueued(queue, i) /\ i \in Items \ Queued(queue)
        /\ Len(queue.items) < MaxQueue
    BY <1>1 DEF EnqueueItem, Enqueued
  <2> QED
    BY <2>1, EnqueuedQueue
<1>2. ASSUME NEW i \in Items, RemoveItem(i)
      PROVE  /\ queue' \in Queues /\ Valid(queue') /\ UNCHANGED queue.delivery
             /\ Queued(queue') = Queued(queue) \ {i}
  BY <1>2, RemovedQueue DEF RemoveItem
<1>3. ASSUME NEW i \in Items, NEW to \in 1 .. MaxQueue, MoveItem(i, to)
      PROVE  /\ queue' \in Queues /\ Valid(queue') /\ UNCHANGED queue.delivery
             /\ Queued(queue') = Queued(queue)
  BY <1>3, MovedQueue DEF MoveItem
<1>4. ASSUME NEW i \in Items, MarkForceInject(i)
      PROVE  /\ queue' \in Queues /\ Valid(queue') /\ UNCHANGED queue.delivery
             /\ Queued(queue') = Queued(queue)
  <2>1. i \in Queued(queue) /\ queue' = [queue EXCEPT !.force = i]
    BY <1>4 DEF MarkForceInject
  <2>2. queue' = [items |-> queue.items, force |-> i, delivery |-> queue.delivery]
    BY <2>1 DEF Queues
  <2>3. queue' \in Queues
    BY <2>2 DEF Queues
  <2> QED
    BY <2>1, <2>2, <2>3 DEF Valid, Queued
<1>5. ASSUME Restore
      PROVE  /\ queue' \in Queues /\ Valid(queue') /\ queue'.delivery = NoDelivery
             /\ Queued(queue') = {}
  BY <1>5, EmptyQueue DEF Restore
<1>6. ASSUME LoopConsume, owner # None, loop.item # None
      PROVE  /\ queue' \in Queues /\ Valid(queue')
             /\ queue'.delivery = [run |-> owner, item |-> loop.item]
             /\ loop.item \in Queued(queue)
             /\ Queued(queue') = Queued(queue) \ {loop.item}
  <2>1. /\ queue' = Consumed(queue, loop.item, owner) /\ queue.force = loop.item
        /\ owner \in Runs
    BY <1>6 DEF LoopConsume, Consumable, TypeOK
  <2>2. loop.item \in Queued(queue)
    BY <1>6, <2>1 DEF Valid
  <2> QED
    BY <2>1, <2>2, ConsumedQueue
<1>7. ASSUME LoopAcknowledge
      PROVE  /\ queue' \in Queues /\ Valid(queue') /\ queue'.delivery = NoDelivery
             /\ Queued(queue') = Queued(queue)
  <2>1. queue' = [queue EXCEPT !.delivery = NoDelivery]
    BY <1>7 DEF LoopAcknowledge
  <2>2. queue' = [items |-> queue.items, force |-> queue.force, delivery |-> NoDelivery]
    BY <2>1 DEF Queues
  <2>3. queue' \in Queues
    BY <2>2 DEF Queues
  <2> QED
    BY <2>2, <2>3 DEF Valid, Queued
<1>8. ASSUME NEW d \in Dispatchers, NEW r \in Runs, DispatchAdmit(d, r)
      PROVE  /\ queue' \in Queues /\ Valid(queue') /\ UNCHANGED queue.delivery
             /\ tasks[d].item \in Queued(queue)
             /\ Queued(queue') = Queued(queue) \ {tasks[d].item}
  BY <1>8, RemovedQueue DEF DispatchAdmit
<1> QED
  BY <1>1, <1>2, <1>3, <1>4, <1>5, <1>6, <1>7, <1>8

(*------------------------------- Types ----------------------------------*)
(* The steps that touch the queue. *)
QueueCommand ==
  \/ \E i \in Items : EnqueueItem(i) \/ RemoveItem(i) \/ MarkForceInject(i)
  \/ \E i \in Items, to \in 1 .. MaxQueue : MoveItem(i, to)
  \/ Restore
  \/ LoopConsume \/ LoopAcknowledge
  \/ \E d \in Dispatchers, r \in Runs : DispatchAdmit(d, r)

(* Every step is one of these. *)
LEMMA StepKinds ==
  [Next]_vars => \/ QueueCommand \/ Quiet \/ StatusStep
                 \/ \E r \in Runs : Submit(r)
                 \/ HostDies \/ HostFlush \/ LoopApply
BY DEF Next, UserStep, LoopStep, HostStep, Fault, QueueCommand, Quiet, StatusStep

(* The other steps leave the queue alone. *)
LEMMA QueueUnchanged ==
  Quiet \/ StatusStep \/ (\E r \in Runs : Submit(r)) \/ HostDies \/ HostFlush \/ LoopApply
    => UNCHANGED queue
BY QuietKeeps DEF ledger, StatusStep, Activate, Finish, Recover, Submit, HostDies, HostFlush,
                  LoopApply, sidecar

(* The queue keeps its type, `validate' accepts it, and what is delivered *)
(* is not queued.                                                         *)
LEMMA QueueType ==
  ASSUME TypeOK, Accounted, LoopInStep, [Next]_vars
  PROVE  queue' \in Queues /\ Valid(queue') /\ queue'.delivery.item \notin Queued(queue')
<1>1. /\ queue \in Queues /\ Valid(queue) /\ queue.delivery.item \notin Queued(queue)
      /\ Queued(queue) \subseteq enqueued /\ queue.delivery.item \in enqueued \cup {None}
  BY Shapes DEF Accounted
<1>2. None \notin Items /\ Queued(queue) \subseteq Items
  BY <1>1, ConstantsAssumption DEF TypeOK, Accounted
<1>3. ASSUME NEW i \in Items, EnqueueItem(i)
      PROVE  queue' \in Queues /\ Valid(queue') /\ queue'.delivery.item \notin Queued(queue')
  <2>1. i \notin enqueued
    BY <1>3 DEF EnqueueItem
  <2> QED
    BY <1>1, <1>2, <1>3, <2>1, QueueEffects
<1>4. ASSUME NEW i \in Items, RemoveItem(i) \/ MarkForceInject(i)
      PROVE  queue' \in Queues /\ Valid(queue') /\ queue'.delivery.item \notin Queued(queue')
  BY <1>1, <1>4, QueueEffects
<1>5. ASSUME NEW i \in Items, NEW to \in 1 .. MaxQueue, MoveItem(i, to)
      PROVE  queue' \in Queues /\ Valid(queue') /\ queue'.delivery.item \notin Queued(queue')
  BY <1>1, <1>5, QueueEffects
<1>6. CASE Restore
  BY <1>6, QueueEffects
<1>7. CASE LoopConsume
  <2>1. owner # None /\ loop.item # None
    BY <1>7 DEF LoopConsume, LoopInStep
  <2> QED
    BY <1>7, <2>1, QueueEffects
<1>8. CASE LoopAcknowledge
  <2>1. queue' \in Queues /\ Valid(queue') /\ queue'.delivery = NoDelivery
        /\ Queued(queue') = Queued(queue)
    BY <1>8, QueueEffects
  <2> QED
    BY <1>2, <2>1 DEF NoDelivery
<1>9. ASSUME NEW d \in Dispatchers, NEW r \in Runs, DispatchAdmit(d, r)
      PROVE  queue' \in Queues /\ Valid(queue') /\ queue'.delivery.item \notin Queued(queue')
  BY <1>1, <1>9, QueueEffects
<1>10. CASE UNCHANGED queue
  BY <1>1, <1>10
<1> QED
  BY <1>3, <1>4, <1>5, <1>6, <1>7, <1>8, <1>9, <1>10, StepKinds, QueueUnchanged DEF QueueCommand

(* The run documents keep their type. *)
LEMMA RunsType ==
  ASSUME TypeOK, [Next]_vars
  PROVE  runs' \in RunDocuments
<1>1. runs \in RunDocuments /\ tasks \in Tasks
  BY Shapes
<1>2. CASE StatusStep
  BY <1>2, StatusKeeps
<1>3. ASSUME NEW r \in Runs, Submit(r)
      PROVE  runs' \in RunDocuments
  BY <1>1, <1>3, AdmissionSets DEF Submit
<1>4. ASSUME NEW d \in Dispatchers, NEW r \in Runs, DispatchAdmit(d, r)
      PROVE  runs' \in RunDocuments
  <2>1. Admitted(r, tasks[d].item) /\ tasks[d].item \in Items \cup {None}
    BY <1>1, <1>4 DEF DispatchAdmit, Tasks
  <2> QED
    BY <1>1, <2>1, AdmissionSets
<1>5. CASE UNCHANGED runs
  BY <1>1, <1>5
<1>6. \/ StatusStep \/ (\E r \in Runs : Submit(r))
      \/ (\E d \in Dispatchers, r \in Runs : DispatchAdmit(d, r))
      \/ UNCHANGED runs
  BY StepKinds, QuietKeeps
     DEF ledger, QueueCommand, EnqueueItem, RemoveItem, MarkForceInject, MoveItem, Restore,
         LoopConsume, LoopAcknowledge, HostDies, HostFlush, LoopApply, sidecar
<1> QED
  BY <1>2, <1>3, <1>4, <1>5, <1>6

(* The dispatchers keep their type. *)
LEMMA TasksType ==
  ASSUME TypeOK, [Next]_vars
  PROVE  tasks' \in Tasks
<1>1. /\ tasks \in Tasks /\ queue \in Queues /\ queue.items \in Seq(Items)
      /\ queue.force \in Items \cup {None}
      /\ {"queue", "goal"} \subseteq Dispatchers
      /\ {"idle", "picked", "admitted"} \subseteq TaskStates
  BY Shapes DEF Queues, Dispatchers, TaskStates
<1>2. ASSUME NEW forced \in BOOLEAN, PickQueued(forced)
      PROVE  tasks' \in Tasks
  <2>1. Head(queue.items) \in Items
    BY <1>1, <1>2, HeadTailProperties DEF PickQueued
  <2> QED
    BY <1>1, <1>2, <2>1, TaskSets DEF PickQueued, TaskMoves, Tasks
<1>3. CASE PickForGoal
  BY <1>1, <1>3, TaskSets DEF PickForGoal, TaskMoves, Tasks
<1>4. ASSUME NEW d \in Dispatchers, NEW r \in Runs, DispatchAdmit(d, r)
      PROVE  tasks' \in Tasks
  <2>1. TaskMoves(d, "admitted", tasks[d].item, r) /\ tasks[d].item \in Items \cup {None}
    BY <1>1, <1>4 DEF DispatchAdmit, Tasks
  <2> QED
    BY <1>1, <2>1, TaskSets
<1>5. ASSUME NEW d \in Dispatchers, DispatchRefused(d) \/ Launch(d) \/ LaunchReused(d)
      PROVE  tasks' \in Tasks
  BY <1>1, <1>5, TaskSets DEF DispatchRefused, Launch, LaunchReused
<1>6. CASE HostDies
  BY <1>1, <1>6 DEF HostDies, Tasks
<1>7. CASE UNCHANGED tasks
  BY <1>1, <1>7
<1>8. \/ \E forced \in BOOLEAN : PickQueued(forced)
      \/ PickForGoal
      \/ \E d \in Dispatchers, r \in Runs : DispatchAdmit(d, r)
      \/ \E d \in Dispatchers : DispatchRefused(d) \/ Launch(d) \/ LaunchReused(d)
      \/ HostDies \/ UNCHANGED tasks
  BY DEF Next, UserStep, LoopStep, HostStep, Fault, EnqueueItem, RemoveItem, MoveItem,
         MarkForceInject, Restore, Interrupt, Submit, LoopReadsForce, LoopSnapshot, LoopConsume,
         LoopConsumeRefused, LoopApply, HostFlush, LoopAcknowledge, Activate, Finish,
         ConfirmStop, Recover, LoopCallLost, vars, host
<1> QED
  BY <1>2, <1>3, <1>4, <1>5, <1>6, <1>7, <1>8

(* The turn keeps its type. *)
LEMMA LoopType ==
  ASSUME TypeOK, LoopInStep, [Next]_vars
  PROVE  loop' \in Loops
<1>1. loop \in Loops /\ queue \in Queues /\ owner \in Runs \cup {None}
  BY Shapes DEF TypeOK
<1>2. ASSUME NEW at \in LoopStates, NEW i \in Items \cup {None},
             loop' = [at |-> at, item |-> i]
      PROVE  loop' \in Loops
  BY <1>2 DEF Loops
<1>3. CASE Activate \/ Finish \/ HostDies
  BY <1>2, <1>3 DEF Activate, Finish, HostDies, LoopStates
<1>4. CASE LoopReadsForce
  <2>1. PICK i \in Items : loop' = [at |-> "forced", item |-> i]
    BY <1>1, <1>4 DEF LoopReadsForce, Queues, NoDelivery
  <2> QED
    BY <2>1, <1>2 DEF LoopStates
<1>5. ASSUME NEW at \in LoopStates, loop' = [loop EXCEPT !.at = at]
      PROVE  loop' \in Loops
  BY <1>1, <1>5 DEF Loops
<1>6. CASE LoopSnapshot
  <2>1. queue.delivery.item \in Items \cup {None}
    BY <1>1, DeliveryNames
  <2> QED
    BY <1>2, <1>5, <1>6, <2>1 DEF LoopSnapshot, LoopStates
<1>7. CASE LoopConsume \/ LoopAcknowledge
  <2>1. loop.item \in Items \cup {None}
    BY <1>1 DEF Loops
  <2> QED
    BY <1>2, <1>5, <1>7, <2>1
       DEF LoopConsume, LoopAcknowledge, CallReturns, CallFails, LoopStates
<1>8. CASE LoopConsumeRefused \/ LoopApply \/ LoopCallLost
  BY <1>5, <1>8 DEF LoopConsumeRefused, LoopApply, LoopCallLost, CallFails, LoopStates
<1>9. CASE UNCHANGED loop
  BY <1>1, <1>9
<1>10. \/ Activate \/ Finish \/ HostDies \/ LoopReadsForce \/ LoopSnapshot
       \/ LoopConsume \/ LoopAcknowledge \/ LoopConsumeRefused \/ LoopApply \/ LoopCallLost
       \/ UNCHANGED loop
  BY DEF Next, UserStep, LoopStep, HostStep, Fault, EnqueueItem, RemoveItem, MoveItem,
         MarkForceInject, Restore, Interrupt, Submit, HostFlush, ConfirmStop, Recover,
         PickForGoal, PickQueued, DispatchAdmit, DispatchRefused, Launch, LaunchReused,
         vars, host
<1> QED
  BY <1>3, <1>4, <1>6, <1>7, <1>8, <1>9, <1>10

(* The other variables keep their types. *)
LEMMA OtherTypes ==
  ASSUME TypeOK, LoopInStep, [Next]_vars
  PROVE  /\ active' \in Runs \cup {None} /\ owner' \in Runs \cup {None}
         /\ fence' \in BOOLEAN /\ stopping' \in BOOLEAN
         /\ forcing' \in BOOLEAN /\ recovered' \in BOOLEAN
         /\ saved' \subseteq Runs \X Items /\ cached' \subseteq Runs \X Items
         /\ last' \in {"none", "completed", "failed", "interrupted"}
         /\ enqueued' \subseteq Items /\ discarded' \subseteq Items
         /\ faults' \in 0 .. MaxFaults
<1> USE DEF TypeOK
<1>1. active' \in Runs \cup {None}
  BY DEF Next, UserStep, LoopStep, HostStep, Fault, EnqueueItem, RemoveItem, MoveItem,
         MarkForceInject, Restore, Interrupt, Submit, Admitted, HostFlush, ConfirmStop, Recover,
         PickForGoal, PickQueued, DispatchAdmit, DispatchRefused, Launch, LaunchReused,
         Activate, Finish, HostDies, LoopReadsForce, LoopSnapshot, LoopConsume,
         LoopAcknowledge, LoopConsumeRefused, LoopApply, LoopCallLost, vars, sidecar
<1>2. owner' \in Runs \cup {None}
  <2>1. \A d \in Dispatchers : tasks[d].run \in Runs \cup {None}
    BY Shapes DEF Tasks
  <2> QED
    BY <2>1 DEF Next, UserStep, LoopStep, HostStep, Fault, EnqueueItem, RemoveItem, MoveItem,
         MarkForceInject, Restore, Interrupt, Submit, HostFlush, ConfirmStop, Recover,
         PickForGoal, PickQueued, DispatchAdmit, DispatchRefused, Launch, LaunchReused,
         Activate, Finish, HostDies, LoopReadsForce, LoopSnapshot, LoopConsume,
         LoopAcknowledge, LoopConsumeRefused, LoopApply, LoopCallLost, vars, host
<1>3. /\ fence' \in BOOLEAN /\ stopping' \in BOOLEAN
      /\ forcing' \in BOOLEAN /\ recovered' \in BOOLEAN
  BY DEF Next, UserStep, LoopStep, HostStep, Fault, EnqueueItem, RemoveItem, MoveItem,
         MarkForceInject, Restore, Interrupt, Submit, HostFlush, ConfirmStop, Recover,
         PickForGoal, PickQueued, DispatchAdmit, DispatchRefused, Launch, LaunchReused,
         Activate, Finish, HostDies, LoopReadsForce, LoopSnapshot, LoopConsume,
         LoopAcknowledge, LoopConsumeRefused, LoopApply, LoopCallLost, vars, host, sidecar
<1>4. saved' \subseteq Runs \X Items /\ cached' \subseteq Runs \X Items
  <2>1. CASE LoopApply
    <3>1. owner \in Runs /\ loop.item \in Items
      <4>1. owner # None /\ queue.delivery = [run |-> owner, item |-> loop.item]
        BY <2>1 DEF LoopApply, LoopInStep
      <4>2. queue \in Queues
        BY Shapes
      <4>3. queue.delivery # NoDelivery
        BY <4>1 DEF NoDelivery
      <4> QED
        BY <4>1, <4>2, <4>3, DeliveryNames
    <3> QED
      BY <2>1, <3>1 DEF LoopApply, sidecar
  <2>2. CASE HostFlush
    BY <2>2 DEF HostFlush
  <2>3. CASE HostDies
    BY <2>3 DEF HostDies, sidecar
  <2>4. CASE UNCHANGED <<saved, cached>>
    BY <2>4
  <2>5. LoopApply \/ HostFlush \/ HostDies \/ UNCHANGED <<saved, cached>>
    BY DEF Next, UserStep, LoopStep, HostStep, Fault, EnqueueItem, RemoveItem, MoveItem,
         MarkForceInject, Restore, Interrupt, Submit, ConfirmStop, Recover,
         PickForGoal, PickQueued, DispatchAdmit, DispatchRefused, Launch, LaunchReused,
         Activate, Finish, LoopReadsForce, LoopSnapshot, LoopConsume,
         LoopAcknowledge, LoopConsumeRefused, LoopCallLost, vars, host, sidecar
  <2> QED
    BY <2>1, <2>2, <2>3, <2>4, <2>5
<1>5. last' \in {"none", "completed", "failed", "interrupted"}
  BY DEF Next, UserStep, LoopStep, HostStep, Fault, EnqueueItem, RemoveItem, MoveItem,
         MarkForceInject, Restore, Interrupt, Submit, HostFlush, ConfirmStop, Recover,
         PickForGoal, PickQueued, DispatchAdmit, DispatchRefused, Launch, LaunchReused,
         Activate, Finish, HostDies, LoopReadsForce, LoopSnapshot, LoopConsume,
         LoopAcknowledge, LoopConsumeRefused, LoopApply, LoopCallLost, vars, host
<1>6. enqueued' \subseteq Items /\ discarded' \subseteq Items
  <2>1. Queued(queue) \subseteq Items /\ queue.delivery.item \in Items \cup {None}
    <3>1. queue \in Queues /\ queue.items \in Seq(Items)
      BY Shapes DEF Queues
    <3>2. Queued(queue) \subseteq Items
      BY <3>1, LenProperties, ElementOfSeq DEF Queued, ToSet
    <3> QED
      BY <3>1, <3>2, DeliveryNames
  <2> QED
    BY <2>1 DEF Next, UserStep, LoopStep, HostStep, Fault, EnqueueItem, RemoveItem, MoveItem,
         MarkForceInject, Restore, Interrupt, Submit, HostFlush, ConfirmStop, Recover,
         PickForGoal, PickQueued, DispatchAdmit, DispatchRefused, Launch, LaunchReused,
         Activate, Finish, HostDies, LoopReadsForce, LoopSnapshot, LoopConsume,
         LoopAcknowledge, LoopConsumeRefused, LoopApply, LoopCallLost, vars, history
<1>7. faults' \in 0 .. MaxFaults
  BY ConstantsAssumption
     DEF Next, UserStep, LoopStep, HostStep, Fault, EnqueueItem, RemoveItem, MoveItem,
         MarkForceInject, Restore, Interrupt, Submit, HostFlush, ConfirmStop, Recover,
         PickForGoal, PickQueued, DispatchAdmit, DispatchRefused, Launch, LaunchReused,
         Activate, Finish, HostDies, LoopReadsForce, LoopSnapshot, LoopConsume,
         LoopAcknowledge, LoopConsumeRefused, LoopApply, LoopCallLost, vars, history,
         CallReturns, CallFails
<1> QED
  BY <1>1, <1>2, <1>3, <1>4, <1>5, <1>6, <1>7

(* Every step keeps the types. *)
LEMMA TypeStep == TypeOK /\ Accounted /\ LoopInStep /\ [Next]_vars => TypeOK'
<1> SUFFICES ASSUME TypeOK, Accounted, LoopInStep, [Next]_vars PROVE TypeOK'
  OBVIOUS
<1>1. queue' \in Queues /\ Valid(queue') /\ queue'.delivery.item \notin Queued(queue')
  BY QueueType
<1>2. runs' \in RunDocuments /\ tasks' \in Tasks /\ loop' \in Loops
  BY RunsType, TasksType, LoopType
<1> QED
  BY <1>1, <1>2, OtherTypes
     DEF TypeOK, Queues, RunDocuments, Tasks, Loops, Statuses, TaskStates, LoopStates

(*------------------------ Who does what at a time -----------------------*)
(* A run nobody admitted has no input. *)
LEMMA NewRunsStep == TypeOK /\ NewRunsEmpty /\ [Next]_vars => NewRunsEmpty'
<1> SUFFICES ASSUME TypeOK, NewRunsEmpty, [Next]_vars PROVE NewRunsEmpty'
  OBVIOUS
<1>1. runs \in RunDocuments /\ tasks \in Tasks
  BY Shapes
<1>2. CASE StatusStep
  BY <1>2, StatusKeeps DEF NewRunsEmpty
<1>3. ASSUME NEW r \in Runs, NEW i \in Items \cup {None}, Admitted(r, i)
      PROVE  NewRunsEmpty'
  <2>1. runs'[r].status = "queued" /\ \A s \in Runs \ {r} : runs'[s] = runs[s]
    BY <1>1, <1>3, AdmissionSets
  <2> QED
    BY <2>1 DEF NewRunsEmpty
<1>4. ASSUME NEW d \in Dispatchers, NEW r \in Runs, DispatchAdmit(d, r)
      PROVE  NewRunsEmpty'
  BY <1>1, <1>3, <1>4 DEF DispatchAdmit, Tasks
<1>5. ASSUME NEW r \in Runs, Submit(r)
      PROVE  NewRunsEmpty'
  BY <1>3, <1>5 DEF Submit
<1>6. CASE UNCHANGED runs
  BY <1>6 DEF NewRunsEmpty
<1>7. \/ StatusStep \/ (\E r \in Runs : Submit(r))
      \/ (\E d \in Dispatchers, r \in Runs : DispatchAdmit(d, r))
      \/ UNCHANGED runs
  BY StepKinds, QuietKeeps
     DEF ledger, QueueCommand, EnqueueItem, RemoveItem, MarkForceInject, MoveItem, Restore,
         LoopConsume, LoopAcknowledge, HostDies, HostFlush, LoopApply, sidecar
<1> QED
  BY <1>2, <1>4, <1>5, <1>6, <1>7

(* Who owns the session.  An admission finds no stop, for a stop holds the *)
(* fence, and so no owner; a launch follows an admission of this host.     *)
LEMMA OwnershipStep ==
  TypeOK /\ Ownership /\ AdmittedAlone /\ [Next]_vars => Ownership'
<1> SUFFICES ASSUME TypeOK, Ownership, AdmittedAlone, [Next]_vars PROVE Ownership'
  OBVIOUS
<1>0. CASE UNCHANGED <<active, fence, owner, stopping, recovered>>
  BY <1>0 DEF Ownership
<1>1. CASE Interrupt
  BY <1>1 DEF Interrupt, Ownership
<1>2. CASE ConfirmStop
  BY <1>2 DEF ConfirmStop, Ownership
<1>3. ASSUME NEW r \in Runs, Submit(r)
      PROVE  Ownership'
  BY <1>3, ConstantsAssumption DEF Submit, Admissible, Admitted, Ownership
<1>4. CASE Finish
  BY <1>4 DEF Finish, Ownership
<1>5. CASE HostDies
  BY <1>5 DEF HostDies, Ownership
<1>6. CASE Recover
  BY <1>6 DEF Recover, Ownership
<1>7. ASSUME NEW d \in Dispatchers, NEW r \in Runs, DispatchAdmit(d, r)
      PROVE  Ownership'
  BY <1>7 DEF DispatchAdmit, Admissible, Admitted, Ownership
<1>8. ASSUME NEW d \in Dispatchers, Launch(d) \/ LaunchReused(d)
      PROVE  Ownership'
  BY <1>8 DEF Launch, LaunchReused, Ownership, AdmittedAlone, sidecar
<1>9. \/ UNCHANGED <<active, fence, owner, stopping, recovered>>
      \/ Interrupt \/ ConfirmStop \/ (\E r \in Runs : Submit(r)) \/ Finish
      \/ HostDies \/ Recover
      \/ (\E d \in Dispatchers, r \in Runs : DispatchAdmit(d, r))
      \/ \E d \in Dispatchers : Launch(d) \/ LaunchReused(d)
  BY DEF Next, UserStep, LoopStep, HostStep, Fault, EnqueueItem, RemoveItem, MoveItem,
         MarkForceInject, Restore, HostFlush, PickForGoal, PickQueued, DispatchRefused,
         Activate, LoopReadsForce, LoopSnapshot, LoopConsume, LoopAcknowledge,
         LoopConsumeRefused, LoopApply, LoopCallLost, vars, host, sidecar
<1> QED
  BY <1>0, <1>1, <1>2, <1>3, <1>4, <1>5, <1>6, <1>7, <1>8, <1>9

(* One admission at a time waits for its launch. *)
LEMMA AdmittedStep ==
  TypeOK /\ Ownership /\ AdmittedAlone /\ [Next]_vars => AdmittedAlone'
<1> SUFFICES ASSUME TypeOK, Ownership, AdmittedAlone, [Next]_vars PROVE AdmittedAlone'
  OBVIOUS
<1>11. tasks \in Tasks /\ Dispatchers = {"queue", "goal"}
  BY Shapes DEF Dispatchers
<1>12. {"idle", "picked", "admitted"} \subseteq TaskStates
  BY DEF TaskStates
<1>13. ASSUME UNCHANGED <<active, owner, recovered>>,
             \A d \in Dispatchers : tasks'[d].at = "admitted" => tasks'[d] = tasks[d]
      PROVE  AdmittedAlone'
  BY <1>13 DEF AdmittedAlone
<1>0. CASE UNCHANGED <<active, owner, recovered, tasks>>
  BY <1>0 DEF AdmittedAlone
<1>1. CASE ConfirmStop
  BY <1>1 DEF ConfirmStop, AdmittedAlone
<1>2. ASSUME NEW r \in Runs, Submit(r)
      PROVE  AdmittedAlone'
  BY <1>2 DEF Submit, Admissible, AdmittedAlone
<1>3. CASE Finish
  BY <1>3 DEF Finish, AdmittedAlone
<1>4. CASE HostDies
  BY <1>4 DEF HostDies, AdmittedAlone
<1>5. CASE Recover
  BY <1>5 DEF Recover, AdmittedAlone
<1>6. ASSUME NEW d \in Dispatchers, NEW r \in Runs, DispatchAdmit(d, r)
      PROVE  AdmittedAlone'
  <2>1. /\ TaskMoves(d, "admitted", tasks[d].item, r) /\ active = None /\ recovered
        /\ active' = r /\ UNCHANGED <<owner, recovered>> /\ ~fence
    BY <1>6 DEF DispatchAdmit, Admissible, Admitted
  <2>2. /\ tasks' = [tasks EXCEPT ![d] = [at |-> "admitted", item |-> tasks[d].item, run |-> r]]
        /\ \A e \in Dispatchers : tasks[e].at # "admitted"
    BY <2>1 DEF TaskMoves, AdmittedAlone
  <2>3. owner = None
    BY <2>1 DEF Ownership
  <2>4. tasks'[d].run = r /\ \A e \in Dispatchers : tasks'[e].at = "admitted" => e = d
    BY <1>11, <2>2 DEF Tasks
  <2> QED
    BY <2>1, <2>3, <2>4, ConstantsAssumption DEF AdmittedAlone
<1>7. ASSUME NEW d \in Dispatchers, Launch(d) \/ LaunchReused(d)
      PROVE  AdmittedAlone'
  <2>1. tasks[d].at = "admitted" /\ TaskMoves(d, "idle", None, None)
    BY <1>7 DEF Launch, LaunchReused
  <2>2. \A e \in Dispatchers : tasks'[e].at # "admitted"
    BY <1>11, <2>1 DEF TaskMoves, AdmittedAlone, Tasks
  <2> QED
    BY <2>2 DEF AdmittedAlone
<1>8. ASSUME NEW d \in Dispatchers, DispatchRefused(d)
      PROVE  AdmittedAlone'
  <2>1. TaskMoves(d, "idle", None, None) /\ UNCHANGED <<active, owner, recovered>>
    BY <1>8 DEF DispatchRefused, sidecar
  <2>2. \A e \in Dispatchers : tasks'[e].at = "admitted" => tasks'[e] = tasks[e]
    BY <1>11, <2>1 DEF TaskMoves, Tasks
  <2> QED
    BY <1>13, <2>1, <2>2
<1>9. CASE PickForGoal \/ \E forced \in BOOLEAN : PickQueued(forced)
  <2>1. PICK d \in Dispatchers : \E i : TaskMoves(d, "picked", i, None)
    BY <1>9, <1>11 DEF PickForGoal, PickQueued
  <2>2. UNCHANGED <<active, owner, recovered>>
    BY <1>9 DEF PickForGoal, PickQueued, sidecar
  <2>3. \A e \in Dispatchers : tasks'[e].at = "admitted" => tasks'[e] = tasks[e]
    BY <1>11, <2>1 DEF TaskMoves, Tasks
  <2> QED
    BY <1>13, <2>2, <2>3
<1>10. \/ UNCHANGED <<active, owner, recovered, tasks>>
       \/ ConfirmStop \/ (\E r \in Runs : Submit(r)) \/ Finish \/ HostDies \/ Recover
       \/ (\E d \in Dispatchers, r \in Runs : DispatchAdmit(d, r))
       \/ (\E d \in Dispatchers : Launch(d) \/ LaunchReused(d) \/ DispatchRefused(d))
       \/ PickForGoal \/ \E forced \in BOOLEAN : PickQueued(forced)
  BY DEF Next, UserStep, LoopStep, HostStep, Fault, EnqueueItem, RemoveItem, MoveItem,
         MarkForceInject, Restore, HostFlush, Interrupt,
         Activate, LoopReadsForce, LoopSnapshot, LoopConsume, LoopAcknowledge,
         LoopConsumeRefused, LoopApply, LoopCallLost, vars, host, sidecar
<1> QED
  BY <1>0, <1>1, <1>2, <1>3, <1>4, <1>5, <1>6, <1>7, <1>8, <1>9, <1>10

(* The turn, its delivery and its message go together.  Nobody takes the    *)
(* session from a turn: whoever does finds no owner, or no run, and so no   *)
(* turn.                                                                    *)
LEMMA TurnStep ==
  TypeOK /\ Accounted /\ Ownership /\ AdmittedAlone /\ LoopInStep /\ [Next]_vars => LoopInStep'
<1> SUFFICES ASSUME TypeOK, Accounted, Ownership, AdmittedAlone, LoopInStep, [Next]_vars
             PROVE  LoopInStep'
  OBVIOUS
<1>1. loop \in Loops /\ queue \in Queues
  BY Shapes
<1>2. CASE UNCHANGED <<queue.delivery, active, owner, loop, Messages>>
  BY <1>2 DEF LoopInStep
<1>3. ASSUME loop'.at \in {"step", "failed"}, loop.at # "off", UNCHANGED <<active, owner>>
      PROVE  LoopInStep'
  BY <1>3 DEF LoopInStep
<1>4. ASSUME loop.at = "off", UNCHANGED loop
      PROVE  LoopInStep'
  BY <1>4 DEF LoopInStep
<1>5. ASSUME active = None \/ owner = None, UNCHANGED loop
      PROVE  LoopInStep'
  BY <1>4, <1>5 DEF LoopInStep
<1>6. CASE Activate
  BY <1>6 DEF Activate, LoopInStep
<1>7. CASE Finish \/ HostDies
  BY <1>7 DEF Finish, HostDies, LoopInStep
<1>8. CASE LoopReadsForce
  BY <1>8 DEF LoopReadsForce, LoopInStep, sidecar
<1>9. CASE LoopSnapshot
  <2>1. loop.at = "forced" /\ owner # None /\ active = owner /\ loop.item # None
        /\ UNCHANGED <<queue, active, owner>>
    BY <1>9 DEF LoopSnapshot, LoopInStep, sidecar
  <2>2. CASE queue.delivery.run = owner /\ loop' = [at |-> "apply", item |-> queue.delivery.item]
    <3>1. queue.delivery = [run |-> owner, item |-> loop'.item] /\ loop'.at = "apply"
      BY <1>1, <2>2, DeliveryNames
    <3> QED
      BY <2>1, <3>1 DEF LoopInStep
  <2>3. CASE loop' = [at |-> "step", item |-> None]
    BY <1>3, <2>1, <2>3
  <2>4. CASE loop' = [loop EXCEPT !.at = "consume"]
    <3>1. loop'.at = "consume" /\ loop'.item = loop.item
      BY <1>1, <2>4 DEF Loops
    <3> QED
      BY <2>1, <3>1 DEF LoopInStep
  <2>5. CASE loop' = [loop EXCEPT !.at = "failed"]
    <3>1. loop'.at = "failed"
      BY <1>1, <2>5 DEF Loops
    <3> QED
      BY <1>3, <2>1, <3>1
  <2> QED
    BY <1>9, <2>2, <2>3, <2>4, <2>5 DEF LoopSnapshot
<1>10. CASE LoopConsume
  <2>1. owner # None /\ active = owner /\ loop.item # None /\ loop.at # "off"
        /\ UNCHANGED <<active, owner>>
    BY <1>10 DEF LoopConsume, LoopInStep
  <2>2. queue'.delivery = [run |-> owner, item |-> loop.item]
    BY <1>10, <2>1, QueueEffects
  <2>3. CASE CallReturns("apply", loop.item)
    BY <2>1, <2>2, <2>3 DEF CallReturns, LoopInStep
  <2>4. CASE CallFails
    <3>1. loop'.at = "failed"
      BY <1>1, <2>4 DEF Loops, CallFails
    <3> QED
      BY <1>3, <2>1, <3>1
  <2> QED
    BY <1>10, <2>3, <2>4 DEF LoopConsume
<1>11. CASE LoopApply
  <2>1. loop'.at = "ack" /\ loop'.item = loop.item
    BY <1>1, <1>11 DEF LoopApply, Loops
  <2>2. /\ owner # None /\ active = owner /\ UNCHANGED <<queue, active, owner, saved>>
        /\ queue.delivery = [run |-> owner, item |-> loop.item]
        /\ cached' = cached \cup ({<<owner, loop.item>>} \ saved)
    BY <1>11 DEF LoopApply, LoopInStep, sidecar
  <2>3. <<owner, loop.item>> \in Messages'
    BY <2>2 DEF Messages
  <2> QED
    BY <2>1, <2>2, <2>3 DEF LoopInStep
<1>12. CASE LoopAcknowledge
  <2>1. UNCHANGED <<active, owner>> /\ loop.at # "off"
    BY <1>12 DEF LoopAcknowledge
  <2>2. loop'.at \in {"step", "failed"}
    BY <1>1, <1>12 DEF LoopAcknowledge, CallReturns, CallFails, Loops
  <2> QED
    BY <1>3, <2>1, <2>2
<1>13. CASE LoopConsumeRefused \/ LoopCallLost
  <2>1. UNCHANGED <<active, owner>> /\ loop.at # "off"
    BY <1>13 DEF LoopConsumeRefused, LoopCallLost, sidecar
  <2>2. loop'.at = "failed"
    BY <1>1, <1>13 DEF LoopConsumeRefused, LoopCallLost, CallFails, Loops
  <2> QED
    BY <1>3, <2>1, <2>2
<1>14. CASE HostFlush
  <2>1. UNCHANGED <<queue, active, owner, loop, Messages>>
    BY <1>14 DEF HostFlush, Messages
  <2> QED
    BY <1>2, <2>1
<1>15. ASSUME NEW i \in Items,
              \/ EnqueueItem(i) \/ RemoveItem(i) \/ MarkForceInject(i)
              \/ \E to \in 1 .. MaxQueue : MoveItem(i, to)
       PROVE  LoopInStep'
  <2>1. UNCHANGED queue.delivery
    BY <1>15, QueueEffects DEF Accounted
  <2>2. UNCHANGED <<active, owner, loop, Messages>>
    BY <1>15 DEF EnqueueItem, RemoveItem, MarkForceInject, MoveItem, host, Messages
  <2> QED
    BY <1>2, <2>1, <2>2
<1>16. CASE Restore \/ ConfirmStop
  BY <1>5, <1>16 DEF Restore, ConfirmStop, host
<1>17. ASSUME NEW r \in Runs, Submit(r)
       PROVE  LoopInStep'
  BY <1>5, <1>17 DEF Submit
<1>18. CASE Recover
  <2>1. owner = None
    BY <1>18 DEF Recover, Ownership
  <2> QED
    BY <1>5, <1>18, <2>1 DEF Recover
<1>19. ASSUME NEW d \in Dispatchers, NEW r \in Runs, DispatchAdmit(d, r)
       PROVE  LoopInStep'
  BY <1>5, <1>19 DEF DispatchAdmit, Admissible
<1>20. ASSUME NEW d \in Dispatchers, Launch(d) \/ LaunchReused(d)
       PROVE  LoopInStep'
  <2>1. owner = None /\ UNCHANGED loop
    BY <1>20 DEF Launch, LaunchReused, AdmittedAlone
  <2> QED
    BY <1>5, <2>1
<1>21. ASSUME \/ \E d \in Dispatchers : DispatchRefused(d)
              \/ PickForGoal \/ \E forced \in BOOLEAN : PickQueued(forced)
              \/ Interrupt \/ UNCHANGED vars
       PROVE  LoopInStep'
  BY <1>2, <1>21 DEF DispatchRefused, PickForGoal, PickQueued, Interrupt, vars, sidecar, host,
                     Messages
<1> QED
  BY <1>6, <1>7, <1>8, <1>9, <1>10, <1>11, <1>12, <1>13, <1>14, <1>15, <1>16, <1>17, <1>18,
     <1>19, <1>20, <1>21 DEF Next, UserStep, LoopStep, HostStep, Fault

(*-------------------------- What becomes of inputs ----------------------*)
(* The parts of IInv that follow the inputs. *)
Ledger == Accounted /\ Handled /\ NoInputLost

(* They look at the inputs of the runs, not at the rest. *)
LEMMA LedgerFrame ==
  ASSUME Ledger, UNCHANGED <<queue, saved, cached, enqueued, discarded>>,
         \A r \in Runs : runs'[r].item = runs[r].item
  PROVE  Ledger'
<1>1. UNCHANGED Messages /\ UNCHANGED Queued(queue)
  BY DEF Messages
<1>2. Accounted'
  BY <1>1 DEF Ledger, Accounted
<1>3. Handled'
  BY <1>1 DEF Ledger, Handled
<1>4. NoInputLost'
  BY <1>1 DEF Ledger, NoInputLost, Turns
<1> QED
  BY <1>2, <1>3, <1>4 DEF Ledger

(* Messages that are lost with the host, or kept from now on. *)
LEMMA LedgerMessages ==
  ASSUME Ledger, UNCHANGED <<queue, runs, enqueued, discarded>>,
         Messages' \subseteq Messages, saved \subseteq saved'
  PROVE  Ledger'
<1>1. UNCHANGED Queued(queue)
  OBVIOUS
<1>2. Accounted'
  BY <1>1 DEF Ledger, Accounted
<1>3. Handled'
  BY <1>1 DEF Ledger, Handled
<1>4. NoInputLost'
  BY <1>1 DEF Ledger, NoInputLost, Turns
<1> QED
  BY <1>2, <1>3, <1>4 DEF Ledger

(* The user's commands: an input that is accepted is new to everybody, and  *)
(* the inputs that leave the queue are recorded as taken back.              *)
LEMMA LedgerUser ==
  ASSUME TypeOK, Ledger,
         UNCHANGED <<runs, saved, cached>>, UNCHANGED queue.delivery,
         NEW i \in Items,
         \/ /\ Queued(queue') = Queued(queue) \cup {i} /\ i \notin enqueued
            /\ enqueued' = enqueued \cup {i} /\ UNCHANGED discarded
         \/ /\ Queued(queue') = Queued(queue) \ {i}
            /\ discarded' = discarded \cup {i} /\ UNCHANGED enqueued
         \/ /\ Queued(queue') = Queued(queue)
            /\ UNCHANGED <<enqueued, discarded>>
  PROVE  Ledger'
<1>1. UNCHANGED Messages /\ i # None
  BY ConstantsAssumption DEF Messages
<1>2. Accounted'
  BY <1>1 DEF Ledger, Accounted
<1>3. Handled'
  BY <1>1 DEF Ledger, Handled, Accounted
<1>4. NoInputLost'
  BY <1>1 DEF Ledger, NoInputLost, Turns
<1> QED
  BY <1>2, <1>3, <1>4 DEF Ledger

(* A restore takes back what is queued and what is delivered. *)
LEMMA LedgerRestore == TypeOK /\ Ledger /\ Restore => Ledger'
<1> SUFFICES ASSUME TypeOK, Ledger, Restore PROVE Ledger'
  OBVIOUS
<1>1. /\ Queued(queue') = {} /\ queue'.delivery = NoDelivery /\ queue'.delivery.item = None
      /\ UNCHANGED <<runs, saved, Messages, enqueued>>
      /\ discarded' = discarded \cup Queued(queue) \cup ({queue.delivery.item} \ {None})
  BY QueueEffects DEF Restore, host, NoDelivery, Messages
<1>2. Accounted'
  BY <1>1 DEF Ledger, Accounted
<1>3. Handled'
  BY <1>1 DEF Ledger, Handled
<1>4. NoInputLost'
  <2>1. enqueued \subseteq Items /\ None \notin enqueued
    BY ConstantsAssumption DEF TypeOK
  <2> QED
    BY <1>1, <2>1 DEF Ledger, NoInputLost, Turns
<1> QED
  BY <1>2, <1>3, <1>4 DEF Ledger

(* What a turn consumes was queued, and so nobody's yet. *)
LEMMA LedgerConsume == TypeOK /\ Ledger /\ LoopInStep /\ LoopConsume => Ledger'
<1> SUFFICES ASSUME TypeOK, Ledger, LoopInStep, LoopConsume PROVE Ledger'
  OBVIOUS
<1> DEFINE i == loop.item
<1>1. owner # None /\ i # None
  BY DEF LoopConsume, LoopInStep
<1>2. /\ queue'.delivery = [run |-> owner, item |-> i]
      /\ i \in Queued(queue) /\ Queued(queue') = Queued(queue) \ {i}
  BY <1>1, QueueEffects
<1>3. /\ UNCHANGED <<runs, saved, Messages, enqueued, discarded>>
      /\ queue.delivery = NoDelivery
  BY DEF LoopConsume, Consumable, Messages
<1>4. queue.delivery.item = None
  BY <1>3 DEF NoDelivery
<1> HIDE DEF i
<1>5. Accounted'
  BY <1>2, <1>3 DEF Ledger, Accounted
<1>6. Handled'
  BY <1>2, <1>3 DEF Ledger, Handled
<1>7. NoInputLost'
  <2>1. None \notin enqueued
    BY ConstantsAssumption DEF TypeOK
  <2>2. queue'.delivery.item = i
    BY <1>2
  <2>3. \A j \in enqueued : j \in Queued(queue) \/ j = queue.delivery.item
          => j \in Queued(queue') \/ j = queue'.delivery.item
    BY <1>2, <1>4, <2>1, <2>2
  <2>4. \A j \in enqueued : Turns(j)' = Turns(j)
    BY <1>3 DEF Turns
  <2> QED
    BY <1>3, <2>3, <2>4 DEF Ledger, NoInputLost
<1> QED
  BY <1>5, <1>6, <1>7 DEF Ledger

(* The message of a delivery is the only one of its input. *)
LEMMA LedgerApply == TypeOK /\ Ledger /\ LoopInStep /\ LoopApply => Ledger'
<1> SUFFICES ASSUME TypeOK, Ledger, LoopInStep, LoopApply PROVE Ledger'
  OBVIOUS
<1> DEFINE m == <<owner, loop.item>>
<1>1. /\ queue.delivery = [run |-> owner, item |-> loop.item] /\ owner # None
      /\ UNCHANGED <<queue, runs, saved, enqueued, discarded>>
      /\ Messages' = Messages \cup {m}
  BY DEF LoopApply, LoopInStep, sidecar, history, Messages
<1>2. queue.delivery # NoDelivery /\ queue.delivery.item = loop.item
      /\ queue.delivery.run = owner /\ UNCHANGED Queued(queue)
  BY <1>1 DEF NoDelivery
<1>3. loop.item \in enqueued /\ loop.item \notin Queued(queue)
  <2>1. queue \in Queues /\ queue.delivery.item \notin Queued(queue)
    BY Shapes
  <2>2. loop.item \in Items
    BY <1>2, <2>1, DeliveryNames
  <2> QED
    BY <1>2, <2>1, <2>2, ConstantsAssumption DEF Ledger, Accounted
<1>4. m[1] = owner /\ m[2] = loop.item
  OBVIOUS
<1>5. \A n \in Messages : n[2] = loop.item => n = m
  <2>1. \A n \in Messages : n = <<n[1], n[2]>>
    BY DEF Messages, TypeOK
  <2>2. \A n \in Messages : n[2] = loop.item => n[1] = owner
    BY <1>2 DEF Ledger, Handled
  <2> QED
    BY <2>1, <2>2
<1>6. \A r \in Runs : runs[r].item # loop.item
  BY <1>2 DEF Ledger, Handled
<1> HIDE DEF m
<1>7. Accounted'
  BY <1>1, <1>2, <1>3, <1>4 DEF Ledger, Accounted
<1>8. Handled'
  <2>1. \A n, k \in Messages' : n[2] = k[2] => n = k
    BY <1>1, <1>4, <1>5 DEF Ledger, Handled
  <2>2. \A r \in Runs, n \in Messages' : runs[r].item # n[2]
    BY <1>1, <1>4, <1>6 DEF Ledger, Handled
  <2>3. \A n \in Messages' : n[2] \notin Queued(queue)
    BY <1>1, <1>3, <1>4 DEF Ledger, Handled
  <2>4. \A n \in Messages' : n[2] = queue.delivery.item => n[1] = queue.delivery.run
    BY <1>1, <1>2, <1>4 DEF Ledger, Handled
  <2> QED
    BY <1>1, <1>2, <2>1, <2>2, <2>3, <2>4 DEF Ledger, Handled
<1>9. NoInputLost'
  BY <1>1, <1>2 DEF Ledger, NoInputLost, Turns
<1> QED
  BY <1>7, <1>8, <1>9 DEF Ledger

(* What is acknowledged is saved. *)
LEMMA LedgerAcknowledge ==
  TypeOK /\ Ledger /\ LoopInStep /\ LoopAcknowledge => Ledger'
<1> SUFFICES ASSUME TypeOK, Ledger, LoopInStep, LoopAcknowledge PROVE Ledger'
  OBVIOUS
<1>1. /\ queue'.delivery = NoDelivery /\ Queued(queue') = Queued(queue)
      /\ UNCHANGED <<runs, saved, Messages, enqueued, discarded>>
  BY QueueEffects DEF LoopAcknowledge, Messages
<1>2. <<owner, loop.item>> \in saved /\ queue.delivery.item = loop.item
  BY DEF LoopAcknowledge, LoopInStep, Messages
<1>3. queue'.delivery.item = None
  BY <1>1 DEF NoDelivery
<1>4. owner \in Runs
  BY <1>2 DEF TypeOK
<1>5. Accounted'
  BY <1>1, <1>3 DEF Ledger, Accounted
<1>6. Handled'
  BY <1>1 DEF Ledger, Handled
<1>7. NoInputLost'
  <2> SUFFICES ASSUME NEW i \in enqueued', i \notin Queued(queue'), Turns(i)' = {},
                      i \notin discarded'
               PROVE  \E r \in Runs : <<r, i>> \in saved'
    BY DEF NoInputLost
  <2>1. Turns(i) = {}
    BY <1>1 DEF Turns
  <2>2. CASE i = loop.item
    BY <1>1, <1>2, <1>4, <2>2
  <2>3. CASE i # loop.item
    BY <1>1, <1>2, <2>1, <2>3 DEF Ledger, NoInputLost
  <2> QED
    BY <2>2, <2>3
<1> QED
  BY <1>5, <1>6, <1>7 DEF Ledger

(* An admission gives a run the input it takes off the queue. *)
LEMMA LedgerAdmit ==
  ASSUME TypeOK, Ledger, NewRunsEmpty, NEW d \in Dispatchers, NEW r \in Runs,
         DispatchAdmit(d, r)
  PROVE  Ledger'
<1> DEFINE i == tasks[d].item
<1>1. /\ UNCHANGED queue.delivery /\ i \in Queued(queue)
      /\ Queued(queue') = Queued(queue) \ {i}
  BY QueueEffects
<1>2. /\ UNCHANGED <<saved, Messages, enqueued, discarded>> /\ queue.delivery = NoDelivery
      /\ runs[r].status = "new" /\ Admitted(r, i)
  BY DEF DispatchAdmit, Admissible, history, Messages
<1>3. i \in Items \cup {None} /\ runs \in RunDocuments
  BY Shapes DEF Tasks
<1>4. runs'[r].item = i /\ \A s \in Runs \ {r} : runs'[s] = runs[s]
  BY <1>2, <1>3, AdmissionSets
<1>5. runs[r].item = None
  BY <1>2 DEF NewRunsEmpty
<1> HIDE DEF i
<1>6. Accounted'
  BY <1>1, <1>2, <1>4 DEF Ledger, Accounted
<1>7. Handled'
  <2>1. \A s \in Runs : runs[s].item # i
    BY <1>1 DEF Ledger, Handled
  <2>2. \A n \in Messages : n[2] # i
    BY <1>1 DEF Ledger, Handled
  <2>3. \A s \in Runs : runs'[s].item = IF s = r THEN i ELSE runs[s].item
    BY <1>4
  <2>4. \A s, u \in Runs : runs'[s].item # None /\ runs'[s].item = runs'[u].item => s = u
    BY <2>1, <2>3 DEF Ledger, Handled
  <2>5. \A s \in Runs, n \in Messages : runs'[s].item # n[2]
    BY <2>2, <2>3 DEF Ledger, Handled
  <2>6. \A s \in Runs : runs'[s].item \notin Queued(queue')
    BY <1>1, <2>3 DEF Ledger, Handled
  <2>7. \A n \in Messages : n[2] \notin Queued(queue')
    BY <1>1 DEF Ledger, Handled
  <2> QED
    BY <1>1, <1>2, <2>4, <2>5, <2>6, <2>7 DEF Ledger, Handled
<1>8. NoInputLost'
  <2>1. None \notin enqueued
    BY ConstantsAssumption DEF TypeOK
  <2> SUFFICES ASSUME NEW j \in enqueued, j \notin Queued(queue'), j # queue'.delivery.item,
                      \A n \in Runs : <<n, j>> \notin saved, j \notin discarded
               PROVE  \E s \in Runs : runs'[s].item = j
    BY <1>2 DEF NoInputLost, Turns
  <2>2. CASE j = i
    BY <1>4, <2>2
  <2>3. CASE j # i
    <3>1. Turns(j) # {}
      BY <1>1, <2>3 DEF Ledger, NoInputLost
    <3>2. PICK s \in Runs : runs[s].item = j
      BY <3>1 DEF Turns
    <3> QED
      BY <1>4, <1>5, <2>1, <3>2
  <2> QED
    BY <2>2, <2>3
<1> QED
  BY <1>6, <1>7, <1>8 DEF Ledger

(* Every step keeps the books. *)
LEMMA LedgerStep ==
  TypeOK /\ Ledger /\ NewRunsEmpty /\ LoopInStep /\ [Next]_vars => Ledger'
<1> SUFFICES ASSUME TypeOK, Ledger, NewRunsEmpty, LoopInStep, [Next]_vars PROVE Ledger'
  OBVIOUS
<1>1. CASE Quiet
  BY <1>1, QuietKeeps, LedgerFrame DEF ledger
<1>2. CASE StatusStep
  BY <1>2, StatusKeeps, LedgerFrame
<1>3. ASSUME NEW r \in Runs, Submit(r)
      PROVE  Ledger'
  <2>1. /\ UNCHANGED <<queue, saved, cached, enqueued, discarded>>
        /\ runs[r].status = "new" /\ Admitted(r, None) /\ runs \in RunDocuments
    BY <1>3, Shapes DEF Submit, Admissible, history
  <2>2. runs'[r].item = None /\ runs[r].item = None
        /\ \A s \in Runs \ {r} : runs'[s] = runs[s]
    BY <2>1, AdmissionSets DEF NewRunsEmpty
  <2> QED
    BY <2>1, <2>2, LedgerFrame
<1>4. CASE HostDies
  BY <1>4, LedgerMessages DEF HostDies, sidecar, Messages
<1>5. CASE HostFlush
  BY <1>5, LedgerMessages DEF HostFlush, history, Messages
<1>6. CASE LoopApply
  BY <1>6, LedgerApply
<1>7. ASSUME NEW i \in Items, EnqueueItem(i)
      PROVE  Ledger'
  <2>1. /\ UNCHANGED queue.delivery /\ Queued(queue') = Queued(queue) \cup {i}
        /\ i \notin enqueued /\ enqueued' = enqueued \cup {i}
        /\ UNCHANGED <<runs, saved, cached, discarded>>
    BY <1>7, QueueEffects DEF EnqueueItem, Ledger, Accounted, host
  <2> QED
    BY <2>1, LedgerUser
<1>8. ASSUME NEW i \in Items, RemoveItem(i)
      PROVE  Ledger'
  <2>1. /\ UNCHANGED queue.delivery /\ Queued(queue') = Queued(queue) \ {i}
        /\ discarded' = discarded \cup {i}
        /\ UNCHANGED <<runs, saved, cached, enqueued>>
    BY <1>8, QueueEffects DEF RemoveItem, host
  <2> QED
    BY <2>1, LedgerUser
<1>9. ASSUME NEW i \in Items, MarkForceInject(i) \/ \E to \in 1 .. MaxQueue : MoveItem(i, to)
      PROVE  Ledger'
  <2>1. /\ UNCHANGED queue.delivery /\ Queued(queue') = Queued(queue)
        /\ UNCHANGED <<runs, saved, cached, enqueued, discarded>>
    BY <1>9, QueueEffects DEF MarkForceInject, MoveItem, host, history
  <2> QED
    BY <2>1, LedgerUser
<1>10. CASE Restore
  BY <1>10, LedgerRestore
<1>11. CASE LoopConsume
  BY <1>11, LedgerConsume
<1>12. CASE LoopAcknowledge
  BY <1>12, LedgerAcknowledge
<1>13. ASSUME NEW d \in Dispatchers, NEW r \in Runs, DispatchAdmit(d, r)
       PROVE  Ledger'
  BY <1>13, LedgerAdmit
<1> QED
  BY <1>1, <1>2, <1>3, <1>4, <1>5, <1>6, <1>7, <1>8, <1>9, <1>10, <1>11, <1>12, <1>13, StepKinds
     DEF QueueCommand

(*------------------- What is not flushed, and taken back -----------------*)
(* A turn goes on through the steps that are none of the queue's. *)
LEMMA QuietTurn ==
  ASSUME TypeOK, Quiet, loop.at # "off"
  PROVE  loop'.at # "off"
<1>1. loop \in Loops
  BY Shapes
<1>2. CASE LoopReadsForce \/ LoopSnapshot \/ LoopConsumeRefused \/ LoopCallLost
  BY <1>1, <1>2 DEF LoopReadsForce, LoopSnapshot, LoopConsumeRefused, LoopCallLost,
                    CallFails, Loops
<1>3. CASE UNCHANGED loop
  BY <1>3
<1> QED
  BY <1>2, <1>3 DEF Quiet, Interrupt, ConfirmStop, PickForGoal, PickQueued, DispatchRefused,
                    Launch, LaunchReused, vars, host

(* Where nothing that matters to it changes. *)
LEMMA UnflushedFrame ==
  ASSUME Unflushed, UNCHANGED cached, UNCHANGED queue.delivery,
         loop.at # "off" => loop'.at # "off"
  PROVE  Unflushed'
BY DEF Unflushed

(* A pending delivery is withdrawn only when nothing is left to flush. *)
LEMMA UnflushedStep ==
  TypeOK /\ Accounted /\ LoopInStep /\ Unflushed /\ [Next]_vars => Unflushed'
<1> SUFFICES ASSUME TypeOK, Accounted, LoopInStep, Unflushed, [Next]_vars PROVE Unflushed'
  OBVIOUS
<1>1. CASE Quiet
  BY <1>1, QuietKeeps, QuietTurn, UnflushedFrame DEF ledger
<1>2. CASE StatusStep
  <2>1. CASE Activate
    BY <2>1, UnflushedFrame DEF Activate
  <2>2. CASE Finish
    BY <2>2 DEF Finish, Unflushed
  <2>3. CASE Recover
    BY <2>3, UnflushedFrame DEF Recover
  <2> QED
    BY <1>2, <2>1, <2>2, <2>3 DEF StatusStep
<1>3. ASSUME NEW r \in Runs, Submit(r)
      PROVE  Unflushed'
  BY <1>3, UnflushedFrame DEF Submit
<1>4. CASE HostDies \/ HostFlush
  BY <1>4 DEF HostDies, HostFlush, Unflushed
<1>5. CASE LoopApply
  <2>1. /\ queue.delivery = [run |-> owner, item |-> loop.item] /\ UNCHANGED queue
        /\ cached' \subseteq cached \cup {<<owner, loop.item>>} /\ loop'.at = "ack"
    <3>1. loop \in Loops
      BY Shapes
    <3> QED
      BY <1>5, <3>1 DEF LoopApply, LoopInStep, sidecar, Loops
  <2>2. ASSUME NEW m \in cached'
        PROVE  queue.delivery = [run |-> m[1], item |-> m[2]]
    <3>1. CASE m = <<owner, loop.item>>
      BY <2>1, <3>1
    <3>2. CASE m \in cached
      BY <3>2 DEF Unflushed
    <3> QED
      BY <2>1, <3>1, <3>2
  <2> QED
    BY <2>1, <2>2 DEF Unflushed
<1>6. ASSUME NEW i \in Items,
             \/ EnqueueItem(i) \/ RemoveItem(i) \/ MarkForceInject(i)
             \/ \E to \in 1 .. MaxQueue : MoveItem(i, to)
      PROVE  Unflushed'
  <2>1. UNCHANGED queue.delivery
    BY <1>6, QueueEffects DEF Accounted
  <2>2. UNCHANGED <<cached, loop>>
    BY <1>6 DEF EnqueueItem, RemoveItem, MarkForceInject, MoveItem, host
  <2> QED
    BY <2>1, <2>2, UnflushedFrame
<1>7. CASE Restore
  <2>1. loop.at = "off"
    BY <1>7 DEF Restore, LoopInStep
  <2> QED
    BY <1>7, <2>1 DEF Restore, Unflushed, host
<1>8. CASE LoopConsume
  <2>1. queue.delivery = NoDelivery /\ cached' = cached
    BY <1>8 DEF LoopConsume, Consumable
  <2>2. ASSUME NEW m \in cached
        PROVE  FALSE
    <3>1. m[1] \in Runs /\ queue.delivery = [run |-> m[1], item |-> m[2]]
      BY <2>2 DEF Unflushed, TypeOK
    <3> QED
      BY <2>1, <3>1, ConstantsAssumption DEF NoDelivery
  <2> QED
    BY <2>1, <2>2 DEF Unflushed
<1>9. CASE LoopAcknowledge
  BY <1>9 DEF LoopAcknowledge, Unflushed
<1>10. ASSUME NEW d \in Dispatchers, NEW r \in Runs, DispatchAdmit(d, r)
       PROVE  Unflushed'
  BY <1>10, QueueEffects, UnflushedFrame DEF DispatchAdmit
<1> QED
  BY <1>1, <1>2, <1>3, <1>4, <1>5, <1>6, <1>7, <1>8, <1>9, <1>10, StepKinds DEF QueueCommand

(* What was taken back does not come back. *)
LEMMA TakenBackStep ==
  TypeOK /\ Accounted /\ LoopInStep /\ TakenBack /\ [Next]_vars => TakenBack'
<1> SUFFICES ASSUME TypeOK, Accounted, LoopInStep, TakenBack, [Next]_vars PROVE TakenBack'
  OBVIOUS
<1>1. None \notin enqueued /\ None \notin discarded
  BY ConstantsAssumption DEF TypeOK
<1>2. CASE \/ Quiet \/ StatusStep \/ \E r \in Runs : Submit(r)
           \/ HostDies \/ HostFlush \/ LoopApply
  <2>1. UNCHANGED queue
    BY <1>2, QueueUnchanged
  <2>2. UNCHANGED <<enqueued, discarded>>
    BY <1>2, QuietKeeps DEF ledger, StatusStep, Activate, Finish, Recover, Submit, HostDies,
                            HostFlush, LoopApply, history
  <2> QED
    BY <2>1, <2>2 DEF TakenBack
<1>3. ASSUME NEW i \in Items, EnqueueItem(i)
      PROVE  TakenBack'
  <2>1. /\ UNCHANGED queue.delivery /\ Queued(queue') = Queued(queue) \cup {i}
        /\ i \notin enqueued /\ enqueued' = enqueued \cup {i} /\ UNCHANGED discarded
    BY <1>3, QueueEffects DEF EnqueueItem, Accounted
  <2> QED
    BY <2>1 DEF TakenBack
<1>4. ASSUME NEW i \in Items, RemoveItem(i)
      PROVE  TakenBack'
  <2>1. /\ UNCHANGED queue.delivery /\ Queued(queue') = Queued(queue) \ {i}
        /\ discarded' = discarded \cup {i} /\ UNCHANGED enqueued
        /\ i \in Queued(queue)
    BY <1>4, QueueEffects DEF RemoveItem
  <2>2. i \in enqueued /\ i # queue.delivery.item
    BY <2>1 DEF Accounted, TypeOK
  <2> QED
    BY <2>1, <2>2 DEF TakenBack
<1>5. ASSUME NEW i \in Items, MarkForceInject(i) \/ \E to \in 1 .. MaxQueue : MoveItem(i, to)
      PROVE  TakenBack'
  <2>1. /\ UNCHANGED queue.delivery /\ Queued(queue') = Queued(queue)
        /\ UNCHANGED <<enqueued, discarded>>
    BY <1>5, QueueEffects DEF MarkForceInject, MoveItem, history
  <2> QED
    BY <2>1 DEF TakenBack
<1>6. CASE Restore
  <2>1. /\ Queued(queue') = {} /\ queue'.delivery.item = None /\ UNCHANGED enqueued
        /\ discarded' = discarded \cup Queued(queue) \cup ({queue.delivery.item} \ {None})
    BY <1>6, QueueEffects DEF Restore, NoDelivery
  <2>2. discarded' \subseteq enqueued'
    BY <2>1 DEF TakenBack, Accounted
  <2> QED
    BY <1>1, <2>1, <2>2 DEF TakenBack
<1>7. CASE LoopConsume
  <2>1. owner # None /\ loop.item # None
    BY <1>7 DEF LoopConsume, LoopInStep
  <2>2. /\ queue'.delivery.item = loop.item /\ loop.item \in Queued(queue)
        /\ Queued(queue') = Queued(queue) \ {loop.item}
    BY <1>7, <2>1, QueueEffects
  <2> QED
    BY <1>7, <2>2 DEF LoopConsume, TakenBack
<1>8. CASE LoopAcknowledge
  <2>1. queue'.delivery.item = None /\ Queued(queue') = Queued(queue)
    BY <1>8, QueueEffects DEF NoDelivery
  <2> QED
    BY <1>1, <1>8, <2>1 DEF LoopAcknowledge, TakenBack
<1>9. ASSUME NEW d \in Dispatchers, NEW r \in Runs, DispatchAdmit(d, r)
      PROVE  TakenBack'
  <2>1. /\ UNCHANGED queue.delivery /\ Queued(queue') = Queued(queue) \ {tasks[d].item}
        /\ UNCHANGED <<enqueued, discarded>>
    BY <1>9, QueueEffects DEF DispatchAdmit, history
  <2> QED
    BY <2>1 DEF TakenBack
<1> QED
  BY <1>2, <1>3, <1>4, <1>5, <1>6, <1>7, <1>8, <1>9, StepKinds DEF QueueCommand

(*------------------------------- Theorems -------------------------------*)
(* The invariant holds at first. *)
LEMMA InitInv == Init => IInv
<1> SUFFICES ASSUME Init PROVE IInv
  OBVIOUS
<1>1. /\ queue \in Queues /\ Valid(queue) /\ Queued(queue) = {}
      /\ queue.delivery = NoDelivery /\ queue.delivery.item = None
  BY EmptyQueue DEF Init, NoDelivery
<1>2. \A r \in Runs : runs[r].status = "new" /\ runs[r].item = None
  BY DEF Init
<1>3. runs \in RunDocuments /\ tasks \in Tasks /\ loop \in Loops
  BY DEF Init, RunDocuments, Statuses, Tasks, TaskStates, Loops, LoopStates
<1>4. TypeOK
  <2>1. /\ active \in Runs \cup {None} /\ owner \in Runs \cup {None}
        /\ fence \in BOOLEAN /\ stopping \in BOOLEAN
        /\ forcing \in BOOLEAN /\ recovered \in BOOLEAN
        /\ saved \subseteq Runs \X Items /\ cached \subseteq Runs \X Items
        /\ last \in {"none", "completed", "failed", "interrupted"}
        /\ enqueued \subseteq Items /\ discarded \subseteq Items
    BY DEF Init
  <2>2. faults \in 0 .. MaxFaults
    BY ConstantsAssumption DEF Init
  <2>3. queue.delivery.item \notin Queued(queue)
    BY <1>1
  <2> QED
    BY <1>1, <1>3, <2>1, <2>2, <2>3, ShapesSuffice
<1>5. Accounted /\ NewRunsEmpty /\ Handled /\ NoInputLost
  BY <1>1, <1>2 DEF Init, Accounted, NewRunsEmpty, Handled, NoInputLost, Messages
<1>6. Ownership /\ AdmittedAlone /\ LoopInStep /\ Unflushed /\ TakenBack
  BY DEF Init, Ownership, AdmittedAlone, LoopInStep, Unflushed, TakenBack
<1> QED
  BY <1>4, <1>5, <1>6 DEF IInv

(* And every step keeps it. *)
LEMMA StepInv == IInv /\ [Next]_vars => IInv'
<1> SUFFICES ASSUME IInv, [Next]_vars PROVE IInv'
  OBVIOUS
<1>1. TypeOK' /\ NewRunsEmpty' /\ Ownership' /\ AdmittedAlone' /\ LoopInStep'
  BY TypeStep, NewRunsStep, OwnershipStep, AdmittedStep, TurnStep DEF IInv
<1>2. Ledger'
  BY LedgerStep DEF IInv, Ledger
<1>3. Unflushed' /\ TakenBack'
  BY UnflushedStep, TakenBackStep DEF IInv
<1> QED
  BY <1>1, <1>2, <1>3 DEF IInv, Ledger

(* One turn or one message is at most one in number. *)
LEMMA HandledCounts == TypeOK /\ Handled => HandledOnce
<1> SUFFICES ASSUME TypeOK, Handled, NEW i \in Items
             PROVE  /\ Cardinality(Turns(i)) + Cardinality(Injections(i)) <= 1
                    /\ i \in Queued(queue) => Turns(i) \cup Injections(i) = {}
  BY DEF HandledOnce
<1>1. Cardinality({}) = 0 /\ \A x : Cardinality({x}) = 1
  BY FS_EmptySet, FS_Singleton
<1>2. Turns(i) = {} \/ \E r \in Runs : Turns(i) = {r}
  <2>1. \A r, s \in Turns(i) : r = s
    BY ConstantsAssumption DEF Handled, Turns
  <2> QED
    BY <2>1 DEF Turns
<1>3. Injections(i) = {} \/ \E r \in Runs : Injections(i) = {r}
  <2>1. \A r, s \in Injections(i) : r = s
    <3> SUFFICES ASSUME NEW r \in Injections(i), NEW s \in Injections(i) PROVE r = s
      OBVIOUS
    <3>1. <<r, i>> \in Messages /\ <<s, i>> \in Messages
      BY DEF Injections
    <3>2. <<r, i>> = <<s, i>>
      BY <3>1 DEF Handled
    <3> QED
      BY <3>2
  <2> QED
    BY <2>1 DEF Injections
<1>4. Turns(i) = {} \/ Injections(i) = {}
  <2> SUFFICES ASSUME NEW r \in Turns(i), NEW s \in Injections(i) PROVE FALSE
    OBVIOUS
  <2>1. runs[r].item = i /\ r \in Runs /\ <<s, i>> \in Messages
    BY DEF Turns, Injections
  <2> QED
    BY <2>1 DEF Handled
<1>5. i \in Queued(queue) => Turns(i) \cup Injections(i) = {}
  <2> SUFFICES ASSUME i \in Queued(queue) PROVE Turns(i) = {} /\ Injections(i) = {}
    OBVIOUS
  <2>1. Turns(i) = {}
    BY DEF Handled, Turns
  <2>2. ASSUME NEW s \in Injections(i)
        PROVE  FALSE
    <3>1. <<s, i>> \in Messages /\ <<s, i>>[2] = i
      BY DEF Injections
    <3> QED
      BY <3>1 DEF Handled
  <2> QED
    BY <2>1, <2>2
<1>6. /\ Cardinality(Turns(i)) \in {0, 1} /\ Cardinality(Injections(i)) \in {0, 1}
      /\ Cardinality(Turns(i)) = 0 \/ Cardinality(Injections(i)) = 0
  BY <1>1, <1>2, <1>3, <1>4
<1>7. Cardinality(Turns(i)) + Cardinality(Injections(i)) <= 1
  BY <1>6
<1> QED
  BY <1>5, <1>7

(* The inductive invariant holds in every reachable state: what the loop,   *)
(* the dispatchers and whoever stops, restarts or launches may rely on.     *)
THEOREM InvariantHolds == Spec => []IInv
<1>1. Init => IInv
  BY InitInv
<1>2. IInv /\ [Next]_vars => IInv'
  BY StepInv
<1> QED
  BY <1>1, <1>2, PTL DEF Spec

(* What a command leaves is what `validate' accepts, for any capacity, and  *)
(* a delivered input is not queued.                                         *)
THEOREM TypeOKHolds == Spec => []TypeOK
<1>1. IInv => TypeOK
  BY DEF IInv
<1> QED
  BY <1>1, InvariantHolds, PTL

(* No accepted input is lost, whatever dies or fails and however often. *)
THEOREM NoInputLostHolds == Spec => []NoInputLost
<1>1. IInv => NoInputLost
  BY DEF IInv
<1> QED
  BY <1>1, InvariantHolds, PTL

(* No input becomes two turns, two messages, or one of each. *)
THEOREM HandledOnceHolds == Spec => []HandledOnce
<1>1. IInv => HandledOnce
  BY HandledCounts DEF IInv
<1> QED
  BY <1>1, InvariantHolds, PTL

(*------------------------- The promised inbox ---------------------------*)
(* What is saved is no longer queued and nobody's turn. *)
LEMMA SavedIsSettled ==
  ASSUME IInv
  PROVE  /\ \A i : i \in SavedItems <=> \E r \in Runs : <<r, i>> \in saved
         /\ SavedItems \subseteq enqueued /\ enqueued \subseteq Items /\ None \notin Items
         /\ SavedItems \cap Queued(queue) = {}
<1>1. /\ saved \subseteq Runs \X Items /\ saved \subseteq Messages
      /\ enqueued \subseteq Items /\ None \notin Items
  BY ConstantsAssumption DEF IInv, TypeOK, Messages
<1>2. \A i : i \in SavedItems <=> \E r \in Runs : <<r, i>> \in saved
  <2> TAKE i
  <2>1. ASSUME i \in SavedItems
        PROVE  \E r \in Runs : <<r, i>> \in saved
    <3>1. PICK m \in saved : m[2] = i
      BY <2>1 DEF SavedItems
    <3>2. m = <<m[1], i>> /\ m[1] \in Runs
      BY <1>1, <3>1
    <3> QED
      BY <3>2
  <2>2. ASSUME NEW r \in Runs, <<r, i>> \in saved
        PROVE  i \in SavedItems
    <3>1. <<r, i>>[2] = i
      OBVIOUS
    <3> QED
      BY <2>2, <3>1 DEF SavedItems
  <2> QED
    BY <2>1, <2>2
<1>3. SavedItems \subseteq enqueued
  BY <1>1 DEF IInv, Accounted, SavedItems
<1>4. SavedItems \cap Queued(queue) = {}
  BY <1>1 DEF IInv, Handled, SavedItems
<1> QED
  BY <1>1, <1>2, <1>3, <1>4

(* The steps that leave the books alone leave the inbox alone. *)
LEMMA InboxFrame ==
  ASSUME UNCHANGED <<queue, saved, discarded>>,
         \A r \in Runs : runs'[r].item = runs[r].item
  PROVE  UNCHANGED Inbox!vars
<1>1. UNCHANGED <<Waiting, Withdrawn>>
  BY DEF Waiting, Withdrawn, SavedItems
<1>2. UNCHANGED Started
  BY DEF Started
<1> QED
  BY <1>1, <1>2 DEF Inbox!vars

(* Nor is a change of the order of the queue, or of what is delivered. *)
LEMMA InboxOrder ==
  ASSUME UNCHANGED <<runs, saved, discarded>>, UNCHANGED Waiting
  PROVE  UNCHANGED Inbox!vars
<1>1. UNCHANGED <<Started, Withdrawn>>
  BY DEF Started, Withdrawn, SavedItems
<1> QED
  BY <1>1 DEF Inbox!vars

(* An input that is accepted is new to the inbox. *)
LEMMA InboxAccepts ==
  ASSUME IInv, NEW i \in Items, EnqueueItem(i)
  PROVE  Inbox!Accept(i)
<1>1. /\ UNCHANGED queue.delivery /\ Queued(queue') = Queued(queue) \cup {i}
      /\ i \notin enqueued /\ UNCHANGED <<runs, saved, discarded>>
  BY QueueEffects DEF EnqueueItem, IInv, Accounted, host
<1>2. UNCHANGED <<SavedItems, Started, Withdrawn>>
  BY <1>1 DEF SavedItems, Started, Withdrawn
<1>3. i # None /\ i \notin SavedItems
  BY <1>1, SavedIsSettled
<1>4. i \notin Waiting /\ Waiting' = Waiting \cup {i}
  <2>1. i \notin Queued(queue) /\ i # queue.delivery.item
    BY <1>1, <1>3 DEF IInv, Accounted
  <2> QED
    BY <1>1, <1>2, <1>3, <2>1 DEF Waiting
<1>5. i \notin Inbox!Settled
  <2>1. \A p \in Started : p[2] # i
    BY <1>1, <1>3 DEF Started, IInv, Accounted
  <2>2. \A p \in saved : p[2] # i
    BY <1>3 DEF SavedItems
  <2>3. i \notin Withdrawn
    BY <1>1 DEF Withdrawn, IInv, TakenBack
  <2> QED
    BY <2>1, <2>2, <2>3 DEF Inbox!Settled
<1> QED
  BY <1>1, <1>2, <1>4, <1>5 DEF Inbox!Accept

(* A removed input waited, and so did all that a restore takes back, except *)
(* for a delivery whose message is saved.                                   *)
LEMMA InboxWithdraws ==
  ASSUME IInv, (\E i \in Items : RemoveItem(i)) \/ Restore
  PROVE  \E S \in SUBSET Waiting : Inbox!Withdraw(S)
<1>1. UNCHANGED <<runs, saved, SavedItems, Started>>
  <2>1. UNCHANGED <<runs, saved>>
    BY DEF RemoveItem, Restore
  <2> QED
    BY <2>1 DEF SavedItems, Started
<1>2. ASSUME NEW i \in Items, RemoveItem(i)
      PROVE  \E S \in SUBSET Waiting : Inbox!Withdraw(S)
  <2>1. /\ UNCHANGED queue.delivery /\ Queued(queue') = Queued(queue) \ {i}
        /\ i \in Queued(queue) /\ discarded' = discarded \cup {i}
    BY <1>2, QueueEffects DEF RemoveItem, IInv
  <2>2. i # None /\ i \notin SavedItems /\ i # queue.delivery.item
    BY <2>1, SavedIsSettled DEF IInv, TypeOK
  <2>3. i \in Waiting /\ Waiting' = Waiting \ {i}
    BY <1>1, <2>1, <2>2 DEF Waiting
  <2>4. Withdrawn' = Withdrawn \cup {i}
    BY <1>1, <2>1, <2>2 DEF Withdrawn
  <2>5. Inbox!Withdraw({i}) /\ {i} \in SUBSET Waiting
    BY <1>1, <2>3, <2>4 DEF Inbox!Withdraw
  <2> QED
    BY <2>5
<1>3. CASE Restore
  <2>1. /\ Queued(queue') = {} /\ queue'.delivery.item = None
        /\ discarded' = discarded \cup Queued(queue) \cup ({queue.delivery.item} \ {None})
    BY <1>3, QueueEffects DEF Restore, NoDelivery, IInv
  <2>2. None \notin Queued(queue)
    BY SavedIsSettled DEF IInv, Accounted
  <2>3. Waiting' = {}
    BY <2>1 DEF Waiting
  <2>4. Withdrawn' = Withdrawn \cup Waiting
    BY <1>1, <2>1, <2>2 DEF Withdrawn, Waiting
  <2>5. Inbox!Withdraw(Waiting)
    BY <1>1, <2>3, <2>4 DEF Inbox!Withdraw
  <2> QED
    BY <2>5
<1> QED
  BY <1>2, <1>3

(* An admission turns an input that waits into the one turn of a new run. *)
LEMMA InboxStarts ==
  ASSUME IInv, NEW d \in Dispatchers, NEW r \in Runs, DispatchAdmit(d, r)
  PROVE  \E i \in Items : Inbox!StartTurn(r, i)
<1> DEFINE i == tasks[d].item
<1>1. /\ UNCHANGED queue.delivery /\ Queued(queue') = Queued(queue) \ {i}
      /\ i \in Queued(queue) /\ UNCHANGED <<saved, discarded>>
  BY QueueEffects DEF DispatchAdmit, IInv, history
<1>2. /\ queue.delivery = NoDelivery /\ runs[r].status = "new" /\ Admitted(r, i)
      /\ i \in Items \cup {None} /\ runs \in RunDocuments
  BY Shapes DEF DispatchAdmit, Admissible, Tasks, IInv
<1>3. /\ runs'[r].item = i /\ \A s \in Runs \ {r} : runs'[s] = runs[s]
      /\ runs[r].item = None
  BY <1>2, AdmissionSets DEF IInv, NewRunsEmpty
<1> HIDE DEF i
<1>4. i \in Items /\ i \notin SavedItems /\ None \notin Items
  BY <1>1, <1>2, SavedIsSettled DEF IInv, Accounted
<1>5. queue.delivery.item = None
  BY <1>2 DEF NoDelivery
<1>6. UNCHANGED <<SavedItems, Withdrawn>>
  BY <1>1 DEF SavedItems, Withdrawn
<1>7. i \in Waiting /\ Waiting' = Waiting \ {i}
  BY <1>1, <1>4, <1>5, <1>6 DEF Waiting
<1>8. \A p \in Started : p[1] # r
  BY <1>3, <1>4 DEF Started
<1>9. Started' = Started \cup {<<r, i>>}
  <2>1. ASSUME NEW s \in Runs, NEW j \in Items
        PROVE  <<s, j>> \in Started' <=> <<s, j>> \in Started \cup {<<r, i>>}
    BY <1>3, <1>4 DEF Started
  <2>2. Started' \subseteq Runs \X Items /\ Started \cup {<<r, i>>} \subseteq Runs \X Items
    BY <1>4 DEF Started
  <2> QED
    BY <2>1, <2>2
<1> QED
  BY <1>1, <1>4, <1>6, <1>7, <1>8, <1>9 DEF Inbox!StartTurn

(* The input of a delivery becomes a message when the host flushes; only   *)
(* that message is unflushed.                                              *)
LEMMA InboxInjects ==
  ASSUME IInv, HostFlush
  PROVE  (\E r \in Runs, i \in Items : Inbox!Inject(r, i)) \/ UNCHANGED Inbox!vars
<1>1. cached # {} /\ saved' = saved \cup cached /\ UNCHANGED <<queue, runs, discarded>>
  BY DEF HostFlush, history
<1>2. PICK m \in cached : m \in Runs \X Items
  BY <1>1 DEF IInv, TypeOK
<1>3. queue.delivery = [run |-> m[1], item |-> m[2]]
  BY <1>2 DEF IInv, Unflushed
<1>4. cached = {m}
  <2>1. ASSUME NEW n \in cached
        PROVE  n = m
    <3>1. queue.delivery = [run |-> n[1], item |-> n[2]] /\ n \in Runs \X Items
      BY DEF IInv, Unflushed, TypeOK
    <3> QED
      BY <1>2, <1>3, <3>1
  <2> QED
    BY <1>2, <2>1
<1>5. PICK r \in Runs, i \in Items : m = <<r, i>>
  BY <1>2
<1>6. queue.delivery.item = i /\ saved' = saved \cup {<<r, i>>}
  BY <1>1, <1>3, <1>4, <1>5
<1>7. CASE <<r, i>> \in saved
  <2>1. UNCHANGED <<queue, saved, discarded, runs>>
    BY <1>1, <1>6, <1>7
  <2> QED
    BY <2>1, InboxFrame
<1>8. CASE <<r, i>> \notin saved
  <2>1. i \notin SavedItems
    <3>1. \A s \in Runs : <<s, i>> \in saved => s = r
      BY <1>3, <1>5 DEF IInv, Unflushed, Handled, Messages, NoDelivery
    <3> QED
      BY <1>8, <3>1, SavedIsSettled
  <2>2. SavedItems' = SavedItems \cup {i}
    <3>1. \E n \in saved' : n[2] = i
      <4>1. <<r, i>> \in saved' /\ <<r, i>>[2] = i
        BY <1>6
      <4> QED
        BY <4>1
    <3>2. \A n \in saved' : n \in saved \/ n[2] = i
      BY <1>6
    <3>3. saved \subseteq saved'
      BY <1>6
    <3>4. \A x : x \in SavedItems <=> \E n \in saved : x = n[2]
      BY DEF SavedItems
    <3>5. \A x : x \in SavedItems' <=> \E n \in saved' : x = n[2]
      BY DEF SavedItems
    <3> QED
      BY <3>1, <3>2, <3>3, <3>4, <3>5
  <2>3. i \in Waiting /\ Waiting' = Waiting \ {i}
    BY <1>1, <1>6, <2>1, <2>2, SavedIsSettled DEF Waiting
  <2>4. i \notin discarded
    BY <1>6 DEF IInv, TakenBack
  <2>5. UNCHANGED <<Withdrawn, Started>>
    BY <1>1, <2>2, <2>4 DEF Withdrawn, Started
  <2>6. Inbox!Inject(r, i)
    BY <1>6, <2>3, <2>5 DEF Inbox!Inject
  <2> QED
    BY <2>6
<1> QED
  BY <1>7, <1>8

(* An input that is handed to a turn, or acknowledged, waits as before or *)
(* is a message as before.                                                *)
LEMMA InboxDelivers ==
  ASSUME IInv, LoopConsume \/ LoopAcknowledge
  PROVE  UNCHANGED Inbox!vars
<1>1. UNCHANGED <<runs, saved, discarded>>
  BY DEF LoopConsume, LoopAcknowledge
<1>2. UNCHANGED SavedItems
  BY <1>1 DEF SavedItems
<1>3. CASE LoopConsume
  <2>1. owner # None /\ loop.item # None /\ queue.delivery.item = None
    BY <1>3 DEF LoopConsume, Consumable, NoDelivery, IInv, LoopInStep
  <2>2. /\ queue'.delivery.item = loop.item /\ loop.item \in Queued(queue)
        /\ Queued(queue') = Queued(queue) \ {loop.item}
    BY <1>3, <2>1, QueueEffects DEF IInv
  <2>3. UNCHANGED Waiting
    BY <1>2, <2>1, <2>2 DEF Waiting
  <2> QED
    BY <1>1, <2>3, InboxOrder
<1>4. CASE LoopAcknowledge
  <2>1. /\ queue'.delivery.item = None /\ Queued(queue') = Queued(queue)
        /\ queue.delivery.item = loop.item
    BY <1>4, QueueEffects DEF NoDelivery, IInv, LoopAcknowledge
  <2>2. loop.item \in SavedItems
    <3>1. <<owner, loop.item>> \in saved
      BY <1>4 DEF LoopAcknowledge, IInv, LoopInStep, Messages
    <3> QED
      BY <3>1 DEF SavedItems
  <2>3. UNCHANGED Waiting
    BY <1>2, <2>1, <2>2 DEF Waiting
  <2> QED
    BY <1>1, <2>3, InboxOrder
<1> QED
  BY <1>3, <1>4

(* Every step is one of the inbox, or none of its business. *)
LEMMA InboxStep == IInv /\ [Next]_vars => [Inbox!Next]_(Inbox!vars)
<1> SUFFICES ASSUME IInv, [Next]_vars PROVE [Inbox!Next]_(Inbox!vars)
  OBVIOUS
<1>0. TypeOK /\ NewRunsEmpty /\ Accounted
  BY DEF IInv
<1>1. CASE Quiet
  BY <1>1, QuietKeeps, InboxFrame DEF ledger
<1>2. CASE StatusStep
  BY <1>0, <1>2, StatusKeeps, InboxFrame
<1>3. ASSUME NEW r \in Runs, Submit(r)
      PROVE  [Inbox!Next]_(Inbox!vars)
  <2>1. /\ UNCHANGED <<queue, saved, discarded>>
        /\ runs[r].status = "new" /\ Admitted(r, None) /\ runs \in RunDocuments
    BY <1>0, <1>3, Shapes DEF Submit, Admissible, history
  <2>2. runs'[r].item = None /\ runs[r].item = None
        /\ \A s \in Runs \ {r} : runs'[s] = runs[s]
    BY <1>0, <2>1, AdmissionSets DEF NewRunsEmpty
  <2> QED
    BY <2>1, <2>2, InboxFrame
<1>4. CASE HostDies \/ LoopApply
  BY <1>4, InboxFrame DEF HostDies, LoopApply, sidecar, history
<1>5. CASE HostFlush
  BY <1>5, InboxInjects DEF Inbox!Next
<1>6. ASSUME NEW i \in Items, EnqueueItem(i)
      PROVE  [Inbox!Next]_(Inbox!vars)
  BY <1>6, InboxAccepts DEF Inbox!Next
<1>7. CASE (\E i \in Items : RemoveItem(i)) \/ Restore
  BY <1>7, InboxWithdraws DEF Inbox!Next
<1>8. ASSUME NEW i \in Items, MarkForceInject(i) \/ \E to \in 1 .. MaxQueue : MoveItem(i, to)
      PROVE  [Inbox!Next]_(Inbox!vars)
  <2>1. /\ UNCHANGED queue.delivery /\ Queued(queue') = Queued(queue)
        /\ UNCHANGED <<runs, saved, discarded>>
    BY <1>0, <1>8, QueueEffects DEF MarkForceInject, MoveItem, host, history
  <2>2. UNCHANGED Waiting
    BY <2>1 DEF Waiting, SavedItems
  <2> QED
    BY <2>1, <2>2, InboxOrder
<1>9. CASE LoopConsume \/ LoopAcknowledge
  BY <1>9, InboxDelivers
<1>10. ASSUME NEW d \in Dispatchers, NEW r \in Runs, DispatchAdmit(d, r)
       PROVE  [Inbox!Next]_(Inbox!vars)
  BY <1>10, InboxStarts DEF Inbox!Next
<1> QED
  BY <1>1, <1>2, <1>3, <1>4, <1>5, <1>6, <1>7, <1>8, <1>9, <1>10, StepKinds DEF QueueCommand

(* The queue, the loop, the dispatchers and the restarts between them keep *)
(* the promise of the inbox, for any inputs, runs, capacity and faults.    *)
THEOREM InputInboxImplemented == Spec => ImplementsInputInbox
<1>1. Init => Inbox!Init
  <2> SUFFICES ASSUME Init PROVE Inbox!Init
    OBVIOUS
  <2>1. Queued(queue) = {} /\ queue.delivery.item = None
    BY EmptyQueue DEF Init, NoDelivery
  <2>2. Waiting = {} /\ Withdrawn = {} /\ saved = {}
    BY <2>1 DEF Init, Waiting, Withdrawn
  <2>3. Started = {}
    BY ConstantsAssumption DEF Init, Started
  <2> QED
    BY <2>2, <2>3 DEF Inbox!Init
<1>2. IInv /\ [Next]_vars => [Inbox!Next]_(Inbox!vars)
  BY InboxStep
<1> QED
  BY <1>1, <1>2, InvariantHolds, PTL DEF Spec, Inbox!Spec, ImplementsInputInbox
=============================================================================
