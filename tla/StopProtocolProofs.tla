------------------------- MODULE StopProtocolProofs -------------------------
(***************************************************************************)
(* Proofs about the stops of a session, for any number of runs, stops,     *)
(* confirmations at a time, repetitions and failures: every state has its  *)
(* type, a stop's finalizer runs once (and once more if the request runs   *)
(* it itself), and what the sidecar is told is the end of a worker that is *)
(* gone.                                                                   *)
(*                                                                         *)
(* The first needs to know who is who.  An owner is told apart by its id,  *)
(* which nothing else has when it is given; whoever confirms or repeats a  *)
(* stop of the present owner therefore finds it stopping (InStep, Joined); *)
(* and a command that is waited for is the only one of its confirmation    *)
(* (Lanes).  The second follows the finalizers and the requests that wait  *)
(* (Once), the third the workers and the acknowledgements (Gone).          *)
(***************************************************************************)
EXTENDS StopProtocol, SequenceTheorems, FiniteSetTheorems, WellFoundedInduction, TLAPS

Statuses == {"none", "driven", "orphaned", "released", "gone"}
Over == {"released", "gone"}
Repetitions == [owner : Ids, left : 0 .. Retries]
Waiting == Slots \cup {None}
CriticalCalls ==
  [op : {"stop_begin", "stop_unconfirmed"},
   id : ({"stop_unconfirmed"} \X Runs)
        \cup ({"stop_begin"} \X (Runs \X (Reasons \cup {Recheck}))),
   from : Waiting]
NormalCalls == [op : {"stop_ack"}, id : {"stop_ack"} \X Runs, from : Slots]

(*--------------------------- The invariant ------------------------------*)
(* Every variable has its shape. *)
TypeInv ==
  /\ workers \in [Runs -> Statuses] /\ pointer \in Runs \cup {None}
  /\ owner # None => owner \in Owners
  /\ finalizers \in [Ids -> SUBSET Requests]
  /\ confirms \in [Slots -> Confirmations \cup {None}]
  /\ retry # None => retry \in Repetitions
  /\ fence \in States /\ durable \in States
  /\ critical \in Seq(CriticalCalls) /\ normal \in Seq(NormalCalls)
  /\ recovered \in BOOLEAN
  /\ requests \in [Requests -> {"waiting", "unconfirmed", "ended"}]
  /\ ran \in [Requests -> Nat]
  /\ stops \in 0 .. MaxStops /\ faults \in 0 .. MaxFaults

(* Whoever confirms or repeats the stop of the present owner finds it *)
(* stopping.                                                          *)
InStep ==
  /\ owner # None => (owner.failed \/ owner.task # None => owner.stopping)
  /\ \A s \in Confirming : Owns(confirms[s]) => owner.stopping
  /\ retry # None /\ owner # None /\ owner.id = retry.owner => owner.stopping

(* A stop that is joined is one that is still confirmed. *)
Joined ==
  owner # None /\ owner.task \in Slots =>
    /\ owner.task \in Confirming
    /\ confirms[owner.task].kind = "foreground" /\ confirms[owner.task].owner = owner.id

(* A command that is waited for is waited for by a confirmation that is at *)
(* its step, and no other command of the lane is.                          *)
Waited(lane, steps, cs) ==
  /\ \A i \in DOMAIN lane : lane[i].from # None =>
       /\ lane[i].from \in Slots
       /\ cs[lane[i].from] # None /\ cs[lane[i].from].step \in steps
  /\ \A i, j \in DOMAIN lane :
       lane[i].from # None /\ lane[i].from = lane[j].from => i = j

Lanes == Waited(critical, {"unconfirmed", "error"}, confirms) /\ Waited(normal, {"ack"}, confirms)

Callers(cs, s) == IF cs[s] = None THEN {} ELSE cs[s].callers

(* A finalizer is kept for one owner and was not run by it, and a request  *)
(* waits for one confirmation and was told nothing.                        *)
Once ==
  /\ FinalizersOnce
  /\ \A n \in Requests : n > stops => ran[n] = 0 /\ requests[n] = "waiting"
  /\ \A i \in Ids : \A n \in finalizers[i] :
       n <= stops /\ ran[n] <= IF requests[n] = "ended" THEN 1 ELSE 0
  /\ \A i, j \in Ids : \A n \in finalizers[i] : n \in finalizers[j] => i = j
  /\ \A s \in Slots : \A n \in Callers(confirms, s) : n <= stops /\ requests[n] = "waiting"
  /\ \A s, t \in Slots : \A n \in Callers(confirms, s) : n \in Callers(confirms, t) => s = t

Begun(r) == workers[r] # "none"
Acknowledged(r) ==
  \/ <<"stop_ack", r>> \in receipts
  \/ \E i \in DOMAIN normal : normal[i].id = <<"stop_ack", r>>

(* Runs begin one after the other, only one that has begun is driven or    *)
(* stopped, and what is acknowledged is the end of its worker.             *)
Gone ==
  /\ \A r \in Runs : Begun(r) <=> r <= LastRun
  /\ owner # None => Begun(owner.run)
  /\ \A s \in Confirming : Begun(confirms[s].run)
  /\ \A r \in Runs : Acknowledged(r) => workers[r] \in Over

IInv == TypeInv /\ InStep /\ Joined /\ Lanes /\ Once /\ Gone

(*--------------------------- Constants and names -------------------------*)
LEMMA Bounds ==
  /\ MaxRuns \in Nat /\ MaxStops \in Nat /\ MaxConfirms \in Nat
  /\ Retries \in Nat /\ Retries # 0 /\ MaxFaults \in Nat
  BY ConstantsAssumption

LEMMA NoneApart ==
  None \notin Slots /\ Rejected \notin Slots /\ None # Rejected
  BY ConstantsAssumption DEF Slots, Rejected

LEMMA MinIsMember ==
  ASSUME NEW S \in SUBSET Nat, S # {}
  PROVE  Min(S) \in S
<1>1. PICK x \in S : \A y \in S : ~(<<y, x>> \in OpToRel(<, Nat))
  BY NatLessThanWellFounded, WFMin
<1>2. \A y \in S : x <= y
  <2> SUFFICES ASSUME NEW y \in S PROVE x <= y
    OBVIOUS
  <2>1. ~(y < x)
    BY <1>1 DEF OpToRel
  <2> QED
    BY <2>1
<1> QED
  BY <1>2 DEF Min

(* A confirmation starts where none is. *)
LEMMA SlotIsFree ==
  ASSUME Confirming # Slots
  PROVE  FreeSlot \in Slots \ Confirming
<1>1. Slots \ Confirming # {} /\ Slots \ Confirming \in SUBSET Nat
  BY Bounds DEF Slots, Confirming
<1> QED
  BY <1>1, MinIsMember DEF FreeSlot

(* There are fewer owners in use than ids. *)
LEMMA FreshIdIsNew ==
  ASSUME TypeInv
  PROVE  /\ FreshId \in Ids
         /\ \A s \in Confirming : confirms[s].owner # FreshId
         /\ retry # None => retry.owner # FreshId
         /\ quarantine # FreshId
<1> DEFINE C == {confirms[s].owner : s \in Confirming}
           A == IF owner = None THEN {} ELSE {owner.id}
           B == IF retry = None THEN {} ELSE {retry.owner}
           some == C \cup A \cup B
           used == some \cup {quarantine}
<1>1. IsFiniteSet(Slots) /\ Cardinality(Slots) = MaxConfirms
  BY FS_Interval, Bounds DEF Slots
<1>2. Confirming \in SUBSET Slots
  BY DEF Confirming
<1>3. /\ IsFiniteSet(Confirming) /\ Cardinality(Confirming) <= MaxConfirms
      /\ Cardinality(Confirming) \in Nat
  BY <1>1, <1>2, FS_Subset, FS_CardinalityType
<1>4. IsFiniteSet(C) /\ Cardinality(C) <= Cardinality(Confirming)
  <2> DEFINE f == [s \in Confirming |-> confirms[s].owner]
  <2>1. f \in Surjection(Confirming, C)
    BY DEF Surjection
  <2> QED
    BY <2>1, <1>3, FS_Surjection
<1>5. Cardinality(C) \in Nat /\ Cardinality(C) <= MaxConfirms
  BY <1>3, <1>4, FS_CardinalityType, Bounds
<1>6. /\ IsFiniteSet(C \cup A) /\ Cardinality(C \cup A) \in Nat
      /\ Cardinality(C \cup A) <= MaxConfirms + 1
  <2>1. CASE owner = None
    BY <2>1, <1>4, <1>5, Bounds
  <2>2. CASE owner # None
    <3>1. A = {owner.id}
      BY <2>2
    <3>2. IsFiniteSet(C \cup {owner.id})
      BY <1>4, FS_AddElement
    <3>3. Cardinality(C \cup {owner.id}) \in {Cardinality(C), Cardinality(C) + 1}
      BY <1>4, FS_AddElement
    <3> HIDE DEF C, A
    <3> QED
      BY <3>1, <3>2, <3>3, <1>5, Bounds
  <2> QED
    BY <2>1, <2>2
<1>7. /\ IsFiniteSet(some) /\ Cardinality(some) \in Nat
      /\ Cardinality(some) <= MaxConfirms + 2
  <2>1. CASE retry = None
    BY <2>1, <1>6, Bounds
  <2>2. CASE retry # None
    <3>1. B = {retry.owner}
      BY <2>2
    <3>2. IsFiniteSet((C \cup A) \cup {retry.owner})
      BY <1>6, FS_AddElement
    <3>3. Cardinality((C \cup A) \cup {retry.owner})
            \in {Cardinality(C \cup A), Cardinality(C \cup A) + 1}
      BY <1>6, FS_AddElement
    <3> HIDE DEF C, A, B
    <3> QED
      BY <3>1, <3>2, <3>3, <1>6, Bounds DEF some
  <2> QED
    BY <2>1, <2>2
<1> HIDE DEF some
<1>13. /\ IsFiniteSet(used) /\ Cardinality(used) \in Nat
       /\ Cardinality(used) <= MaxConfirms + 3
  <2>1. IsFiniteSet(used)
    BY <1>7, FS_AddElement
  <2>2. Cardinality(used) \in {Cardinality(some), Cardinality(some) + 1}
    BY <1>7, FS_AddElement
  <2> QED
    BY <2>1, <2>2, <1>7, Bounds
<1>8. IsFiniteSet(Ids) /\ Cardinality(Ids) = MaxConfirms + 4
  BY FS_Interval, Bounds DEF Ids
<1>9. Ids \ used # {}
  <2> SUFFICES ASSUME Ids \ used = {} PROVE FALSE
    OBVIOUS
  <2>1. Ids \in SUBSET used
    OBVIOUS
  <2>2. Cardinality(Ids) <= Cardinality(used)
    BY <2>1, <1>13, FS_Subset
  <2> QED
    BY <2>2, <1>13, <1>8, Bounds
<1>10. Ids \ used \in SUBSET Nat
  BY Bounds DEF Ids
<1>11. FreshId = Min(Ids \ used)
  BY DEF FreshId, some
<1>12. FreshId \in Ids \ used
  BY <1>9, <1>10, <1>11, MinIsMember
<1> QED
  BY <1>12 DEF some

LEMMA LastRunInRange ==
  LastRun \in 0 .. MaxRuns
<1> DEFINE S == {r \in Runs : workers[r] # "none"}
<1>1. IsFiniteSet(Runs) /\ Cardinality(Runs) = MaxRuns
  BY FS_Interval, Bounds DEF Runs
<1>2. S \in SUBSET Runs
  OBVIOUS
<1>3. IsFiniteSet(S) /\ Cardinality(S) <= MaxRuns /\ Cardinality(S) \in Nat
  BY <1>1, <1>2, FS_Subset, FS_CardinalityType
<1> QED
  BY <1>3, Bounds DEF LastRun

(*------------------------------ The lanes --------------------------------*)
(*------------------------------ The lanes --------------------------------*)
(* What happens to other confirmations does not matter to a lane. *)
LEMMA WaitedStays ==
  ASSUME NEW lane, NEW steps, NEW cs, NEW cs2, Waited(lane, steps, cs),
         \A t \in Slots : cs[t] # None /\ cs[t].step \in steps =>
           cs2[t] # None /\ cs2[t].step \in steps
  PROVE  Waited(lane, steps, cs2)
  BY DEF Waited

LEMMA WaitedUnasked ==
  ASSUME NEW C, NEW lane \in Seq(C), NEW steps, NEW cs, Waited(lane, steps, cs),
         NEW c \in C, c.from = None
  PROVE  Waited(Append(lane, c), steps, cs)
<1> DEFINE l == Append(lane, c)
<1>1. DOMAIN l = DOMAIN lane \cup {Len(lane) + 1} /\ l[Len(lane) + 1] = c
  OBVIOUS
<1>2. \A i \in DOMAIN lane : l[i] = lane[i]
  OBVIOUS
<1> HIDE DEF l
<1>3. \A i \in DOMAIN l : l[i].from # None => i \in DOMAIN lane
  BY <1>1
<1>4. Waited(l, steps, cs)
  BY <1>2, <1>3 DEF Waited
<1> QED
  BY <1>4 DEF l

(* A confirmation comes to its step as it sends its command. *)
LEMMA WaitedSent ==
  ASSUME NEW C, NEW lane \in Seq(C), NEW steps, NEW cs, NEW cs2, Waited(lane, steps, cs),
         NEW c \in C, c.from \in Slots, cs[c.from].step \notin steps,
         cs2[c.from] # None, cs2[c.from].step \in steps,
         \A t \in Slots : t # c.from => cs2[t] = cs[t]
  PROVE  Waited(Append(lane, c), steps, cs2)
<1> DEFINE l == Append(lane, c)
<1>1. DOMAIN l = DOMAIN lane \cup {Len(lane) + 1} /\ l[Len(lane) + 1] = c
  OBVIOUS
<1>2. \A i \in DOMAIN lane : l[i] = lane[i]
  OBVIOUS
<1>3. \A i \in DOMAIN lane : lane[i].from # c.from
  <2> SUFFICES ASSUME NEW i \in DOMAIN lane, lane[i].from = c.from PROVE FALSE
    OBVIOUS
  <2>1. c.from # None
    BY NoneApart
  <2> QED
    BY <2>1 DEF Waited
<1> HIDE DEF l
<1>4. ASSUME NEW i \in DOMAIN l, l[i].from # None
      PROVE  /\ l[i].from \in Slots
             /\ cs2[l[i].from] # None /\ cs2[l[i].from].step \in steps
  <2>1. CASE i \in DOMAIN lane
    <3>1. /\ lane[i].from \in Slots /\ cs[lane[i].from] # None
          /\ cs[lane[i].from].step \in steps /\ l[i] = lane[i]
      BY <2>1, <1>2, <1>4 DEF Waited
    <3>2. cs2[lane[i].from] = cs[lane[i].from]
      BY <3>1, <2>1, <1>3
    <3> QED
      BY <3>1, <3>2
  <2>2. CASE i \notin DOMAIN lane
    BY <2>2, <1>1
  <2> QED
    BY <2>1, <2>2
<1>5. ASSUME NEW i \in DOMAIN l, NEW j \in DOMAIN l, l[i].from # None, l[i].from = l[j].from
      PROVE  i = j
  <2>1. CASE i \in DOMAIN lane /\ j \in DOMAIN lane
    BY <2>1, <1>2, <1>5 DEF Waited
  <2>2. CASE i \in DOMAIN lane /\ j \notin DOMAIN lane
    BY <2>2, <1>1, <1>2, <1>3, <1>5
  <2>3. CASE i \notin DOMAIN lane /\ j \in DOMAIN lane
    BY <2>3, <1>1, <1>2, <1>3, <1>5
  <2>4. CASE i \notin DOMAIN lane /\ j \notin DOMAIN lane
    BY <2>4, <1>1
  <2> QED
    BY <2>1, <2>2, <2>3, <2>4
<1>6. Waited(l, steps, cs2)
  BY <1>4, <1>5 DEF Waited
<1> QED
  BY <1>6 DEF l

(* The answered command is the only one of its confirmation. *)
LEMMA WaitedAnswered ==
  ASSUME NEW C, NEW lane \in Seq(C), lane # <<>>, NEW steps, NEW cs, NEW cs2,
         Waited(lane, steps, cs),
         \A t \in Slots : t # Head(lane).from => cs2[t] = cs[t]
  PROVE  Waited(Tail(lane), steps, cs2)
<1> DEFINE l == Tail(lane)
<1>1. \A i \in DOMAIN l : i + 1 \in DOMAIN lane /\ l[i] = lane[i + 1] /\ i \in Nat /\ i # 0
  OBVIOUS
<1>2. 1 \in DOMAIN lane /\ Head(lane) = lane[1]
  OBVIOUS
<1> HIDE DEF l
<1>3. ASSUME NEW i \in DOMAIN l, l[i].from # None
      PROVE  /\ l[i].from \in Slots
             /\ cs2[l[i].from] # None /\ cs2[l[i].from].step \in steps
  <2>1. /\ lane[i + 1].from \in Slots /\ cs[lane[i + 1].from] # None
        /\ cs[lane[i + 1].from].step \in steps
    BY <1>1, <1>3 DEF Waited
  <2>2. i + 1 # 1
    BY <1>1
  <2>3. lane[i + 1].from # Head(lane).from
    BY <1>1, <1>2, <1>3, <2>2 DEF Waited
  <2> QED
    BY <1>1, <2>1, <2>3
<1>4. ASSUME NEW i \in DOMAIN l, NEW j \in DOMAIN l, l[i].from # None, l[i].from = l[j].from
      PROVE  i = j
  <2>1. i + 1 = j + 1
    BY <1>1, <1>4 DEF Waited
  <2> QED
    BY <2>1, <1>1
<1>5. Waited(l, steps, cs2)
  BY <1>3, <1>4 DEF Waited
<1> QED
  BY <1>5 DEF l

(*--------------------------- The confirmations ---------------------------*)

(*--------------------------- The confirmations ---------------------------*)
Others(s) == \A t \in Slots : t # s => confirms'[t] = confirms[t]

(* A confirmation of a stop starts in a free slot. *)
Occupied(s, o, kind, callers) ==
  /\ confirms' \in [Slots -> Confirmations \cup {None}]
  /\ s \in Slots /\ confirms[s] = None /\ Others(s)
  /\ confirms'[s] \in Confirmations
  /\ confirms'[s] = [owner |-> o.id, run |-> o.run, kind |-> kind, step |-> "worker",
                     callers |-> callers]

Moved(s, step) ==
  /\ confirms' \in [Slots -> Confirmations \cup {None}]
  /\ s \in Slots /\ confirms[s] # None /\ confirms'[s] # None /\ Others(s)
  /\ confirms'[s].owner = confirms[s].owner /\ confirms'[s].run = confirms[s].run
  /\ confirms'[s].callers = confirms[s].callers
  /\ confirms[s].kind = "foreground" => confirms'[s].kind = "foreground"
  /\ confirms'[s].step = step

Freed(s) ==
  /\ confirms' \in [Slots -> Confirmations \cup {None}]
  /\ Others(s)
  /\ s \in Slots => confirms'[s] = None

(* None has started, and nobody has joined one. *)
Continued ==
  \A t \in Slots : confirms'[t] # None =>
    /\ confirms[t] # None
    /\ confirms'[t].owner = confirms[t].owner /\ confirms'[t].run = confirms[t].run
    /\ confirms'[t].callers = confirms[t].callers

LEMMA ConfirmingTyped ==
  ASSUME TypeInv, NEW s \in Confirming
  PROVE  s \in Slots /\ confirms[s] # None /\ confirms[s] \in Confirmations
  BY DEF TypeInv, Confirming

LEMMA StartedOccupies ==
  ASSUME TypeInv, NEW o, o.id \in Ids, o.run \in Runs, NEW kind \in Kinds,
         NEW callers \in SUBSET Requests, Confirming # Slots, Started(kind, o, callers)
  PROVE  Occupied(FreeSlot, o, kind, callers)
<1> DEFINE s == FreeSlot
           c == [owner |-> o.id, run |-> o.run, kind |-> kind, step |-> "worker",
                 callers |-> callers]
<1>1. s \in Slots /\ s \notin Confirming
  BY SlotIsFree
<1>2. confirms[s] = None
  BY <1>1 DEF Confirming
<1>3. c \in Confirmations
  BY DEF Confirmations, Steps
<1>4. confirms' = [confirms EXCEPT ![s] = c]
  BY DEF Started
<1> HIDE DEF s, c
<1>5. /\ confirms' \in [Slots -> Confirmations \cup {None}]
      /\ Others(s) /\ confirms'[s] = c
  BY <1>1, <1>3, <1>4 DEF Others, TypeInv
<1> QED
  BY <1>1, <1>2, <1>3, <1>5 DEF Occupied, s, c

(* One field of a confirmation changes. *)
LEMMA UpdateMoves ==
  ASSUME TypeInv, NEW s \in Confirming, NEW c \in Confirmations,
         confirms' = [confirms EXCEPT ![s] = c],
         c.owner = confirms[s].owner, c.run = confirms[s].run,
         c.callers = confirms[s].callers,
         confirms[s].kind = "foreground" => c.kind = "foreground"
  PROVE  Moved(s, c.step)
<1>1. s \in Slots /\ confirms[s] # None /\ c # None
  BY ConfirmingTyped, ConstantsAssumption
<1> QED
  BY <1>1 DEF Moved, Others, TypeInv

LEMMA StepMoves ==
  ASSUME TypeInv, NEW s \in Confirming, NEW step \in Steps, Step(s, step)
  PROVE  Moved(s, step)
<1> DEFINE c == [confirms[s] EXCEPT !.step = step]
<1>1. confirms[s] \in Confirmations
  BY ConfirmingTyped
<1>2. /\ c \in Confirmations /\ c.step = step /\ c.kind = confirms[s].kind
      /\ c.owner = confirms[s].owner /\ c.run = confirms[s].run
      /\ c.callers = confirms[s].callers
  BY <1>1 DEF Confirmations
<1>3. confirms' = [confirms EXCEPT ![s] = c]
  BY DEF Step
<1> HIDE DEF c
<1> QED
  BY <1>2, <1>3, UpdateMoves

LEMMA OverdueMoves ==
  ASSUME TypeInv, NEW s \in Confirming, Overdue(s)
  PROVE  Moved(s, confirms[s].step) /\ confirms[s].kind = "retry"
<1> DEFINE c == [confirms[s] EXCEPT !.kind = "forgotten"]
<1>1. confirms[s] \in Confirmations
  BY ConfirmingTyped
<1>2. /\ c \in Confirmations /\ c.step = confirms[s].step
      /\ c.owner = confirms[s].owner /\ c.run = confirms[s].run
      /\ c.callers = confirms[s].callers
  BY <1>1 DEF Confirmations, Kinds
<1>3. confirms' = [confirms EXCEPT ![s] = c] /\ confirms[s].kind = "retry"
  BY DEF Overdue
<1> HIDE DEF c
<1> QED
  BY <1>2, <1>3, UpdateMoves

LEMMA EndFrees ==
  ASSUME TypeInv, NEW s, confirms' = [confirms EXCEPT ![s] = None]
  PROVE  Freed(s)
  BY DEF Freed, Others, TypeInv

LEMMA MovedContinues ==
  ASSUME NEW s, NEW step, Moved(s, step)
  PROVE  Continued
  BY DEF Moved, Others, Continued

LEMMA FreedContinues ==
  ASSUME NEW s, Freed(s)
  PROVE  Continued
  BY DEF Freed, Others, Continued

LEMMA SameContinues ==
  ASSUME UNCHANGED confirms
  PROVE  Continued
  BY DEF Continued

(*------------------------------ The owner --------------------------------*)
LEMMA NewOwner ==
  ASSUME TypeInv, NEW r \in Runs, NEW b \in BOOLEAN
  PROVE  LET o == Owner(r, b) IN
         /\ o \in Owners /\ o.id = FreshId /\ o.run = r /\ o.stopping = b
         /\ o.task = None /\ ~o.failed
  BY FreshIdIsNew DEF Owner, Owners

InUse(id) ==
  \/ \E s \in Confirming : confirms[s].owner = id
  \/ retry # None /\ retry.owner = id

LEMMA FreshIdUnused ==
  ASSUME TypeInv
  PROVE  ~InUse(FreshId)
  BY FreshIdIsNew DEF InUse

LEMMA ContinuedOwners ==
  ASSUME Continued
  PROVE  \A t \in Confirming' : InUse(confirms'[t].owner)
  BY DEF Continued, InUse, Confirming

LEMMA ContinuedCallers ==
  ASSUME Continued
  PROVE  \A t \in Slots : Callers(confirms', t) \subseteq Callers(confirms, t)
  BY DEF Continued, Callers

(*----------------------- What leaves a part alone ------------------------*)
(* An owner that is new has a new id, one that is not stays stopping, and *)
(* no other id comes into use.                                            *)
LEMMA InStepKept ==
  ASSUME InStep,
         owner' # None =>
           /\ owner'.failed \/ owner'.task # None => owner'.stopping
           /\ \/ owner'.stopping
              \/ ~InUse(owner'.id)
              \/ owner # None /\ owner'.id = owner.id /\ owner'.stopping = owner.stopping,
         \A t \in Confirming' : InUse(confirms'[t].owner) \/ owner'.stopping,
         retry' # None => InUse(retry'.owner)
  PROVE  InStep'
<1>1. ASSUME owner' # None, InUse(owner'.id)
      PROVE  owner'.stopping
  <2>1. CASE owner # None /\ owner'.id = owner.id /\ owner'.stopping = owner.stopping
    BY <2>1, <1>1 DEF InUse, InStep, Owns
  <2> QED
    BY <2>1, <1>1
<1>2. ASSUME NEW t \in Confirming', Owns(confirms[t])'
      PROVE  owner'.stopping
  BY <1>1, <1>2 DEF Owns
<1>3. retry' # None /\ owner' # None /\ owner'.id = retry'.owner => owner'.stopping
  BY <1>1
<1> QED
  BY <1>2, <1>3 DEF InStep

(* The stop that is joined goes on. *)
LEMMA JoinedKept ==
  ASSUME Joined,
         owner' # None /\ owner'.task \in Slots =>
           /\ owner # None /\ owner'.task = owner.task /\ owner'.id = owner.id
           /\ \/ confirms'[owner.task] = confirms[owner.task]
              \/ \E step : Moved(owner.task, step)
  PROVE  Joined'
<1> SUFFICES ASSUME owner' # None, owner'.task \in Slots
             PROVE  /\ confirms'[owner'.task] # None
                    /\ confirms'[owner'.task].kind = "foreground"
                    /\ confirms'[owner'.task].owner = owner'.id
  BY DEF Joined, Confirming
<1>1. /\ confirms[owner.task] # None /\ confirms[owner.task].kind = "foreground"
      /\ confirms[owner.task].owner = owner.id
      /\ owner'.task = owner.task /\ owner'.id = owner.id
  BY DEF Joined, Confirming
<1>2. CASE confirms'[owner.task] = confirms[owner.task]
  BY <1>1, <1>2
<1>3. CASE \E step : Moved(owner.task, step)
  BY <1>1, <1>3 DEF Moved
<1> QED
  BY <1>2, <1>3

LEMMA LanesKept ==
  ASSUME Lanes, UNCHANGED lanes,
         \A t \in Slots :
           confirms[t] # None /\ confirms[t].step \in {"ack", "unconfirmed", "error"} =>
             confirms'[t] # None /\ confirms'[t].step = confirms[t].step
  PROVE  Lanes'
<1>1. critical' = critical /\ normal' = normal
  BY DEF lanes
<1>2. Waited(critical, {"unconfirmed", "error"}, confirms')
  BY WaitedStays DEF Lanes
<1>3. Waited(normal, {"ack"}, confirms')
  BY WaitedStays DEF Lanes
<1> QED
  BY <1>1, <1>2, <1>3 DEF Lanes

(* Nothing is run, nobody new waits, and whoever is told something does    *)
(* not wait any more.                                                      *)
LEMMA OnceKept ==
  ASSUME TypeInv, Once, UNCHANGED <<stops, ran>>,
         \A t \in Slots : Callers(confirms', t) \subseteq Callers(confirms, t),
         finalizers' = finalizers \/ finalizers' = [i \in Ids |-> {}],
         \A n \in Requests :
           /\ (requests'[n] = "ended") <=> (requests[n] = "ended")
           /\ requests[n] = "waiting" =>
                \/ requests'[n] = "waiting"
                \/ n <= stops /\ \A t \in Slots : n \notin Callers(confirms', t)
  PROVE  Once'
<1>1. FinalizersOnce'
  BY DEF Once, FinalizersOnce
<1>2. \A n \in Requests : n > stops' => ran'[n] = 0 /\ requests'[n] = "waiting"
  <2> SUFFICES ASSUME NEW n \in Requests, n > stops
               PROVE  ran'[n] = 0 /\ requests'[n] = "waiting"
    OBVIOUS
  <2>1. ~(n <= stops)
    BY Bounds DEF Requests, TypeInv
  <2> QED
    BY <2>1 DEF Once
<1>3. \A i \in Ids : finalizers'[i] \subseteq finalizers[i] /\ finalizers[i] \subseteq Requests
  BY DEF TypeInv
<1>4. \A i \in Ids : \A n \in finalizers'[i] :
        n <= stops' /\ ran'[n] <= IF requests'[n] = "ended" THEN 1 ELSE 0
  BY <1>3 DEF Once
<1>5. \A i, j \in Ids : \A n \in finalizers'[i] : n \in finalizers'[j] => i = j
  BY <1>3 DEF Once
<1>6. \A t \in Slots : /\ Callers(confirms', t) \subseteq Callers(confirms, t)
                       /\ Callers(confirms, t) \subseteq Requests
  BY DEF Callers, TypeInv, Confirmations
<1>7. \A s \in Slots : \A n \in Callers(confirms', s) :
        n <= stops' /\ requests'[n] = "waiting"
  BY <1>6 DEF Once
<1>8. \A s, t \in Slots : \A n \in Callers(confirms', s) : n \in Callers(confirms', t) => s = t
  BY <1>6 DEF Once
<1> QED
  BY <1>1, <1>2, <1>4, <1>5, <1>7, <1>8 DEF Once

(* No run begins, and a worker that is gone stays so. *)
Onward ==
  \A r \in Runs : /\ (workers'[r] = "none") <=> (workers[r] = "none")
                  /\ workers[r] \in Over => workers'[r] \in Over

LEMMA GoneKept ==
  ASSUME Gone, Onward,
         owner' # None => owner'.run \in Runs /\ Begun(owner'.run),
         \A s \in Confirming' : confirms'[s].run \in Runs /\ Begun(confirms'[s].run),
         \A r \in Runs : Acknowledged(r)' => Acknowledged(r) \/ workers[r] \in Over
  PROVE  Gone'
<1>1. \A r \in Runs : Begun(r)' <=> Begun(r)
  BY DEF Onward, Begun
<1>2. LastRun' = LastRun
  <2>1. {r \in Runs : workers'[r] # "none"} = {r \in Runs : workers[r] # "none"}
    BY <1>1 DEF Begun
  <2> QED
    BY <2>1 DEF LastRun
<1>3. \A r \in Runs : Begun(r)' <=> r <= LastRun'
  BY <1>1, <1>2 DEF Gone
<1>4. owner' # None => Begun(owner.run)'
  BY DEF Onward, Begun
<1>5. \A s \in Confirming' : Begun(confirms[s].run)'
  BY DEF Onward, Begun
<1>6. \A r \in Runs : Acknowledged(r)' => workers'[r] \in Over
  BY DEF Gone, Onward
<1> QED
  BY <1>3, <1>4, <1>5, <1>6 DEF Gone

LEMMA ContinuedBegun ==
  ASSUME TypeInv, Gone, Continued
  PROVE  \A s \in Confirming' : confirms'[s].run \in Runs /\ Begun(confirms'[s].run)
<1> SUFFICES ASSUME NEW s \in Confirming'
             PROVE  confirms'[s].run \in Runs /\ Begun(confirms'[s].run)
  OBVIOUS
<1>1. s \in Confirming /\ confirms'[s].run = confirms[s].run
  BY DEF Confirming, Continued
<1>2. confirms[s] \in Confirmations
  BY <1>1, ConfirmingTyped
<1> QED
  BY <1>1, <1>2 DEF Gone, Confirmations

OwnerOfRun == owner' # None => owner # None /\ owner'.run = owner.run

LEMMA OwnerBegun ==
  ASSUME TypeInv, Gone, OwnerOfRun
  PROVE  owner' # None => owner'.run \in Runs /\ Begun(owner'.run)
  BY DEF TypeInv, Gone, OwnerOfRun, Owners

LEMMA GoneQuiet ==
  ASSUME TypeInv, Gone, Onward, Continued, OwnerOfRun, UNCHANGED <<receipts, normal>>
  PROVE  Gone'
<1>1. \A r \in Runs : Acknowledged(r)' => Acknowledged(r)
  BY DEF Acknowledged
<1> QED
  BY <1>1, GoneKept, ContinuedBegun, OwnerBegun

LEMMA SameWorkers ==
  ASSUME UNCHANGED workers
  PROVE  Onward
  BY DEF Onward

(*------------------------------ The steps --------------------------------*)
LEMMA SubmitKeeps ==
  ASSUME IInv, Submit
  PROVE  IInv'
<1> USE DEF IInv
<1>1. PICK r \in Runs :
        /\ r = LastRun + 1
        /\ workers' = [workers EXCEPT ![r] = "driven"] /\ pointer' = r
        /\ owner' = Owner(r, FALSE) /\ finalizers' = [finalizers EXCEPT ![owner'.id] = {}]
        /\ UNCHANGED <<confirms, retry, quarantine, fence, durable, receipts, lanes>>
        /\ UNCHANGED <<recovered, asked, faults>>
  BY DEF Submit
<1>2. owner' \in Owners /\ owner'.id = FreshId /\ owner'.run = r /\ ~owner'.stopping
      /\ owner'.task = None /\ ~owner'.failed
  BY <1>1, NewOwner
<1>3. TypeInv'
  <2>1. finalizers' \in [Ids -> SUBSET Requests]
    BY <1>1, FreshIdIsNew DEF TypeInv
  <2> QED
    BY <1>1, <1>2, <2>1 DEF TypeInv, Statuses, lanes, asked
<1>4. Continued
  BY <1>1, SameContinues
<1>5. InStep'
  <2>1. \A t \in Confirming' : InUse(confirms'[t].owner)
    BY <1>4, ContinuedOwners
  <2>2. ~InUse(owner'.id)
    BY <1>2, FreshIdUnused
  <2>3. retry' # None => InUse(retry'.owner)
    BY <1>1 DEF InUse
  <2> QED
    BY <1>2, <2>1, <2>2, <2>3, InStepKept
<1>6. Joined'
  BY <1>2, NoneApart DEF Joined
<1>7. Lanes'
  BY <1>1, LanesKept
<1>8. Once'
  <2>1. \A i \in Ids : finalizers'[i] \subseteq finalizers[i]
    BY <1>1 DEF TypeInv
  <2>2. UNCHANGED <<confirms, stops, requests, ran>>
    BY <1>1 DEF asked
  <2>3. FinalizersOnce' /\ \A n \in Requests : n > stops' => ran'[n] = 0 /\ requests'[n] = "waiting"
    BY <2>2 DEF Once, FinalizersOnce
  <2>4. /\ \A i \in Ids : \A n \in finalizers'[i] :
             n <= stops' /\ ran'[n] <= IF requests'[n] = "ended" THEN 1 ELSE 0
        /\ \A i, j \in Ids : \A n \in finalizers'[i] : n \in finalizers'[j] => i = j
    BY <2>1, <2>2 DEF Once
  <2>5. /\ \A s \in Slots : \A n \in Callers(confirms', s) :
             n <= stops' /\ requests'[n] = "waiting"
        /\ \A s, t \in Slots : \A n \in Callers(confirms', s) :
             n \in Callers(confirms', t) => s = t
    BY <2>2 DEF Once
  <2> QED
    BY <2>3, <2>4, <2>5 DEF Once
<1>9. Gone'
  <2> DEFINE S == {q \in Runs : workers[q] # "none"}
  <2>1. LastRun \in Nat /\ Runs \subseteq Nat /\ r \in Nat
    BY LastRunInRange, Bounds DEF Runs
  <2>2. r \notin S
    BY <1>1, <2>1 DEF Gone, Begun
  <2>3. {q \in Runs : workers'[q] # "none"} = S \cup {r}
    BY <1>1 DEF TypeInv
  <2>4. IsFiniteSet(S)
    <3>1. IsFiniteSet(Runs) /\ S \in SUBSET Runs
      BY FS_Interval, Bounds DEF Runs
    <3> QED
      BY <3>1, FS_Subset
  <2>5. Cardinality(S \cup {r}) = Cardinality(S) + 1
    BY <2>2, <2>4, FS_AddElement
  <2>6. LastRun' = r
    BY <1>1, <2>3, <2>5 DEF LastRun
  <2>7. \A q \in Runs : Begun(q)' <=> Begun(q) \/ q = r
    BY <1>1 DEF Begun, TypeInv
  <2>8. \A q \in Runs : Begun(q)' <=> q <= LastRun'
    <3> HIDE DEF S
    <3> SUFFICES ASSUME NEW q \in Runs PROVE Begun(q)' <=> q <= r
      BY <2>6
    <3>1. q <= LastRun \/ q = r <=> q <= r
      BY <1>1, <2>1
    <3> QED
      BY <2>7, <3>1 DEF Gone
  <2>9. \A s \in Confirming' : Begun(confirms[s].run)'
    <3> SUFFICES ASSUME NEW s \in Confirming' PROVE workers'[confirms'[s].run] # "none"
      BY DEF Begun
    <3>1. confirms'[s].run \in Runs /\ Begun(confirms'[s].run)
      BY <1>4, ContinuedBegun
    <3> QED
      BY <3>1, <2>7 DEF Begun
  <2>10. owner' # None => Begun(owner.run)'
    <3>1. workers'[r] # "none"
      BY <1>1 DEF TypeInv
    <3> QED
      BY <1>2, <3>1 DEF Begun
  <2>11. ASSUME NEW q \in Runs, Acknowledged(q)' PROVE workers'[q] \in Over
    <3>1. Acknowledged(q)
      BY <1>1, <2>11 DEF Acknowledged, lanes
    <3>2. workers[q] \in Over
      BY <3>1 DEF Gone
    <3>3. q # r
      BY <3>2, <2>2 DEF Over
    <3> QED
      BY <1>1, <3>2, <3>3 DEF TypeInv
  <2> QED
    BY <2>8, <2>9, <2>10, <2>11 DEF Gone
<1> QED
  BY <1>3, <1>5, <1>6, <1>7, <1>8, <1>9

(* Steps that leave the confirmations alone, and what was asked for. *)
LEMMA ElsewhereKeeps ==
  ASSUME IInv, TypeInv', Onward, UNCHANGED <<confirms, finalizers, receipts, lanes>>,
         UNCHANGED asked \/ Once',
         retry' \in {retry, None},
         owner' # None => /\ owner # None
                          /\ owner'.id = owner.id /\ owner'.run = owner.run
                          /\ owner'.task = owner.task
                          /\ owner' = owner \/ owner'.stopping
  PROVE  IInv'
<1> USE DEF IInv
<1>1. Continued
  BY SameContinues
<1>2. InStep'
  <2>1. \A t \in Confirming' : InUse(confirms'[t].owner)
    BY <1>1, ContinuedOwners
  <2>2. retry' # None => InUse(retry'.owner)
    BY DEF InUse
  <2>3. owner' # None => (owner'.failed \/ owner'.task # None => owner'.stopping)
    BY DEF InStep
  <2> QED
    BY <2>1, <2>2, <2>3, InStepKept
<1>3. Joined'
  BY JoinedKept
<1>4. Lanes'
  BY LanesKept
<1>5. Once'
  <2>1. CASE UNCHANGED asked
    BY <1>1, <2>1, ContinuedCallers, OnceKept DEF asked
  <2> QED
    BY <2>1
<1>6. Gone'
  BY <1>1, GoneQuiet DEF OwnerOfRun, lanes
<1> QED
  BY <1>2, <1>3, <1>4, <1>5, <1>6

LEMMA WorkerEndsKeeps ==
  ASSUME IInv, NEW r \in Runs, WorkerEnds(r)
  PROVE  IInv'
<1>1. /\ workers[r] \in {"driven", "orphaned"}
      /\ workers' = [workers EXCEPT ![r] = "gone"] /\ pointer' \in {pointer, None}
      /\ UNCHANGED <<host, durable, receipts, lanes, recovered, asked, faults>>
  BY DEF WorkerEnds, Alive, Finished
<1>2. TypeInv'
  BY <1>1 DEF IInv, TypeInv, Statuses, host, lanes, asked
<1>3. Onward
  BY <1>1 DEF Onward, IInv, TypeInv, Over
<1> QED
  BY <1>1, <1>2, <1>3, ElsewhereKeeps DEF host

LEMMA DriveEndsKeeps ==
  ASSUME IInv, DriveEnds
  PROVE  IInv'
<1>1. /\ owner' = None
      /\ UNCHANGED <<workers, finalizers, confirms, retry, quarantine, fence, sidecar, lanes>>
      /\ UNCHANGED <<recovered, asked, faults>>
  BY DEF DriveEnds
<1>2. TypeInv'
  BY <1>1 DEF IInv, TypeInv, sidecar, lanes, asked
<1> QED
  BY <1>1, <1>2, SameWorkers, ElsewhereKeeps DEF sidecar

LEMMA DriveFailsKeeps ==
  ASSUME IInv, NEW r \in Runs, DriveFails(r)
  PROVE  IInv'
<1>1. /\ workers[r] = "driven" /\ faults < MaxFaults /\ faults' = faults + 1
      /\ \E how \in {"orphaned", "gone"} : workers' = [workers EXCEPT ![r] = how]
      /\ pointer' \in {pointer, None}
      /\ \/ owner' = owner
         \/ owner # None /\ owner' = [owner EXCEPT !.stopping = TRUE, !.failed = TRUE]
      /\ fence' \in {fence, "unconfirmed"}
      /\ UNCHANGED <<finalizers, confirms, retry, durable, receipts, lanes, recovered, asked>>
  <2>1. CASE owner # None /\ owner.run = r
    BY <2>1 DEF DriveFails, Fails, Finished
  <2>2. CASE ~(owner # None /\ owner.run = r)
    BY <2>2 DEF DriveFails, Fails, Finished
  <2> QED
    BY <2>1, <2>2
<1>2. owner' # None => /\ owner # None /\ owner' \in Owners
                       /\ owner'.id = owner.id /\ owner'.run = owner.run
                       /\ owner'.task = owner.task
                       /\ owner' = owner \/ owner'.stopping
  BY <1>1 DEF IInv, TypeInv, Owners
<1>3. faults' \in 0 .. MaxFaults /\ fence' \in States
  BY <1>1, Bounds DEF IInv, TypeInv, States
<1>4. TypeInv'
  BY <1>1, <1>2, <1>3 DEF IInv, TypeInv, Statuses, lanes, asked
<1>5. Onward
  BY <1>1 DEF Onward, IInv, TypeInv, Over
<1> QED
  BY <1>1, <1>2, <1>4, <1>5, ElsewhereKeeps

LEMMA QuarantinedKeeps ==
  ASSUME IInv, Quarantined
  PROVE  IInv'
<1>1. /\ owner' \in {owner, None} /\ fence' \in {fence, None, "unconfirmed"}
      /\ faults' \in {faults, faults + 1} /\ (faults' # faults => faults < MaxFaults)
      /\ UNCHANGED <<workers, finalizers, confirms, retry, sidecar, lanes, recovered, asked>>
  BY DEF Quarantined, QuarantineSettles, QuarantineFails, Fails
<1>2. faults' \in 0 .. MaxFaults /\ fence' \in States
  BY <1>1, Bounds DEF IInv, TypeInv, States
<1>3. TypeInv'
  BY <1>1, <1>2 DEF IInv, TypeInv, sidecar, lanes, asked
<1> QED
  BY <1>1, <1>3, SameWorkers, ElsewhereKeeps DEF sidecar

LEMMA StopShutdownKeeps ==
  ASSUME IInv, NEW n \in Requests, StopShutdown(n)
  PROVE  IInv'
<1> USE DEF IInv
<1>1. /\ requests[n] = "unconfirmed" /\ requests' = [requests EXCEPT ![n] = "ended"]
      /\ ran' = [m \in Requests |-> IF m = n THEN ran[m] + 1 ELSE ran[m]]
      /\ pointer' = None /\ fence' = None
      /\ UNCHANGED <<workers, owner, finalizers, confirms, retry, durable, receipts>>
      /\ UNCHANGED <<lanes, recovered, stops, faults>>
  BY DEF StopShutdown, Shutdown, Ran
<1>2. TypeInv'
  BY <1>1 DEF TypeInv, States, lanes
<1>3. \A m \in Requests :
        /\ m # n => ran'[m] = ran[m] /\ requests'[m] = requests[m]
        /\ m = n => ran'[m] = ran[m] + 1 /\ requests'[m] = "ended" /\ requests[m] # "waiting"
        /\ requests[m] = "ended" => requests'[m] = "ended"
        /\ ran[m] \in Nat
  BY <1>1 DEF TypeInv
<1>4. Once'
  <2>1. FinalizersOnce'
    <3> SUFFICES ASSUME NEW m \in Requests
                 PROVE  ran'[m] <= IF requests'[m] = "ended" THEN 2 ELSE 1
      BY DEF FinalizersOnce
    <3>1. ran[m] <= IF requests[m] = "ended" THEN 2 ELSE 1
      BY DEF Once, FinalizersOnce
    <3>2. m = n => ran[m] <= 1
      BY <1>1, <3>1
    <3> QED
      BY <1>3, <3>1, <3>2
  <2>2. \A m \in Requests : m > stops' => ran'[m] = 0 /\ requests'[m] = "waiting"
    BY <1>1, <1>3 DEF Once
  <2>3. \A i \in Ids : \A m \in finalizers'[i] :
          m <= stops' /\ ran'[m] <= IF requests'[m] = "ended" THEN 1 ELSE 0
    <3> SUFFICES ASSUME NEW i \in Ids, NEW m \in finalizers[i]
                 PROVE  m <= stops /\ ran'[m] <= IF requests'[m] = "ended" THEN 1 ELSE 0
      BY <1>1
    <3>1. m \in Requests
      BY DEF TypeInv
    <3>2. m <= stops /\ ran[m] <= IF requests[m] = "ended" THEN 1 ELSE 0
      BY DEF Once
    <3>3. m = n => ran[m] <= 0
      BY <1>1, <3>2
    <3> QED
      BY <1>3, <3>1, <3>2, <3>3
  <2>4. \A i, j \in Ids : \A m \in finalizers'[i] : m \in finalizers'[j] => i = j
    BY <1>1 DEF Once
  <2>5. \A s \in Slots : Callers(confirms, s) \subseteq Requests
    BY DEF Callers, TypeInv, Confirmations
  <2>6. \A s \in Slots : \A m \in Callers(confirms', s) :
          m <= stops' /\ requests'[m] = "waiting"
    <3> SUFFICES ASSUME NEW s \in Slots, NEW m \in Callers(confirms, s)
                 PROVE  m <= stops /\ requests'[m] = "waiting"
      BY <1>1
    <3>1. m <= stops /\ requests[m] = "waiting" /\ m \in Requests
      BY <2>5 DEF Once
    <3> QED
      BY <3>1, <1>3
  <2>7. \A s, t \in Slots : \A m \in Callers(confirms', s) : m \in Callers(confirms', t) => s = t
    BY <1>1 DEF Once
  <2> QED
    BY <2>1, <2>2, <2>3, <2>4, <2>6, <2>7 DEF Once
<1> QED
  BY <1>1, <1>2, <1>4, SameWorkers, ElsewhereKeeps

LEMMA RetryEndsKeeps ==
  ASSUME IInv, RetryEnds
  PROVE  IInv'
<1>1. /\ retry' = None
      /\ UNCHANGED <<workers, owner, finalizers, confirms, fence, sidecar, lanes>>
      /\ UNCHANGED <<recovered, asked, faults>>
  BY DEF RetryEnds
<1>2. TypeInv'
  BY <1>1 DEF IInv, TypeInv, sidecar, lanes, asked
<1> QED
  BY <1>1, <1>2, SameWorkers, ElsewhereKeeps DEF sidecar

LEMMA SettleTyped ==
  ASSUME TypeInv, Settle
  PROVE  /\ workers' \in [Runs -> Statuses] /\ Onward
         /\ pointer' \in {pointer, None}
         /\ fence' \in States /\ durable' \in States
<1>1. PICK left \in SUBSET Alive :
        /\ workers' = [r \in Runs |-> IF r \notin Alive THEN workers[r]
                                      ELSE IF r \in left THEN "released" ELSE "gone"]
        /\ IF pointer = None /\ durable = None /\ left = {}
           THEN UNCHANGED <<pointer, fence, durable>>
           ELSE /\ fence' = None /\ durable' = None
                /\ pointer' = IF left = {} THEN None ELSE pointer
  BY DEF Settle
<1>2. workers' \in [Runs -> Statuses]
  BY <1>1 DEF TypeInv, Statuses
<1>3. Onward
  BY <1>1 DEF Onward, Alive, Over
<1>4. pointer' \in {pointer, None} /\ fence' \in States /\ durable' \in States
  BY <1>1 DEF TypeInv, States
<1> QED
  BY <1>2, <1>3, <1>4

LEMMA RecoverFenceKeeps ==
  ASSUME IInv, RecoverFence
  PROVE  IInv'
<1>1. /\ Settle
      /\ UNCHANGED <<owner, finalizers, confirms, retry, quarantine, receipts, lanes>>
      /\ UNCHANGED <<recovered, asked, faults>>
  BY DEF RecoverFence
<1>2. TypeInv'
  BY <1>1, SettleTyped DEF IInv, TypeInv, lanes, asked
<1>3. Onward
  BY <1>1, SettleTyped DEF IInv
<1> QED
  BY <1>1, <1>2, <1>3, ElsewhereKeeps

LEMMA RecoverSessionKeeps ==
  ASSUME IInv, RecoverSession
  PROVE  IInv'
<1>1. /\ Settle /\ recovered' = TRUE
      /\ UNCHANGED <<owner, finalizers, confirms, retry, quarantine, receipts, lanes>>
      /\ UNCHANGED <<asked, faults>>
  BY DEF RecoverSession
<1>2. TypeInv'
  BY <1>1, SettleTyped DEF IInv, TypeInv, lanes, asked
<1>3. Onward
  BY <1>1, SettleTyped DEF IInv
<1> QED
  BY <1>1, <1>2, <1>3, ElsewhereKeeps

(* A stop that is asked for has a new number: nothing was run for it, *)
(* nobody waits for it yet.                                           *)
LEMMA OnceAsked ==
  ASSUME TypeInv, Once, stops' \in Nat, stops <= stops', UNCHANGED ran,
         NEW callers \in SUBSET Requests,
         \A n \in callers : n > stops /\ n <= stops',
         NEW id, \A i \in Ids : finalizers'[i] \subseteq
                   finalizers[i] \cup (IF i = id THEN callers ELSE {}),
         NEW s, \A t \in Slots : Callers(confirms', t) \subseteq
                  Callers(confirms, t) \cup (IF t = s THEN callers ELSE {}),
         \A n \in Requests \ callers : requests'[n] = requests[n],
         \A n \in callers : requests'[n] # "ended",
         requests' = requests \/ s \notin Slots
  PROVE  Once'
<1>1. \A n \in Requests : n \in Nat /\ (n > stops <=> ~(n <= stops))
  BY Bounds DEF Requests, TypeInv
<1>2. \A n \in callers : ran'[n] = 0 /\ requests[n] = "waiting" /\ n \in Requests
  BY DEF Once
<1>3. \A i \in Ids : finalizers[i] \subseteq Requests
  BY DEF TypeInv
<1>4. \A t \in Slots : Callers(confirms, t) \subseteq Requests
  BY DEF Callers, TypeInv, Confirmations
<1>5. stops \in Nat
  BY Bounds DEF TypeInv
<1>6. FinalizersOnce'
  <2> SUFFICES ASSUME NEW n \in Requests
               PROVE  ran'[n] <= IF requests'[n] = "ended" THEN 2 ELSE 1
    BY DEF FinalizersOnce
  <2>1. CASE n \in callers
    BY <2>1, <1>2
  <2>2. CASE n \notin callers
    BY <2>2 DEF Once, FinalizersOnce
  <2> QED
    BY <2>1, <2>2
<1>7. ASSUME NEW n \in Requests, n > stops'
      PROVE  ran'[n] = 0 /\ requests'[n] = "waiting"
  <2>1. n > stops /\ n \notin callers
    BY <1>1, <1>5, <1>7
  <2> QED
    BY <2>1 DEF Once
<1>8. ASSUME NEW i \in Ids, NEW n \in finalizers'[i]
      PROVE  n <= stops' /\ ran'[n] <= IF requests'[n] = "ended" THEN 1 ELSE 0
  <2>1. CASE n \in callers
    BY <2>1, <1>2
  <2>2. CASE n \notin callers
    <3>1. n \in finalizers[i] /\ n \in Requests
      BY <2>2, <1>3, <1>8
    <3>2. n <= stops /\ ran[n] <= IF requests[n] = "ended" THEN 1 ELSE 0
      BY <3>1 DEF Once
    <3>3. requests'[n] = requests[n] /\ n <= stops'
      BY <2>2, <3>1, <3>2, <1>1, <1>5
    <3> QED
      BY <3>2, <3>3
  <2> QED
    BY <2>1, <2>2
<1>9. ASSUME NEW i \in Ids, NEW j \in Ids, NEW n \in finalizers'[i], n \in finalizers'[j]
      PROVE  i = j
  <2>1. CASE n \in callers
    <3>1. n \notin finalizers[i] /\ n \notin finalizers[j]
      BY <2>1, <1>1 DEF Once
    <3>2. i = id /\ j = id
      BY <3>1, <1>9
    <3> QED
      BY <3>2
  <2>2. CASE n \notin callers
    BY <2>2, <1>9 DEF Once
  <2> QED
    BY <2>1, <2>2
<1>10. ASSUME NEW t \in Slots, NEW n \in Callers(confirms', t)
       PROVE  n <= stops' /\ requests'[n] = "waiting"
  <2>1. CASE n \in callers
    <3>1. n \notin Callers(confirms, t)
      BY <2>1, <1>1 DEF Once
    <3>2. t = s
      BY <3>1, <1>10
    <3> QED
      BY <2>1, <3>2, <1>2
  <2>2. CASE n \notin callers
    <3>1. n \in Callers(confirms, t) /\ n \in Requests
      BY <2>2, <1>4, <1>10
    <3>2. n <= stops /\ requests[n] = "waiting"
      BY <3>1 DEF Once
    <3> QED
      BY <2>2, <3>1, <3>2, <1>1, <1>5
  <2> QED
    BY <2>1, <2>2
<1>11. ASSUME NEW t \in Slots, NEW u \in Slots, NEW n \in Callers(confirms', t),
              n \in Callers(confirms', u)
       PROVE  t = u
  <2>1. CASE n \in callers
    <3>1. n \notin Callers(confirms, t) /\ n \notin Callers(confirms, u)
      BY <2>1, <1>1 DEF Once
    <3>2. t = s /\ u = s
      BY <3>1, <1>11
    <3> QED
      BY <3>2
  <2>2. CASE n \notin callers
    BY <2>2, <1>11 DEF Once
  <2> QED
    BY <2>1, <2>2
<1> QED
  BY <1>6, <1>7, <1>8, <1>9, <1>10, <1>11 DEF Once

LEMMA OccupiedBegun ==
  ASSUME TypeInv, Gone, NEW s, NEW o, NEW kind, NEW callers, Occupied(s, o, kind, callers),
         o.run \in Runs, Begun(o.run)
  PROVE  \A t \in Confirming' : confirms'[t].run \in Runs /\ Begun(confirms'[t].run)
<1> SUFFICES ASSUME NEW t \in Confirming'
             PROVE  confirms'[t].run \in Runs /\ Begun(confirms'[t].run)
  OBVIOUS
<1>1. CASE t = s
  BY <1>1 DEF Occupied
<1>2. CASE t # s
  <2>1. t \in Confirming /\ confirms'[t] = confirms[t]
    BY <1>2 DEF Occupied, Others, Confirming
  <2> QED
    BY <2>1, ConfirmingTyped DEF Gone, Confirmations
<1> QED
  BY <1>1, <1>2

LEMMA OccupiedStays ==
  ASSUME NEW s, NEW o, NEW kind, NEW callers, Occupied(s, o, kind, callers)
  PROVE  \A t \in Slots : confirms[t] # None =>
           confirms'[t] # None /\ confirms'[t] = confirms[t]
  BY DEF Occupied, Others

(* The first half of a stop. *)
LEMMA BeginStops ==
  ASSUME IInv, NEW o \in Owners, Begun(o.run), NEW reason \in Reasons \cup {Recheck},
         NEW callers \in SUBSET Requests, Begin(o, reason, callers),
         \A n \in callers : n > stops /\ n <= stops',
         stops' \in 0 .. MaxStops, stops <= stops',
         faults' \in 0 .. MaxFaults, UNCHANGED <<workers, sidecar, recovered, requests, ran>>
  PROVE  IInv'
<1> USE DEF IInv
<1> DEFINE c == Command("stop_begin", <<o.run, reason>>, None)
           s == FreeSlot
<1>1. /\ Confirming # Slots
      /\ owner' = [o EXCEPT !.stopping = TRUE, !.task = s]
      /\ finalizers' = [finalizers EXCEPT ![o.id] = callers]
      /\ fence' = "stopping" /\ critical' = Append(critical, c)
      /\ Started("foreground", o, callers) /\ UNCHANGED <<retry, normal>>
  BY DEF Begin
<1>2. o.id \in Ids /\ o.run \in Runs /\ s \in Slots
  BY <1>1, SlotIsFree DEF Owners
<1>3. Occupied(s, o, "foreground", callers)
  BY <1>1, <1>2, StartedOccupies DEF Kinds
<1> HIDE DEF s
<1>4. owner' \in Owners /\ owner'.stopping /\ owner'.task = s
      /\ owner'.id = o.id /\ owner'.run = o.run
  BY <1>1, <1>2 DEF Owners
<1>5. c \in CriticalCalls /\ c.from = None
  BY <1>2 DEF Command, CriticalCalls, Waiting
<1> HIDE DEF c
<1>6. critical \in Seq(CriticalCalls) /\ critical' \in Seq(CriticalCalls)
  BY <1>1, <1>5 DEF TypeInv
<1>7. TypeInv'
  <2>1. finalizers' \in [Ids -> SUBSET Requests]
    BY <1>1, <1>2 DEF TypeInv
  <2>2. confirms' \in [Slots -> Confirmations \cup {None}]
    BY <1>3 DEF Occupied
  <2>3. fence' \in States
    BY <1>1 DEF States
  <2> QED
    BY <1>1, <1>4, <1>6, <2>1, <2>2, <2>3 DEF TypeInv, sidecar
<1>8. InStep'
  <2>1. retry' # None => InUse(retry'.owner)
    BY <1>1 DEF InUse
  <2> QED
    BY <1>4, <2>1, InStepKept
<1>9. Joined'
  <2>1. s \in Slots /\ confirms'[s] # None
    BY <1>3, ConstantsAssumption DEF Occupied
  <2>2. confirms'[s].kind = "foreground" /\ confirms'[s].owner = o.id
    BY <1>3 DEF Occupied
  <2> QED
    BY <1>4, <2>1, <2>2 DEF Joined, Confirming
<1>10. Lanes'
  <2>1. \A t \in Slots : confirms[t] # None =>
          confirms'[t] # None /\ confirms'[t].step = confirms[t].step
    BY <1>3, OccupiedStays
  <2>2. Waited(normal, {"ack"}, confirms')
    BY <2>1, WaitedStays DEF Lanes
  <2>3. Waited(critical, {"unconfirmed", "error"}, confirms')
    BY <2>1, WaitedStays DEF Lanes
  <2>4. Waited(critical', {"unconfirmed", "error"}, confirms')
    BY <1>1, <1>5, <1>6, <2>3, WaitedUnasked
  <2> QED
    BY <1>1, <2>2, <2>4 DEF Lanes
<1>11. Once'
  <2>1. \A i \in Ids : finalizers'[i] \subseteq
                         finalizers[i] \cup (IF i = o.id THEN callers ELSE {})
    BY <1>1 DEF TypeInv
  <2>2. \A t \in Slots : Callers(confirms', t) \subseteq
                           Callers(confirms, t) \cup (IF t = s THEN callers ELSE {})
    BY <1>3 DEF Occupied, Others, Callers
  <2>3. stops' \in Nat
    BY Bounds
  <2>4. \A n \in callers : requests'[n] # "ended"
    BY DEF Once
  <2> QED
    BY <2>1, <2>2, <2>3, <2>4, OnceAsked
<1>12. Gone'
  <2>1. \A t \in Confirming' : confirms'[t].run \in Runs /\ Begun(confirms'[t].run)
    BY <1>2, <1>3, OccupiedBegun
  <2>2. \A r \in Runs : Acknowledged(r)' => Acknowledged(r)
    BY <1>1 DEF Acknowledged, sidecar
  <2> QED
    BY <1>2, <1>4, <2>1, <2>2, SameWorkers, GoneKept
<1> QED
  BY <1>7, <1>8, <1>9, <1>10, <1>11, <1>12

LEMMA ReconcileFailedStopKeeps ==
  ASSUME IInv, ReconcileFailedStop
  PROVE  IInv'
<1> USE DEF IInv
<1> DEFINE o == [owner EXCEPT !.failed = FALSE]
<1>1. /\ owner # None /\ Begin(o, Recheck, {})
      /\ UNCHANGED <<workers, sidecar, recovered, asked, faults>>
  BY DEF ReconcileFailedStop, Failed
<1>2. o \in Owners /\ Begun(o.run)
  BY <1>1 DEF TypeInv, Owners, Gone
<1> HIDE DEF o
<1>3. stops' \in 0 .. MaxStops /\ stops <= stops' /\ faults' \in 0 .. MaxFaults
  BY <1>1, Bounds DEF TypeInv, asked
<1> QED
  BY <1>1, <1>2, <1>3, BeginStops DEF asked

(* A request joins a stop under way, or is answered by one that failed. *)
LEMMA JoinKeeps ==
  ASSUME IInv, owner # None, owner.task # None, NEW callers \in SUBSET Requests, Join(callers),
         \A n \in callers : n > stops /\ n <= stops',
         stops' \in 0 .. MaxStops, stops <= stops',
         UNCHANGED <<workers, sidecar, recovered, ran, faults>>
  PROVE  IInv'
<1> USE DEF IInv
<1> DEFINE s == owner.task
<1>1. /\ finalizers' = [finalizers EXCEPT ![owner.id] = @ \cup callers]
      /\ UNCHANGED <<owner, retry, quarantine, fence, lanes>>
  BY DEF Join
<1>2. owner \in Owners /\ owner.id \in Ids /\ s \in Slots \cup {Rejected}
  BY DEF TypeInv, Owners
<1> HIDE DEF s
<1>3. finalizers' \in [Ids -> SUBSET Requests]
  BY <1>1, <1>2 DEF TypeInv
<1>4. /\ confirms' \in [Slots -> Confirmations \cup {None}]
      /\ \A t \in Slots : /\ (confirms'[t] # None) <=> (confirms[t] # None)
                          /\ confirms[t] # None =>
                               /\ confirms'[t].owner = confirms[t].owner
                               /\ confirms'[t].run = confirms[t].run
                               /\ confirms'[t].kind = confirms[t].kind
                               /\ confirms'[t].step = confirms[t].step
                          /\ Callers(confirms', t) \subseteq
                               Callers(confirms, t) \cup (IF t = s THEN callers ELSE {})
  <2>1. CASE s = Rejected
    <3>1. confirms' = confirms
      BY <2>1 DEF Join, s
    <3> QED
      BY <3>1 DEF TypeInv
  <2>2. CASE s # Rejected
    <3> DEFINE c == [confirms[s] EXCEPT !.callers = @ \cup callers]
    <3>1. s \in Slots /\ confirms' = [confirms EXCEPT ![s] = c]
      BY <2>2, <1>2 DEF Join, s
    <3>2. confirms[s] # None /\ confirms[s] \in Confirmations
      BY <3>1 DEF Joined, s, Confirming, TypeInv
    <3>3. /\ c \in Confirmations /\ c # None
          /\ c.owner = confirms[s].owner /\ c.run = confirms[s].run
          /\ c.kind = confirms[s].kind /\ c.step = confirms[s].step
          /\ c.callers = confirms[s].callers \cup callers
      <4>1. c \in Confirmations
        BY <3>2 DEF Confirmations
      <4> QED
        BY <3>2, <4>1, ConstantsAssumption DEF Confirmations
    <3> HIDE DEF c
    <3>4. confirms'[s] = c /\ \A t \in Slots : t # s => confirms'[t] = confirms[t]
      BY <3>1 DEF TypeInv
    <3>5. confirms' \in [Slots -> Confirmations \cup {None}]
      BY <3>1, <3>3 DEF TypeInv
    <3> QED
      BY <3>2, <3>3, <3>4, <3>5 DEF Callers
  <2> QED
    BY <2>1, <2>2
<1>5. /\ requests' \in [Requests -> {"waiting", "unconfirmed", "ended"}]
      /\ \A n \in Requests \ callers : requests'[n] = requests[n]
      /\ \A n \in callers : requests'[n] # "ended"
      /\ requests' = requests \/ s \notin Slots
  <2>1. \A n \in callers : requests[n] = "waiting"
    BY DEF Once
  <2>2. CASE requests' = requests
    BY <2>1, <2>2 DEF TypeInv
  <2>3. CASE s = Rejected /\ Told(callers)
    BY <2>3, NoneApart DEF Told, TypeInv
  <2> QED
    BY <2>2, <2>3 DEF Join, s
<1>6. TypeInv'
  BY <1>1, <1>3, <1>4, <1>5 DEF TypeInv, sidecar, lanes
<1>7. InStep'
  <2>1. \A t \in Confirming' : InUse(confirms'[t].owner)
    BY <1>4 DEF InUse, Confirming
  <2>2. retry' # None => InUse(retry'.owner)
    BY <1>1 DEF InUse
  <2>3. owner'.failed \/ owner'.task # None => owner'.stopping
    BY <1>1 DEF InStep
  <2> QED
    BY <1>1, <2>1, <2>2, <2>3, InStepKept
<1>8. Joined'
  BY <1>1, <1>4 DEF Joined, Confirming
<1>9. Lanes'
  BY <1>1, <1>4, LanesKept
<1>10. Once'
  <2>1. \A i \in Ids : finalizers'[i] \subseteq
                         finalizers[i] \cup (IF i = owner.id THEN callers ELSE {})
    BY <1>1 DEF TypeInv
  <2>2. stops' \in Nat
    BY Bounds
  <2>3. \A t \in Slots : Callers(confirms', t) \subseteq
                           Callers(confirms, t) \cup (IF t = s THEN callers ELSE {})
    BY <1>4
  <2> QED
    BY <1>5, <2>1, <2>2, <2>3, OnceAsked
<1>11. Gone'
  <2>1. \A t \in Confirming' : confirms'[t].run \in Runs /\ Begun(confirms'[t].run)
    <3> SUFFICES ASSUME NEW t \in Confirming'
                 PROVE  confirms'[t].run \in Runs /\ Begun(confirms'[t].run)
      OBVIOUS
    <3>1. t \in Confirming /\ confirms'[t].run = confirms[t].run
      BY <1>4 DEF Confirming
    <3> QED
      BY <3>1, ConfirmingTyped DEF Gone, Confirmations
  <2>2. \A r \in Runs : Acknowledged(r)' => Acknowledged(r)
    BY <1>1 DEF Acknowledged, sidecar, lanes
  <2>3. owner' # None => owner'.run \in Runs /\ Begun(owner'.run)
    BY <1>1, <1>2 DEF Gone, Owners
  <2> QED
    BY <2>1, <2>2, <2>3, SameWorkers, GoneKept
<1> QED
  BY <1>6, <1>7, <1>8, <1>9, <1>10, <1>11

LEMMA InterruptKeeps ==
  ASSUME IInv, Interrupt
  PROVE  IInv'
<1> USE DEF IInv
<1> DEFINE callers == {stops + 1} \ Silent
<1>1. PICK reason \in Reasons :
        /\ stops < MaxStops /\ LastRun > 0 /\ stops' = stops + 1
        /\ IF owner # None /\ owner.task # None THEN Join(callers)
           ELSE /\ Begin(IF owner = None THEN Owner(LastRun, TRUE) ELSE owner, reason, callers)
                /\ UNCHANGED requests
        /\ UNCHANGED <<workers, sidecar, recovered, ran, faults>>
  BY DEF Interrupt
<1>2. stops \in Nat /\ stops' \in 0 .. MaxStops /\ stops <= stops' /\ faults' \in 0 .. MaxFaults
  BY <1>1, Bounds DEF TypeInv
<1>3. stops + 1 \in Requests
  BY <1>1, <1>2, Bounds DEF Requests
<1>4. callers \in SUBSET Requests /\ \A n \in callers : n > stops /\ n <= stops'
  BY <1>1, <1>2, <1>3
<1> HIDE DEF callers
<1>5. CASE owner # None /\ owner.task # None
  BY <1>1, <1>2, <1>4, <1>5, JoinKeeps
<1>6. CASE ~(owner # None /\ owner.task # None)
  <2> DEFINE o == IF owner = None THEN Owner(LastRun, TRUE) ELSE owner
  <2>1. o \in Owners /\ Begun(o.run)
    <3>1. LastRun \in Runs
      BY <1>1, LastRunInRange, Bounds DEF Runs
    <3>2. Begun(LastRun)
      BY <3>1, LastRunInRange DEF Gone
    <3>3. Owner(LastRun, TRUE) \in Owners /\ Owner(LastRun, TRUE).run = LastRun
      BY <3>1, NewOwner
    <3> QED
      BY <3>2, <3>3 DEF TypeInv, Gone
  <2>2. Begin(o, reason, callers) /\ UNCHANGED requests
    BY <1>1, <1>6
  <2> HIDE DEF o
  <2> QED
    BY <1>1, <1>2, <1>4, <2>1, <2>2, BeginStops
<1> QED
  BY <1>5, <1>6

LEMMA RetryStartsKeeps ==
  ASSUME IInv, RetryStarts
  PROVE  IInv'
<1> USE DEF IInv
<1> DEFINE s == FreeSlot
<1>1. /\ retry # None /\ owner # None /\ owner.id = retry.owner /\ retry.left > 0
      /\ Confirming # Slots
      /\ retry' = [retry EXCEPT !.left = @ - 1]
      /\ Started("retry", owner, {})
      /\ UNCHANGED <<workers, owner, finalizers, quarantine, fence, sidecar, lanes>>
      /\ UNCHANGED <<recovered, asked, faults>>
  BY DEF RetryStarts, Obsolete
<1>2. owner \in Owners /\ owner.id \in Ids /\ owner.run \in Runs
  BY <1>1 DEF TypeInv, Owners
<1>3. Occupied(s, owner, "retry", {}) /\ s \in Slots
  BY <1>1, <1>2, StartedOccupies, SlotIsFree DEF Kinds
<1> HIDE DEF s
<1>4. retry' \in Repetitions /\ retry'.owner = retry.owner
  <2>1. retry \in Repetitions /\ retry.left \in 0 .. Retries
    BY <1>1 DEF TypeInv, Repetitions
  <2>2. retry.left - 1 \in 0 .. Retries
    BY <1>1, <2>1, Bounds
  <2> QED
    BY <1>1, <2>1, <2>2 DEF Repetitions
<1>5. TypeInv'
  BY <1>1, <1>3, <1>4 DEF TypeInv, Occupied, sidecar, lanes, asked
<1>6. InStep'
  <2>1. owner'.stopping
    BY <1>1 DEF InStep
  <2>2. retry' # None => InUse(retry'.owner)
    BY <1>1, <1>4 DEF InUse
  <2> QED
    BY <1>1, <2>1, <2>2, InStepKept
<1>7. Joined'
  <2>1. owner.task \in Slots => confirms'[owner.task] = confirms[owner.task]
    BY <1>1, <1>3, OccupiedStays DEF Joined, Confirming
  <2> QED
    BY <1>1, <2>1, JoinedKept
<1>8. Lanes'
  <2>1. \A t \in Slots : confirms[t] # None =>
          confirms'[t] # None /\ confirms'[t].step = confirms[t].step
    BY <1>3, OccupiedStays
  <2> QED
    BY <1>1, <2>1, LanesKept
<1>9. Once'
  <2>1. \A t \in Slots : Callers(confirms', t) \subseteq Callers(confirms, t)
    BY <1>3 DEF Occupied, Others, Callers
  <2> QED
    BY <1>1, <2>1, OnceKept DEF asked
<1>10. Gone'
  <2>1. \A t \in Confirming' : confirms'[t].run \in Runs /\ Begun(confirms'[t].run)
    BY <1>1, <1>2, <1>3, OccupiedBegun DEF Gone
  <2>2. \A r \in Runs : Acknowledged(r)' => Acknowledged(r)
    BY <1>1 DEF Acknowledged, sidecar, lanes
  <2>3. owner' # None => owner'.run \in Runs /\ Begun(owner'.run)
    BY <1>1, <1>2 DEF Gone
  <2> QED
    BY <1>1, <2>1, <2>2, <2>3, SameWorkers, GoneKept
<1> QED
  BY <1>5, <1>6, <1>7, <1>8, <1>9, <1>10

(* A repetition is kept or ends. *)
LEMMA AsleepOrNot ==
  Asleep \in {retry, None}
  BY DEF Asleep

LEMMA OverdueKeeps ==
  ASSUME IInv, NEW s \in Confirming, Overdue(s)
  PROVE  IInv'
<1> USE DEF IInv
<1>1. /\ UNCHANGED <<workers, owner, finalizers, quarantine, fence, sidecar, lanes>>
      /\ UNCHANGED <<recovered, asked, faults>> /\ retry' \in {retry, None}
  BY AsleepOrNot DEF Overdue
<1>2. Moved(s, confirms[s].step) /\ confirms[s].kind = "retry"
  BY OverdueMoves
<1>3. Continued
  BY <1>2, MovedContinues
<1>4. TypeInv'
  BY <1>1, <1>2 DEF TypeInv, Moved, sidecar, lanes, asked
<1>5. InStep'
  <2>1. \A t \in Confirming' : InUse(confirms'[t].owner)
    BY <1>3, ContinuedOwners
  <2>2. retry' # None => InUse(retry'.owner)
    BY <1>1 DEF InUse
  <2>3. owner' # None => (owner'.failed \/ owner'.task # None => owner'.stopping)
    BY <1>1 DEF InStep
  <2> QED
    BY <1>1, <2>1, <2>2, <2>3, InStepKept
<1>6. Joined'
  <2>1. owner # None /\ owner.task \in Slots => confirms'[owner.task] = confirms[owner.task]
    BY <1>2 DEF Joined, Moved, Others
  <2> QED
    BY <1>1, <2>1, JoinedKept
<1>7. Lanes'
  <2>1. \A t \in Slots : confirms[t] # None =>
          confirms'[t] # None /\ confirms'[t].step = confirms[t].step
    BY <1>2 DEF Moved, Others
  <2> QED
    BY <1>1, <2>1, LanesKept
<1>8. Once'
  BY <1>1, <1>3, ContinuedCallers, OnceKept DEF asked
<1>9. Gone'
  BY <1>1, <1>3, SameWorkers, GoneQuiet DEF OwnerOfRun, sidecar, lanes
<1> QED
  BY <1>4, <1>5, <1>6, <1>7, <1>8, <1>9

LEMMA ConfirmReleaseKeeps ==
  ASSUME IInv, NEW s \in Confirming, ConfirmRelease(s)
  PROVE  IInv'
<1> USE DEF IInv
<1>1. /\ confirms[s].step \in {"release", "finalize"}
      /\ confirms' = [confirms EXCEPT ![s] = None]
      /\ fence' = None /\ owner' = (IF Owns(confirms[s]) THEN None ELSE owner)
      /\ retry' \in {retry, None}
      /\ UNCHANGED <<workers, finalizers, quarantine, sidecar, lanes, recovered, asked, faults>>
  BY DEF ConfirmRelease
<1>2. Freed(s)
  BY <1>1, EndFrees
<1>3. Continued
  BY <1>2, FreedContinues
<1>4. TypeInv'
  BY <1>1, <1>2 DEF TypeInv, Freed, States, sidecar, lanes, asked
<1>5. InStep'
  <2>1. \A t \in Confirming' : InUse(confirms'[t].owner)
    BY <1>3, ContinuedOwners
  <2>2. retry' # None => InUse(retry'.owner)
    BY <1>1 DEF InUse
  <2>3. owner' # None =>
          /\ owner'.failed \/ owner'.task # None => owner'.stopping
          /\ owner # None /\ owner'.id = owner.id /\ owner'.stopping = owner.stopping
    BY <1>1 DEF InStep
  <2> QED
    BY <2>1, <2>2, <2>3, InStepKept
<1>6. Joined'
  <2>1. ASSUME owner' # None, owner.task \in Slots
        PROVE  owner' = owner /\ confirms'[owner.task] = confirms[owner.task]
    <3>1. owner' = owner /\ owner # None /\ ~Owns(confirms[s])
      BY <1>1, <2>1
    <3>2. owner.task # s
      BY <2>1, <3>1 DEF Joined, Owns
    <3> QED
      BY <1>2, <2>1, <3>1, <3>2 DEF Freed, Others
  <2> QED
    BY <1>1, <2>1, JoinedKept
<1>7. Lanes'
  <2>1. \A t \in Slots :
          confirms[t] # None /\ confirms[t].step \in {"ack", "unconfirmed", "error"} =>
            confirms'[t] # None /\ confirms'[t].step = confirms[t].step
    BY <1>1, <1>2 DEF Freed, Others
  <2> QED
    BY <1>1, <2>1, LanesKept
<1>8. Once'
  BY <1>1, <1>3, ContinuedCallers, OnceKept DEF asked
<1>9. Gone'
  BY <1>1, <1>3, SameWorkers, GoneQuiet DEF OwnerOfRun, sidecar, lanes
<1> QED
  BY <1>4, <1>5, <1>6, <1>7, <1>8, <1>9

LEMMA HostDiesKeeps ==
  ASSUME IInv, HostDies
  PROVE  IInv'
<1> USE DEF IInv
<1>1. /\ faults < MaxFaults /\ faults' = faults + 1
      /\ workers' = [r \in Runs |-> IF workers[r] = "driven" THEN "orphaned" ELSE workers[r]]
      /\ owner' = None /\ retry' = None
      /\ confirms' = [s \in Slots |-> None] /\ finalizers' = [i \in Ids |-> {}]
      /\ fence' \in {fence, None} \cup (IF stops > 0 THEN {"stopping"} ELSE {})
      /\ critical' = <<>> /\ normal' = <<>> /\ recovered' = FALSE
      /\ requests' = [n \in Requests |-> IF requests[n] = "ended" THEN "ended" ELSE "waiting"]
      /\ UNCHANGED <<sidecar, stops, ran>>
  BY DEF HostDies, Fails
<1>2. fence' \in States
  BY <1>1 DEF TypeInv, States
<1>3. faults' \in 0 .. MaxFaults
  BY <1>1, Bounds DEF TypeInv
<1>4. critical' \in Seq(CriticalCalls) /\ normal' \in Seq(NormalCalls)
  BY <1>1
<1>5. TypeInv'
  BY <1>1, <1>2, <1>3, <1>4 DEF TypeInv, Statuses, sidecar
<1>6. Confirming' = {} /\ Continued
  BY <1>1 DEF Confirming, Continued
<1>7. InStep' /\ Joined'
  BY <1>1, <1>6 DEF InStep, Joined
<1>8. Lanes'
  BY <1>1 DEF Lanes, Waited
<1>9. Once'
  BY <1>1, <1>6, ContinuedCallers, OnceKept
<1>10. Gone'
  <2>1. Onward
    BY <1>1 DEF Onward, Over
  <2>2. \A r \in Runs : Acknowledged(r)' => Acknowledged(r)
    BY <1>1 DEF Acknowledged, sidecar
  <2> QED
    BY <1>1, <1>6, <2>1, <2>2, GoneKept
<1> QED
  BY <1>5, <1>7, <1>8, <1>9, <1>10

LEMMA ConfirmWorkerKeeps ==
  ASSUME IInv, NEW s \in Confirming, ConfirmWorker(s)
  PROVE  IInv'
<1> USE DEF IInv
<1> DEFINE c == Command("stop_ack", confirms[s].run, s)
<1>1. /\ confirms[s].step = "worker" /\ confirms[s].run \notin Alive
      /\ Step(s, "ack") /\ normal' = Append(normal, c)
      /\ UNCHANGED <<workers, owner, finalizers, retry, quarantine, fence, sidecar, critical>>
      /\ UNCHANGED <<recovered, asked, faults>>
  BY DEF ConfirmWorker
<1>2. Moved(s, "ack")
  BY <1>1, StepMoves DEF Steps
<1>3. s \in Slots /\ confirms[s] \in Confirmations
  BY ConfirmingTyped
<1>4. c \in NormalCalls /\ c.from = s /\ c.id = <<"stop_ack", confirms[s].run>>
  BY <1>3 DEF Command, NormalCalls, Confirmations
<1> HIDE DEF c
<1>5. normal \in Seq(NormalCalls) /\ normal' \in Seq(NormalCalls)
  BY <1>1, <1>4 DEF TypeInv
<1>6. TypeInv'
  BY <1>1, <1>2, <1>5 DEF TypeInv, Moved, sidecar, asked
<1>7. Continued
  BY <1>2, MovedContinues
<1>8. InStep'
  <2>1. \A t \in Confirming' : InUse(confirms'[t].owner)
    BY <1>7, ContinuedOwners
  <2>2. retry' # None => InUse(retry'.owner)
    BY <1>1 DEF InUse
  <2>3. owner' # None => (owner'.failed \/ owner'.task # None => owner'.stopping)
    BY <1>1 DEF InStep
  <2> QED
    BY <1>1, <2>1, <2>2, <2>3, InStepKept
<1>9. Joined'
  <2>1. owner.task \in Slots => \/ confirms'[owner.task] = confirms[owner.task]
                                \/ Moved(owner.task, "ack")
    BY <1>2 DEF Moved, Others
  <2> QED
    BY <1>1, <2>1, JoinedKept
<1>10. Lanes'
  <2>1. /\ confirms'[s] # None /\ confirms'[s].step = "ack"
        /\ \A t \in Slots : t # s => confirms'[t] = confirms[t]
    BY <1>2 DEF Moved, Others
  <2>2. Waited(normal, {"ack"}, confirms)
    BY DEF Lanes
  <2>3. Waited(normal', {"ack"}, confirms')
    BY <1>1, <1>3, <1>4, <1>5, <2>1, <2>2, WaitedSent
  <2>4. \A t \in Slots : confirms[t] # None /\ confirms[t].step \in {"unconfirmed", "error"} =>
          confirms'[t] # None /\ confirms'[t].step \in {"unconfirmed", "error"}
    BY <1>1, <2>1
  <2>5. Waited(critical', {"unconfirmed", "error"}, confirms')
    BY <1>1, <2>4, WaitedStays DEF Lanes
  <2> QED
    BY <2>3, <2>5 DEF Lanes
<1>11. Once'
  BY <1>1, <1>7, ContinuedCallers, OnceKept DEF asked
<1>12. Gone'
  <2>1. confirms[s].run \in Runs /\ workers[confirms[s].run] \in Over
    <3>1. Begun(confirms[s].run) /\ confirms[s].run \in Runs
      BY <1>3 DEF Gone, Confirmations
    <3> QED
      BY <1>1, <3>1 DEF Begun, Alive, TypeInv, Statuses, Over
  <2>2. \A r \in Runs : Acknowledged(r)' => Acknowledged(r) \/ workers[r] \in Over
    <3> SUFFICES ASSUME NEW r \in Runs, NEW i \in DOMAIN normal',
                        normal'[i].id = <<"stop_ack", r>>
                 PROVE  Acknowledged(r) \/ workers[r] \in Over
      BY <1>1 DEF Acknowledged, sidecar
    <3>1. CASE i \in DOMAIN normal
      BY <1>1, <1>5, <3>1 DEF Acknowledged
    <3>2. CASE i \notin DOMAIN normal
      <4>1. normal'[i] = c
        BY <1>1, <1>5, <3>2
      <4> QED
        BY <1>4, <2>1, <4>1
    <3> QED
      BY <3>1, <3>2
  <2> QED
    BY <1>1, <1>7, <2>2, SameWorkers, ContinuedBegun, OwnerBegun, GoneKept DEF OwnerOfRun
<1> QED
  BY <1>6, <1>8, <1>9, <1>10, <1>11, <1>12

(*------------------ A confirmation that goes on or fails ------------------*)
(* What a step of one confirmation leaves in order, whether it goes on to *)
(* its next step, tells the sidecar that it failed, or ends.              *)
Carried(s) ==
  /\ confirms' \in [Slots -> Confirmations \cup {None}] /\ Others(s) /\ Continued
  /\ critical' \in Seq(CriticalCalls)
  /\ Waited(critical', {"unconfirmed", "error"}, confirms')
  /\ retry' \in {retry, None}
  /\ owner' # None => owner' \in Owners
  /\ OwnerOfRun /\ InStep' /\ Joined'

LEMMA StepCarries ==
  ASSUME IInv, NEW s \in Confirming, NEW step \in Steps, Step(s, step),
         confirms[s].step \notin {"unconfirmed", "error"}, UNCHANGED <<owner, retry, critical>>
  PROVE  Carried(s)
<1> USE DEF IInv
<1>1. Moved(s, step)
  BY StepMoves
<1>2. Continued
  BY <1>1, MovedContinues
<1>3. InStep'
  <2>1. \A t \in Confirming' : InUse(confirms'[t].owner)
    BY <1>2, ContinuedOwners
  <2>2. retry' # None => InUse(retry'.owner)
    BY DEF InUse
  <2>3. owner' # None => (owner'.failed \/ owner'.task # None => owner'.stopping)
    BY DEF InStep
  <2> QED
    BY <2>1, <2>2, <2>3, InStepKept
<1>4. Joined'
  <2>1. owner.task \in Slots => \/ confirms'[owner.task] = confirms[owner.task]
                                \/ Moved(owner.task, step)
    BY <1>1 DEF Moved, Others
  <2> QED
    BY <2>1, JoinedKept
<1>5. \A t \in Slots : confirms[t] # None /\ confirms[t].step \in {"unconfirmed", "error"} =>
        confirms'[t] # None /\ confirms'[t].step \in {"unconfirmed", "error"}
  BY <1>1 DEF Moved, Others
<1>6. Waited(critical, {"unconfirmed", "error"}, confirms')
  BY <1>5, WaitedStays DEF Lanes
<1>7. confirms' \in [Slots -> Confirmations \cup {None}] /\ Others(s)
  BY <1>1 DEF Moved
<1> QED
  BY <1>2, <1>3, <1>4, <1>6, <1>7 DEF Carried, OwnerOfRun, TypeInv

LEMMA RejectCarries ==
  ASSUME IInv, NEW s \in Confirming, NEW step \in {"unconfirmed", "error"}, Reject(s, step),
         confirms[s].step \notin {"unconfirmed", "error"}
  PROVE  Carried(s)
<1> USE DEF IInv
<1> DEFINE c == Command("stop_unconfirmed", confirms[s].run, s)
<1>1. s \in Slots /\ confirms[s] \in Confirmations
  BY ConfirmingTyped
<1>2. c \in CriticalCalls /\ c.from = s
  BY <1>1 DEF Command, CriticalCalls, Confirmations, Waiting
<1> HIDE DEF c
<1>3. critical \in Seq(CriticalCalls)
  BY DEF TypeInv
<1>4. CASE confirms[s].kind = "foreground"
  <2>1. /\ Step(s, step) /\ UNCHANGED retry
        /\ owner' = (IF Owns(confirms[s]) THEN [owner EXCEPT !.failed = TRUE] ELSE owner)
        /\ critical' = Append(critical, c)
    BY <1>4 DEF Reject, c
  <2>2. Moved(s, step)
    BY <2>1, StepMoves DEF Steps
  <2>3. Continued
    BY <2>2, MovedContinues
  <2>4. owner' # None => /\ owner # None /\ owner' \in Owners /\ owner'.id = owner.id
                         /\ owner'.run = owner.run /\ owner'.stopping = owner.stopping
                         /\ owner'.task = owner.task
                         /\ owner'.failed # owner.failed => Owns(confirms[s])
    <3>1. CASE Owns(confirms[s])
      <4>1. owner \in Owners
        BY <3>1 DEF Owns, TypeInv
      <4> QED
        BY <2>1, <3>1, <4>1 DEF Owns, Owners
    <3>2. CASE ~Owns(confirms[s])
      BY <2>1, <3>2 DEF TypeInv
    <3> QED
      BY <3>1, <3>2
  <2>5. InStep'
    <3>1. \A t \in Confirming' : InUse(confirms'[t].owner)
      BY <2>3, ContinuedOwners
    <3>2. retry' # None => InUse(retry'.owner)
      BY <2>1 DEF InUse
    <3>3. owner' # None => (owner'.failed \/ owner'.task # None => owner'.stopping)
      <4> SUFFICES ASSUME owner' # None, owner'.failed \/ owner'.task # None
                   PROVE  owner'.stopping
        OBVIOUS
      <4>1. CASE Owns(confirms[s])
        BY <2>4, <4>1 DEF InStep
      <4>2. CASE ~Owns(confirms[s])
        BY <2>4, <4>2 DEF InStep
      <4> QED
        BY <4>1, <4>2
    <3> QED
      BY <2>4, <3>1, <3>2, <3>3, InStepKept
  <2>6. Joined'
    <3>1. owner.task \in Slots => \/ confirms'[owner.task] = confirms[owner.task]
                                  \/ Moved(owner.task, step)
      BY <2>2 DEF Moved, Others
    <3> QED
      BY <2>4, <3>1, JoinedKept
  <2>7. /\ confirms' \in [Slots -> Confirmations \cup {None}] /\ Others(s)
        /\ confirms'[s] # None /\ confirms'[s].step \in {"unconfirmed", "error"}
    BY <2>2 DEF Moved
  <2>8. Waited(critical', {"unconfirmed", "error"}, confirms')
    <3>1. Waited(critical, {"unconfirmed", "error"}, confirms)
      BY DEF Lanes
    <3> QED
      BY <1>1, <1>2, <1>3, <2>1, <2>7, <3>1, WaitedSent DEF Others
  <2>9. critical' \in Seq(CriticalCalls)
    BY <1>2, <1>3, <2>1
  <2> QED
    BY <2>1, <2>3, <2>4, <2>5, <2>6, <2>7, <2>8, <2>9 DEF Carried, OwnerOfRun
<1>5. CASE confirms[s].kind # "foreground"
  <2>1. /\ confirms' = [confirms EXCEPT ![s] = None] /\ retry' \in {retry, None}
        /\ UNCHANGED <<owner, critical>>
    BY <1>5, AsleepOrNot DEF Reject
  <2>2. Freed(s)
    BY <2>1, EndFrees
  <2>3. Continued
    BY <2>2, FreedContinues
  <2>4. InStep'
    <3>1. \A t \in Confirming' : InUse(confirms'[t].owner)
      BY <2>3, ContinuedOwners
    <3>2. retry' # None => InUse(retry'.owner)
      BY <2>1 DEF InUse
    <3>3. owner' # None => (owner'.failed \/ owner'.task # None => owner'.stopping)
      BY <2>1 DEF InStep
    <3> QED
      BY <2>1, <3>1, <3>2, <3>3, InStepKept
  <2>5. Joined'
    <3>1. owner # None /\ owner.task \in Slots => confirms'[owner.task] = confirms[owner.task]
      BY <1>5, <2>2 DEF Joined, Freed, Others
    <3> QED
      BY <2>1, <3>1, JoinedKept
  <2>6. \A t \in Slots : confirms[t] # None /\ confirms[t].step \in {"unconfirmed", "error"} =>
          confirms'[t] # None /\ confirms'[t].step \in {"unconfirmed", "error"}
    BY <2>2 DEF Freed, Others
  <2>7. Waited(critical, {"unconfirmed", "error"}, confirms')
    BY <2>6, WaitedStays DEF Lanes
  <2>8. confirms' \in [Slots -> Confirmations \cup {None}] /\ Others(s)
    BY <2>2 DEF Freed
  <2> QED
    BY <1>3, <2>1, <2>3, <2>4, <2>5, <2>7, <2>8 DEF Carried, OwnerOfRun, TypeInv
<1> QED
  BY <1>4, <1>5

(* A step of a confirmation that the normal lane does not see. *)
LEMMA CarriedLanes ==
  ASSUME Lanes, NEW s, Carried(s), confirms[s].step # "ack", UNCHANGED normal
  PROVE  Lanes'
<1>1. \A t \in Slots : confirms[t] # None /\ confirms[t].step \in {"ack"} =>
        confirms'[t] # None /\ confirms'[t].step \in {"ack"}
  BY DEF Carried, Others
<1>2. Waited(normal, {"ack"}, confirms')
  BY <1>1, WaitedStays DEF Lanes
<1> QED
  BY <1>2 DEF Lanes, Carried

LEMMA ConfirmFailsKeeps ==
  ASSUME IInv, NEW s \in Confirming, ConfirmFails(s)
  PROVE  IInv'
<1> USE DEF IInv
<1>1. /\ confirms[s].step = "worker" /\ faults < MaxFaults /\ faults' = faults + 1
      /\ Reject(s, "unconfirmed") \/ Reject(s, "error")
      /\ UNCHANGED <<workers, finalizers, quarantine, fence, sidecar, normal, recovered, asked>>
  BY DEF ConfirmFails, Fails
<1>2. Carried(s)
  BY <1>1, RejectCarries
<1>3. faults' \in 0 .. MaxFaults
  BY <1>1, Bounds DEF TypeInv
<1>4. TypeInv'
  BY <1>1, <1>2, <1>3 DEF TypeInv, Carried, sidecar, asked
<1>5. Lanes'
  BY <1>1, <1>2, CarriedLanes
<1>6. Once'
  BY <1>1, <1>2, ContinuedCallers, OnceKept DEF Carried, asked
<1>7. Gone'
  BY <1>1, <1>2, SameWorkers, GoneQuiet DEF Carried, sidecar
<1> QED
  BY <1>2, <1>4, <1>5, <1>6, <1>7 DEF Carried

(* The finalizers of an owner were not run, and are not kept. *)
LEMMA FinalizedOnce ==
  ASSUME TypeInv, Once, Continued, NEW id \in Ids, Ran(finalizers[id]),
         finalizers' = [finalizers EXCEPT ![id] = {}], UNCHANGED <<stops, requests>>
  PROVE  Once'
<1>1. \A n \in Requests : /\ ran[n] \in Nat
                          /\ n \in finalizers[id] => ran'[n] = ran[n] + 1
                          /\ n \notin finalizers[id] => ran'[n] = ran[n]
                          /\ n \in Nat /\ (n > stops => ~(n <= stops))
  BY Bounds DEF Ran, TypeInv, Requests
<1>2. \A i \in Ids : /\ finalizers[i] \subseteq Requests
                     /\ finalizers'[i] = IF i = id THEN {} ELSE finalizers[i]
  BY DEF TypeInv
<1>3. \A n \in finalizers[id] : n <= stops /\ ran[n] <= IF requests[n] = "ended" THEN 1 ELSE 0
  BY DEF Once
<1>4. FinalizersOnce'
  <2> SUFFICES ASSUME NEW n \in Requests
               PROVE  ran'[n] <= IF requests[n] = "ended" THEN 2 ELSE 1
    BY DEF FinalizersOnce
  <2>1. CASE n \in finalizers[id]
    BY <2>1, <1>1, <1>3
  <2>2. CASE n \notin finalizers[id]
    BY <2>2, <1>1 DEF Once, FinalizersOnce
  <2> QED
    BY <2>1, <2>2
<1>5. \A n \in Requests : n > stops' => ran'[n] = 0 /\ requests'[n] = "waiting"
  BY <1>1, <1>3 DEF Once
<1>6. \A i \in Ids : \A n \in finalizers'[i] :
        n <= stops' /\ ran'[n] <= IF requests'[n] = "ended" THEN 1 ELSE 0
  <2> SUFFICES ASSUME NEW i \in Ids, NEW n \in finalizers'[i]
               PROVE  n <= stops /\ ran'[n] <= IF requests[n] = "ended" THEN 1 ELSE 0
    OBVIOUS
  <2>1. i # id /\ n \in finalizers[i] /\ n \in Requests
    BY <1>2
  <2>2. n \notin finalizers[id]
    BY <2>1 DEF Once
  <2> QED
    BY <2>1, <2>2, <1>1 DEF Once
<1>7. \A i, j \in Ids : \A n \in finalizers'[i] : n \in finalizers'[j] => i = j
  BY <1>2 DEF Once
<1>8. \A t \in Slots : Callers(confirms', t) \subseteq Callers(confirms, t)
  BY ContinuedCallers
<1>9. \A s \in Slots : \A n \in Callers(confirms', s) : n <= stops' /\ requests'[n] = "waiting"
  BY <1>8 DEF Once
<1>10. \A s, t \in Slots : \A n \in Callers(confirms', s) : n \in Callers(confirms', t) => s = t
  BY <1>8 DEF Once
<1> QED
  BY <1>4, <1>5, <1>6, <1>7, <1>9, <1>10 DEF Once

LEMMA ConfirmFinalizeKeeps ==
  ASSUME IInv, NEW s \in Confirming, ConfirmFinalize(s)
  PROVE  IInv'
<1> USE DEF IInv
<1> DEFINE id == confirms[s].owner
<1>1. /\ confirms[s].step = "finalize" /\ Ran(finalizers[id])
      /\ pointer' \in {pointer, None} /\ fence' \in {fence, None}
      /\ finalizers' = [finalizers EXCEPT ![id] = {}]
      /\ \/ Step(s, "release") /\ UNCHANGED <<owner, retry, critical, faults>>
         \/ Fails("call") /\ Reject(s, "error")
      /\ UNCHANGED <<workers, quarantine, durable, receipts, normal>>
      /\ UNCHANGED <<recovered, stops, requests>>
  BY DEF ConfirmFinalize, Shutdown
<1>2. id \in Ids
  BY ConfirmingTyped DEF Confirmations
<1> HIDE DEF id
<1>3. Carried(s)
  BY <1>1, StepCarries, RejectCarries DEF Steps
<1>4. faults' \in 0 .. MaxFaults
  BY <1>1, Bounds DEF TypeInv, Fails
<1>5. ran' \in [Requests -> Nat] /\ finalizers' \in [Ids -> SUBSET Requests]
  <2>1. \A n \in Requests : ran[n] \in Nat /\ ran[n] + 1 \in Nat
    BY DEF TypeInv
  <2>2. ran' \in [Requests -> Nat]
    BY <1>1, <2>1 DEF Ran
  <2>3. finalizers' \in [Ids -> SUBSET Requests]
    BY <1>1 DEF TypeInv
  <2> QED
    BY <2>2, <2>3
<1>6. TypeInv'
  BY <1>1, <1>3, <1>4, <1>5 DEF TypeInv, Carried, States
<1>7. Lanes'
  BY <1>1, <1>3, CarriedLanes
<1>8. Once'
  BY <1>1, <1>2, <1>3, FinalizedOnce DEF Carried
<1>9. Gone'
  BY <1>1, <1>3, SameWorkers, GoneQuiet DEF Carried
<1> QED
  BY <1>3, <1>6, <1>7, <1>8, <1>9 DEF Carried

(*------------------------------ The sidecar ------------------------------*)
LEMMA ExecutedTyped ==
  ASSUME TypeInv, NEW c, Executed(c) \/ UNCHANGED <<durable, receipts>>
  PROVE  durable' \in States /\ receipts' \subseteq receipts \cup {c.id}
  BY DEF Executed, TypeInv, States

LEMMA CriticalCommandKeeps ==
  ASSUME IInv, CriticalCommand
  PROVE  IInv'
<1> USE DEF IInv
<1> DEFINE c == Head(critical)
           s == c.from
<1>1. /\ critical # <<>> /\ critical' = Tail(critical)
      /\ Executed(c) \/ UNCHANGED <<durable, receipts>>
      /\ \/ UNCHANGED faults
         \/ faults < MaxFaults /\ faults' = faults + 1
      /\ UNCHANGED <<workers, pointer, finalizers, quarantine, normal, recovered, stops, ran>>
  BY DEF CriticalCommand, Fails
<1>2. durable' \in States /\ receipts' \subseteq receipts \cup {c.id}
  BY <1>1, ExecutedTyped
<1>3. faults' \in 0 .. MaxFaults
  BY <1>1, Bounds DEF TypeInv
<1>4. critical \in Seq(CriticalCalls) /\ critical' \in Seq(CriticalCalls) /\ c \in CriticalCalls
  BY <1>1 DEF TypeInv
<1>5. \A r \in Runs : Acknowledged(r)' => Acknowledged(r)
  <2>1. \A r \in Runs : c.id # <<"stop_ack", r>>
    BY <1>4 DEF CriticalCalls
  <2> QED
    BY <1>1, <1>2, <2>1 DEF Acknowledged
<1> HIDE DEF c
<1>6. CASE s = None
  <2>1. UNCHANGED <<owner, confirms, fence, retry, requests>>
    BY <1>6 DEF CriticalCommand, c
  <2>2. TypeInv'
    BY <1>1, <1>2, <1>3, <1>4, <2>1 DEF TypeInv
  <2>3. InStep' /\ Joined' /\ Continued
    BY <2>1 DEF InStep, Joined, Confirming, Owns, Continued
  <2>4. Waited(critical', {"unconfirmed", "error"}, confirms')
    BY <1>1, <1>4, <2>1, WaitedAnswered DEF Lanes
  <2>5. Lanes'
    BY <1>1, <2>1, <2>4 DEF Lanes
  <2>6. Once'
    BY <1>1, <2>1, <2>3, ContinuedCallers, OnceKept
  <2>7. Gone'
    BY <1>1, <1>5, <2>1, <2>3, SameWorkers, ContinuedBegun, OwnerBegun, GoneKept DEF OwnerOfRun
  <2> QED
    BY <2>2, <2>3, <2>5, <2>6, <2>7
<1>7. CASE s # None
  <2>1. /\ confirms' = [confirms EXCEPT ![s] = None]
        /\ owner' = (IF owner # None /\ owner.task = s
                     THEN [owner EXCEPT !.task = Rejected] ELSE owner)
        /\ fence' = "unconfirmed"
        /\ retry' = (IF retry # None THEN retry
                     ELSE [owner |-> confirms[s].owner, left |-> Retries])
        /\ Told(IF confirms[s].step = "unconfirmed" THEN confirms[s].callers ELSE {})
    BY <1>7 DEF CriticalCommand, c
  <2>2. s \in Slots /\ confirms[s] # None /\ confirms[s].step \in {"unconfirmed", "error"}
    <3>1. 1 \in DOMAIN critical /\ critical[1] = c
      BY <1>1, <1>4 DEF c
    <3> QED
      BY <1>7, <3>1 DEF Lanes, Waited
  <2>3. s \in Confirming /\ confirms[s] \in Confirmations
    BY <2>2 DEF TypeInv, Confirming
  <2>4. Freed(s)
    BY <2>1, EndFrees
  <2>5. Continued
    BY <2>4, FreedContinues
  <2>6. owner' # None => /\ owner # None /\ owner' \in Owners
                         /\ owner'.id = owner.id /\ owner'.run = owner.run
                         /\ owner'.stopping = owner.stopping /\ owner'.failed = owner.failed
                         /\ owner'.task = IF owner.task = s THEN Rejected ELSE owner.task
    BY <2>1 DEF TypeInv, Owners
  <2>7. retry' # None => retry' \in Repetitions
    <3>1. [owner |-> confirms[s].owner, left |-> Retries] \in Repetitions
      BY <2>3, Bounds DEF Repetitions, Confirmations
    <3> QED
      BY <2>1, <3>1 DEF TypeInv
  <2>8. /\ requests' \in [Requests -> {"waiting", "unconfirmed", "ended"}]
        /\ \A n \in Requests : n \notin Callers(confirms, s) => requests'[n] = requests[n]
        /\ \A n \in Requests : requests'[n] \in {requests[n], "unconfirmed"}
    BY <2>1, <2>2 DEF Told, TypeInv, Callers
  <2>9. TypeInv'
    <3>1. fence' \in States
      BY <2>1 DEF States
    <3> QED
      BY <1>1, <1>2, <1>3, <1>4, <2>4, <2>6, <2>7, <2>8, <3>1 DEF TypeInv, Freed
  <2>10. InStep'
    <3>1. \A t \in Confirming' : InUse(confirms'[t].owner)
      BY <2>5, ContinuedOwners
    <3>2. retry' # None => InUse(retry'.owner)
      BY <2>1, <2>3 DEF InUse
    <3>3. owner' # None => (owner'.failed \/ owner'.task # None => owner'.stopping)
      BY <2>2, <2>6, NoneApart DEF InStep
    <3> QED
      BY <2>6, <3>1, <3>2, <3>3, InStepKept
  <2>11. Joined'
    <3>1. ASSUME owner' # None, owner'.task \in Slots
          PROVE  owner'.task = owner.task /\ confirms'[owner.task] = confirms[owner.task]
      <4>1. owner.task # s
        BY <2>6, <3>1, NoneApart
      <4> QED
        BY <2>4, <2>6, <3>1, <4>1 DEF Freed, Others
    <3> QED
      BY <2>6, <3>1, JoinedKept
  <2>12. Lanes'
    <3>1. \A t \in Slots : t # s => confirms'[t] = confirms[t]
      BY <2>4 DEF Freed, Others
    <3>2. Waited(critical', {"unconfirmed", "error"}, confirms')
      BY <1>1, <1>4, <3>1, WaitedAnswered DEF Lanes, c
    <3>3. \A t \in Slots : confirms[t] # None /\ confirms[t].step \in {"ack"} =>
            confirms'[t] # None /\ confirms'[t].step \in {"ack"}
      BY <2>2, <3>1
    <3>4. Waited(normal, {"ack"}, confirms')
      BY <3>3, WaitedStays DEF Lanes
    <3> QED
      BY <1>1, <3>2, <3>4 DEF Lanes
  <2>13. Once'
    <3>1. \A t \in Slots : Callers(confirms', t) \subseteq Callers(confirms, t)
      BY <2>5, ContinuedCallers
    <3>2. Callers(confirms', s) = {}
      BY <2>2, <2>4 DEF Freed, Callers
    <3>3. \A n \in Callers(confirms, s) :
            /\ requests[n] = "waiting" /\ n <= stops
            /\ \A t \in Slots : n \notin Callers(confirms', t)
      BY <2>2, <3>1, <3>2 DEF Once
    <3>4. \A n \in Requests :
            /\ (requests'[n] = "ended") <=> (requests[n] = "ended")
            /\ requests[n] = "waiting" =>
                 \/ requests'[n] = "waiting"
                 \/ n <= stops /\ \A t \in Slots : n \notin Callers(confirms', t)
      BY <2>8, <3>3
    <3> QED
      BY <1>1, <3>1, <3>4, OnceKept
  <2>14. Gone'
    BY <1>1, <1>5, <2>5, <2>6, SameWorkers, ContinuedBegun, OwnerBegun, GoneKept DEF OwnerOfRun
  <2> QED
    BY <2>9, <2>10, <2>11, <2>12, <2>13, <2>14
<1> QED
  BY <1>6, <1>7

LEMMA NormalCommandKeeps ==
  ASSUME IInv, NormalCommand
  PROVE  IInv'
<1> USE DEF IInv
<1> DEFINE c == Head(normal)
           s == c.from
<1>1. /\ normal # <<>> /\ normal' = Tail(normal)
      /\ \/ Step(s, "finalize") /\ UNCHANGED <<owner, retry, critical, faults>>
         \/ Fails("call") /\ Reject(s, "error")
      /\ Executed(c) \/ UNCHANGED <<durable, receipts>>
      /\ UNCHANGED <<workers, pointer, finalizers, quarantine, fence, recovered, asked>>
  BY DEF NormalCommand
<1>2. normal \in Seq(NormalCalls) /\ normal' \in Seq(NormalCalls) /\ c \in NormalCalls
  BY <1>1 DEF TypeInv
<1>3. 1 \in DOMAIN normal /\ normal[1] = c
  BY <1>1, <1>2
<1>4. s \in Confirming /\ confirms[s].step = "ack"
  <2>1. s \in Slots /\ s # None
    BY <1>2, NoneApart DEF NormalCalls
  <2> QED
    BY <1>3, <2>1 DEF Lanes, Waited, Confirming
<1>5. durable' \in States /\ receipts' \subseteq receipts \cup {c.id}
  BY <1>1, ExecutedTyped
<1> HIDE DEF c
<1>6. Carried(s)
  BY <1>1, <1>4, StepCarries, RejectCarries DEF Steps
<1>7. faults' \in 0 .. MaxFaults
  BY <1>1, Bounds DEF TypeInv, Fails
<1>8. TypeInv'
  BY <1>1, <1>2, <1>5, <1>6, <1>7 DEF TypeInv, Carried, asked
<1>9. Lanes'
  <2>1. Waited(normal', {"ack"}, confirms')
    BY <1>1, <1>2, <1>6, WaitedAnswered DEF Carried, Others, Lanes, c
  <2> QED
    BY <1>6, <2>1 DEF Lanes, Carried
<1>10. Once'
  BY <1>1, <1>6, ContinuedCallers, OnceKept DEF Carried, asked
<1>11. Gone'
  <2>1. \A r \in Runs : Acknowledged(r)' => Acknowledged(r)
    <3>1. \A i \in DOMAIN normal' : i + 1 \in DOMAIN normal /\ normal'[i] = normal[i + 1]
      BY <1>1, <1>2
    <3> QED
      BY <1>3, <1>5, <3>1 DEF Acknowledged
  <2> QED
    BY <1>1, <1>6, <2>1, SameWorkers, ContinuedBegun, OwnerBegun, GoneKept DEF Carried
<1> QED
  BY <1>6, <1>8, <1>9, <1>10, <1>11 DEF Carried

(*---------------------------- The invariant ------------------------------*)
LEMMA InitHolds ==
  ASSUME Init
  PROVE  IInv
<1> USE DEF Init
<1>1. TypeInv
  BY Bounds DEF TypeInv, Statuses, States
<1>2. Confirming = {}
  BY DEF Confirming
<1>3. InStep /\ Joined
  BY <1>2 DEF InStep, Joined
<1>4. Lanes
  BY DEF Lanes, Waited
<1>5. Once
  BY Bounds DEF Once, FinalizersOnce, Callers
<1>6. Gone
  <2>1. LastRun = 0
    <3>1. {r \in Runs : workers[r] # "none"} = {}
      OBVIOUS
    <3> QED
      BY <3>1, FS_EmptySet DEF LastRun
  <2>2. \A r \in Runs : ~Begun(r) /\ ~(r <= LastRun)
    BY <2>1, Bounds DEF Begun, Runs
  <2>3. \A r \in Runs : ~Acknowledged(r)
    BY DEF Acknowledged
  <2> QED
    BY <1>2, <2>2, <2>3 DEF Gone
<1> QED
  BY <1>1, <1>3, <1>4, <1>5, <1>6 DEF IInv

LEMMA StutterKeeps ==
  ASSUME IInv, UNCHANGED vars
  PROVE  IInv'
<1>1. UNCHANGED <<workers, confirms, finalizers, receipts, lanes, asked, retry, owner>>
  BY DEF vars, host, sidecar
<1>2. TypeInv'
  BY DEF IInv, TypeInv, vars, host, sidecar, lanes, asked
<1> QED
  BY <1>1, <1>2, SameWorkers, ElsewhereKeeps

LEMMA StepHolds ==
  ASSUME IInv, [Next]_vars
  PROVE  IInv'
<1>1. CASE Submit
  BY <1>1, SubmitKeeps
<1>2. ASSUME NEW r \in Runs, WorkerEnds(r) \/ DriveFails(r) PROVE IInv'
  BY <1>2, WorkerEndsKeeps, DriveFailsKeeps
<1>3. CASE DriveEnds \/ Quarantined
  BY <1>3, DriveEndsKeeps, QuarantinedKeeps
<1>4. CASE Interrupt
  BY <1>4, InterruptKeeps
<1>5. ASSUME NEW n \in Requests, StopShutdown(n) PROVE IInv'
  BY <1>5, StopShutdownKeeps
<1>6. ASSUME NEW s \in Confirming, Confirm(s) \/ ConfirmDisturbed(s) PROVE IInv'
  BY <1>6, ConfirmWorkerKeeps, ConfirmFinalizeKeeps, ConfirmReleaseKeeps, ConfirmFailsKeeps,
     OverdueKeeps DEF Confirm, ConfirmDisturbed
<1>7. CASE RetryStarts \/ RetryEnds
  BY <1>7, RetryStartsKeeps, RetryEndsKeeps
<1>8. CASE Reconcile
  BY <1>8, ReconcileFailedStopKeeps, RecoverFenceKeeps DEF Reconcile
<1>9. CASE CriticalCommand \/ NormalCommand
  BY <1>9, CriticalCommandKeeps, NormalCommandKeeps
<1>10. CASE HostDies \/ RecoverSession
  BY <1>10, HostDiesKeeps, RecoverSessionKeeps
<1>11. CASE UNCHANGED vars
  BY <1>11, StutterKeeps
<1> QED
  BY <1>1, <1>2, <1>3, <1>4, <1>5, <1>6, <1>7, <1>8, <1>9, <1>10, <1>11 DEF Next

(* Owner ids are told apart, confirmations and commands belong together,   *)
(* finalizers that are left were not run, and acknowledged workers are     *)
(* gone, in every state: for any number of runs, stops, confirmations,     *)
(* repetitions and failures.                                               *)
THEOREM InvariantHolds == Spec => []IInv
<1>1. Init => IInv
  BY InitHolds
<1>2. IInv /\ [Next]_vars => IInv'
  BY StepHolds
<1> QED
  BY <1>1, <1>2, PTL DEF Spec

(* Everything has its type, and whoever sent a command and waits for it is *)
(* still there and at its step.                                            *)
THEOREM TypeOKHolds == Spec => []TypeOK
<1>1. IInv => TypeOK
  <2> SUFFICES ASSUME IInv PROVE TypeOK
    OBVIOUS
  <2> USE DEF IInv
  <2>1. owner # None => /\ owner \in Owners
                        /\ owner.failed \/ owner.task # None => owner.stopping
                        /\ owner.task \in Slots => owner.task \in Confirming
    BY DEF TypeInv, InStep, Joined
  <2>2. \A s \in Confirming : confirms[s] \in Confirmations
    BY ConfirmingTyped
  <2>3. retry # None => retry.left \in 0 .. Retries
    BY DEF TypeInv, Repetitions
  <2>4. \A c \in Commands : c.from # None =>
          /\ c.from \in Confirming
          /\ confirms[c.from].step \in IF c.op = "stop_ack" THEN {"ack"}
                                       ELSE {"unconfirmed", "error"}
    <3>1. /\ \A i \in DOMAIN critical : critical[i] \in CriticalCalls
          /\ \A i \in DOMAIN normal : normal[i] \in NormalCalls
      BY DEF TypeInv
    <3>2. ASSUME NEW i \in DOMAIN critical, critical[i].from # None
          PROVE  /\ critical[i].from \in Confirming
                 /\ confirms[critical[i].from].step \in {"unconfirmed", "error"}
                 /\ critical[i].op # "stop_ack"
      BY <3>1, <3>2 DEF Lanes, Waited, Confirming, CriticalCalls
    <3>3. ASSUME NEW i \in DOMAIN normal, normal[i].from # None
          PROVE  /\ normal[i].from \in Confirming
                 /\ confirms[normal[i].from].step \in {"ack"} /\ normal[i].op = "stop_ack"
      BY <3>1, <3>3 DEF Lanes, Waited, Confirming, NormalCalls
    <3> QED
      BY <3>2, <3>3 DEF Commands
  <2>5. pointer \in Runs \cup {None} /\ finalizers \in [Ids -> SUBSET Requests]
    BY DEF TypeInv
  <2> QED
    BY <2>1, <2>2, <2>3, <2>4, <2>5 DEF TypeOK, TypeInv, Statuses
<1> QED
  BY <1>1, InvariantHolds, PTL

(* What the caller of a stop asked for runs once, whether the stop is      *)
(* confirmed at once, by a repetition, or by several at a time, and twice  *)
(* only if the request that was told its stop is unconfirmed ran it.       *)
THEOREM FinalizersOnceHolds == Spec => []FinalizersOnce
<1>1. IInv => FinalizersOnce
  BY DEF IInv, Once
<1> QED
  BY <1>1, InvariantHolds, PTL

(* The sidecar has executed the acknowledgement of a stop only if the      *)
(* worker of the stopped run is not alive, now or ever again: whatever     *)
(* fails, overlaps, is given up or is forgotten.                           *)
THEOREM AcknowledgedIsGoneHolds == Spec => []AcknowledgedIsGone
<1>1. IInv => AcknowledgedIsGone
  BY DEF IInv, Gone, Acknowledged, Over, Alive, AcknowledgedIsGone
<1> QED
  BY <1>1, InvariantHolds, PTL
=============================================================================
