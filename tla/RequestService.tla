--------------------------- MODULE RequestService ---------------------------
(***************************************************************************)
(* What a session promises to the tasks of the host that send it requests: *)
(* a request takes effect at most once, and a request that was answered    *)
(* has taken effect for good.  A loss of power may undo requests that were *)
(* not answered.                                                           *)
(***************************************************************************)
EXTENDS Naturals, Sequences, Functions

CONSTANT Requests

VARIABLES applied,  \* the requests that took effect, in order
          answered  \* the requests whose sender was told so

vars == <<applied, answered>>

Init == applied = <<>> /\ answered = {}

Apply(r) ==
  /\ r \notin Range(applied)
  /\ applied' = Append(applied, r)
  /\ UNCHANGED answered

Answer(r) ==
  /\ r \in Range(applied)
  /\ answered' = answered \cup {r}
  /\ UNCHANGED applied

Lose(n) ==
  /\ answered \subseteq Range(SubSeq(applied, 1, n))
  /\ applied' = SubSeq(applied, 1, n)
  /\ UNCHANGED answered

Next ==
  \/ \E r \in Requests : Apply(r) \/ Answer(r)
  \/ \E n \in 0 .. Len(applied) : Lose(n)

Spec == Init /\ [][Next]_vars
=============================================================================
