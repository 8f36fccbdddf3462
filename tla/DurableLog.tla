----------------------------- MODULE DurableLog -----------------------------
(***************************************************************************)
(* What the segmented log of a session promises to its callers: a sequence *)
(* of transactions that only grows while the session is up, of which a     *)
(* crash may take a suffix but never a transaction that was flushed,       *)
(* except that a power loss may leave a session that is refused as a       *)
(* whole, which then stays refused.                                        *)
(***************************************************************************)
EXTENDS Naturals, Sequences

VARIABLES log,      \* the transactions a reader of the session sees
          durable,  \* how many of them are flushed
          up,       \* whether the session is loaded
          readable  \* whether it can be

vars == <<log, durable, up, readable>>

Init == log = <<>> /\ durable = 0 /\ up = FALSE /\ readable = TRUE

(* A whole transaction is added; stated on log' because transactions are   *)
(* not enumerated here.                                                    *)
Commit ==
  /\ up /\ up'
  /\ UNCHANGED <<durable, readable>>
  /\ Len(log') = Len(log) + 1
  /\ SubSeq(log', 1, Len(log)) = log

Flush ==
  /\ up /\ up'
  /\ durable' = Len(log)
  /\ UNCHANGED <<log, readable>>

(* The session goes down, with or without a last flush. *)
Stop ==
  /\ up /\ ~up'
  /\ durable' \in {durable, Len(log)}
  /\ UNCHANGED <<readable, log>>

(* Power is lost, while the session is up or down. *)
Lose ==
  /\ readable /\ ~up'
  /\ UNCHANGED <<durable, readable>>
  /\ \E n \in durable .. Len(log) : log' = SubSeq(log, 1, n)

(* Power is lost and the session cannot be read any more. *)
Scramble ==
  /\ ~up'
  /\ readable' = FALSE
  /\ log' = <<>>
  /\ UNCHANGED durable

Restart ==
  /\ ~up /\ up'
  /\ readable
  /\ UNCHANGED <<durable, readable, log>>

Next == Commit \/ Flush \/ Stop \/ Lose \/ Scramble \/ Restart

Spec == Init /\ [][Next]_vars
=============================================================================
