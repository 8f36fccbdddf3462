------------------------- MODULE MCRequestReceipts -------------------------
(* Three attempts of the request that is followed, next to two others. *)
EXTENDS RequestReceipts

CONSTANTS a, b, c

MCSends == [r \in Requests |-> IF r = c THEN 3 ELSE 1]
=============================================================================
