------------------------- MODULE MCSessionLifecycle -------------------------
(* SessionLifecycle on small instances: runs are alike, and so are the     *)
(* generations of a lease.                                                 *)
EXTENDS SessionLifecycle, TLC

IdSymmetry ==
  {f @@ g : f \in Permutations(Runs), g \in Permutations(Gens)}
=============================================================================
