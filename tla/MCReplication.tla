--------------------------- MODULE MCReplication ----------------------------
(* Model checking instance of Replication.                                 *)
EXTENDS Replication, TLC
Symmetry == Permutations(Peers)
=============================================================================
