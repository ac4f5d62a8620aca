---------------------------- MODULE ConnPoolMC ----------------------------
(* Small instances of ConnPool for TLC: requests and sites are symmetric.  *)
EXTENDS ConnPool, TLC

Symmetry == Permutations(Requests) \cup Permutations(Sites)
=============================================================================
