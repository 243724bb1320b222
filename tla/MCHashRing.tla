----------------------------- MODULE MCHashRing -----------------------------
(* Instances of HashRing for TLC. *)
EXTENDS HashRing, TLC

NodeSymmetry == Permutations(Nodes)
=============================================================================
