------------------------ MODULE MCCachedURLRepository ------------------------
(* Instances of CachedURLRepository for TLC. *)
EXTENDS RepositoryRefinement, TLC

CONSTANTS p1, p2, p3, g1, g2

OneGateway == [p \in Procs |-> g1]

\* The last handler is behind the second gateway.
TwoGateways == [p \in Procs |-> IF p = p3 THEN g2 ELSE g1]

AllFaults == FaultKinds
NoFaults == {}
=============================================================================
