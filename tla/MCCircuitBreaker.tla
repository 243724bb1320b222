-------------------------- MODULE MCCircuitBreaker --------------------------
(* Instances of CircuitBreaker for TLC. *)
EXTENDS CircuitBreaker

\* The two conditions of the cache's breaker, on a sample of four.
SmallSample ==
  [DefaultCBSettings EXCEPT !.maxRequests = 2, !.timeout = 2,
     !.consecutiveFailures = 3, !.failureRate = 50, !.minRequests = 4]

BothBreakers == {RateLimiterSettings, SmallSample}
=============================================================================
