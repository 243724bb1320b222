--------------------------- MODULE CircuitBreaker ---------------------------
(***************************************************************************)
(* The circuit breakers of the gateway: the one around the calls of the    *)
(* rate limiter (internal/ratelimit/client.go, behind                      *)
(* internal/middleware/ratelimit.go) and the one around the commands to    *)
(* Redis (internal/repository/cached_url_repository.go).  They differ in   *)
(* their settings and in what counts as a success.                         *)
(*                                                                         *)
(* A call enters the breaker, talks to its dependency under a timeout of   *)
(* 100 ms or 50 ms, and comes back with its result; other calls, the       *)
(* health check and the clock run in between.  gobreaker v1.0.0 is         *)
(* external.  It numbers its generations so that the result of a call from *)
(* an earlier one is ignored; here a call is "current" or "stale".         *)
(*                                                                         *)
(* A tick is ten seconds, the Interval of both breakers.                   *)
(***************************************************************************)
EXTENDS Naturals, FiniteSets

CONSTANTS
  Calls,        \* requests that use the breaker at the same time
  Breakers,     \* the settings that a breaker may be made with
  MaxRequests,  \* bound: requests of one generation
  MaxFaults     \* bound: outages of the dependency and clients that hang up

Settings ==
  [maxRequests : Nat \ {0}, interval : Nat \ {0}, timeout : Nat \ {0},
   consecutiveFailures : Nat, failureRate : Nat, minRequests : Nat]

\* Either condition of ReadyToTrip is switched off by a zero, not both.
ASSUME SettingsAssumption ==
  /\ Breakers \subseteq Settings
  /\ \A s \in Breakers :
       s.consecutiveFailures > 0 \/ (s.failureRate > 0 /\ s.minRequests > 0)
ASSUME BoundsAssumption ==
  MaxRequests \in Nat /\ MaxFaults \in Nat /\ IsFiniteSet(Calls)

VARIABLES
  settings,  \* of this breaker; they never change
  cb,        \* the breaker: state, ticks to its expiry and counts
  call,      \* where each call is, and of which generation
  up,        \* the dependency answers in time
  bypassed,  \* the last call to end did so without an answer
  faults,    \* faults so far
  seen       \* history: failures of calls let in since the counts of a closed
             \* breaker were last cleared, no more than Evidence

vars == <<settings, cb, call, up, bypassed, faults, seen>>

Counts ==
  [requests : Nat, successes : Nat, failures : Nat,
   consecutiveSuccesses : Nat, consecutiveFailures : Nat]

ZeroCounts ==
  [requests |-> 0, successes |-> 0, failures |-> 0,
   consecutiveSuccesses |-> 0, consecutiveFailures |-> 0]

\* The settings of the rate limiter's breaker.
RateLimiterSettings ==
  [maxRequests |-> 3, interval |-> 1, timeout |-> 3,
   consecutiveFailures |-> 5, failureRate |-> 0, minRequests |-> 0]

\* The settings of the cache's breaker; the rate is in percent.
DefaultCBSettings ==
  [maxRequests |-> 3, interval |-> 1, timeout |-> 3,
   consecutiveFailures |-> 20, failureRate |-> 20, minRequests |-> 50]

Least(a, b) == IF a < b THEN a ELSE b

\* The failures without which ReadyToTrip is false.
Evidence ==
  LET rate == settings.failureRate * settings.minRequests
      few == settings.consecutiveFailures
  IN IF rate = 0 THEN few
     ELSE IF few = 0 THEN rate \div 100 + 1
     ELSE Least(few, rate \div 100 + 1)

\* The types; a half-open breaker has let in MaxRequests probes at most.
TypeOK ==
  /\ settings \in Breakers
  /\ cb \in [state : {"closed", "half-open", "open"}, left : Nat, counts : Counts]
  /\ cb.state = "half-open" => cb.counts.requests <= settings.maxRequests
  /\ call \in [Calls -> {"idle", "current", "stale"}]
  /\ up \in BOOLEAN /\ bypassed \in BOOLEAN
  /\ faults \in 0 .. MaxFaults
  /\ seen \in Nat

-----------------------------------------------------------------------------
\* gobreaker.

NewGeneration(state) ==
  [state |-> state,
   left |-> CASE state = "closed" -> settings.interval
              [] state = "open" -> settings.timeout
              [] OTHER -> 0,
   counts |-> ZeroCounts]

\* The interval of a closed breaker, or the timeout of an open one, is over.
Expired == cb.state # "half-open" /\ cb.left = 0

\* Mutated form: a breaker that has opened stays open.
CurrentNoProbe ==
  IF Expired /\ cb.state = "closed" THEN NewGeneration("closed") ELSE cb

\* currentState
Current ==
  IF ~Expired THEN cb
  ELSE NewGeneration(IF cb.state = "open" THEN "half-open" ELSE "closed")

\* Mutated form: one probe more than MaxRequests.
RefusedLate ==
  \/ Current.state = "open"
  \/ Current.state = "half-open" /\ Current.counts.requests > settings.maxRequests

\* beforeRequest: ErrOpenState or ErrTooManyRequests.
Refused ==
  \/ Current.state = "open"
  \/ Current.state = "half-open" /\ Current.counts.requests >= settings.maxRequests

OnRequest(c) == [c EXCEPT !.requests = @ + 1]

OnSuccess(c) ==
  [c EXCEPT !.successes = @ + 1, !.consecutiveSuccesses = @ + 1,
            !.consecutiveFailures = 0]

OnFailure(c) ==
  [c EXCEPT !.failures = @ + 1, !.consecutiveFailures = @ + 1,
            !.consecutiveSuccesses = 0]

\* The generation of the calls in the breaker has ended, if `ended'.
Aged(ended) ==
  [p \in Calls |-> IF ended /\ call[p] = "current" THEN "stale" ELSE call[p]]

-----------------------------------------------------------------------------
\* The callbacks in the settings.

\* The rate over a sample that is large enough, or failures in a row.
ReadyToTrip(c) ==
  \/ /\ settings.minRequests > 0 /\ settings.failureRate > 0
     /\ c.requests >= settings.minRequests
     /\ c.failures * 100 > settings.failureRate * c.requests
  \/ /\ settings.consecutiveFailures > 0
     /\ c.consecutiveFailures >= settings.consecutiveFailures

\* What a call may come back with: no error, redis.Nil, or any other error.
Outcomes == {"nil", "redis.Nil", "error"}

\* Mutated form: the default of gobreaker, under which a miss is a failure.
IsSuccessfulNil(err) == err = "nil"

IsSuccessful(err) == err \in {"nil", "redis.Nil"}

-----------------------------------------------------------------------------
\* The breaker after a call of the current generation has come back.

\* Mutated form: one success more than the probes that are let in.
SucceedStrict(b) ==
  LET counts == OnSuccess(b.counts) IN
  IF b.state = "half-open" /\ counts.consecutiveSuccesses > settings.maxRequests
    THEN NewGeneration("closed")
    ELSE [b EXCEPT !.counts = counts]

Succeed(b) ==
  LET counts == OnSuccess(b.counts) IN
  IF b.state = "half-open" /\ counts.consecutiveSuccesses >= settings.maxRequests
    THEN NewGeneration("closed")
    ELSE [b EXCEPT !.counts = counts]

Fail(b) ==
  LET counts == OnFailure(b.counts) IN
  IF b.state = "half-open" \/ ReadyToTrip(counts)
    THEN NewGeneration("open")
    ELSE [b EXCEPT !.counts = counts]

\* Mutated form: the generation of the call is not looked at.
CountedAlways(p) == TRUE

\* afterRequest counts the result: the call is of the current generation.
Counted(p) == call[p] = "current" /\ ~Expired

\* afterRequest
After(p, err) ==
  IF ~Counted(p) THEN Current
  ELSE IF IsSuccessful(err) THEN Succeed(Current) ELSE Fail(Current)

\* The history after a step in which n failures are known: a closed generation
\* that begins, after an interval or after a recovery, begins without any.
Remember(n) ==
  seen' = IF cb'.state = "closed" /\ (Expired \/ cb.state = "half-open")
            THEN 0 ELSE Least(n, Evidence)

-----------------------------------------------------------------------------
Init ==
  /\ settings \in Breakers
  /\ cb = NewGeneration("closed")
  /\ call = [p \in Calls |-> "idle"]
  /\ up = TRUE /\ bypassed = FALSE
  /\ faults = 0 /\ seen = 0

\* Check, cacheGet, cacheSet and cacheDel enter the breaker.  One that is
\* refused goes on without the dependency at once: the request is let through,
\* the cache is taken to have missed.
Enter(p) ==
  /\ call[p] = "idle"
  /\ IF Refused
       THEN /\ cb' = Current
            /\ call' = Aged(Expired)
            /\ bypassed' = TRUE
       ELSE /\ Current.counts.requests < MaxRequests
            /\ cb' = [Current EXCEPT !.counts = OnRequest(@)]
            /\ call' = [Aged(Expired) EXCEPT ![p] = "current"]
            /\ UNCHANGED bypassed
  /\ Remember(seen)
  /\ UNCHANGED <<settings, up, faults>>

\* What the call comes back with: an answer when the dependency is up, an
\* error or the timeout when it is not, and an error in any case when the
\* client has hung up and the context of the request is cancelled.
Result(err) ==
  \/ err \in {"nil", "redis.Nil"} /\ up /\ UNCHANGED faults
  \/ err = "error" /\ ~up /\ UNCHANGED faults
  \/ err = "error" /\ up /\ faults < MaxFaults /\ faults' = faults + 1

\* The call comes back and the breaker is told.  Without an answer Check lets
\* the request through and the repository goes to the database.
Leave(p) ==
  /\ call[p] # "idle"
  /\ \E err \in Outcomes :
       /\ Result(err)
       /\ cb' = After(p, err)
       /\ bypassed' = (err = "error")
       /\ Remember(IF err = "error" /\ call[p] = "current" THEN seen + 1 ELSE seen)
  /\ call' = [Aged(Expired \/ cb'.state # Current.state) EXCEPT ![p] = "idle"]
  /\ UNCHANGED <<settings, up>>

\* CBState, for the health check and the gauge, moves an expired breaker on.
CBState ==
  /\ Expired
  /\ cb' = Current
  /\ call' = Aged(Expired)
  /\ Remember(seen)
  /\ UNCHANGED <<settings, up, bypassed, faults>>

Tick ==
  /\ cb.left > 0
  /\ cb' = [cb EXCEPT !.left = @ - 1]
  /\ UNCHANGED <<settings, call, up, bypassed, faults, seen>>

Outage ==
  /\ up
  /\ faults < MaxFaults
  /\ up' = FALSE /\ faults' = faults + 1
  /\ UNCHANGED <<settings, cb, call, bypassed, seen>>

Recovery ==
  /\ ~up
  /\ up' = TRUE
  /\ UNCHANGED <<settings, cb, call, bypassed, faults, seen>>

Next ==
  \/ \E p \in Calls : Enter(p) \/ Leave(p)
  \/ CBState \/ Tick \/ Outage \/ Recovery

\* Time passes and every call comes back, at the latest with its timeout.
\* Nothing forces a request to be made or the dependency to recover.
Fairness == WF_vars(Tick) /\ \A p \in Calls : WF_vars(Leave(p))

Spec == Init /\ [][Next]_vars
FairSpec == Spec /\ Fairness

-----------------------------------------------------------------------------
\* Properties.

Probes == {p \in Calls : call[p] = "current"}

\* Every request of a generation is accounted for: it succeeded, it failed or
\* it is still in the breaker.  Results of calls from before an expiry, a trip
\* or a recovery change nothing, whatever order they come back in.
CountsAddUp ==
  cb.counts.requests =
    cb.counts.successes + cb.counts.failures + Cardinality(Probes)

\* A half-open breaker is never stuck: it has no expiry, so when it refuses
\* calls because MaxRequests of them were let in, one of them is still to come
\* back and will close or open it.
NeverWedged ==
  cb.state = "half-open" =>
    \/ cb.counts.requests < settings.maxRequests
    \/ Probes # {}

\* The breaker only leaves "closed" for calls that really failed, as many as
\* the settings ask for, and all of them let in since the counts were last
\* cleared: cache misses, refused calls, failures of an earlier interval and
\* failures that come back after it do not add up to an outage.
OpensOnlyOnFailures == cb.state # "closed" => seen >= Evidence

\* "Circuit breaker trips; system fails-open to allow traffic; recovers
\* automatically" (README.md): once the dependency is up for good and nobody
\* hangs up any more, and every caller keeps calling, the breaker is closed and
\* every call gets an answer from some time on.
Recovers ==
  (<>[]up /\ \A p \in Calls : WF_vars(Enter(p)))
    => <>[](cb.state = "closed" /\ ~bypassed)
=============================================================================
