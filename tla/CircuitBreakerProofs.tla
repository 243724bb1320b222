------------------------ MODULE CircuitBreakerProofs ------------------------
(***************************************************************************)
(* Proofs about CircuitBreaker, for any number of calls and any settings   *)
(* that the assumption allows, those of the two breakers among them.       *)
(***************************************************************************)
EXTENDS CircuitBreaker, FiniteSetTheorems, TLAPS

Breaker == [state : {"closed", "half-open", "open"}, left : Nat, counts : Counts]

\* TypeOK in terms of Breaker.
LEMMA TypeParts ==
  ASSUME TypeOK
  PROVE  /\ cb \in Breaker
         /\ settings \in Breakers /\ settings \in Settings
         /\ settings.maxRequests \in Nat \ {0}
         /\ settings.consecutiveFailures \in Nat
         /\ settings.failureRate \in Nat /\ settings.minRequests \in Nat
         /\ settings.interval \in Nat /\ settings.timeout \in Nat
         /\ cb.counts \in Counts /\ cb.state \in {"closed", "half-open", "open"}
         /\ cb.left \in Nat
         /\ cb.state = "half-open" => cb.counts.requests <= settings.maxRequests
<1>1. settings \in Settings /\ cb \in Breaker
  BY SettingsAssumption DEF TypeOK, Breaker
<1> QED
  BY <1>1 DEF TypeOK, Settings, Breaker

\* A new generation starts with all counts at zero.
LEMMA GenerationType ==
  ASSUME TypeOK, NEW s \in {"closed", "half-open", "open"}
  PROVE  /\ NewGeneration(s) \in Breaker
         /\ NewGeneration(s).state = s /\ NewGeneration(s).counts = ZeroCounts
BY TypeParts DEF NewGeneration, Breaker, Counts, ZeroCounts

\* currentState: the breaker as it is, or the next generation.
LEMMA CurrentType ==
  ASSUME TypeOK
  PROVE  /\ Current \in Breaker
         /\ Current.state = "half-open" =>
              Current.counts.requests <= settings.maxRequests
         /\ ~Expired => Current = cb
         /\ Expired => /\ Current.counts = ZeroCounts
                       /\ Current.state # "open"
                       /\ Current.state = "half-open" => cb.state = "open"
                       /\ Current.state = "closed" => cb.state = "closed"
<1>1. CASE ~Expired
  BY <1>1, TypeParts DEF Current
<1>2. CASE Expired
  <2>1. cb.state \in {"closed", "open"}
    BY <1>2, TypeParts DEF Expired
  <2> DEFINE s == IF cb.state = "open" THEN "half-open" ELSE "closed"
  <2>2. s \in {"closed", "half-open", "open"} /\ Current = NewGeneration(s)
    BY <1>2 DEF Current
  <2> HIDE DEF s
  <2>3. Current \in Breaker /\ Current.state = s /\ Current.counts = ZeroCounts
    BY <2>2, GenerationType
  <2>4. ZeroCounts.requests = 0 /\ settings.maxRequests \in Nat
    BY TypeParts DEF ZeroCounts
  <2> QED
    BY <1>2, <2>1, <2>3, <2>4 DEF s
<1> QED
  BY <1>1, <1>2

\* The callbacks keep the type of the counts.
LEMMA CountsType ==
  ASSUME NEW c \in Counts
  PROVE  /\ OnRequest(c) \in Counts /\ OnSuccess(c) \in Counts
         /\ OnFailure(c) \in Counts
         /\ OnSuccess(c).consecutiveSuccesses = c.consecutiveSuccesses + 1
         /\ OnSuccess(c).successes = c.successes + 1
         /\ OnSuccess(c).failures = c.failures
         /\ OnSuccess(c).consecutiveFailures = 0
         /\ OnSuccess(c).requests = c.requests
         /\ OnFailure(c).failures = c.failures + 1
         /\ OnFailure(c).successes = c.successes
         /\ OnFailure(c).consecutiveFailures = c.consecutiveFailures + 1
         /\ OnFailure(c).requests = c.requests
         /\ OnRequest(c) = [c EXCEPT !.requests = c.requests + 1]
<1>1. OnRequest(c) \in Counts
  BY DEF Counts, OnRequest
<1>2. OnSuccess(c) \in Counts
  <2>1. [c EXCEPT !.successes = c.successes + 1] \in Counts
    BY DEF Counts
  <2>2. PICK d \in Counts : d = [c EXCEPT !.successes = c.successes + 1]
    BY <2>1
  <2>3. [d EXCEPT !.consecutiveSuccesses = d.consecutiveSuccesses + 1] \in Counts
    BY DEF Counts
  <2>4. PICK e \in Counts : e = [d EXCEPT !.consecutiveSuccesses = d.consecutiveSuccesses + 1]
    BY <2>3
  <2>5. [e EXCEPT !.consecutiveFailures = 0] \in Counts
    BY DEF Counts
  <2>6. OnSuccess(c) = [e EXCEPT !.consecutiveFailures = 0]
    BY <2>2, <2>4 DEF OnSuccess
  <2> QED
    BY <2>5, <2>6
<1>3. OnFailure(c) \in Counts
  <2>1. [c EXCEPT !.failures = c.failures + 1] \in Counts
    BY DEF Counts
  <2>2. PICK d \in Counts : d = [c EXCEPT !.failures = c.failures + 1]
    BY <2>1
  <2>3. [d EXCEPT !.consecutiveFailures = d.consecutiveFailures + 1] \in Counts
    BY DEF Counts
  <2>4. PICK e \in Counts : e = [d EXCEPT !.consecutiveFailures = d.consecutiveFailures + 1]
    BY <2>3
  <2>5. [e EXCEPT !.consecutiveSuccesses = 0] \in Counts
    BY DEF Counts
  <2>6. OnFailure(c) = [e EXCEPT !.consecutiveSuccesses = 0]
    BY <2>2, <2>4 DEF OnFailure
  <2> QED
    BY <2>5, <2>6
<1> QED
  BY <1>1, <1>2, <1>3 DEF Counts, OnRequest, OnSuccess, OnFailure

\* What a counted result makes of the breaker: new counts, or a new generation.
LEMMA CountedResult ==
  ASSUME TypeOK, NEW p \in Calls, NEW err \in Outcomes, Counted(p)
  PROVE  /\ After(p, err) \in Breaker
         /\ After(p, err).state = "half-open" =>
              After(p, err).counts.requests <= settings.maxRequests
         /\ \/ /\ IsSuccessful(err)
               /\ After(p, err) = [cb EXCEPT !.counts = OnSuccess(cb.counts)]
               /\ cb.state = "half-open" =>
                    cb.counts.consecutiveSuccesses + 1 < settings.maxRequests
            \/ /\ ~IsSuccessful(err) /\ cb.state # "half-open"
               /\ After(p, err) = [cb EXCEPT !.counts = OnFailure(cb.counts)]
            \/ /\ IsSuccessful(err) /\ cb.state = "half-open"
               /\ After(p, err) = NewGeneration("closed")
            \/ /\ ~IsSuccessful(err)
               /\ cb.state = "half-open" \/ ReadyToTrip(OnFailure(cb.counts))
               /\ After(p, err) = NewGeneration("open")
<1>1. Current = cb
  BY CurrentType DEF Counted
<1>2. /\ [cb EXCEPT !.counts = OnSuccess(cb.counts)] \in Breaker
      /\ [cb EXCEPT !.counts = OnFailure(cb.counts)] \in Breaker
  BY TypeParts, CountsType DEF Breaker
<1>3. /\ NewGeneration("closed") \in Breaker /\ NewGeneration("open") \in Breaker
      /\ NewGeneration("closed").state = "closed"
      /\ NewGeneration("open").state = "open"
  BY GenerationType
<1>6. ASSUME NEW c \in {OnSuccess(cb.counts), OnFailure(cb.counts)}
      PROVE  [cb EXCEPT !.counts = c].state = "half-open" =>
               [cb EXCEPT !.counts = c].counts.requests <= settings.maxRequests
  <2>1. c.requests = cb.counts.requests
    BY TypeParts, CountsType
  <2>2. [cb EXCEPT !.counts = c].state = cb.state /\ [cb EXCEPT !.counts = c].counts = c
    BY TypeParts DEF Breaker
  <2> QED
    BY <2>1, <2>2, TypeParts
<1>4. CASE IsSuccessful(err)
  <2>1. After(p, err) = Succeed(cb)
    BY <1>1, <1>4 DEF After
  <2>2. OnSuccess(cb.counts).consecutiveSuccesses = cb.counts.consecutiveSuccesses + 1
    BY TypeParts, CountsType
  <2>3. cb.counts.consecutiveSuccesses \in Nat
    BY TypeParts DEF Counts
  <2> QED
    BY <1>2, <1>3, <1>4, <1>6, <2>1, <2>2, <2>3, TypeParts DEF Succeed
<1>5. CASE ~IsSuccessful(err)
  BY <1>1, <1>2, <1>3, <1>5, <1>6 DEF After, Fail
<1> QED
  BY <1>4, <1>5

\* The failures that a trip takes are a natural number.
LEMMA EvidenceType == ASSUME TypeOK PROVE Evidence \in Nat
<1>1. settings.failureRate * settings.minRequests \in Nat
  BY TypeParts
<1>2. \A n \in Nat : n \div 100 + 1 \in Nat
  OBVIOUS
<1> QED
  BY <1>1, <1>2, TypeParts DEF Evidence, Least

\* The history stays a natural number.
LEMMA RememberType ==
  ASSUME TypeOK, NEW n \in Nat, Remember(n)
  PROVE  seen' \in Nat
BY EvidenceType DEF Remember, Least

-----------------------------------------------------------------------------
\* TypeOK is inductive.
LEMMA TypeStep == TypeOK /\ [Next]_vars => TypeOK'
<1> SUFFICES ASSUME TypeOK, [Next]_vars PROVE TypeOK'
  OBVIOUS
<1>a. ASSUME cb' \in Breaker, call' \in [Calls -> {"idle", "current", "stale"}],
             settings' = settings, up' \in BOOLEAN, bypassed' \in BOOLEAN,
             faults' \in 0 .. MaxFaults, seen' \in Nat,
             cb'.state = "half-open" => cb'.counts.requests <= settings.maxRequests
      PROVE  TypeOK'
  BY <1>a DEF TypeOK, Breaker
<1>b. \A e \in BOOLEAN : Aged(e) \in [Calls -> {"idle", "current", "stale"}]
  BY DEF TypeOK, Aged
<1>c. \A e \in BOOLEAN, p \in Calls, s \in {"idle", "current"} :
        [Aged(e) EXCEPT ![p] = s] \in [Calls -> {"idle", "current", "stale"}]
  BY <1>b
<1>d. Expired \in BOOLEAN
  BY DEF Expired
<1>1. ASSUME NEW p \in Calls, Enter(p) PROVE TypeOK'
  <2>1. UNCHANGED <<settings, up, faults>> /\ seen' \in Nat
    BY <1>1, RememberType DEF Enter, TypeOK
  <2>2. CASE Refused
    BY <1>1, <1>a, <1>b, <1>d, <2>1, <2>2, CurrentType DEF Enter, TypeOK
  <2>3. CASE ~Refused
    <3>1. [Current EXCEPT !.counts = OnRequest(@)] \in Breaker
      <4>1. Current.counts \in Counts
        BY CurrentType DEF Breaker
      <4> QED
        BY <4>1, CurrentType, CountsType DEF Breaker
    <3>2. cb' = [Current EXCEPT !.counts = OnRequest(@)]
      BY <1>1, <2>3 DEF Enter
    <3>3. cb'.state = "half-open" => cb'.counts.requests <= settings.maxRequests
      <4>1. Current \in Breaker /\ Current.counts \in Counts
        BY CurrentType DEF Breaker
      <4>2. cb'.state = Current.state /\ cb'.counts = OnRequest(Current.counts)
        BY <3>2, <4>1 DEF Breaker
      <4>3. /\ OnRequest(Current.counts).requests = Current.counts.requests + 1
            /\ Current.counts.requests \in Nat
        BY <4>1 DEF Counts, OnRequest
      <4>4. Current.state = "half-open" =>
              Current.counts.requests + 1 <= settings.maxRequests
        BY <2>3, <4>3, TypeParts DEF Refused
      <4> QED
        BY <4>2, <4>3, <4>4
    <3> QED
      BY <1>1, <1>a, <1>c, <1>d, <2>1, <2>3, <3>1, <3>3 DEF Enter, TypeOK
  <2> QED
    BY <2>2, <2>3
<1>2. ASSUME NEW p \in Calls, Leave(p) PROVE TypeOK'
  <2>1. PICK err \in Outcomes :
          /\ Result(err) /\ cb' = After(p, err) /\ bypassed' = (err = "error")
          /\ Remember(IF err = "error" /\ call[p] = "current" THEN seen + 1 ELSE seen)
    BY <1>2 DEF Leave
  <2>2. /\ cb' \in Breaker
        /\ cb'.state = "half-open" => cb'.counts.requests <= settings.maxRequests
    BY <2>1, CountedResult, CurrentType DEF After
  <2>3. faults' \in 0 .. MaxFaults
    BY <2>1, BoundsAssumption DEF Result, TypeOK
  <2>4. (IF err = "error" /\ call[p] = "current" THEN seen + 1 ELSE seen) \in Nat
    BY DEF TypeOK
  <2>5. seen' \in Nat
    BY <2>1, <2>4, RememberType
  <2>6. call' \in [Calls -> {"idle", "current", "stale"}] /\ UNCHANGED <<settings, up>>
    BY <1>2, <1>c DEF Leave
  <2> QED
    BY <1>a, <2>1, <2>2, <2>3, <2>5, <2>6 DEF TypeOK
<1>3. ASSUME CBState PROVE TypeOK'
  <2>1. seen' \in Nat
    BY <1>3, RememberType DEF CBState, TypeOK
  <2> QED
    BY <1>3, <1>a, <1>b, <1>d, <2>1, CurrentType DEF CBState, TypeOK
<1>4. ASSUME Tick PROVE TypeOK'
  <2>1. [cb EXCEPT !.left = @ - 1] \in Breaker
    BY <1>4, TypeParts DEF Tick, Breaker
  <2>2. cb' \in Breaker /\ UNCHANGED <<settings, call, up, bypassed, faults, seen>>
    BY <1>4, <2>1 DEF Tick
  <2>3. cb'.state = cb.state /\ cb'.counts = cb.counts
    BY <1>4, TypeParts DEF Tick, Breaker
  <2> QED
    BY <1>a, <2>2, <2>3, TypeParts DEF TypeOK
<1>5. ASSUME Outage \/ Recovery PROVE TypeOK'
  <2>1. up' \in BOOLEAN /\ UNCHANGED <<settings, cb, call, bypassed, seen>>
    BY <1>5, Zenon DEF Outage, Recovery
  <2>2. faults' \in 0 .. MaxFaults
    BY <1>5, BoundsAssumption DEF Outage, Recovery, TypeOK
  <2> QED
    BY <1>a, <2>1, <2>2, TypeParts, Zenon DEF TypeOK
<1>6. CASE UNCHANGED vars
  BY <1>6 DEF vars, TypeOK
<1> QED
  BY <1>1, <1>2, <1>3, <1>4, <1>5, <1>6 DEF Next

\* The breaker is made closed, with nobody in it.
LEMMA TypeInit == Init => TypeOK
<1> SUFFICES ASSUME Init PROVE TypeOK
  OBVIOUS
<1>1. settings \in Settings
  BY SettingsAssumption DEF Init
<1>2. NewGeneration("closed") \in Breaker
  BY <1>1 DEF NewGeneration, Breaker, Counts, ZeroCounts, Settings
<1>3. 0 \in 0 .. MaxFaults /\ NewGeneration("closed").state # "half-open"
  BY BoundsAssumption DEF NewGeneration
<1>4. up \in BOOLEAN /\ bypassed \in BOOLEAN
  BY Zenon DEF Init
<1> QED
  BY <1>2, <1>3, <1>4 DEF Init, TypeOK, Breaker

\* Every state of a circuit breaker has its type: in particular beforeRequest
\* never lets more than MaxRequests probes into a half-open breaker.
THEOREM BreakerTypeCorrect == Spec => []TypeOK
BY TypeInit, TypeStep, PTL DEF Spec

-----------------------------------------------------------------------------
\* The inductive invariant.

\* Probes of a half-open breaker that failed have opened it, and MaxRequests
\* that succeeded have closed it.
HalfOpenCounts ==
  cb.state = "half-open" =>
    /\ cb.counts.failures = 0
    /\ cb.counts.consecutiveSuccesses = cb.counts.successes
    /\ cb.counts.successes < settings.maxRequests

\* An open breaker lets nobody in.
OpenCounts == cb.state = "open" => cb.counts = ZeroCounts

\* The failures that a closed breaker has counted are calls of its generation
\* that failed.
ClosedCounts ==
  cb.state = "closed" =>
    /\ cb.counts.consecutiveFailures <= cb.counts.failures
    /\ seen >= cb.counts.failures \/ seen >= Evidence

BreakerInv ==
  /\ TypeOK
  /\ CountsAddUp
  /\ HalfOpenCounts
  /\ OpenCounts
  /\ ClosedCounts
  /\ OpensOnlyOnFailures

\* The calls of the current generation after one of them has moved.
LEMMA ProbesStep ==
  ASSUME TypeOK, NEW e \in BOOLEAN
  PROVE  LET left == IF e THEN {} ELSE Probes IN
         /\ call' = Aged(e) => Probes' = left
         /\ \A p \in Calls :
              /\ call' = [Aged(e) EXCEPT ![p] = "current"] => Probes' = left \cup {p}
              /\ call' = [Aged(e) EXCEPT ![p] = "idle"] => Probes' = left \ {p}
<1> DEFINE left == IF e THEN {} ELSE Probes
<1>1. \A q \in Calls : (Aged(e)[q] = "current") <=> q \in left
  BY DEF TypeOK, Aged, Probes
<1>2. ASSUME call' = Aged(e) PROVE Probes' = left
  BY <1>1, <1>2 DEF Probes
<1>3. DOMAIN Aged(e) = Calls
  BY DEF Aged
<1>4. ASSUME NEW p \in Calls, call' = [Aged(e) EXCEPT ![p] = "current"]
      PROVE  Probes' = left \cup {p}
  BY <1>1, <1>3, <1>4 DEF Probes
<1>5. ASSUME NEW p \in Calls, call' = [Aged(e) EXCEPT ![p] = "idle"]
      PROVE  Probes' = left \ {p}
  BY <1>1, <1>3, <1>5 DEF Probes
<1> QED
  BY <1>2, <1>4, <1>5

\* The current calls are finitely many.
LEMMA ProbesFinite == IsFiniteSet(Probes) /\ Cardinality(Probes) \in Nat
<1>1. IsFiniteSet(Calls) /\ Probes \subseteq Calls
  BY BoundsAssumption DEF Probes
<1> QED
  BY <1>1, FS_Subset, FS_CardinalityType

\* Counts of zero add up when nobody is in the breaker.
LEMMA ZeroAddsUp ==
  ASSUME cb'.counts = ZeroCounts, Probes' = {}
  PROVE  CountsAddUp'
<1>1. Cardinality({}) = 0
  BY FS_EmptySet
<1>2. Cardinality(Probes') = 0
  BY <1>1
<1>3. cb'.counts.requests = 0 /\ cb'.counts.successes = 0 /\ cb'.counts.failures = 0
  BY DEF ZeroCounts
<1> QED
  BY <1>2, <1>3 DEF CountsAddUp

\* A larger sample takes at least as many failures.
LEMMA RateMonotone ==
  ASSUME NEW k \in Nat, NEW m \in Nat, NEW n \in Nat, m <= n
  PROVE  k * m <= k * n
<1>1. PICK d \in Nat : n = m + d
  <2>1. n - m \in Nat /\ n = m + (n - m)
    OBVIOUS
  <2> QED
    BY <2>1
<1>2. k * (m + d) = k * m + k * d
  OBVIOUS
<1>3. k * d \in Nat /\ k * m \in Nat
  OBVIOUS
<1> QED
  BY <1>1, <1>2, <1>3

\* ReadyToTrip asks for at least Evidence failures.
LEMMA TripTakesEvidence ==
  ASSUME TypeOK, NEW c \in Counts, ReadyToTrip(c),
         c.consecutiveFailures <= c.failures
  PROVE  c.failures >= Evidence
<1> DEFINE rate == settings.failureRate * settings.minRequests
<1>1. /\ c.requests \in Nat /\ c.failures \in Nat /\ c.consecutiveFailures \in Nat
      /\ settings.failureRate \in Nat /\ settings.minRequests \in Nat
      /\ settings.consecutiveFailures \in Nat
  BY TypeParts DEF Counts
<1>2. rate \in Nat
  BY <1>1
<1>3. CASE /\ settings.minRequests > 0 /\ settings.failureRate > 0
           /\ c.requests >= settings.minRequests
           /\ c.failures * 100 > settings.failureRate * c.requests
  <2>1. rate <= settings.failureRate * c.requests
    BY <1>1, <1>3, RateMonotone
  <2>2. settings.failureRate * c.requests \in Nat
    BY <1>1
  <2>3. rate # 0
    <3>1. settings.failureRate * 1 <= rate
      BY <1>1, <1>3, RateMonotone
    <3> QED
      BY <1>1, <1>3, <3>1
  <2> HIDE DEF rate
  <2>4. c.failures * 100 > rate
    BY <1>1, <1>2, <1>3, <2>1, <2>2
  <2>5. c.failures >= rate \div 100 + 1
    BY <1>1, <1>2, <2>4
  <2>6. rate \div 100 + 1 \in Nat
    BY <1>2
  <2>7. Evidence <= rate \div 100 + 1
    BY <1>1, <2>3, <2>6 DEF Evidence, Least, rate
  <2>8. Evidence \in Nat
    BY EvidenceType
  <2> QED
    BY <1>1, <2>5, <2>6, <2>7, <2>8
<1>4. CASE /\ settings.consecutiveFailures > 0
           /\ c.consecutiveFailures >= settings.consecutiveFailures
  <2>1. rate \div 100 + 1 \in Nat
    BY <1>2
  <2>2. Evidence <= settings.consecutiveFailures
    BY <1>1, <1>2, <1>4, <2>1 DEF Evidence, Least
  <2>3. Evidence \in Nat
    BY EvidenceType
  <2> QED
    BY <1>1, <1>4, <2>2, <2>3
<1> QED
  BY <1>3, <1>4 DEF ReadyToTrip

\* A new generation keeps the invariant, closed for any history and half-open
\* or open for one that has the evidence.
LEMMA NewGenerationInv ==
  ASSUME TypeOK, TypeOK', settings' = settings, cb'.counts = ZeroCounts,
         Probes' = {}, cb'.state # "closed" => seen' >= Evidence
  PROVE  BreakerInv'
<1>1. CountsAddUp'
  BY ZeroAddsUp
<1>2. /\ cb'.counts.failures = 0 /\ cb'.counts.successes = 0
      /\ cb'.counts.consecutiveSuccesses = 0 /\ cb'.counts.consecutiveFailures = 0
  BY DEF ZeroCounts
<1>3. settings.maxRequests \in Nat \ {0}
  BY TypeParts
<1>4. HalfOpenCounts' /\ OpenCounts'
  BY <1>2, <1>3 DEF HalfOpenCounts, OpenCounts
<1>5. seen' \in Nat
  BY DEF TypeOK
<1>6. ClosedCounts'
  BY <1>2, <1>5 DEF ClosedCounts
<1>7. OpensOnlyOnFailures'
  BY DEF OpensOnlyOnFailures, Evidence
<1> QED
  BY <1>1, <1>4, <1>6, <1>7 DEF BreakerInv

\* A step that leaves the breaker and its calls alone, or only moves the clock.
LEMMA QuietInv ==
  ASSUME BreakerInv, TypeOK', settings' = settings, cb'.counts = cb.counts,
         cb'.state = cb.state, Probes' = Probes,
         seen' = seen \/ seen' = Least(seen, Evidence)
  PROVE  BreakerInv'
<1>1. CountsAddUp'
  BY DEF BreakerInv, CountsAddUp
<1>2. HalfOpenCounts' /\ OpenCounts'
  BY DEF BreakerInv, HalfOpenCounts, OpenCounts
<1>3. Evidence' = Evidence /\ Evidence \in Nat /\ seen \in Nat /\ seen' \in Nat
  BY EvidenceType DEF Evidence, BreakerInv, TypeOK
<1>4. cb.counts.failures \in Nat
  BY TypeParts DEF BreakerInv, Counts
<1>5. seen >= Evidence => seen' >= Evidence
  BY <1>3 DEF Least
<1>6. seen >= cb.counts.failures => seen' >= cb.counts.failures \/ seen' >= Evidence
  BY <1>3, <1>4 DEF Least
<1>7. ClosedCounts'
  BY <1>3, <1>5, <1>6 DEF BreakerInv, ClosedCounts
<1>8. OpensOnlyOnFailures'
  BY <1>3, <1>5 DEF BreakerInv, OpensOnlyOnFailures
<1> QED
  BY <1>1, <1>2, <1>7, <1>8 DEF BreakerInv

\* What currentState makes of a breaker that satisfies the invariant.
LEMMA CurrentInv ==
  ASSUME BreakerInv
  PROVE  LET left == IF Expired THEN {} ELSE Probes
             c == Current.counts
         IN /\ c \in Counts
            /\ c.requests = c.successes + c.failures + Cardinality(left)
            /\ Current.state = "half-open" =>
                 /\ c.failures = 0
                 /\ c.consecutiveSuccesses = c.successes
                 /\ c.successes < settings.maxRequests
            /\ Current.state = "closed" =>
                 /\ c.consecutiveFailures <= c.failures
                 /\ seen >= c.failures \/ seen >= Evidence
            /\ Current.state # "closed" => seen >= Evidence
<1>1. TypeOK /\ Current \in Breaker
  BY CurrentType DEF BreakerInv
<1>2. Current.counts \in Counts
  BY <1>1 DEF Breaker
<1>3. CASE ~Expired
  <2>1. Current = cb
    BY <1>1, <1>3, CurrentType
  <2> QED
    BY <1>2, <1>3, <2>1
    DEF BreakerInv, CountsAddUp, HalfOpenCounts, ClosedCounts, OpensOnlyOnFailures
<1>4. CASE Expired
  <2>1. /\ Current.counts = ZeroCounts
        /\ Current.state # "closed" => cb.state = "open"
    BY <1>1, <1>4, CurrentType DEF Breaker
  <2>2. Cardinality({}) = 0
    BY FS_EmptySet
  <2>3. /\ ZeroCounts.requests = 0 /\ ZeroCounts.successes = 0
        /\ ZeroCounts.failures = 0 /\ ZeroCounts.consecutiveSuccesses = 0
        /\ ZeroCounts.consecutiveFailures = 0
    BY DEF ZeroCounts
  <2>4. settings.maxRequests \in Nat \ {0} /\ seen \in Nat
    BY <1>1, TypeParts DEF TypeOK
  <2>5. Current.state # "closed" => seen >= Evidence
    BY <2>1 DEF BreakerInv, OpensOnlyOnFailures
  <2> QED
    BY <1>2, <1>4, <2>1, <2>2, <2>3, <2>4, <2>5
<1> QED
  BY <1>3, <1>4

\* A call that goes in, or is refused.
LEMMA EnterInv ==
  ASSUME BreakerInv, TypeOK', NEW p \in Calls, Enter(p)
  PROVE  BreakerInv'
<1> DEFINE left == IF Expired THEN {} ELSE Probes
<1>1. TypeOK /\ Expired \in BOOLEAN /\ settings' = settings /\ Remember(seen)
  BY DEF BreakerInv, Expired, Enter
<1>4. seen \in Nat /\ Evidence \in Nat
  BY <1>1, EvidenceType DEF TypeOK
<1>2. CASE Refused
  <2>1. cb' = Current /\ call' = Aged(Expired)
    BY <1>2 DEF Enter
  <2>2. Probes' = left
    BY <1>1, <2>1, ProbesStep
  <2>3. CASE Expired
    <3>1. cb'.counts = ZeroCounts /\ (cb'.state # "closed" => seen' >= Evidence)
      BY <1>1, <1>4, <2>1, <2>3, CurrentType, CurrentInv DEF Remember, Least
    <3> QED
      BY <1>1, <2>2, <2>3, <3>1, NewGenerationInv
  <2>4. CASE ~Expired
    <3>1. cb' = cb
      BY <1>1, <2>1, <2>4, CurrentType
    <3>2. seen' = Least(seen, Evidence)
      BY <1>1, <2>4, <3>1 DEF Remember
    <3> QED
      BY <1>1, <2>2, <2>4, <3>1, <3>2, QuietInv
  <2> QED
    BY <2>3, <2>4
<1>3. CASE ~Refused
  <2>1. /\ cb' = [Current EXCEPT !.counts = OnRequest(@)]
        /\ call' = [Aged(Expired) EXCEPT ![p] = "current"]
    BY <1>3 DEF Enter
  <2> DEFINE c == Current.counts
  <2>2. Current \in Breaker /\ c \in Counts
    BY <1>1, CurrentType DEF Breaker
  <2>3. cb'.state = Current.state /\ cb'.counts = OnRequest(c)
    BY <2>1, <2>2 DEF Breaker
  <2>4. Current.state # "open"
    BY <1>3 DEF Refused
  <2>5. Probes' = left \cup {p}
    BY <1>1, <2>1, ProbesStep
  <2>6. p \notin left
    BY DEF Enter, Probes
  <2>7. IsFiniteSet(left)
    BY ProbesFinite, FS_EmptySet
  <2>8. Cardinality(left \cup {p}) = Cardinality(left) + 1 /\ Cardinality(left) \in Nat
    BY <2>6, <2>7, FS_AddElement, FS_CardinalityType
  <2> HIDE DEF left, c
  <2>9. /\ OnRequest(c).requests = c.requests + 1
        /\ OnRequest(c).successes = c.successes
        /\ OnRequest(c).failures = c.failures
        /\ OnRequest(c).consecutiveSuccesses = c.consecutiveSuccesses
        /\ OnRequest(c).consecutiveFailures = c.consecutiveFailures
        /\ c.successes \in Nat /\ c.failures \in Nat
    BY <2>2 DEF Counts, OnRequest
  <2>10. c.requests = c.successes + c.failures + Cardinality(left)
    BY CurrentInv DEF left, c
  <2>11. CountsAddUp'
    <3>1. Cardinality(Probes') = Cardinality(left) + 1
      BY <2>5, <2>8
    <3>2. cb'.counts.requests = c.requests + 1
      BY <2>3, <2>9
    <3>3. cb'.counts.successes = c.successes /\ cb'.counts.failures = c.failures
      BY <2>3, <2>9
    <3> QED
      BY <2>8, <2>9, <2>10, <3>1, <3>2, <3>3 DEF CountsAddUp
  <2>12. HalfOpenCounts' /\ OpenCounts'
    BY <1>1, <2>3, <2>4, <2>9, CurrentInv DEF HalfOpenCounts, OpenCounts, c
  <2>13. Evidence' = Evidence
    BY <1>1 DEF Evidence
  <2>14. \/ seen' = Least(seen, Evidence)
         \/ cb'.state = "closed" /\ c.failures = 0 /\ seen' = 0
    <3>1. CASE Expired
      BY <1>1, <2>3, <3>1, CurrentType DEF Remember, ZeroCounts, c
    <3>2. CASE ~Expired
      BY <1>1, <2>3, <3>2, CurrentType DEF Remember
    <3> QED
      BY <3>1, <3>2
  <2>15. ClosedCounts' /\ OpensOnlyOnFailures'
    BY <1>4, <2>3, <2>9, <2>13, <2>14, CurrentInv
    DEF ClosedCounts, OpensOnlyOnFailures, Least, c
  <2> QED
    BY <1>1, <2>11, <2>12, <2>15 DEF BreakerInv
<1> QED
  BY <1>2, <1>3

\* Nobody is in an open breaker.
LEMMA NobodyInOpen ==
  ASSUME BreakerInv, NEW p \in Calls, call[p] = "current"
  PROVE  cb.state # "open"
<1> SUFFICES ASSUME cb.state = "open" PROVE FALSE
  OBVIOUS
<1>1. cb.counts = ZeroCounts
  BY DEF BreakerInv, OpenCounts
<1>2. cb.counts.requests = 0 /\ cb.counts.successes = 0 /\ cb.counts.failures = 0
  BY <1>1 DEF ZeroCounts
<1>3. Cardinality(Probes) = 0
  BY <1>2, ProbesFinite DEF BreakerInv, CountsAddUp
<1>4. Probes = {}
  BY <1>3, ProbesFinite, FS_EmptySet
<1> QED
  BY <1>4 DEF Probes

\* A counted result that leaves the breaker in its generation.
LEMMA SameGenerationInv ==
  ASSUME BreakerInv, TypeOK', NEW p \in Calls, call[p] = "current",
         settings' = settings, cb'.state = cb.state, Probes' = Probes \ {p},
         NEW k \in {0, 1}, seen' = Least(seen + k, Evidence),
         \/ /\ cb'.counts = OnSuccess(cb.counts)
            /\ cb.state = "half-open" =>
                 cb.counts.consecutiveSuccesses + 1 < settings.maxRequests
         \/ cb'.counts = OnFailure(cb.counts) /\ k = 1 /\ cb.state # "half-open"
  PROVE  BreakerInv'
<1> DEFINE c == cb.counts
<1>1. TypeOK /\ c \in Counts
  BY TypeParts DEF BreakerInv
<1>2. /\ c.requests \in Nat /\ c.successes \in Nat /\ c.failures \in Nat
      /\ c.consecutiveSuccesses \in Nat /\ c.consecutiveFailures \in Nat
  BY <1>1 DEF Counts
<1>3. p \in Probes
  BY DEF Probes
<1>4. Cardinality(Probes') = Cardinality(Probes) - 1 /\ Cardinality(Probes) \in Nat
  BY <1>3, ProbesFinite, FS_RemoveElement
<1>5. c.requests = c.successes + c.failures + Cardinality(Probes)
  BY DEF BreakerInv, CountsAddUp
<1>6. Evidence' = Evidence /\ Evidence \in Nat /\ seen \in Nat /\ seen' \in Nat
  BY <1>1, EvidenceType DEF Evidence, TypeOK
<1>7. seen >= Evidence => seen' >= Evidence
  BY <1>6 DEF Least
<1>8. cb.state # "open"
  BY NobodyInOpen
<1>9. OpensOnlyOnFailures' /\ OpenCounts'
  BY <1>6, <1>7, <1>8 DEF BreakerInv, OpensOnlyOnFailures, OpenCounts
<1> HIDE DEF c
<1>10. CASE /\ cb'.counts = OnSuccess(c)
            /\ cb.state = "half-open" => c.consecutiveSuccesses + 1 < settings.maxRequests
  <2>1. /\ cb'.counts.successes = c.successes + 1
        /\ cb'.counts.failures = c.failures
        /\ cb'.counts.requests = c.requests
        /\ cb'.counts.consecutiveSuccesses = c.consecutiveSuccesses + 1
        /\ cb'.counts.consecutiveFailures = 0
    BY <1>1, <1>10, CountsType
  <2>2. CountsAddUp'
    BY <1>2, <1>4, <1>5, <2>1 DEF CountsAddUp
  <2>3. HalfOpenCounts'
    BY <1>2, <1>10, <2>1 DEF BreakerInv, HalfOpenCounts, c
  <2>4. seen >= c.failures => seen' >= c.failures \/ seen' >= Evidence
    BY <1>2, <1>6 DEF Least
  <2>5. ClosedCounts'
    BY <1>2, <1>6, <1>7, <2>1, <2>4 DEF BreakerInv, ClosedCounts, c
  <2> QED
    BY <1>9, <2>2, <2>3, <2>5 DEF BreakerInv
<1>11. CASE cb'.counts = OnFailure(c) /\ k = 1 /\ cb.state # "half-open"
  <2>1. /\ cb'.counts.successes = c.successes
        /\ cb'.counts.failures = c.failures + 1
        /\ cb'.counts.requests = c.requests
        /\ cb'.counts.consecutiveFailures = c.consecutiveFailures + 1
    BY <1>1, <1>11, CountsType
  <2>2. CountsAddUp'
    BY <1>2, <1>4, <1>5, <2>1 DEF CountsAddUp
  <2>3. HalfOpenCounts'
    BY <1>11 DEF HalfOpenCounts
  <2>4. seen >= c.failures => seen' >= c.failures + 1 \/ seen' >= Evidence
    BY <1>2, <1>6, <1>11 DEF Least
  <2>5. ClosedCounts'
    BY <1>2, <1>6, <1>7, <2>1, <2>4 DEF BreakerInv, ClosedCounts, c
  <2> QED
    BY <1>9, <2>2, <2>3, <2>5 DEF BreakerInv
<1> QED
  BY <1>10, <1>11 DEF c

\* A call that comes back.
LEMMA LeaveInv ==
  ASSUME BreakerInv, TypeOK', NEW p \in Calls, Leave(p)
  PROVE  BreakerInv'
<1> DEFINE left == IF Expired THEN {} ELSE Probes
<1>1. PICK err \in Outcomes :
        /\ cb' = After(p, err)
        /\ Remember(IF err = "error" /\ call[p] = "current" THEN seen + 1 ELSE seen)
  BY DEF Leave
<1> DEFINE k == IF err = "error" THEN 1 ELSE 0
           n == IF call[p] = "current" THEN seen + k ELSE seen
<1>2. TypeOK /\ Expired \in BOOLEAN /\ settings' = settings
  BY DEF BreakerInv, Expired, Leave
<1>3. call' = [Aged(Expired \/ cb'.state # Current.state) EXCEPT ![p] = "idle"]
  BY DEF Leave
<1>4. k \in {0, 1} /\ (~IsSuccessful(err) <=> k = 1)
  BY DEF Outcomes, IsSuccessful
<1>5. Evidence \in Nat /\ seen \in Nat
  BY <1>2, EvidenceType DEF TypeOK
<1>6. Remember(n) /\ n \in Nat /\ n >= seen
  BY <1>1, <1>4, <1>5
<1> HIDE DEF n
<1>7. CASE ~Counted(p)
  <2>1. cb' = Current
    BY <1>1, <1>7 DEF After
  <2>4. call' = [Aged(Expired) EXCEPT ![p] = "idle"]
    BY <1>3, <2>1 DEF Aged
  <2>5. Probes' = left \ {p}
    BY <1>2, <2>4, ProbesStep
  <2>6. CASE Expired
    <3>1. cb'.counts = ZeroCounts /\ (cb'.state # "closed" => seen >= Evidence)
      BY <1>2, <2>1, <2>6, CurrentType, CurrentInv
    <3>2. cb'.state # "closed" => seen' >= Evidence
      BY <1>5, <1>6, <3>1 DEF Remember, Least
    <3> QED
      BY <1>2, <2>5, <2>6, <3>1, <3>2, NewGenerationInv
  <2>7. CASE ~Expired
    <3>1. cb' = cb
      BY <1>2, <2>1, <2>7, CurrentType
    <3>2. p \notin Probes
      BY <1>7, <2>7 DEF Counted, Probes
    <3>3. Probes' = Probes
      BY <2>5, <2>7, <3>2
    <3>4. seen' = Least(seen, Evidence)
      BY <1>6, <2>7, <3>1, <3>2 DEF Remember, Probes, n
    <3> QED
      BY <1>2, <3>1, <3>3, <3>4, QuietInv
  <2> QED
    BY <2>6, <2>7
<1>8. CASE Counted(p)
  <2>1. ~Expired /\ call[p] = "current" /\ Current = cb
    BY <1>2, <1>8, CurrentType DEF Counted
  <2>2. cb.state # "open" /\ n = seen + k
    BY <2>1, NobodyInOpen DEF n
  <2>3. Probes' = IF cb'.state # cb.state THEN {} ELSE Probes \ {p}
    <3> DEFINE e == Expired \/ cb'.state # Current.state
    <3>1. e \in BOOLEAN /\ (e <=> cb'.state # cb.state)
      BY <2>1
    <3> HIDE DEF e
    <3>2. call' = [Aged(e) EXCEPT ![p] = "idle"]
      BY <1>3 DEF e
    <3>3. Probes' = (IF e THEN {} ELSE Probes) \ {p}
      BY <1>2, <3>1, <3>2, ProbesStep
    <3> QED
      BY <3>1, <3>3
  <2>4. cb \in Breaker /\ cb.counts \in Counts
    BY <1>2, TypeParts
  <2>5. CASE /\ cb' = [cb EXCEPT !.counts = OnSuccess(cb.counts)]
             /\ cb.state = "half-open" =>
                  cb.counts.consecutiveSuccesses + 1 < settings.maxRequests
    <3>1. cb'.state = cb.state /\ cb'.counts = OnSuccess(cb.counts)
      BY <2>4, <2>5 DEF Breaker
    <3>2. seen' = Least(seen + k, Evidence) /\ Probes' = Probes \ {p}
      BY <1>6, <2>1, <2>2, <2>3, <3>1 DEF Remember
    <3> QED
      BY <1>2, <1>4, <2>1, <2>5, <3>1, <3>2, SameGenerationInv
  <2>6. CASE /\ ~IsSuccessful(err) /\ cb.state # "half-open"
             /\ cb' = [cb EXCEPT !.counts = OnFailure(cb.counts)]
    <3>1. cb'.state = cb.state /\ cb'.counts = OnFailure(cb.counts)
      BY <2>4, <2>6 DEF Breaker
    <3>2. seen' = Least(seen + k, Evidence) /\ Probes' = Probes \ {p} /\ k = 1
      BY <1>4, <1>6, <2>1, <2>2, <2>3, <2>6, <3>1 DEF Remember
    <3> QED
      BY <1>2, <1>4, <2>1, <2>6, <3>1, <3>2, SameGenerationInv
  <2>7. CASE cb.state = "half-open" /\ cb' = NewGeneration("closed")
    <3>1. cb'.state = "closed" /\ cb'.counts = ZeroCounts
      BY <1>2, <2>7, GenerationType
    <3> QED
      BY <1>2, <2>3, <2>7, <3>1, NewGenerationInv
  <2>8. CASE /\ ~IsSuccessful(err)
             /\ cb.state = "half-open" \/ ReadyToTrip(OnFailure(cb.counts))
             /\ cb' = NewGeneration("open")
    <3>1. cb'.state = "open" /\ cb'.counts = ZeroCounts
      BY <1>2, <2>8, GenerationType
    <3>2. seen' = Least(seen + 1, Evidence)
      BY <1>4, <1>6, <2>2, <2>8, <3>1 DEF Remember
    <3>3. CASE seen >= Evidence
      BY <1>2, <1>5, <2>2, <2>3, <3>1, <3>2, <3>3, NewGenerationInv DEF Least
    <3>4. CASE ~(seen >= Evidence)
      <4>1. cb.state = "closed"
        BY <3>4, <2>2 DEF BreakerInv, OpensOnlyOnFailures
      <4>2. /\ cb.counts.consecutiveFailures <= cb.counts.failures
            /\ seen >= cb.counts.failures
        BY <3>4, <4>1 DEF BreakerInv, ClosedCounts
      <4> DEFINE d == OnFailure(cb.counts)
      <4>3. /\ d \in Counts /\ d.failures = cb.counts.failures + 1
            /\ d.consecutiveFailures = cb.counts.consecutiveFailures + 1
        BY <2>4, CountsType
      <4>4. cb.counts.failures \in Nat /\ cb.counts.consecutiveFailures \in Nat
        BY <2>4 DEF Counts
      <4>5. ReadyToTrip(d)
        BY <2>8, <4>1
      <4> HIDE DEF d
      <4>6. d.failures >= Evidence
        BY <1>2, <4>2, <4>3, <4>4, <4>5, TripTakesEvidence
      <4>7. seen + 1 >= Evidence
        BY <1>5, <4>2, <4>3, <4>4, <4>6
      <4>8. seen' >= Evidence
        BY <1>5, <3>2, <4>7 DEF Least
      <4> QED
        BY <1>2, <2>2, <2>3, <3>1, <4>8, NewGenerationInv
    <3> QED
      BY <3>3, <3>4
  <2> QED
    BY <1>1, <1>2, <1>8, <2>5, <2>6, <2>7, <2>8, CountedResult
<1> QED
  BY <1>7, <1>8

\* BreakerInv is inductive.
LEMMA BreakerStep == BreakerInv /\ [Next]_vars => BreakerInv'
<1> SUFFICES ASSUME BreakerInv, [Next]_vars PROVE BreakerInv'
  OBVIOUS
<1>1. TypeOK /\ TypeOK'
  BY TypeStep DEF BreakerInv
<1>2. ASSUME NEW p \in Calls, Enter(p) PROVE BreakerInv'
  BY <1>1, <1>2, EnterInv
<1>3. ASSUME NEW p \in Calls, Leave(p) PROVE BreakerInv'
  BY <1>1, <1>3, LeaveInv
<1>4. ASSUME CBState PROVE BreakerInv'
  <2>1. /\ Expired /\ Expired \in BOOLEAN /\ cb' = Current /\ call' = Aged(Expired)
        /\ settings' = settings /\ Remember(seen)
    BY <1>4 DEF CBState, Expired
  <2>2. Probes' = {}
    BY <1>1, <2>1, ProbesStep
  <2>3. seen \in Nat /\ Evidence \in Nat
    BY <1>1, EvidenceType DEF TypeOK
  <2>4. cb'.counts = ZeroCounts /\ (cb'.state # "closed" => seen' >= Evidence)
    BY <1>1, <2>1, <2>3, CurrentType, CurrentInv DEF Remember, Least
  <2> QED
    BY <1>1, <2>1, <2>2, <2>4, NewGenerationInv
<1>5. ASSUME Tick PROVE BreakerInv'
  <2>1. cb' = [cb EXCEPT !.left = @ - 1] /\ UNCHANGED <<settings, call, seen>>
    BY <1>5 DEF Tick
  <2>2. cb'.counts = cb.counts /\ cb'.state = cb.state
    BY <1>1, <2>1, TypeParts DEF Breaker
  <2>3. Probes' = Probes
    BY <2>1 DEF Probes
  <2> QED
    BY <1>1, <2>1, <2>2, <2>3, QuietInv
<1>6. ASSUME Outage \/ Recovery \/ UNCHANGED vars PROVE BreakerInv'
  <2>1. UNCHANGED <<settings, cb, call, seen>>
    BY <1>6, Zenon DEF Outage, Recovery, vars
  <2>2. Probes' = Probes
    BY <2>1 DEF Probes
  <2> QED
    BY <1>1, <2>1, <2>2, QuietInv
<1> QED
  BY <1>2, <1>3, <1>4, <1>5, <1>6 DEF Next

\* A new breaker satisfies it.
LEMMA BreakerInit == Init => BreakerInv
<1> SUFFICES ASSUME Init PROVE BreakerInv
  OBVIOUS
<1>1. TypeOK
  BY TypeInit
<1>2. cb.state = "closed" /\ cb.counts = ZeroCounts
  BY <1>1, GenerationType DEF Init
<1>3. /\ ZeroCounts.requests = 0 /\ ZeroCounts.successes = 0
      /\ ZeroCounts.failures = 0 /\ ZeroCounts.consecutiveFailures = 0
  BY DEF ZeroCounts
<1>4. Probes = {}
  BY DEF Init, Probes
<1>5. Cardinality(Probes) = 0
  BY <1>4, FS_EmptySet
<1>6. seen \in Nat
  BY <1>1 DEF TypeOK
<1> QED
  BY <1>1, <1>2, <1>3, <1>5, <1>6
  DEF BreakerInv, CountsAddUp, HalfOpenCounts, OpenCounts, ClosedCounts,
      OpensOnlyOnFailures

\* A half-open breaker that is full waits for one of its probes.
LEMMA InvNeverWedged == BreakerInv => NeverWedged
<1> SUFFICES ASSUME BreakerInv, cb.state = "half-open", Probes = {}
             PROVE  cb.counts.requests < settings.maxRequests
  BY DEF NeverWedged
<1>1. Cardinality(Probes) = 0
  BY FS_EmptySet
<1>2. cb.counts.successes \in Nat
  BY TypeParts DEF BreakerInv, Counts
<1> QED
  BY <1>1, <1>2 DEF BreakerInv, CountsAddUp, HalfOpenCounts

\* Requests, results and the calls still in the breaker add up in every
\* generation: afterRequest never counts a result of an earlier one.
THEOREM CountsAlwaysAddUp == Spec => []CountsAddUp
<1>1. BreakerInv => CountsAddUp
  BY DEF BreakerInv
<1> QED
  BY <1>1, BreakerInit, BreakerStep, PTL DEF Spec

\* A half-open breaker, which no timer moves on, is never left without a probe
\* that can: it lets calls in or has one to wait for.
THEOREM HalfOpenNeverWedged == Spec => []NeverWedged
BY InvNeverWedged, BreakerInit, BreakerStep, PTL DEF Spec

\* No breaker leaves "closed" before as many calls have failed as ReadyToTrip
\* asks for, all of them let in since the counts were last cleared, for any
\* settings: misses, refusals and late results never trip it.
THEOREM TripsOnlyOnFailures == Spec => []OpensOnlyOnFailures
<1>1. BreakerInv => OpensOnlyOnFailures
  BY DEF BreakerInv
<1> QED
  BY <1>1, BreakerInit, BreakerStep, PTL DEF Spec
=============================================================================
