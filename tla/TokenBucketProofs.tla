-------------------------- MODULE TokenBucketProofs --------------------------
(***************************************************************************)
(* The limit of the token bucket, for every rate, every size of the bucket *)
(* and any number of concurrent calls, and what a client can rely on.      *)
(***************************************************************************)
EXTENDS TokenBucket, WellFoundedInduction, TLAPS

-----------------------------------------------------------------------------
\* Arithmetic.

LEMMA LessType ==
  ASSUME NEW a \in Nat, NEW b \in Nat
  PROVE  Less(a, b) \in Nat /\ a + Less(b, a) = b + Less(a, b)
BY DEF Less

LEMMA Distributes ==
  ASSUME NEW r \in Nat, NEW a \in Nat, NEW b \in Nat
  PROVE  r * (a + b) = r * a + r * b /\ r * a \in Nat
OBVIOUS

LEMMA Monotone ==
  ASSUME NEW r \in Nat, NEW a \in Nat, NEW b \in Nat, a <= b
  PROVE  r * a <= r * b
<1>1. PICK d \in Nat : b = a + d
  <2>1. b - a \in Nat /\ b = a + (b - a)
    OBVIOUS
  <2> QED
    BY <2>1
<1>2. r * b = r * a + r * d /\ r * d \in Nat /\ r * a \in Nat
  BY <1>1, Distributes
<1> QED
  BY <1>2

\* Rounding down and multiplying back does not gain anything.
LEMMA Floor ==
  ASSUME NEW a \in Nat, NEW m \in Nat \ {0}
  PROVE  (a \div m) \in Nat /\ m * (a \div m) <= a
<1>1. (a \div m) \in Nat
  OBVIOUS
<1>2. a = m * (a \div m) + (a % m) /\ (a % m) \in 0 .. (m - 1)
  OBVIOUS
<1> QED
  BY <1>1, <1>2

LEMMA CeilType ==
  ASSUME NEW s \in Nat, s < Minute
  PROVE  RetryAfter(s) \in Nat
<1>1. Minute - s + Rate - 1 \in Nat
  BY RateAssumption
<1> QED
  BY <1>1, RateAssumption DEF RetryAfter

-----------------------------------------------------------------------------
\* The earliest clock.

Before == {ss \in Nat \X Nat : ss[1] < ss[2]}

LEMMA BeforeMeans == \A h, k \in Nat : <<k, h>> \in Before <=> k < h
BY DEF Before

LEMMA EarliestExists ==
  ASSUME NEW S \in SUBSET Nat, S # {}
  PROVE  Earliest(S) \in S /\ \A k \in S : Earliest(S) <= k
<1>1. IsWellFoundedOn(Before, Nat)
  BY NatLessThanWellFounded, Zenon DEF OpToRel, Before
<1>2. PICK h \in S : \A k \in S : <<k, h>> \notin Before
  BY <1>1, WFMin
<1>3. \A k \in S : ~(k < h)
  BY <1>2, BeforeMeans
<1>4. \A k \in S : h <= k
  BY <1>3
<1> QED
  BY <1>4 DEF Earliest

-----------------------------------------------------------------------------
\* The script.

Granted(result) == IF result.allowed THEN 1 ELSE 0

\* What the script hands out and what it leaves in the bucket is no more than
\* what it found.
LEMMA ResultSound ==
  ASSUME NEW s \in Nat
  PROVE  /\ Result(s) \in BucketResult
         /\ Granted(Result(s)) \in Nat
         /\ Minute * Granted(Result(s)) + Minute * Result(s).remaining <= s
<1> USE RateAssumption
<1>1. CASE s >= Minute
  <2>1. s - Minute \in Nat
    BY <1>1
  <2>2. /\ ((s - Minute) \div Minute) \in Nat
        /\ Minute * ((s - Minute) \div Minute) <= s - Minute
    BY <2>1, Floor
  <2>3. Result(s) = [allowed |-> TRUE, remaining |-> (s - Minute) \div Minute,
                     retry_after_ms |-> 0]
    BY <1>1 DEF Result
  <2>4. /\ Result(s).allowed = TRUE
        /\ Result(s).remaining = (s - Minute) \div Minute
    BY <2>3
  <2>5. Result(s) \in BucketResult
    BY <2>2, <2>3 DEF BucketResult
  <2>6. Granted(Result(s)) = 1
    BY <2>4 DEF Granted
  <2> QED
    BY <2>2, <2>4, <2>5, <2>6
<1>2. CASE ~(s >= Minute)
  <2>1. RetryAfter(s) \in Nat
    BY <1>2, CeilType
  <2>2. Result(s) = [allowed |-> FALSE, remaining |-> 0,
                     retry_after_ms |-> RetryAfter(s)]
    BY <1>2 DEF Result
  <2>3. Result(s).allowed = FALSE /\ Result(s).remaining = 0
    BY <2>2
  <2>4. Result(s) \in BucketResult
    BY <2>1, <2>2 DEF BucketResult
  <2>5. Granted(Result(s)) = 0
    BY <2>3 DEF Granted
  <2> QED
    BY <2>3, <2>4, <2>5
<1> QED
  BY <1>1, <1>2

\* The refill.
LEMMA NewTokensType ==
  ASSUME TypeOK, NEW n \in Nat
  PROVE  /\ NewTokens(n) \in Nat
         /\ NewTokens(n) <= Burst * Minute
         /\ Live => NewTokens(n) <= tokens * Minute + Less(n, last_refill) * Rate
<1>1. Burst * Minute \in Nat /\ tokens * Minute \in Nat
  BY RateAssumption, BurstAssumption DEF TypeOK
<1>2. Less(n, last_refill) * Rate \in Nat
  BY RateAssumption, LessType DEF TypeOK
<1> QED
  BY <1>1, <1>2 DEF NewTokens, Least

-----------------------------------------------------------------------------
\* The inductive invariant.

\* Clocks are not ahead of the time, and a key outlives its refill by two
\* minutes.
ClockInv ==
  /\ last_refill <= time
  /\ \A c \in Calls : now[c] <= time
  /\ exists => last_refill + 2 * Minute <= expires

\* What the bucket holds: a missing key counts as a full bucket.
Holds == IF exists THEN tokens ELSE Burst

\* Tokens are neither made nor lost to the advantage of the client since some
\* moment at which b was owed: what was granted since then and what is left was
\* in the bucket, came with an eviction, or was earned up to the last refill.
Conserved(b) == Spent + Minute * Holds <= b + Minute * Burst + Rate * last_refill

\* No script has run since then, and none will with an earlier clock.
Untouched(b) == \A k \in Clocks : Spent <= b + Rate * k

Window(b) == Untouched(b) \/ Conserved(b)

BucketInv == TypeOK /\ ClockInv /\ Window(low)

\* The products that occur are numbers.
LEMMA SpentType ==
  ASSUME NEW g \in Nat, NEW e \in Nat, NEW t \in Nat
  PROVE  (g - Burst * e) * Minute - Rate * t \in Int
<1>1. Burst * e \in Nat /\ Rate * t \in Nat
  BY RateAssumption, BurstAssumption
<1>2. g - Burst * e \in Int
  BY <1>1
<1>3. (g - Burst * e) * Minute \in Int
  BY <1>2, RateAssumption
<1> QED
  BY <1>1, <1>3

LEMMA HoldsType ==
  TypeOK => Spent \in Int /\ Minute * Holds \in Nat /\ Minute * Burst \in Nat
<1> SUFFICES ASSUME TypeOK
             PROVE  Spent \in Int /\ Minute * Holds \in Nat /\ Minute * Burst \in Nat
  OBVIOUS
<1>1. granted \in Nat /\ evictions \in Nat /\ slip \in Nat /\ tokens \in Nat
  BY DEF TypeOK
<1>2. Spent \in Int
  BY <1>1, SpentType DEF Spent
<1>3. Holds \in Nat
  BY <1>1, BurstAssumption DEF Holds
<1> QED
  BY <1>2, <1>3, RateAssumption, BurstAssumption

LEMMA BucketInit == Init => BucketInv
<1> SUFFICES ASSUME Init PROVE BucketInv
  OBVIOUS
<1>1. TypeOK
  <2>1. exists = FALSE /\ low = 0
    BY DEF Init
  <2>2. answer \in BucketResult
    BY DEF Init, BucketResult
  <2>3. low \in Int
    BY <2>1
  <2>4. exists \in BOOLEAN
    BY <2>1, Zenon
  <2> QED
    BY <2>2, <2>3, <2>4 DEF Init, TypeOK
<1>2. ClockInv
  BY DEF Init, ClockInv
<1>3. Spent = 0 /\ low = 0 /\ Clocks = {0}
  <2>1. granted = 0 /\ evictions = 0 /\ slip = 0 /\ low = 0 /\ time = 0
    BY DEF Init
  <2>2. \A d \in Calls : ~sent[d]
    BY DEF Init
  <2>3. Clocks = {0}
    BY <2>1, <2>2 DEF Clocks
  <2> QED
    BY <2>1, <2>3, RateAssumption, BurstAssumption DEF Spent
<1>4. Untouched(low)
  BY <1>3, RateAssumption DEF Untouched
<1> QED
  BY <1>1, <1>2, <1>4 DEF BucketInv, Window

\* What a script grants is spent, less the time that was credited twice.
LEMMA RunSpends ==
  ASSUME TypeOK, NEW c \in Calls, Run(c)
  PROVE  LET s == NewTokens(now[c])
             twice == Less(Credited, now[c])
         IN /\ Minute * Granted(Result(s)) \in Nat /\ Rate * twice \in Nat
            /\ Spent' = Spent + Minute * Granted(Result(s)) - Rate * twice
<1> DEFINE n == now[c]
           s == NewTokens(n)
           a == Granted(Result(s))
           twice == Less(Credited, n)
<1> USE RateAssumption, BurstAssumption
<1>1. /\ granted \in Nat /\ evictions \in Nat /\ slip \in Nat /\ n \in Nat
      /\ Credited \in Nat
  BY DEF TypeOK, Credited
<1>2. s \in Nat /\ a \in Nat /\ twice \in Nat
  BY <1>1, NewTokensType, ResultSound, LessType
<1>3. granted' = granted + a /\ slip' = slip + twice /\ evictions' = evictions
  BY DEF Run, Granted
<1> HIDE DEF a, twice, s
<1>4. PICK g \in Int : g = granted - Burst * evictions
  BY <1>1
<1>5. Spent = g * Minute - Rate * slip
  BY <1>4 DEF Spent
<1>6. (granted + a) - Burst * evictions = g + a
  BY <1>1, <1>2, <1>4
<1>7. Spent' = (g + a) * Minute - Rate * (slip + twice)
  BY <1>3, <1>6 DEF Spent
<1>8. (g + a) * Minute = g * Minute + Minute * a /\ g * Minute \in Int /\ Minute * a \in Nat
  BY <1>2, <1>4
<1>9. /\ Rate * (slip + twice) = Rate * slip + Rate * twice
      /\ Rate * slip \in Nat /\ Rate * twice \in Nat
  BY <1>1, <1>2
<1>10. Spent' = Spent + Minute * a - Rate * twice
  BY <1>5, <1>7, <1>8, <1>9
<1> QED
  BY <1>8, <1>9, <1>10 DEF a, twice, s

\* Running a script conserves tokens: time that is behind what was credited
\* already is added to slip.
LEMMA RunConserves ==
  ASSUME TypeOK, ClockInv, NEW b \in Int, Window(b), NEW c \in Calls, Run(c)
  PROVE  Conserved(b)'
<1> DEFINE n == now[c]
           s == NewTokens(n)
           a == Granted(Result(s))
           rem == Result(s).remaining
           more == Less(n, Credited)
           twice == Less(Credited, n)
           F == Minute * Burst
<1> USE RateAssumption, BurstAssumption
<1>1. /\ n \in Nat /\ tokens \in Nat /\ last_refill \in Nat /\ expires \in Nat
      /\ Credited \in Nat /\ F \in Nat /\ Minute * tokens \in Nat
      /\ Rate * n \in Nat /\ Rate * last_refill \in Nat /\ Rate * Credited \in Nat
  BY DEF TypeOK, Credited
<1>2. Spent \in Int /\ Minute * Holds \in Nat
  BY HoldsType
<1>3. /\ tokens' = rem /\ last_refill' = n /\ exists' = TRUE
      /\ Spent' = Spent + Minute * a - Rate * twice
  BY RunSpends DEF Run, Store
<1>4. /\ s \in Nat /\ s <= F /\ Minute * a + Minute * rem <= s
      /\ Minute * a \in Nat /\ Minute * rem \in Nat
  <2>1. s \in Nat /\ s <= Burst * Minute
    BY <1>1, NewTokensType
  <2>2. a \in Nat /\ rem \in Nat /\ Minute * a + Minute * rem <= s
    BY <2>1, ResultSound DEF BucketResult
  <2> HIDE DEF a, rem, s
  <2> QED
    BY <2>1, <2>2
<1>5. more \in Nat /\ twice \in Nat /\ n + twice = Credited + more
  BY <1>1, LessType
<1>6. /\ Rate * n + Rate * twice = Rate * Credited + Rate * more
      /\ Rate * twice \in Nat /\ Rate * more \in Nat
  <2>1. Rate * (n + twice) = Rate * n + Rate * twice /\ Rate * twice \in Nat
    BY <1>1, <1>5, Distributes
  <2>2. Rate * (Credited + more) = Rate * Credited + Rate * more /\ Rate * more \in Nat
    BY <1>1, <1>5, Distributes
  <2> QED
    BY <1>5, <2>1, <2>2
<1> SUFFICES Spent + s - Rate * twice <= b + F + Rate * n
  <2>1. Holds' = rem
    BY <1>3 DEF Holds
  <2>2. Spent' + Minute * rem <= b + F + Rate * n
    <3> HIDE DEF s, a, rem, twice, F, n
    <3> QED
      BY <1>1, <1>2, <1>3, <1>4, <1>6
  <2> QED
    BY <1>3, <2>1, <2>2 DEF Conserved
<1>7. CASE Untouched(b)
  <2>1. n \in Clocks
    BY DEF Run, Clocks
  <2>2. Spent <= b + Rate * n
    BY <1>7, <2>1 DEF Untouched
  <2> HIDE DEF s, twice, F, n
  <2> QED
    BY <1>1, <1>2, <1>4, <1>6, <2>2
<1>8. CASE Conserved(b) /\ Live
  <2>1. Credited = last_refill /\ Holds = tokens
    BY <1>8 DEF Live, Credited, Holds, TypeOK
  <2>2. s <= Minute * tokens + Rate * more
    <3>1. s <= tokens * Minute + Less(n, last_refill) * Rate
      BY <1>1, <1>8, NewTokensType
    <3> QED
      BY <1>1, <1>5, <2>1, <3>1
  <2>3. Spent + Minute * tokens <= b + F + Rate * last_refill
    BY <1>8, <2>1 DEF Conserved
  <2> HIDE DEF s, twice, more, F, n
  <2> QED
    BY <1>1, <1>2, <1>4, <1>6, <2>1, <2>2, <2>3
<1>9. CASE Conserved(b) /\ ~exists
  <2>1. Credited = last_refill /\ Holds = Burst
    BY <1>9 DEF Credited, Holds
  <2>2. Spent + F <= b + F + Rate * last_refill
    BY <1>9, <2>1 DEF Conserved
  <2> HIDE DEF s, twice, more, F, n
  <2> QED
    BY <1>1, <1>2, <1>4, <1>6, <2>1, <2>2
<1>10. CASE Conserved(b) /\ exists /\ ~Live
  <2>1. Credited = expires /\ Holds = tokens /\ last_refill + 2 * Minute <= Credited
    BY <1>10 DEF Live, Credited, Holds, ClockInv, TypeOK
  <2>2. Spent + Minute * tokens <= b + F + Rate * last_refill
    BY <1>10, <2>1 DEF Conserved
  <2>3. Rate * last_refill + F <= Rate * Credited
    <3>1. Rate * (last_refill + 2 * Minute) <= Rate * Credited
      BY <1>1, <2>1, Monotone
    <3>2. Rate * (last_refill + 2 * Minute) = Rate * last_refill + Rate * (2 * Minute)
      BY <1>1, Distributes
    <3>3. F <= Rate * (2 * Minute) /\ Rate * (2 * Minute) \in Nat
      <4>1. Minute * Burst <= Minute * (2 * Rate)
        BY Monotone
      <4> QED
        BY <4>1
    <3> HIDE DEF F
    <3> QED
      BY <1>1, <3>1, <3>2, <3>3
  <2> HIDE DEF s, twice, more, F, n
  <2> QED
    BY <1>1, <1>2, <1>4, <1>6, <2>2, <2>3
<1> QED
  BY <1>7, <1>8, <1>9, <1>10 DEF Window

\* An eviction leaves a full bucket, which it pays for.
LEMMA EvictConserves ==
  ASSUME TypeOK, NEW b \in Int, Window(b), Evict
  PROVE  Window(b)'
<1> USE RateAssumption, BurstAssumption
<1>1. /\ exists /\ exists' = FALSE /\ evictions' = evictions + 1
      /\ UNCHANGED <<time, last_refill, sent, now, granted, slip>>
  BY DEF Evict, Live
<1>2. /\ granted \in Nat /\ evictions \in Nat /\ slip \in Nat /\ last_refill \in Nat
      /\ time \in Nat /\ now \in [Calls -> Nat]
  BY DEF TypeOK
<1>3. Spent \in Int /\ Minute * Holds \in Nat /\ Minute * Burst \in Nat
  BY HoldsType
<1>4. Spent' = Spent - Minute * Burst
  <2>1. PICK g \in Int : g = granted - Burst * evictions
    BY <1>2
  <2>2. granted - Burst * (evictions + 1) = g - Burst
    <3>1. Burst * (evictions + 1) = Burst * evictions + Burst /\ Burst * evictions \in Nat
      BY <1>2
    <3> QED
      BY <1>2, <2>1, <3>1
  <2>3. (g - Burst) * Minute = g * Minute - Minute * Burst /\ g * Minute \in Int
    BY <2>1
  <2>4. Spent = g * Minute - Rate * slip /\ Spent' = (g - Burst) * Minute - Rate * slip
    BY <1>1, <2>1, <2>2 DEF Spent
  <2>5. Rate * slip \in Nat
    BY <1>2
  <2> QED
    BY <1>3, <2>3, <2>4, <2>5
<1>5. Clocks' = Clocks
  BY <1>1 DEF Clocks
<1>6. CASE Untouched(b)
  <2>1. \A k \in Clocks : k \in Nat /\ Rate * k \in Nat
    BY <1>2 DEF Clocks
  <2>2. \A k \in Clocks : Spent - Minute * Burst <= b + Rate * k
    <3> SUFFICES ASSUME NEW k \in Clocks PROVE Spent - Minute * Burst <= b + Rate * k
      OBVIOUS
    <3>1. Spent <= b + Rate * k /\ Rate * k \in Nat
      BY <1>6, <2>1 DEF Untouched
    <3> QED
      BY <1>3, <3>1
  <2>3. Untouched(b)'
    BY <1>4, <1>5, <2>2 DEF Untouched
  <2> QED
    BY <2>3 DEF Window
<1>7. CASE Conserved(b)
  <2>1. Spent + Minute * Holds <= b + Minute * Burst + Rate * last_refill
    BY <1>7 DEF Conserved
  <2>2. Rate * last_refill \in Nat /\ Holds' = Burst /\ last_refill' = last_refill
    BY <1>1, <1>2 DEF Holds
  <2>3. Spent - Minute * Burst + Minute * Burst <= b + Minute * Burst + Rate * last_refill
    BY <1>3, <2>1, <2>2
  <2>4. Conserved(b)'
    BY <1>4, <2>2, <2>3 DEF Conserved
  <2> QED
    BY <2>4 DEF Window
<1> QED
  BY <1>6, <1>7 DEF Window

\* Steps that leave the bucket alone bring no earlier clock.
LEMMA QuietConserves ==
  ASSUME TypeOK, NEW b \in Int, Window(b),
         UNCHANGED <<key, granted, slip, evictions>>,
         \A k \in Clocks' : k \in Nat /\ \E h \in Clocks : h <= k
  PROVE  Window(b)'
<1> USE RateAssumption
<1>1. Spent' = Spent /\ Holds' = Holds /\ last_refill' = last_refill
  BY DEF Spent, Holds, key
<1>2. CASE Untouched(b)
  <2>1. ASSUME NEW k \in Clocks' PROVE Spent <= b + Rate * k
    <3>1. PICK h \in Clocks : h <= k
      OBVIOUS
    <3>2. h \in Nat /\ k \in Nat
      BY DEF Clocks, TypeOK
    <3>3. Rate * h <= Rate * k /\ Rate * h \in Int /\ Rate * k \in Int
      BY <3>1, <3>2, Monotone
    <3>4. Spent <= b + Rate * h
      BY <1>2, <3>1 DEF Untouched
    <3>5. Spent \in Int
      BY HoldsType
    <3> QED
      BY <3>3, <3>4, <3>5
  <2>2. Untouched(b)'
    BY <1>1, <2>1 DEF Untouched
  <2> QED
    BY <2>2 DEF Window
<1>3. CASE Conserved(b)
  BY <1>1, <1>3 DEF Conserved, Window
<1> QED
  BY <1>2, <1>3 DEF Window

\* One step of the limiter, without the history of what was owed.
Step == Tick \/ Evict \/ \E c \in Calls : Check(c) \/ Run(c) \/ Lose(c)

TypeOKButLow ==
  /\ time \in Nat
  /\ exists \in BOOLEAN
  /\ tokens \in Nat /\ last_refill \in Nat /\ expires \in Nat
  /\ sent \in [Calls -> BOOLEAN]
  /\ now \in [Calls -> Nat]
  /\ answer \in BucketResult
  /\ since \in Nat /\ granted \in Nat /\ slip \in Nat /\ evictions \in Nat

\* It keeps the types, the clocks and what has been conserved since any moment.
LEMMA BucketStepCore ==
  ASSUME TypeOK, ClockInv, NEW b \in Int, Window(b), Step
  PROVE  TypeOKButLow' /\ ClockInv' /\ Window(b)'
<1> USE RateAssumption, BurstAssumption
<1>0. TypeOKButLow
  BY DEF TypeOK, TypeOKButLow
<1>1. ASSUME Tick PROVE TypeOKButLow' /\ ClockInv' /\ Window(b)'
  <2>1. time' = time + 1 /\ UNCHANGED <<key, sent, now, answer, history>>
    BY <1>1 DEF Tick
  <2>2. TypeOKButLow'
    BY <1>0, <2>1 DEF TypeOKButLow, key, history
  <2>3. ClockInv'
    BY <1>0, <2>1 DEF TypeOKButLow, ClockInv, key
  <2>4. \A k \in Clocks' : k \in Nat /\ \E h \in Clocks : h <= k
    BY <1>0, <2>1 DEF Clocks, TypeOKButLow
  <2>5. Window(b)'
    BY <2>1, <2>4, QuietConserves DEF history
  <2> QED
    BY <2>2, <2>3, <2>5
<1>2. ASSUME Evict PROVE TypeOKButLow' /\ ClockInv' /\ Window(b)'
  <2>1. /\ exists' = FALSE /\ evictions' = evictions + 1
        /\ UNCHANGED <<time, tokens, last_refill, expires, sent, now, answer,
                       since, granted, slip>>
    BY <1>2 DEF Evict
  <2>2. TypeOKButLow'
    <3>1. exists' \in BOOLEAN
      BY <2>1
    <3>2. evictions \in Nat /\ evictions' = evictions + 1
      BY <1>0, <2>1 DEF TypeOKButLow
    <3>3. evictions' \in Nat
      BY <3>2
    <3> QED
      BY <1>0, <2>1, <3>1, <3>3 DEF TypeOKButLow
  <2>3. ClockInv'
    BY <2>1 DEF ClockInv
  <2> QED
    BY <1>2, <2>2, <2>3, EvictConserves
<1>3. ASSUME NEW c \in Calls, Check(c) PROVE TypeOKButLow' /\ ClockInv' /\ Window(b)'
  <2>1. /\ sent' = [sent EXCEPT ![c] = TRUE] /\ now' = [now EXCEPT ![c] = time]
        /\ UNCHANGED <<time, key, answer, history>>
    BY <1>3 DEF Check
  <2>2. TypeOKButLow'
    BY <1>0, <2>1 DEF TypeOKButLow, key, history
  <2>3. ClockInv'
    BY <1>0, <2>1 DEF TypeOKButLow, ClockInv, key
  <2>4. \A d \in Calls : sent'[d] => (sent[d] /\ now'[d] = now[d]) \/ now'[d] = time
    BY <1>0, <2>1 DEF TypeOKButLow
  <2>5. \A k \in Clocks' : k \in Nat /\ \E h \in Clocks : h <= k
    <3>1. \A k \in Clocks' : k \in Clocks /\ k \in Nat
      BY <1>0, <2>1, <2>4 DEF Clocks, TypeOKButLow
    <3> QED
      BY <3>1
  <2>6. Window(b)'
    BY <2>1, <2>5, QuietConserves DEF history
  <2> QED
    BY <2>2, <2>3, <2>6
<1>4. ASSUME NEW c \in Calls, Lose(c) PROVE TypeOKButLow' /\ ClockInv' /\ Window(b)'
  <2>1. /\ sent' = [sent EXCEPT ![c] = FALSE] /\ now' = [now EXCEPT ![c] = 0]
        /\ UNCHANGED <<time, key, answer, history>>
    BY <1>4 DEF Lose
  <2>2. TypeOKButLow'
    BY <1>0, <2>1 DEF TypeOKButLow, key, history
  <2>3. ClockInv'
    BY <1>0, <2>1 DEF TypeOKButLow, ClockInv, key
  <2>4. \A d \in Calls : sent'[d] => sent[d] /\ now'[d] = now[d]
    BY <1>0, <2>1 DEF TypeOKButLow
  <2>5. \A k \in Clocks' : k \in Nat /\ \E h \in Clocks : h <= k
    <3>1. \A k \in Clocks' : k \in Clocks /\ k \in Nat
      BY <1>0, <2>1, <2>4 DEF Clocks, TypeOKButLow
    <3> QED
      BY <3>1
  <2>6. Window(b)'
    BY <2>1, <2>5, QuietConserves DEF history
  <2> QED
    BY <2>2, <2>3, <2>6
<1>5. ASSUME NEW c \in Calls, Run(c) PROVE TypeOKButLow' /\ ClockInv' /\ Window(b)'
  <2>1. now[c] \in Nat /\ now[c] <= time
    BY <1>0 DEF TypeOKButLow, ClockInv
  <2>2. /\ Result(NewTokens(now[c])) \in BucketResult
        /\ Result(NewTokens(now[c])).remaining \in Nat
    BY <2>1, NewTokensType, ResultSound DEF BucketResult
  <2>3. Less(Credited, now[c]) \in Nat
    <3>1. Credited \in Nat
      BY <1>0 DEF Credited, TypeOKButLow
    <3> QED
      BY <2>1, <3>1, LessType
  <2>4. /\ exists' = TRUE /\ tokens' = Result(NewTokens(now[c])).remaining
        /\ last_refill' = now[c] /\ expires' = time + 2 * Minute
        /\ sent' = [sent EXCEPT ![c] = FALSE] /\ now' = [now EXCEPT ![c] = 0]
        /\ answer' = Result(NewTokens(now[c]))
        /\ slip' = slip + Less(Credited, now[c])
        /\ UNCHANGED <<time, evictions>>
    BY <1>5 DEF Run, Store
  <2>5. granted' \in Nat /\ since' \in Nat
    BY <1>0, <1>5, <2>1 DEF Run, TypeOKButLow
  <2>6. TypeOKButLow'
    BY <1>0, <2>1, <2>2, <2>3, <2>4, <2>5 DEF TypeOKButLow
  <2>7. ClockInv'
    BY <1>0, <2>1, <2>4 DEF TypeOKButLow, ClockInv
  <2>8. Window(b)'
    BY <1>5, RunConserves DEF Window
  <2> QED
    BY <2>6, <2>7, <2>8
<1> QED
  BY <1>1, <1>2, <1>3, <1>4, <1>5 DEF Step

\* What is owed at a moment bounds what was spent until then.
LEMMA OwedNow ==
  ASSUME NEW x \in Int, NEW S \in SUBSET Nat, NEW k \in S
  PROVE  /\ x - Rate * Earliest(S) \in Int
         /\ x <= (x - Rate * Earliest(S)) + Rate * k
<1> DEFINE h == Earliest(S)
<1>1. h \in Nat /\ h <= k /\ k \in Nat
  BY EarliestExists
<1> HIDE DEF h
<1>2. Rate * h <= Rate * k /\ Rate * h \in Nat /\ Rate * k \in Nat
  BY <1>1, Monotone, RateAssumption
<1>3. x - Rate * h \in Int /\ x <= (x - Rate * h) + Rate * k
  BY <1>2
<1> QED
  BY <1>3 DEF h

LEMMA BucketStep == BucketInv /\ [Next]_vars => BucketInv'
<1> SUFFICES ASSUME BucketInv, [Next]_vars PROVE BucketInv'
  OBVIOUS
<1>1. ASSUME Next PROVE BucketInv'
  <2>1. PICK b \in Int : b = low
    BY DEF BucketInv, TypeOK
  <2>2. TypeOK /\ ClockInv /\ Window(b) /\ Step /\ low' = Least(low, Owed')
    BY <1>1, <2>1 DEF BucketInv, Next, Step, Window, Untouched, Conserved
  <2>3. TypeOKButLow' /\ ClockInv' /\ Window(b)'
    BY <2>2, BucketStepCore
  <2>4. Owed' \in Int /\ \A k \in Clocks' : Spent' <= Owed' + Rate * k
    <3>1. Clocks' \in SUBSET Nat /\ time' \in Clocks'
      BY <2>3 DEF TypeOKButLow, Clocks
    <3>2. Spent' \in Int
      BY <2>3, SpentType DEF TypeOKButLow, Spent
    <3>3. Owed' = Spent' - Rate * Earliest(Clocks')
      BY DEF Owed
    <3>4. \A x \in Int, S \in SUBSET Nat : \A k \in S :
             /\ x - Rate * Earliest(S) \in Int
             /\ x <= (x - Rate * Earliest(S)) + Rate * k
      BY OwedNow
    <3>5. \A k \in Clocks' : /\ Spent' - Rate * Earliest(Clocks') \in Int
                             /\ Spent' <= (Spent' - Rate * Earliest(Clocks')) + Rate * k
      BY <3>1, <3>2, <3>4
    <3> QED
      BY <3>1, <3>3, <3>5, Zenon
  <2>5. CASE low' = b
    <3>1. Window(low)'
      BY <2>3, <2>5 DEF Window, Untouched, Conserved
    <3>2. TypeOK'
      BY <2>3, <2>5 DEF TypeOK, TypeOKButLow
    <3> QED
      BY <2>3, <3>1, <3>2 DEF BucketInv
  <2>6. CASE low' = Owed'
    <3>1. Window(low)'
      BY <2>4, <2>6 DEF Window, Untouched
    <3>2. TypeOK'
      BY <2>3, <2>4, <2>6 DEF TypeOK, TypeOKButLow
    <3> QED
      BY <2>3, <3>1, <3>2 DEF BucketInv
  <2> QED
    BY <2>1, <2>2, <2>5, <2>6 DEF Least
<1>2. CASE UNCHANGED vars
  BY <1>2 DEF vars, key, history, BucketInv, TypeOK, ClockInv, Window, Untouched,
              Conserved, Holds, Spent, Clocks
<1> QED
  BY <1>1, <1>2

\* The state stays well typed.
THEOREM BucketTypeCorrect == Spec => []TypeOK
<1>1. BucketInv => TypeOK
  BY DEF BucketInv
<1> QED
  BY <1>1, BucketInit, BucketStep, PTL DEF Spec

\* The limit holds in every window of time, for every rate and burst with
\* Burst <= 2 * Rate and any number of concurrent calls: no interleaving of clock
\* reads and scripts, no rounding, no rest and no expiry of the key grants more
\* than the bucket, the elapsed time, the evictions and the slipped clocks
\* account for.
THEOREM LimitHolds == Spec => []GrantsBounded
<1>1. BucketInv => GrantsBounded
  <2> SUFFICES ASSUME BucketInv PROVE GrantsBounded
    OBVIOUS
  <2> USE RateAssumption, BurstAssumption
  <2>1. /\ TypeOK /\ Window(low) /\ last_refill <= time /\ low \in Int
        /\ last_refill \in Nat /\ time \in Nat
    BY DEF BucketInv, TypeOK, ClockInv
  <2>2. Spent \in Int /\ Minute * Holds \in Nat /\ Minute * Burst \in Nat
    BY <2>1, HoldsType
  <2>3. Rate * last_refill <= Rate * time /\ Rate * time \in Nat /\ Rate * last_refill \in Nat
    BY <2>1, Monotone
  <2>4. CASE Untouched(low)
    <3>1. Spent <= low + Rate * time
      BY <2>4 DEF Untouched, Clocks
    <3> QED
      BY <2>1, <2>2, <2>3, <3>1 DEF GrantsBounded
  <2>5. CASE Conserved(low)
    BY <2>1, <2>2, <2>3, <2>5 DEF Conserved, GrantsBounded
  <2> QED
    BY <2>1, <2>4, <2>5 DEF Window
<1> QED
  BY <1>1, BucketInit, BucketStep, PTL DEF Spec

\* A client that asks again after the time of a whole token is allowed, for
\* every rate and burst: the fraction that the script has dropped, the cap and
\* the expiry of the key do not take that token from it.
THEOREM WaitingPays == Spec => WholeTokenSuffices
<1>1. ASSUME TypeOK, NEW c \in Calls, Run(c), (now[c] - last_refill) * Rate >= Minute
      PROVE  answer'.allowed
  <2> USE RateAssumption, BurstAssumption
  <2> DEFINE n == now[c]
  <2>1. n \in Nat /\ last_refill \in Nat /\ tokens \in Nat
    BY <1>1 DEF TypeOK
  <2>2. n > last_refill
    <3> SUFFICES ASSUME n <= last_refill PROVE FALSE
      BY <2>1
    <3>1. last_refill - n \in Nat /\ (last_refill - n) * Rate \in Nat
      BY <2>1
    <3>2. (n - last_refill) * Rate = -((last_refill - n) * Rate)
      BY <2>1
    <3> QED
      BY <1>1, <3>1, <3>2
  <2>3. Less(n, last_refill) * Rate >= Minute
    BY <1>1, <2>1, <2>2 DEF Less
  <2>4. Burst * Minute >= Minute /\ Burst * Minute \in Nat /\ tokens * Minute \in Nat
    <3>1. Minute * 1 <= Minute * Burst
      BY Monotone
    <3> QED
      BY <2>1, <3>1
  <2>5. Less(n, last_refill) * Rate \in Nat
    <3>1. Less(n, last_refill) \in Nat
      BY <2>1, LessType
    <3> QED
      BY <3>1, Distributes
  <2> DEFINE refill == Less(n, last_refill) * Rate
             held == tokens * Minute
             full == Burst * Minute
  <2>6. NewTokens(n) = IF Live THEN Least(full, held + refill) ELSE full
    BY DEF NewTokens
  <2> HIDE DEF refill, held, full
  <2>7. refill \in Nat /\ held \in Nat /\ full \in Nat /\ refill >= Minute /\ full >= Minute
    BY <2>3, <2>4, <2>5 DEF refill, held, full
  <2>8. NewTokens(n) >= Minute
    BY <2>6, <2>7 DEF Least
  <2>9. Result(NewTokens(n)).allowed = TRUE
    BY <2>8 DEF Result
  <2>10. answer' = Result(NewTokens(n))
    BY <1>1 DEF Run
  <2> QED
    BY <2>9, <2>10
<1>2. TypeOK /\ [Next]_vars =>
        [\A c \in Calls :
           /\ Run(c) /\ ~answer.allowed
           /\ (now[c] - last_refill) * Rate >= Minute
           => answer'.allowed]_vars
  BY <1>1
<1> QED
  BY <1>2, BucketTypeCorrect, PTL DEF Spec, WholeTokenSuffices
=============================================================================
