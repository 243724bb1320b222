----------------------------- MODULE TokenBucket -----------------------------
(***************************************************************************)
(* The rate limiter (services/rate-limiter): concurrent CheckRateLimit     *)
(* calls for one IP.  A call reads the clock of the limiter and then has   *)
(* Redis run token_bucket.lua, which is atomic; between the two, other     *)
(* calls may read the clock and run.                                       *)
(*                                                                         *)
(* The script computes with fractions of a token.  Here tokens are counted *)
(* in shares of 1/Minute, so that `elapsed * rate / 60000' is a whole      *)
(* number of shares.  A tick is one millisecond, Minute is the 60000 of    *)
(* the script.                                                             *)
(***************************************************************************)
EXTENDS Integers

CONSTANTS
  Rate,         \* RATE_LIMIT, tokens per minute
  Burst,        \* BURST, size of the bucket
  Minute,       \* ticks in a minute
  Calls,        \* concurrent calls of CheckRateLimit
  MaxTime,      \* bound: the last tick
  MaxEvictions  \* bound: evictions of the key

ASSUME RateAssumption == Rate \in Nat \ {0} /\ Minute \in Nat \ {0}
\* A bucket is full again by the time its key expires.
ASSUME BurstAssumption == Burst \in Nat \ {0} /\ Burst <= 2 * Rate
ASSUME BoundsAssumption == MaxTime \in Nat /\ MaxEvictions \in Nat

VARIABLES
  time,        \* the clock of the limiter and of Redis
  exists,      \* the key of the IP was written and not evicted since
  tokens,      \* its fields
  last_refill,
  expires,     \* when it expires
  sent,        \* the call has read the clock and the script has not run yet
  now,         \* the time it read, 0 outside a call
  answer,      \* the last BucketResult
  since,       \* history: `now' of the first of the latest refusals in a row
               \* that each came after the time the one before had asked for
  granted,     \* history: calls that were allowed
  slip,        \* history: time that was credited more than once, because a
               \* script ran with a clock older than the bucket
  evictions,   \* history: evictions of the key
  low          \* history: the least that Owed has been

key == <<exists, tokens, last_refill, expires>>
history == <<since, granted, slip, evictions>>
vars == <<time, key, sent, now, answer, history, low>>

BucketResult == [allowed : BOOLEAN, remaining : Nat, retry_after_ms : Nat]

TypeOK ==
  /\ time \in Nat
  /\ exists \in BOOLEAN
  /\ tokens \in Nat /\ last_refill \in Nat /\ expires \in Nat
  /\ sent \in [Calls -> BOOLEAN]
  /\ now \in [Calls -> Nat]
  /\ answer \in BucketResult
  /\ since \in Nat /\ granted \in Nat /\ slip \in Nat /\ evictions \in Nat
  /\ low \in Int

Init ==
  /\ time = 0
  /\ exists = FALSE /\ tokens = 0 /\ last_refill = 0 /\ expires = 0
  /\ sent = [c \in Calls |-> FALSE]
  /\ now = [c \in Calls |-> 0]
  /\ answer = [allowed |-> TRUE, remaining |-> 0, retry_after_ms |-> 0]
  /\ since = 0 /\ granted = 0 /\ slip = 0 /\ evictions = 0 /\ low = 0

-----------------------------------------------------------------------------
\* token_bucket.lua.

Least(a, b) == IF a < b THEN a ELSE b

\* a - b, or 0.
Less(a, b) == IF a > b THEN a - b ELSE 0

\* The key is there for the script: an expired one reads as missing.
Live == exists /\ time < expires

\* Mutated form: the bucket has no size.
NewTokensUncapped(n) ==
  IF Live THEN tokens * Minute + Less(n, last_refill) * Rate
          ELSE Burst * Minute

\* HMGET, with the defaults for a missing key, and the refill.
NewTokens(n) ==
  IF Live
    THEN Least(Burst * Minute, tokens * Minute + Less(n, last_refill) * Rate)
    ELSE Burst * Minute

\* math.ceil((1 - new_tokens) * 60000 / rate)
RetryAfter(shares) == (Minute - shares + Rate - 1) \div Rate

\* Mutated form: a whole token is not enough.
ResultStrict(shares) ==
  IF shares > Minute
    THEN [allowed |-> TRUE, remaining |-> (shares - Minute) \div Minute,
          retry_after_ms |-> 0]
    ELSE [allowed |-> FALSE, remaining |-> 0, retry_after_ms |-> RetryAfter(shares)]

\* Mutated form: a refusal leaves the bucket in debt.
ResultNegative(shares) ==
  [allowed |-> shares >= Minute, remaining |-> (shares - Minute) \div Minute,
   retry_after_ms |-> IF shares >= Minute THEN 0 ELSE RetryAfter(shares)]

\* What the script returns; it drops the fraction of a token that is left.
Result(shares) ==
  IF shares >= Minute
    THEN [allowed |-> TRUE, remaining |-> (shares - Minute) \div Minute,
          retry_after_ms |-> 0]
    ELSE [allowed |-> FALSE, remaining |-> 0, retry_after_ms |-> RetryAfter(shares)]

\* HMSET and PEXPIRE.
Store(n, remaining) ==
  /\ exists' = TRUE
  /\ tokens' = remaining
  /\ last_refill' = n
  /\ expires' = time + 2 * Minute

\* The time up to which the bucket that the script finds has been credited.
Credited == IF exists /\ time >= expires THEN expires ELSE last_refill

-----------------------------------------------------------------------------
Tick ==
  /\ time < MaxTime
  /\ time' = time + 1
  /\ UNCHANGED <<key, sent, now, answer, history>>

\* TokenBucket::check reads the clock and sends the script.
Check(c) ==
  /\ ~sent[c]
  /\ sent' = [sent EXCEPT ![c] = TRUE]
  /\ now' = [now EXCEPT ![c] = time]
  /\ UNCHANGED <<time, key, answer, history>>

\* Redis runs the script of c and the answer is returned.  (To the bucket it
\* is the same when the gateway no longer waits for it.)
Run(c) ==
  LET result == Result(NewTokens(now[c])) IN
  /\ sent[c]
  /\ sent' = [sent EXCEPT ![c] = FALSE]
  /\ Store(now[c], result.remaining)
  /\ answer' = result
  /\ granted' = granted + (IF result.allowed THEN 1 ELSE 0)
  /\ since' = IF answer.allowed \/ now[c] < last_refill + answer.retry_after_ms
                THEN now[c] ELSE since
  /\ slip' = slip + Less(Credited, now[c])
  /\ now' = [now EXCEPT ![c] = 0]
  /\ UNCHANGED <<time, evictions>>

\* Redis is not reached: the call fails with Status::internal.
Lose(c) ==
  /\ sent[c]
  /\ sent' = [sent EXCEPT ![c] = FALSE]
  /\ now' = [now EXCEPT ![c] = 0]
  /\ UNCHANGED <<time, key, answer, history>>

\* Redis evicts the key (allkeys-lru; the cache of the gateway is in the same
\* instance).
Evict ==
  /\ Live
  /\ evictions < MaxEvictions
  /\ exists' = FALSE
  /\ evictions' = evictions + 1
  /\ UNCHANGED <<time, tokens, last_refill, expires, sent, now, answer, since,
                 granted, slip>>

\* What was granted, less what evictions and slipped clocks account for.
Spent == (granted - Burst * evictions) * Minute - Rate * slip

\* The clocks that the next scripts may come with, this one or a later one.
Clocks == {time} \cup {now[c] : c \in {d \in Calls : sent[d]}}

Earliest(S) == CHOOSE h \in S : \A k \in S : h <= k

\* What was spent beyond what the time has earned that no script reads again.
Owed == Spent - Rate * Earliest(Clocks)

Next ==
  /\ Tick \/ Evict \/ \E c \in Calls : Check(c) \/ Run(c) \/ Lose(c)
  /\ low' = Least(low, Owed')

Spec == Init /\ [][Next]_vars

-----------------------------------------------------------------------------
\* Properties.

\* The limit, in every window of time: from any moment on, no more is granted
\* than a full bucket and what the time since then has earned, a full bucket
\* more for every eviction, the time that was credited twice because scripts
\* ran in another order than their clocks were read, and the time that the
\* calls under way at that moment had been.  Expiry of the key, the cap and
\* the rounding gain nothing, and no rest saves up more than a bucket.
GrantsBounded == Spent - Rate * time <= low + Burst * Minute

\* A client that waits for the time of a whole token after a refusal, and is
\* alone, is allowed then, whatever the rounding did to its bucket.
WholeTokenSuffices ==
  [][\A c \in Calls :
       /\ Run(c) /\ ~answer.allowed
       /\ (now[c] - last_refill) * Rate >= Minute
       => answer'.allowed]_vars

\* "tokens per minute" (token_bucket.lua): a client that is refused, and each
\* time waits for retry_after_ms before it asks again, gets a token within a
\* minute.
NotStarved == ~answer.allowed => last_refill <= since + Minute
=============================================================================
