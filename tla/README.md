# Verification of the zhejian URL shortener

TLA+ models of the parts of the URL shortener in which something can go wrong
that a test hardly reaches, model-checked with TLC on small instances. Every safety
property that a passing run checks, the refinements included, is also proved with
TLAPS for every value of the constants; the liveness properties are model-checked.

## The system

| Part | State | Operations | Interacts with |
|---|---|---|---|
| **Cached URL repository** (`gateway/internal/repository/cached_url_repository.go`, `url_repository.go`) | rows of `urls` in PostgreSQL, entries `url:<code>` in Redis (a URL for `CACHE_TTL`, the sentinel for a minute), one singleflight group per gateway | `GetByCode`, `Create`, `Delete` | called by the URL service; PostgreSQL; Redis through a breaker and a timeout |
| **URL service, short codes, HTTP handlers** (`service/`, `api/`) | none of their own | create with retries over candidate codes, get, redirect, delete; mapping of errors to status codes | repository; publisher |
| **Hash ring** (`cache/ring.go`) | sorted virtual nodes, the node of each, clients, a read-write lock | `Add`, `Remove`, `NodeFor`, `ClientFor` | chooses the Redis node of a key for the cached repository and for the limiter |
| **Circuit breakers** (`ratelimit/client.go`, `cached_url_repository.go`, gobreaker) | closed, open or half-open, its counts, its expiry | enter and leave the breaker, `CBState` | around every call of the limiter and every command to Redis; read by the health check |
| **Rate limiter** (`services/rate-limiter`) | a hash per IP in Redis: `tokens`, `last_refill` | `CheckRateLimit`: read the clock, run `token_bucket.lua` | called by the gateway's middleware through `ratelimit/client.go` (breaker, 100 ms timeout, fail open) |
| **Click publisher** (`gateway/internal/analytics`) | the AMQP connection and channel, a closed flag, a lock | `Publish` (one goroutine per redirect), `watchAndReconnect`, `Close` | RabbitMQ; `cmd/server/main.go` closes it after the HTTP server |
| **Analytics worker** (`services/analytics-worker`) | the batch; at the broker, the queue, unacknowledged deliveries and the dead-letter queue; rows of `analytics` | dial, `Setup`, `Run`, `flush`, `BulkInsert`, shutdown | RabbitMQ; PostgreSQL; several workers compete |
| Configuration, observability, wiring, generated stubs, schema | constants, output | | |

What is hard in it: requests of several gateways interleave between a SELECT and
the cache write that follows it; cache writes are lost, or executed by Redis after
their caller has given up; statements fail after they have committed; singleflight
makes requests wait for each other; a worker, its session or its statement can fail
at any point between a delivery and its ack, with deliveries prefetched behind the
batch; the publisher reconnects while goroutines hold the old channel and while
`Close` runs; creators race for codes with each other, with aliases and with deletes;
the limiter reads the clock before its atomic script; calls come back to a breaker
that has tripped, expired or recovered in the meantime; the search of the ring has its
boundaries. The `hazards` of `PROJECT.json` list these at the lines where they bite,
each with the properties that would catch it, or with the reason why none does.

## Modules

| Module | Models | Proofs | Runs |
|---|---|---|---|
| `CachedURLRepository` | the repository on PostgreSQL, Redis and singleflight | `CachedURLRepositoryProofs` | `Cache`, `CacheDeleteRace` |
| `LinkStore` | what the repository promises: a store without a cache | | |
| `RepositoryRefinement` | the repository with history, mapped to `LinkStore` | `RepositoryRefinementProofs` | in `Cache` |
| `AnalyticsWorker` | workers, broker session and queue, table | `AnalyticsWorkerProofs` | `Worker`, `WorkerShutdown` |
| `ClickLog` | what the pipeline promises for a click in the queue | in `AnalyticsWorkerProofs` | in `Worker` |
| `CircuitBreaker` | gobreaker, its settings and callbacks, its callers, the middleware's failing open | `CircuitBreakerProofs` | `Breaker` |
| `HashRing` | the ring under its lock, the binary search round by round | `HashRingProofs` | `Ring` |
| `TokenBucket` | the limiter's calls and script for one IP | `TokenBucketProofs` | `BucketFaults`, `BucketStarved` |
| `ClickPublisher` | click goroutines, watcher, `Close`, network | `ClickPublisherProofs` | `Publisher`, `PublisherClose` |
| `ShortCode` | canonicalization, base 62, `Generate`, as operators | | in `URLService` |
| `URLService` | the service's operations and the handlers' status codes | `URLServiceProofs` | `Service`, `ServiceRetry` |

`MC<module>` gives the instances for TLC. Operators commented "Mutated form" are
plausible bugs in the definition that follows them; substituting one for that
definition makes TLC report the property named in `PROJECT.json`.

### CachedURLRepository

A process is a request handler. A step is one round trip (GET, SELECT, SET, ...) or
one critical section of singleflight, so everything another handler does can fall
between any two. `GetByCode` looks in the cache; `JoinFlight` is `requestGroup.Do`;
`ReCheck`, `Query` and `RewriteCache` are its callback; `EndFlight` gives the result
to all waiters. `Create` and `Delete` are the statement, `CreateCacheSet` and
`DeleteCacheDel` the cache command after it; `CreateConflict`, `CreateFails`,
`DeleteMissing` and `DeleteFails` are the early returns, the failing ones with the
statement committed or not.

`cacheGet`, `cacheSet` and `cacheDel` report no error to their callers. A breaker
that is open, a timeout and a Redis that is down are therefore the faults "read" (a
GET reads as a miss), "write" (a command is lost) and "late" (Redis executes it
later; `late` holds it). An entry that does not decode is left out: only this code
writes entries, and it writes what it can decode. Values are links, which stand for
whole `model.URL` records; `expires_at` is the business of the service above.

`once`, `queried` and `suspect` are history variables: the values a row has had, the
fills a gateway has made, and the codes whose entry a race or a lost command may
have left wrong.

### LinkStore and RepositoryRefinement

`LinkStore` is the repository as the URL service may think of it: rows, and calls that
change a row at most once and are answered with an error or with a value the row has
had since no call for its code was under way. Staleness is thereby confined to calls
that overlap. The exception are the codes in `doubtful`, where a command to the cache
was lost or late, a write was overtaken, or a statement failed after it had
committed: there any value the row ever had may be answered, and nothing else. The
store also says when a code may become doubtful (`Doubt`): only while a call for it is
under way and, unless there are faults (`Faulty`), only when its row changes while two
calls for it are under way. Without faults a client that waits for each answer before
it makes the next call for a code never meets the exception.

The mapping takes `db` for the rows; a request is "answered" when its handler is about
to return (`Where`, `Answered`). `RepositoryRefinement` adds two history variables:
`recent`, the values of a row since its code was at rest, and `tainted`, the codes that
were `suspect` at some time since then. `suspect` alone would not do: the entry may be
right again while a handler still carries what it read before.

### AnalyticsWorker

`pc` follows a worker through main's loop and `Run`. A delivery is known by its tag,
its position in `sent`; the batch is the tags after `flushed` up to `read`. `Decode`
is one round of flush's loop, so that a session may break between two nacks.
`InsertFails` covers a statement that was committed before the error, and a SIGTERM,
which cancels the context of the statement. The flush of the shutdown begins with a
context that is cancelled already and sends nothing; a statement that is under way when
the signal comes may have committed and still return the error, so its batch may be
inserted again by another worker (`Interrupted` are the workers this happened to; none
starts again). After a lost session the worker goes on with what
the library has buffered (`Receive`, `Insert`) and its acks go nowhere, as in the
code. `UnknownAck` says what the broker may do with a cumulative ack of a tag that
was nacked before: the AMQP specification allows a channel error, and a quorum queue
may accept it; both are explored. Broker crashes are lost sessions: the queue is
durable and replicated. An event the database itself refuses is left out: both
`short_code` columns have the same width, so the gateway cannot produce one.

`ClickLog` is the same pipeline without sessions, batches, tags or workers: a click is
held from the moment it reaches the queue until it has been recorded or, being
malformed, dead-lettered. A click is `Held` when it is in the queue or in flight to a
worker, `Recorded` when it has a row. A requeue, a crash, a second delivery are
stutters of it; an ack is its `Settle`, which may take only recorded clicks.

### CircuitBreaker

One module for both breakers; Init chooses the settings. A call enters the breaker
(`Enter`, gobreaker's `beforeRequest`), is with its dependency, and comes back
(`Leave`, `afterRequest`), with other calls, the health check (`CBState`) and the clock
in between. gobreaker is external and modelled from version 1.0.0 as `go.mod` names
it, whose generation numbers become "current" and "stale". A tick is ten seconds, the
`Interval` of both breakers, so that an open one waits three. A call without an answer,
or one that is refused, sets `bypassed`: the middleware lets the request through, the
repository goes to the database. `IsSuccessful` is the cache's, for which a miss is a
success; the limiter never returns `redis.Nil`. A client that hangs up cancels the
context of its request, which both breakers count as a failure of the dependency: a
fault. `seen` is history (`Remember`): the failures of calls that came back in the
generation they were let in, since the counts of a closed breaker were last cleared, by
the interval or by a recovery. It does not depend on what the breaker counts, and is
capped at `Evidence`, the number of failures without which `ReadyToTrip` is false.

### HashRing

A lookup takes a step for each round of `findIndex` and holds the read lock from its
first to its last; `Add` and `Remove` are one step under the write lock. SHA-256 is any
function: Init chooses the positions of the virtual nodes, collisions included, and a
key is its position. `Sort` and `Filter` are written by rank, without recursion. Go's
indexes are shifted by one. `Remove` allocates a slice of `len(vnodes) - replicas`
first, which panics when that is negative; the guard stands for that. `Ping` and
`Close` are left out: they change nothing in the ring.

### TokenBucket

Tokens are counted in shares of 1/`Minute`, which makes the script's fractions exact;
the rounding of Lua's doubles is left out. `Check` reads the clock, `Run` is the
script, and between them other calls may do both. The key expires two minutes after
the last script and may be evicted. One IP is enough: keys are independent. The rest is
history: `slip` accumulates by how much a script's clock was behind the time already
credited, `Spent` is what was granted less a bucket per eviction and the slip, and `low`
the least that `Owed` has been, `Spent` less what the time has earned that no script will
read again. A limit in every window of time is then a state predicate: what was spent
since any earlier moment is `Spent` less what it was then, and `low` is the worst case of
these moments. Calls that are under way at the beginning of the window carry an earlier
clock (`Clocks`), so it begins with the earliest of them.

### ClickPublisher

`conn` and `channel` are the publisher's fields; a channel has the number of its
connection. `open` is what the library believes and `reach` what the broker still
reads: in between, events vanish without an error. `Close` sets the flag, takes the
lock, and closes while it holds it. Redirects stop before `Close` starts, because main
defers it until `srv.Shutdown` has returned. When the broker is down at the start the
process ends and is started again, which `NewPublisher` shows as waiting. A
channel-level exception is left out: nothing the gateway publishes provokes one.

### ShortCode and URLService

`ShortCode` takes a URL in its parts. `LastPart` is where the number of the attempt
lands when `CreateShortURL` writes it behind the URL; from that follow which part of
the URL `Canonicalize` changes, that digits behind an IPv6 literal do not parse, and
that a number in the fragment is dropped. SHA-256 is the constant `HashURL`. URLs are
https URLs; user info and http's port 80 add nothing. `URLService` assumes of its codes
only that everything that looks like a generated code is one (`GeneratedCodes`, of the
right length and without a leading zero digit); that `Generate` yields such a code is
proved.

In `URLService` a request is a process with one step per call of the repository, so
other requests come between two attempts, and between the fetch and the check of the
expiry. The repository is taken as `CachedURLRepository` promises it: `GetByCode`
answers with a value the row has had (`EveryAnswerWasOnceTrue`, proved there), which
`once` records, and a statement that fails may have committed. `status` is the
response. `deleted`, `faulted` and `gone` are history. An `expires_in` that is negative
means what 0 means and is left out of `ExpiresIn`.

## What the runs show

| Run | Instance | Result |
|---|---|---|
| `cache` | 3 handlers, 2 gateways, 1 code, 1 link, all faults, 1 late command, fairness | `EveryAnswerWasOnceTrue`, `CoherentUnlessSuspect`, `OneQueryPerFill`, `FlightsConsistent`, `ImplementsLinkStore`, `RequestsReturn`, `EventuallyCoherent` hold |
| `cache_delete_race` | 2 handlers, no fault | `DeleteInvalidates` fails: INSERT of a creator, DELETE and DEL of another request, then the creator's SET |
| `worker` | 2 workers, one stoppable, a click and a malformed message, batches of 2, 2 faults, fairness | `NoSilentLoss`, `DuplicatesBounded`, `ImplementsClickLog`, `EveryClickSettled`, `ShutdownCompletes` hold |
| `worker_shutdown` | 1 worker, no fault | `GracefulFlush` fails: the flush runs under the cancelled context |
| `bucket_faults` | 3 calls, a bucket of 2, past the expiry, 1 eviction | `GrantsBounded` (in every window of time), `WholeTokenSuffices` hold |
| `bucket_starved` | 2 calls, a token takes 2 ticks | `NotStarved` fails: a refusal drops the fraction its own hint counts on |
| `publisher` | 2 clicks, 2 faults, `Close` at any time | `NoOrphanConnection`, `CloseLeavesOnlyADial`, `LossExplained`, `Reconnects`, `ClicksEnd` hold |
| `publisher_close` | 1 fault | `CloseReleases` fails: `Close` between the check and the installation |
| `service` | 3 requests, 2 codes, one also an alias, 2 attempts, 5 kinds of URL, links for a day | `CreatedStays`, `OneRowPerRequest`, `GivesUpOnlyWhenTaken`, `DeletesCounted`, `GoneStaysGone` hold |
| `service_retry` | 2 requests for a URL with a fragment | `RetryFindsAnother` fails: every attempt gives the same candidate |
| `breaker` | 3 callers, the limiter's settings and a small sample of the cache's, 2 faults, fairness | no more than `MaxRequests` probes (`TypeOK`), `CountsAddUp`, `NeverWedged`, `OpensOnlyOnFailures`, `Recovers` hold |
| `ring` | 3 nodes with 2 virtual nodes each anywhere on 6 positions, a lookup, symmetry | `OwnersHaveClients`, `RingOfMembers`, `RoutesClockwise`, `OnlyItsKeysMove` hold |

Bounds. Three handlers are a reader that leads, one that waits, and a writer; with two
gateways two of them do not share a group. With one link a code is created and
deleted once, which is enough for a stale link and for a stale sentinel; that a code
created again may differ from the first is covered by the proofs. A click and a
malformed message with batches of two make a nack in the middle of a batch, a batch
that never fills up, and a delivery prefetched by one worker while the other is idle;
two faults make a message go round twice. The bucket's instance runs past the expiry
of its key with the largest bucket the assumption allows. Two faults let the publisher
lose the connection that replaces a lost one. Three requests are two that take a URL's
two candidates and one that finds both taken, a create, a delete and another create, or
a link and two readers of it. Six requests of a generation (`MaxRequests`) trip either
breaker by either of its conditions, and three calls fill the half-open breaker; the
sample of the cache's breaker is reduced from fifty to four, in which the rate and the
failures in a row still trip it independently. Three nodes are one that joins, one that
leaves and one that stays, and six positions are as many as there are virtual nodes, so
that both rings with and without collisions occur. `MaxLate`, `MaxFaults`, `MaxTime`,
`MaxEvictions`, `MaxLosses` and `MaxRequests` are bounds of the models, the code has
none. Runs with `CHECK_DEADLOCK FALSE` are those in which everything may come to an
end: all workers stopped, all clicks published, all requests answered.

Fairness. Handlers go on once they have begun, because every call they make returns
(the Redis ones by their timeout, singleflight by its leader); entries expire; Redis
gets round to what it received. No request is forced to come. Workers, the ticker,
Docker's restart and the broker's delivery go on. Heartbeats run and the publisher's
goroutines are scheduled; nothing is assumed about when the broker is up, and `Close`
need not be called. Calls come back from a breaker's dependency, at the latest with
their timeout, and time passes; `Recovers` itself has the premise that the dependency is
up for good and that callers keep calling, since a half-open breaker closes only by
calls. Faults are never forced and finite in number.

## What is proved

From the assumptions named in the modules, and nothing else, for every value of the
constants:

* `CachedURLRepositoryProofs`: `TypeCorrect`, `FlightsStayConsistent`,
  `AnswersWereOnceTrue`, `NoStampede`, `CoherenceWindow`. `FlightsConsistent` is
  inductive with the type invariant. Answers being once true needs the values on their
  way (handlers, late commands) in the invariant, and that one of a handler is of the
  code it works on. The stampede guard needs that, while a handler leads a call, the
  fill it is about to make is not counted yet, and that a counted fill is in the cache,
  on its way there or lost. Coherence needs that a value held for a fill was read from
  the row as it still is, or that the code is suspect.
* `RepositoryRefinementProofs`: `RepositoryImplementsStore`, `DeleteInvalidatesAlone`.
  Every step of the repository is a step or a stutter of `LinkStore` under
  `RefinementInv`: a value on its way, in a handler or in the cache of a code that is
  not tainted, is one of `recent`, and every value anywhere is one of `once`; a handler
  about to return has an answer. That a code becomes doubtful only by a fault or an
  overlap (`SuspectStep`) needs that without faults there is no late command
  (`LateIsFault`), and that a statement makes a code suspect only by changing its row
  while another handler is at work for that code. From that and `CoherentUnlessSuspect`
  follows what the comment on `Delete` promises and `cache_delete_race` refutes, for
  executions in which no row changes under another request for its code (`WritesAlone`)
  and Redis and PostgreSQL do not fail.
* `AnalyticsWorkerProofs`: `TypeCorrect`, `NoMessageLost`, `FewDuplicates`,
  `WorkersImplementLog`. `NoSilentLoss` is not
  inductive: it has to be known that a cumulative ack covers only settled deliveries.
  `FlushInv` says so: behind the decoding position nothing malformed is
  unacknowledged, at the insert the batch holds only well-formed events, at the ack
  each is in the table, and nothing unacknowledged precedes the batch; `SessionInv`
  adds that a session that has ended has no unacknowledged deliveries. `FewDuplicates`
  is a balance (`DuplicateInv`): the rows of a click plus the processes that may still
  insert it never exceed one plus what has gone wrong (`Mishaps`: faults, closed channels
  and workers whose statement SIGTERM cut off, who are never fewer after a step,
  `InterruptedStep`); a delivery that is handed back adds a holder only together with a
  fault or a closed channel, and a row that was inserted before the error came is paid for
  by a fault or by the worker that stops with it. Closed channels in turn
  are paid for by dead letters: there are at most as many as dead letters whose session is
  over (`ClosesInv`, `Buried`), because the session that is closed brought one, and what
  is dead-lettered came with that session alone and is not delivered again (`DeadInv`).
  The refinement needs `Custody`, that what a step settles was held and is recorded.
* `CircuitBreakerProofs`: `BreakerTypeCorrect`, `CountsAlwaysAddUp`,
  `HalfOpenNeverWedged`, `TripsOnlyOnFailures`. The type invariant bounds the probes of a
  half-open breaker, for only `beforeRequest` adds to them. `NeverWedged` follows from the
  counts of a half-open breaker: no failure, fewer successes than probes, all in a row.
  That a trip has its evidence needs that the failures counted in a closed breaker are
  among those of its own generation (`ClosedCounts`), and that an open one has none of its own left.
* `HashRingProofs`: `RingTypeCorrect`, `OwnersAlwaysHaveClients`, `MembersMakeTheRing`,
  `LookupsRouteClockwise`, `OtherKeysStay`. That `Ranked` sorts is proved by counting; the
  search by the usual invariant (what lies before `l` is smaller than the key, what lies
  from `r` on is larger), which holds because the ring cannot change under the lock; the
  number of virtual nodes by counting those of each member.
* `ClickPublisherProofs`: `PublisherTypeCorrect`, `NoConnectionLeaks`,
  `EveryLossExplained`, `CloseLeavesLittle`. The invariant says what the watcher,
  `Close` and a click each know between their steps (`WatcherInv`, `CloserInv`,
  `ClickInv`): the watcher never reconnects over a connection that is open, and a click
  since whose start nothing has happened finds the publisher healthy and holds the
  channel of its connection. What `Close` leaves needs two more: without a loss the
  watcher has not moved from the first connection (`UndisturbedInv`), and what `p.conn`
  names after `Close` was stored by the watcher since then (`LeftInv`).
* `TokenBucketProofs`: `BucketTypeCorrect`, `LimitHolds`, `WaitingPays`. The invariant is
  a potential (`Window`): what was spent plus what the bucket holds (a missing key counts
  as full) never exceeds `low`, a full bucket and the rate times the time credited so far
  (`Conserved`), or no script has run since the moment of `low` and none will with an
  earlier clock (`Untouched`). It survives the expiry because `Burst <= 2 * Rate`
  (`BurstAssumption`); with a larger `BURST` an idle client would gain. `low` moves when
  the earliest clock does, which exists because clocks are natural numbers
  (`EarliestExists`).
* `URLServiceProofs`: `ServiceTypeCorrect`, `LinksStay`, `NoSecondRow`,
  `ExpiryIsFinal`, `NoRowDeletedTwice`, `GaveUpForGoodReason`, `EncodingIsInjective`,
  `AttemptsDiffer`, `RetriesWorkWithoutFragment`. The types already need `OwnState` (the
  row about to be inserted is the request's own) and that a candidate is a code
  (`GenerateIsCode`), which is a fact about `EncodeBase62`: the recursion is well defined
  (`EncodeUnfolds`), its digits are below the base and the first is not zero
  (`EncodeDigits`). `StepEffect` sums up every step: it leaves answered requests alone and
  changes nothing in the table, inserts one row in its request's last step, or removes
  one. `InsertedLast` follows from that and implies `OneRowPerRequest`. `GoneExpired`,
  that what was answered with 410 has its expiry in the past, gives the action property.
  Deletes are counted by an injection from the deletes answered with 204 to the rows
  that have left the table, none of which comes back (`TableInv`). That a creator gives
  up only when its candidates were taken needs `TriedInv`: every candidate it has passed
  over was the code of another request's row. The same invariant settles what the run
  `service_retry` refutes: attempts at a URL hash the same exactly when it has a fragment
  (`AttemptsDiffer`), and for other URLs, if the hash spreads over the codes
  (`HashSpreads`), a request that gives up has met as many taken codes as it has attempts.

Facts about all numbers, such as those about `EncodeBase62`, are proved by a least
counterexample (`LeastExists`, from the well-foundedness of the naturals), because the
provers cannot use the induction rules of the library.

Only model-checked: the liveness properties (`RequestsReturn`, `EventuallyCoherent`,
`EveryClickSettled`, `ShutdownCompletes`, `Recovers`, `Reconnects`, `ClicksEnd`), for the
prover has no fairness and no ENABLED. The five findings are counterexamples of TLC; of
three of them the proofs show the extent: the fragment is all that keeps the retries from
working, an overlapping write all that leaves a deleted link in the cache, and a dial under
way all that `Close` leaves open.

## What disagrees with the documentation

The violation runs are in `PROJECT.json` under `findings`: the cache after a delete
(`cached_url_repository.go:299`), the flush on shutdown (`consumer.go:103`), "tokens per
minute" (`token_bucket.lua:2`), `Close` (`publisher.go:134`) and the retries for a URL
with a fragment (`server_test.go:391`). In the first, the SET that comes too late is the
write-through of the creator (`cached_url_repository.go:286`); the fill of a reader that
selected the row before the DELETE (line 404) does the same, its dual exists for `Create`
and the sentinel, and `CoherentUnlessSuspect` allows exactly these windows.

Also met while reading, without a run: the prefetch count is twice the batch size where
`consumer.go:112` says one batch is in flight;
`docs/ARCHITECTURE.md:97` announces a local fallback for the rate limiter where the
gateway fails open; `api/handler.go:131` promises 400 for an invalid alias, but nothing
returns `ErrInvalidAlias` and an alias longer than the column ends in 500; the digit
behind the URL keeps a trailing slash or a port from being removed when they come last,
and makes `https://[::1]` unparsable, which is answered with 400; `handler.go:240` says
that a redirect increments the click count, which nothing does. The breakers:
`cached_url_repository.go:65` and `docs/BUILD_PHASES.md:402` say the cache's trips at five
failures in a row where the code says twenty; `docs/BUILD_PHASES.md:246` says three for
the limiter's where `client.go` says five; and what is counted, in a row or not, is
cleared every ten seconds, so a dependency that fails less often than that never trips
one. The findings of 2026-03-19 under `docs/findings` (line 23) say that the ring is
protected by its lock, but `Ping` and `Close` (`ring.go:56`) go through the clients
without it.

## Not modelled, and why

Configuration, wiring and start-up, observability and logging (constants and output),
generated stubs, and the schema beyond the unique code have no state whose changes
could go wrong in an order. Routing, headers and the bodies of responses are left out of
the handlers: `URLService` has their status codes and `CircuitBreaker` the health check's
effect on a breaker. `Ping` and `Close` of the ring, and the gRPC server around
`CheckRateLimit`, change nothing that is modelled.

Known while modelling and stated by no property, because they are facts about one value
or one call, or behaviour the code promises nothing about:

* `repository.go:50`: an insert has four parameters per event and PostgreSQL takes 65535,
  so a `BATCH_SIZE` above 16383 would make every full flush fail.
* `publisher.go:165`: only the connection is watched; a channel that the broker closes by
  itself would stay in `p.channel`.
* `middleware/ratelimit.go:27`: `Retry-After` is in whole seconds, rounded down.
* `ring.go:136`: a node that comes back still holds its old entries. In the terms of
  `CachedURLRepository` its codes are suspect until the TTL ends.
* `ring.go:118`: `Remove` of an unknown name panics when the ring has fewer virtual nodes
  than one node has replicas. `RingOfMembers` shows that a member can always be removed,
  if nothing collides.
* `infra.go:78`, `config.go:196`: a node listed twice leaves a client open, and a list of
  only a comma makes an empty ring, for which `ClientFor` returns nil.
* `ring.go:126`: nodes with a virtual node at one position share its entry of the map, so
  the removal of one takes the position from the other. `RingOfMembers` excludes this
  case; `OwnersHaveClients` and `RoutesClockwise` hold in it.
* `cached_url_repository.go:368`: the detached query has no deadline of its own; that
  requests return assumes that the database answers.
* `publisher.go:140`: `Close` holds the lock across two network calls; that clicks end
  assumes that these return.
* `handler.go:286`: the publishing goroutines are not waited for, so the process may exit
  before an event is sent. The model ends with `Close`, after which any loss is allowed.
* `cached_url_repository.go:420`: one breaker stands before all Redis nodes, so one node
  that is down may take the others' entries out of use.
* `handler.go:75`: an alias such as `health` is accepted and can never be reached.

What could follow: the composition of `ClickPublisher` with `ClickLog` (a click from the
redirect to the table), and an abstract limiter that `TokenBucket` implements.
