------------------------- MODULE CachedURLRepository -------------------------
(***************************************************************************)
(* The cache-aside repository of the gateway                               *)
(* (services/gateway/internal/repository/cached_url_repository.go on top   *)
(* of url_repository.go): every request is a process that runs one of      *)
(* GetByCode, Create and Delete against PostgreSQL (`db') and the Redis    *)
(* ring (`redis'), through the singleflight group of its gateway           *)
(* (`flight').  A step of a process is one round trip or one critical      *)
(* section of singleflight; everything else may happen in between.         *)
(*                                                                         *)
(* The Redis calls run under a circuit breaker and a 50 ms timeout and     *)
(* their errors are only logged, so to this component a breaker that is    *)
(* open, a timeout and a cache that is switched off are the same thing: a  *)
(* command that is lost, or one that Redis executes after the caller has   *)
(* gone on.                                                                *)
(***************************************************************************)
EXTENDS Naturals, FiniteSets

CONSTANTS
  Codes,      \* short codes
  Links,      \* model.URL records; the uuid makes every inserted one new
  Procs,      \* request handlers, over all gateways
  Gateways,   \* gateway processes; each has its own singleflight group
  GatewayOf,  \* the gateway that a request handler belongs to
  Faults,     \* what the environment may do wrong, see FaultKinds
  MaxLate,    \* bound: commands that Redis has received but not executed
  NotFound,   \* no row in the table; in the cache, the sentinel __NOT_FOUND__
  Empty,      \* no cache entry (redis.Nil)
  Failed,     \* any error of a call other than ErrNotFound
  NoLeader    \* no singleflight call in progress

\* "read": a cache GET may fail; "write": a SET or DEL may never reach Redis;
\* "late": it may be executed after its caller timed out; "db": a statement
\* may fail, an INSERT or DELETE before or after it has committed.
FaultKinds == {"read", "write", "late", "db"}

Rows == Links \cup {NotFound}
Entries == Rows \cup {Empty}
Values == Entries \cup {Failed}

ASSUME CodesAssumption == Codes # {}
ASSUME GatewayAssumption == GatewayOf \in [Procs -> Gateways]
ASSUME FaultsAssumption == Faults \subseteq FaultKinds /\ MaxLate \in Nat
ASSUME ValuesAssumption ==
  /\ NotFound \notin Links /\ Empty \notin Rows /\ Failed \notin Entries
  /\ NoLeader \notin Procs

VARIABLES
  db,       \* the row of each code: a link, or NotFound
  redis,    \* the cache entry of each code: a link, the sentinel, or Empty
  flight,   \* requestGroup of each gateway: the process that runs the call
  pc,       \* where each request handler is
  code,     \* the code it works on
  val,      \* the value it holds: read, to be written, or to be returned
  late,     \* commands sent to Redis whose caller has already timed out
  once,     \* history: every value the row of a code has had
  queried,  \* history: <<gateway, code>> read from db since the entry was
            \* last known to be absent
  suspect   \* history: codes whose entry a race or a lost write may have
            \* left different from the row

vars == <<db, redis, flight, pc, code, val, late, once, queried, suspect>>

PCs == {"idle", "enter", "wait", "recheck", "query", "fill", "finish",
        "set", "del", "reply"}

\* The callback of requestGroup.Do runs in these control states.
Leading == {"recheck", "query", "fill", "finish"}

AnyCode == CHOOSE c \in Codes : TRUE

TypeOK ==
  /\ db \in [Codes -> Rows]
  /\ redis \in [Codes -> Entries]
  /\ flight \in [Gateways -> [Codes -> Procs \cup {NoLeader}]]
  /\ pc \in [Procs -> PCs]
  /\ code \in [Procs -> Codes]
  /\ val \in [Procs -> Values]
  /\ late \subseteq [code : Codes, entry : Entries]
  /\ once \in [Codes -> SUBSET Rows]
  /\ queried \subseteq Gateways \X Codes
  /\ suspect \subseteq Codes

Init ==
  /\ db = [c \in Codes |-> NotFound]
  /\ redis = [c \in Codes |-> Empty]
  /\ flight = [g \in Gateways |-> [c \in Codes |-> NoLeader]]
  /\ pc = [p \in Procs |-> "idle"]
  /\ code = [p \in Procs |-> AnyCode]
  /\ val = [p \in Procs |-> Empty]
  /\ late = {}
  /\ once = [c \in Codes |-> {NotFound}]
  /\ queried = {}
  /\ suspect = {}

-----------------------------------------------------------------------------
\* Helpers.

\* Process p goes to control state l holding value v.
Go(p, l, v) ==
  /\ pc' = [pc EXCEPT ![p] = l]
  /\ val' = [val EXCEPT ![p] = v]

\* A write of c's entry is under way: a handler holds the value, or Redis
\* has yet to execute the command.
WritePending(c) ==
  \/ \E p \in Procs : code[p] = c /\ pc[p] \in {"fill", "set", "del"}
  \/ \E m \in late : m.code = c

\* The outcomes of cacheGet: the entry, or an error that reads as a miss.
CacheReads(c) ==
  {redis[c]} \cup (IF "read" \in Faults THEN {Empty} ELSE {})

Forget(c) == queried' = queried \ (Gateways \X {c})

\* Redis executes SET c e, or DEL c when e is Empty.
Execute(c, e) ==
  /\ redis' = [redis EXCEPT ![c] = e]
  /\ IF e = Empty THEN Forget(c) ELSE UNCHANGED queried

\* cacheSet and cacheDel: the caller goes on whatever becomes of the command.
CacheWrite(c, e) ==
  \/ Execute(c, e) /\ UNCHANGED <<late, suspect>>
  \/ /\ "write" \in Faults
     /\ suspect' = suspect \cup {c}
     /\ Forget(c)
     /\ UNCHANGED <<redis, late>>
  \/ /\ "late" \in Faults
     /\ Cardinality(late) < MaxLate
     /\ [code |-> c, entry |-> e] \notin late
     /\ late' = late \cup {[code |-> c, entry |-> e]}
     /\ suspect' = suspect \cup {c}
     /\ Forget(c)
     /\ UNCHANGED redis

\* The row of c becomes v.
Commit(c, v) ==
  /\ db' = [db EXCEPT ![c] = v]
  /\ once' = [once EXCEPT ![c] = @ \cup {v}]

-----------------------------------------------------------------------------
\* GetByCode.

\* The lookup in the cache: a sentinel is ErrNotFound, a link is returned, a
\* miss or an error goes to the database.
GetByCode(p, c) ==
  /\ pc[p] = "idle"
  /\ code' = [code EXCEPT ![p] = c]
  /\ \E e \in CacheReads(c) :
       IF e = Empty THEN Go(p, "enter", Empty) ELSE Go(p, "reply", e)
  /\ UNCHANGED <<db, redis, flight, late, once, queried, suspect>>

\* Mutated form: every caller runs the callback.
JoinFlightAlways(p) ==
  /\ pc[p] = "enter"
  /\ flight' = [flight EXCEPT ![GatewayOf[p]][code[p]] = p]
  /\ pc' = [pc EXCEPT ![p] = "recheck"]
  /\ UNCHANGED <<db, redis, code, val, late, once, queried, suspect>>

\* requestGroup.Do: run the callback, or wait for the call in progress.
JoinFlight(p) ==
  LET g == GatewayOf[p]  c == code[p] IN
  /\ pc[p] = "enter"
  /\ IF flight[g][c] = NoLeader
       THEN /\ flight' = [flight EXCEPT ![g][c] = p]
            /\ pc' = [pc EXCEPT ![p] = "recheck"]
       ELSE /\ pc' = [pc EXCEPT ![p] = "wait"]
            /\ UNCHANGED flight
  /\ UNCHANGED <<db, redis, code, val, late, once, queried, suspect>>

\* Mutated form: the callback goes straight to the database.
ReCheckSkipped(p) ==
  /\ pc[p] = "recheck"
  /\ Go(p, "query", Empty)
  /\ UNCHANGED <<db, redis, flight, code, late, once, queried, suspect>>

\* The callback's second look at the cache.  The history counts a failed look
\* as one that found the entry absent.
ReCheck(p) ==
  LET g == GatewayOf[p]  c == code[p] IN
  /\ pc[p] = "recheck"
  /\ \/ /\ redis[c] # Empty
        /\ Go(p, "finish", redis[c])
        /\ UNCHANGED queried
     \/ /\ Empty \in CacheReads(c)
        /\ Go(p, "query", Empty)
        /\ queried' = queried \ {<<g, c>>}
  /\ UNCHANGED <<db, redis, flight, code, late, once, suspect>>

\* Mutated form: any error of the SELECT is cached as a missing row.
QueryErrorAsNotFound(p) ==
  /\ pc[p] = "query"
  /\ \/ Go(p, "fill", db[code[p]])
     \/ "db" \in Faults /\ Go(p, "fill", NotFound)
  /\ UNCHANGED <<db, redis, flight, code, late, once, queried, suspect>>

\* Mutated form: the outcome of the SELECT is cached, an error too.
QueryErrorCached(p) ==
  /\ pc[p] = "query"
  /\ \/ Go(p, "fill", db[code[p]])
     \/ "db" \in Faults /\ Go(p, "fill", Failed)
  /\ UNCHANGED <<db, redis, flight, code, late, once, queried, suspect>>

\* Mutated form: an error of the SELECT is logged and no link is returned.
QueryErrorSwallowed(p) ==
  LET g == GatewayOf[p]  c == code[p] IN
  /\ pc[p] = "query"
  /\ \/ Go(p, "fill", db[c]) /\ queried' = queried \cup {<<g, c>>}
     \/ "db" \in Faults /\ Go(p, "finish", Empty) /\ UNCHANGED queried
  /\ UNCHANGED <<db, redis, flight, code, late, once, suspect>>

\* URLRepository.GetByCode under a context detached from the request.  A row
\* or ErrNotFound goes on to rewriteCache; any other error leaves the cache
\* alone and ends the callback.
Query(p) ==
  LET g == GatewayOf[p]  c == code[p] IN
  /\ pc[p] = "query"
  /\ \/ Go(p, "fill", db[c]) /\ queried' = queried \cup {<<g, c>>}
     \/ "db" \in Faults /\ Go(p, "finish", Failed) /\ UNCHANGED queried
  /\ UNCHANGED <<db, redis, flight, code, late, once, suspect>>

\* rewriteCache: SET of the row, or of the sentinel.
RewriteCache(p) ==
  /\ pc[p] = "fill"
  /\ CacheWrite(code[p], val[p])
  /\ pc' = [pc EXCEPT ![p] = "finish"]
  /\ UNCHANGED <<db, flight, code, val, once>>

\* The handlers that share the call of leader p.
Waiters(p) ==
  {q \in Procs : /\ pc[q] = "wait" /\ code[q] = code[p]
                 /\ GatewayOf[q] = GatewayOf[p]}

\* Mutated form: the call leaves the group without handing out its result.
EndFlightLeaderOnly(p) ==
  /\ pc[p] = "finish"
  /\ flight' = [flight EXCEPT ![GatewayOf[p]][code[p]] = NoLeader]
  /\ Go(p, "reply", val[p])
  /\ UNCHANGED <<db, redis, code, late, once, queried, suspect>>

\* singleflight removes the call and hands its result to every waiter.
EndFlight(p) ==
  /\ pc[p] = "finish"
  /\ flight' = [flight EXCEPT ![GatewayOf[p]][code[p]] = NoLeader]
  /\ pc' = [q \in Procs |->
              IF q = p \/ q \in Waiters(p) THEN "reply" ELSE pc[q]]
  /\ val' = [q \in Procs |-> IF q \in Waiters(p) THEN val[p] ELSE val[q]]
  /\ UNCHANGED <<db, redis, code, late, once, queried, suspect>>

-----------------------------------------------------------------------------
\* Create and Delete.

\* Mutated form: the entry is written before the outcome of the INSERT is known.
CreateCacheFirst(p, c, u) ==
  /\ pc[p] = "idle"
  /\ db[c] = NotFound
  /\ \A d \in Codes : u \notin once[d]
  /\ code' = [code EXCEPT ![p] = c]
  /\ \/ Commit(c, u) /\ Go(p, "reply", u) /\ Execute(c, u)
     \/ /\ "db" \in Faults /\ Execute(c, u) /\ Go(p, "reply", Failed)
        /\ UNCHANGED <<db, once>>
  /\ UNCHANGED <<flight, late, suspect>>

\* Create, the INSERT: link u is stored under c, and the entry is next.
Create(p, c, u) ==
  /\ pc[p] = "idle"
  /\ db[c] = NotFound
  /\ \A d \in Codes : u \notin once[d]
  /\ Commit(c, u)
  /\ suspect' = IF WritePending(c) THEN suspect \cup {c} ELSE suspect
  /\ code' = [code EXCEPT ![p] = c]
  /\ Go(p, "set", u)
  /\ UNCHANGED <<redis, flight, late, queried>>

\* Unique violation 23505: ErrCodeConflict, and the cache is left alone.
CreateConflict(p, c) ==
  /\ pc[p] = "idle"
  /\ db[c] # NotFound
  /\ code' = [code EXCEPT ![p] = c]
  /\ Go(p, "reply", Failed)
  /\ UNCHANGED <<db, redis, flight, late, once, queried, suspect>>

\* An INSERT that reports an error may have been committed; Create returns
\* before it reaches the cache.
CreateFails(p, c, u) ==
  /\ pc[p] = "idle"
  /\ "db" \in Faults
  /\ db[c] = NotFound
  /\ \A d \in Codes : u \notin once[d]
  /\ \/ UNCHANGED <<db, once, suspect>>
     \/ Commit(c, u) /\ suspect' = suspect \cup {c}
  /\ code' = [code EXCEPT ![p] = c]
  /\ Go(p, "reply", Failed)
  /\ UNCHANGED <<redis, flight, late, queried>>

\* The write-through of Create.
CreateCacheSet(p) ==
  /\ pc[p] = "set"
  /\ CacheWrite(code[p], val[p])
  /\ pc' = [pc EXCEPT ![p] = "reply"]
  /\ UNCHANGED <<db, flight, code, val, once>>

\* Delete, the DELETE: the row is gone, and the entry is next.
Delete(p, c) ==
  /\ pc[p] = "idle"
  /\ db[c] # NotFound
  /\ Commit(c, NotFound)
  /\ suspect' = IF WritePending(c) THEN suspect \cup {c} ELSE suspect
  /\ code' = [code EXCEPT ![p] = c]
  /\ Go(p, "del", NotFound)
  /\ UNCHANGED <<redis, flight, late, queried>>

\* No row was affected: ErrNotFound, and the entry is left alone.
DeleteMissing(p, c) ==
  /\ pc[p] = "idle"
  /\ db[c] = NotFound
  /\ code' = [code EXCEPT ![p] = c]
  /\ Go(p, "reply", NotFound)
  /\ UNCHANGED <<db, redis, flight, late, once, queried, suspect>>

\* A DELETE that reports an error may have been committed; Delete returns
\* before it reaches the cache.
DeleteFails(p, c) ==
  /\ pc[p] = "idle"
  /\ "db" \in Faults
  /\ \/ UNCHANGED <<db, once, suspect>>
     \/ db[c] # NotFound /\ Commit(c, NotFound) /\ suspect' = suspect \cup {c}
  /\ code' = [code EXCEPT ![p] = c]
  /\ Go(p, "reply", Failed)
  /\ UNCHANGED <<redis, flight, late, queried>>

\* The invalidation of Delete.
DeleteCacheDel(p) ==
  /\ pc[p] = "del"
  /\ CacheWrite(code[p], Empty)
  /\ pc' = [pc EXCEPT ![p] = "reply"]
  /\ UNCHANGED <<db, flight, code, val, once>>

\* The call returns val[p] to the service.
Reply(p) ==
  /\ pc[p] = "reply"
  /\ Go(p, "idle", Empty)
  /\ code' = [code EXCEPT ![p] = AnyCode]
  /\ UNCHANGED <<db, redis, flight, late, once, queried, suspect>>

-----------------------------------------------------------------------------
\* Redis.

\* Mutated form: only the sentinel has a TTL, a link is stored for ever.
ExpireSentinelOnly(c) ==
  /\ redis[c] = NotFound
  /\ Execute(c, Empty)
  /\ UNCHANGED <<db, flight, pc, code, val, late, once, suspect>>

\* The TTL (r.ttl for a link, one minute for the sentinel) runs out, or Redis
\* evicts the entry.  With no write under way the code is above suspicion.
Expire(c) ==
  /\ redis[c] # Empty
  /\ Execute(c, Empty)
  /\ suspect' = IF WritePending(c) THEN suspect ELSE suspect \ {c}
  /\ UNCHANGED <<db, flight, pc, code, val, late, once>>

\* Redis executes a command whose caller has timed out.
Land(m) ==
  /\ m \in late
  /\ late' = late \ {m}
  /\ Execute(m.code, m.entry)
  /\ UNCHANGED <<db, flight, pc, code, val, once, suspect>>

-----------------------------------------------------------------------------
\* What a handler does once its request has begun.
Step(p) ==
  \/ JoinFlight(p) \/ ReCheck(p) \/ Query(p) \/ RewriteCache(p) \/ EndFlight(p)
  \/ CreateCacheSet(p) \/ DeleteCacheDel(p) \/ Reply(p)

Next ==
  \/ \E p \in Procs, c \in Codes :
       \/ GetByCode(p, c) \/ CreateConflict(p, c)
       \/ Delete(p, c) \/ DeleteMissing(p, c) \/ DeleteFails(p, c)
       \/ \E u \in Links : Create(p, c, u) \/ CreateFails(p, c, u)
  \/ \E p \in Procs : Step(p)
  \/ \E c \in Codes : Expire(c)
  \/ \E m \in late : Land(m)

\* A handler that has begun goes on to the end: every call it makes returns,
\* the Redis ones within their timeout.  Redis expires entries and gets round
\* to the commands it has received.  Nothing forces a request to be made.
Fairness ==
  /\ \A p \in Procs : WF_vars(Step(p))
  /\ \A c \in Codes : WF_vars(Expire(c))
  /\ WF_vars(\E m \in late : Land(m))

Spec == Init /\ [][Next]_vars
FairSpec == Spec /\ Fairness

-----------------------------------------------------------------------------
\* Properties.

\* Whatever is served was once true: an entry of the cache, a command on its
\* way to it, a value in the hands of a handler (the ones a singleflight call
\* gave it too) and an answer are values that the row of that very code has
\* had, or errors.  No order of fills, write-throughs, invalidations, delayed
\* commands and failed statements can make up a link or a missing row.
EveryAnswerWasOnceTrue ==
  /\ \A c \in Codes : redis[c] \in once[c] \cup {Empty}
  /\ \A m \in late : m.entry \in once[m.code] \cup {Empty}
  /\ \A p \in Procs : val[p] \in once[code[p]] \cup {Empty, Failed}

\* rewriteCache, cacheSet and cacheDel run after the database has answered and
\* in no order with other requests.  The entry can still only differ from the
\* row while the Create or Delete that changed the row has its own cache write
\* ahead of it, or after a row changed under another request's pending write,
\* a command to Redis was lost or late, or a statement failed after it had
\* committed; and the TTL ends that.
CoherentUnlessSuspect ==
  \A c \in Codes \ suspect :
    \/ redis[c] \in {db[c], Empty}
    \/ \E p \in Procs : pc[p] \in {"set", "del"} /\ code[p] = c

\* The stampede guard of queryFromDBWithSingleflight: a gateway asks the
\* database about a code at most once for as long as the entry it wrote stays
\* in the cache, late arrivals that missed before the fill included.
OneQueryPerFill ==
  \A p \in Procs : pc[p] = "query" => <<GatewayOf[p], code[p]>> \notin queried

\* requestGroup: every call in the group is run by one handler of that gateway,
\* and every handler in the callback or waiting for it has its call in the
\* group, so that no waiter is left behind and no callback runs twice.
FlightsConsistent ==
  /\ \A g \in Gateways, c \in Codes :
       flight[g][c] # NoLeader =>
         LET p == flight[g][c] IN
         pc[p] \in Leading /\ GatewayOf[p] = g /\ code[p] = c
  /\ \A p \in Procs :
       /\ pc[p] \in Leading => flight[GatewayOf[p]][code[p]] = p
       /\ pc[p] = "wait" => flight[GatewayOf[p]][code[p]] # NoLeader

\* Every request returns: no waiter of a singleflight call waits for ever.
RequestsReturn == \A p \in Procs : pc[p] # "idle" ~> pc[p] = "idle"

\* "Redis provides eventual consistency for reads" (docs/ARCHITECTURE.md): rows
\* change finitely often here, and from some time on the entry of a code is
\* absent or agrees with its row, whatever was raced, lost or delayed before.
EventuallyCoherent == \A c \in Codes : <>[](redis[c] \in {db[c], Empty})

Idle == \A p \in Procs : pc[p] = "idle"

\* "Delete removes a URL from DB and invalidates the cache entry"
\* (cached_url_repository.go): with no request under way and no command on its
\* way, a code that has no row has no link in the cache.
DeleteInvalidates ==
  Idle /\ late = {} => \A c \in Codes : db[c] = NotFound => redis[c] \notin Links
=============================================================================
