---------------------- MODULE CachedURLRepositoryProofs ----------------------
(***************************************************************************)
(* Proofs about CachedURLRepository, for every set of codes, links,        *)
(* handlers and gateways and every combination of faults.                  *)
(***************************************************************************)
EXTENDS CachedURLRepository, TLAPS

\* Updating one entry of a table of tables keeps its type.
LEMMA UpdateType ==
  ASSUME NEW G, NEW C, NEW S, NEW f \in [G -> [C -> S]],
         NEW g \in G, NEW c \in C, NEW x \in S
  PROVE  [f EXCEPT ![g][c] = x] \in [G -> [C -> S]]
OBVIOUS

\* The code that an idle handler is given is one of the codes.
LEMMA AnyCodeType == AnyCode \in Codes
BY CodesAssumption DEF AnyCode

\* Redis and the table keep their types when a command or a statement is
\* executed.
LEMMA ExecuteType ==
  ASSUME TypeOK, NEW c \in Codes, NEW e \in Entries, Execute(c, e)
  PROVE  redis' \in [Codes -> Entries] /\ queried' \subseteq queried
BY DEF TypeOK, Execute, Forget

\* cacheSet and cacheDel keep the types, whatever becomes of the command.
LEMMA CacheWriteType ==
  ASSUME TypeOK, NEW c \in Codes, NEW e \in Entries, CacheWrite(c, e)
  PROVE  /\ redis' \in [Codes -> Entries]
         /\ late' \subseteq [code : Codes, entry : Entries]
         /\ queried' \subseteq queried
         /\ suspect' \subseteq Codes
<1>1. CASE Execute(c, e) /\ UNCHANGED <<late, suspect>>
  BY <1>1, ExecuteType DEF TypeOK
<1>2. CASE ~(Execute(c, e) /\ UNCHANGED <<late, suspect>>)
  <2>1. [code |-> c, entry |-> e] \in [code : Codes, entry : Entries]
    OBVIOUS
  <2> QED
    BY <1>2, <2>1 DEF TypeOK, CacheWrite, Forget
<1> QED
  BY <1>1, <1>2

\* A committed statement keeps the types.
LEMMA CommitType ==
  ASSUME TypeOK, NEW c \in Codes, NEW v \in Rows, Commit(c, v)
  PROVE  db' \in [Codes -> Rows] /\ once' \in [Codes -> SUBSET Rows]
BY DEF TypeOK, Commit

\* TypeOK does not say that what a handler is about to write is a row; the
\* writes keep the types of the cache only because it is.
TypeInv ==
  /\ TypeOK
  /\ \A p \in Procs : pc[p] \in {"fill", "set"} => val[p] \in Rows

\* A handler that moves keeps the types, provided that it takes a row to the
\* steps that write one.
LEMMA GoType ==
  ASSUME TypeInv, NEW p \in Procs, NEW l \in PCs, NEW v \in Values, Go(p, l, v),
         l \in {"fill", "set"} => v \in Rows
  PROVE  /\ pc' \in [Procs -> PCs] /\ val' \in [Procs -> Values]
         /\ \A q \in Procs : pc'[q] \in {"fill", "set"} => val'[q] \in Rows
BY DEF TypeInv, TypeOK, Go

\* The sets of values are nested.
LEMMA ValueSets ==
  /\ Rows \subseteq Entries /\ Entries \subseteq Values /\ Links \subseteq Rows
  /\ NotFound \in Rows /\ Empty \in Entries /\ Failed \in Values
BY DEF Rows, Entries, Values

\* TypeInv is inductive.
LEMMA TypeStep == TypeInv /\ [Next]_vars => TypeInv'
<1> SUFFICES ASSUME TypeInv, [Next]_vars PROVE TypeInv'
  OBVIOUS
<1>0. TypeOK
  BY DEF TypeInv
<1> USE ValueSets
<1>1. ASSUME NEW p \in Procs, NEW c \in Codes, GetByCode(p, c) PROVE TypeInv'
  <2>1. PICK l \in {"enter", "reply"}, e \in Entries : Go(p, l, e)
    BY <1>0, <1>1 DEF GetByCode, CacheReads, TypeOK
  <2> QED
    BY <1>0, <1>1, <2>1, GoType DEF TypeInv, TypeOK, GetByCode, PCs
<1>2. ASSUME NEW p \in Procs, NEW c \in Codes, CreateConflict(p, c)
      PROVE  TypeInv'
  BY <1>0, <1>2, GoType DEF TypeInv, TypeOK, CreateConflict, PCs
<1>3. ASSUME NEW p \in Procs, NEW c \in Codes, DeleteMissing(p, c)
      PROVE  TypeInv'
  BY <1>0, <1>3, GoType DEF TypeInv, TypeOK, DeleteMissing, PCs
<1>4. ASSUME NEW p \in Procs, NEW c \in Codes, Delete(p, c) PROVE TypeInv'
  BY <1>0, <1>4, GoType, CommitType DEF TypeInv, TypeOK, Delete, PCs
<1>5. ASSUME NEW p \in Procs, NEW c \in Codes, DeleteFails(p, c)
      PROVE  TypeInv'
  BY <1>0, <1>5, GoType, CommitType DEF TypeInv, TypeOK, DeleteFails, PCs
<1>6. ASSUME NEW p \in Procs, NEW c \in Codes, NEW u \in Links, Create(p, c, u)
      PROVE  TypeInv'
  BY <1>0, <1>6, GoType, CommitType DEF TypeInv, TypeOK, Create, PCs
<1>7. ASSUME NEW p \in Procs, NEW c \in Codes, NEW u \in Links,
             CreateFails(p, c, u)
      PROVE  TypeInv'
  BY <1>0, <1>7, GoType, CommitType DEF TypeInv, TypeOK, CreateFails, PCs
<1>8. ASSUME NEW p \in Procs, JoinFlight(p) PROVE TypeInv'
  <2>1. flight' \in [Gateways -> [Codes -> Procs \cup {NoLeader}]]
    <3>1. GatewayOf[p] \in Gateways /\ code[p] \in Codes
      BY <1>0, GatewayAssumption DEF TypeOK
    <3>2. \/ flight' = flight
          \/ flight' = [flight EXCEPT ![GatewayOf[p]][code[p]] = p]
      BY <1>8 DEF JoinFlight
    <3>3. flight \in [Gateways -> [Codes -> Procs \cup {NoLeader}]]
      BY <1>0 DEF TypeOK
    <3>4. p \in Procs \cup {NoLeader}
      OBVIOUS
    <3>5. [flight EXCEPT ![GatewayOf[p]][code[p]] = p]
            \in [Gateways -> [Codes -> Procs \cup {NoLeader}]]
      BY <3>1, <3>3, <3>4, UpdateType
    <3> QED
      BY <3>2, <3>3, <3>5
  <2>2. pc' \in [Procs -> PCs]
    BY <1>0, <1>8 DEF JoinFlight, TypeOK, PCs
  <2>3. \A q \in Procs : pc'[q] \in {"fill", "set"} => val'[q] \in Rows
    BY <1>8 DEF JoinFlight, TypeInv, TypeOK
  <2> QED
    BY <1>0, <1>8, <2>1, <2>2, <2>3 DEF JoinFlight, TypeInv, TypeOK
<1>9. ASSUME NEW p \in Procs, ReCheck(p) PROVE TypeInv'
  <2>1. code[p] \in Codes /\ redis[code[p]] \in Values
    BY <1>0 DEF TypeOK
  <2>2. PICK l \in {"finish", "query"}, e \in Values : Go(p, l, e)
    BY <1>9, <2>1 DEF ReCheck
  <2>3. queried' \subseteq queried
    BY <1>9 DEF ReCheck
  <2> QED
    BY <1>0, <1>9, <2>2, <2>3, GoType DEF ReCheck, TypeInv, TypeOK, PCs
<1>10. ASSUME NEW p \in Procs, Query(p) PROVE TypeInv'
  <2>1. code[p] \in Codes /\ db[code[p]] \in Rows
    BY <1>0 DEF TypeOK
  <2>2. \/ Go(p, "fill", db[code[p]])
        \/ Go(p, "finish", Failed)
    BY <1>10 DEF Query
  <2>3. queried' \subseteq queried \cup {<<GatewayOf[p], code[p]>>}
    BY <1>10 DEF Query
  <2> QED
    BY <1>0, <1>10, <2>1, <2>2, <2>3, GoType, GatewayAssumption
       DEF Query, TypeInv, TypeOK, PCs
<1>11. ASSUME NEW p \in Procs, RewriteCache(p) PROVE TypeInv'
  <2>1. code[p] \in Codes /\ val[p] \in Entries
    BY <1>11 DEF RewriteCache, TypeInv, TypeOK
  <2> QED
    BY <1>0, <1>11, <2>1, CacheWriteType DEF RewriteCache, TypeInv, TypeOK, PCs
<1>12. ASSUME NEW p \in Procs, EndFlight(p) PROVE TypeInv'
  <2>1. flight' \in [Gateways -> [Codes -> Procs \cup {NoLeader}]]
    BY <1>0, <1>12, GatewayAssumption DEF EndFlight, TypeOK
  <2>2. pc' \in [Procs -> PCs] /\ val' \in [Procs -> Values]
    BY <1>0, <1>12 DEF EndFlight, TypeOK, PCs
  <2>3. \A q \in Procs : pc'[q] \in {"fill", "set"} => val'[q] \in Rows
    BY <1>12 DEF EndFlight, TypeInv, Waiters
  <2> QED
    BY <1>0, <1>12, <2>1, <2>2, <2>3 DEF EndFlight, TypeInv, TypeOK
<1>13. ASSUME NEW p \in Procs, CreateCacheSet(p) PROVE TypeInv'
  <2>1. code[p] \in Codes /\ val[p] \in Entries
    BY <1>13 DEF CreateCacheSet, TypeInv, TypeOK
  <2> QED
    BY <1>0, <1>13, <2>1, CacheWriteType
       DEF CreateCacheSet, TypeInv, TypeOK, PCs
<1>14. ASSUME NEW p \in Procs, DeleteCacheDel(p) PROVE TypeInv'
  <2>1. code[p] \in Codes
    BY <1>0 DEF TypeOK
  <2> QED
    BY <1>0, <1>14, <2>1, CacheWriteType
       DEF DeleteCacheDel, TypeInv, TypeOK, PCs
<1>15. ASSUME NEW p \in Procs, Reply(p) PROVE TypeInv'
  BY <1>0, <1>15, GoType, AnyCodeType DEF Reply, TypeInv, TypeOK, PCs
<1>16. ASSUME NEW c \in Codes, Expire(c) PROVE TypeInv'
  BY <1>0, <1>16, ExecuteType DEF Expire, TypeInv, TypeOK
<1>17. ASSUME NEW m \in late, Land(m) PROVE TypeInv'
  <2>1. m.code \in Codes /\ m.entry \in Entries
    BY <1>0 DEF TypeOK
  <2> QED
    BY <1>0, <1>17, <2>1, ExecuteType DEF Land, TypeInv, TypeOK
<1>18. CASE UNCHANGED vars
  BY <1>18 DEF vars, TypeInv, TypeOK
<1> QED
  BY <1>1, <1>2, <1>3, <1>4, <1>5, <1>6, <1>7, <1>8, <1>9, <1>10, <1>11,
     <1>12, <1>13, <1>14, <1>15, <1>16, <1>17, <1>18 DEF Next, Step

\* Initially nothing is under way.
LEMMA TypeInit == Init => TypeInv
BY AnyCodeType DEF Init, TypeInv, TypeOK, PCs, Values, Entries, Rows

\* Every action keeps the state well typed: no path through GetByCode, Create
\* and Delete stores an error, or a value of the wrong kind, in the table, the
\* cache or the group.
THEOREM TypeCorrect == Spec => []TypeOK
<1>1. TypeInv => TypeOK
  BY DEF TypeInv
<1> QED
  BY <1>1, TypeInit, TypeStep, PTL DEF Spec
-----------------------------------------------------------------------------
\* The inductive forms of the safety properties.

\* EveryAnswerWasOnceTrue is inductive once the table is part of it.
AnswerInv == EveryAnswerWasOnceTrue /\ \A c \in Codes : db[c] \in once[c]

\* A pair stays in `queried' while the entry is there, and in the time between
\* the SELECT of the leader and its SET.
QueryInv ==
  /\ OneQueryPerFill
  /\ \A g \in Gateways, c \in Codes :
       <<g, c>> \in queried =>
         \/ redis[c] # Empty
         \/ flight[g][c] # NoLeader /\ pc[flight[g][c]] = "fill"

\* While a code is above suspicion, every pending write of its entry is one
\* that agrees with the row.
CoherenceInv ==
  /\ CoherentUnlessSuspect
  /\ \A c \in Codes \ suspect :
       /\ \A m \in late : m.code # c
       /\ \A p \in Procs : code[p] = c =>
            /\ pc[p] \in {"fill", "set"} => val[p] = db[c]
            /\ pc[p] = "del" => db[c] = NotFound

-----------------------------------------------------------------------------
\* A step of a handler that is outside singleflight before and after it leaves
\* the group consistent.
LEMMA FlightFrame ==
  ASSUME TypeOK, FlightsConsistent, NEW p \in Procs, NEW l,
         pc[p] \notin Leading \cup {"wait"}, l \notin Leading \cup {"wait"},
         pc' = [pc EXCEPT ![p] = l], flight' = flight,
         \A q \in Procs : q # p => code'[q] = code[q]
  PROVE  FlightsConsistent'
<1>1. \A q \in Procs : pc'[q] = IF q = p THEN l ELSE pc[q]
  BY DEF TypeOK
<1>2. ASSUME NEW g \in Gateways, NEW c \in Codes, flight'[g][c] # NoLeader
      PROVE  LET q == flight'[g][c] IN
             pc'[q] \in Leading /\ GatewayOf[q] = g /\ code'[q] = c
  <2>1. flight[g][c] \in Procs /\ flight[g][c] # p
    BY <1>2 DEF TypeOK, FlightsConsistent
  <2> QED
    BY <1>1, <1>2, <2>1 DEF FlightsConsistent
<1>3. ASSUME NEW q \in Procs
      PROVE  /\ pc'[q] \in Leading => flight'[GatewayOf[q]][code'[q]] = q
             /\ pc'[q] = "wait" => flight'[GatewayOf[q]][code'[q]] # NoLeader
  BY <1>1 DEF FlightsConsistent
<1> QED
  BY <1>2, <1>3 DEF FlightsConsistent

\* The steps of the callback keep the leader a leader.
LEMMA FlightLead ==
  ASSUME TypeOK, FlightsConsistent, NEW p \in Procs, NEW l \in Leading,
         pc[p] \in Leading,
         pc' = [pc EXCEPT ![p] = l], flight' = flight, code' = code
  PROVE  FlightsConsistent'
<1>1. \A q \in Procs : pc'[q] = IF q = p THEN l ELSE pc[q]
  BY DEF TypeOK
<1>2. ASSUME NEW g \in Gateways, NEW c \in Codes, flight'[g][c] # NoLeader
      PROVE  LET q == flight'[g][c] IN
             pc'[q] \in Leading /\ GatewayOf[q] = g /\ code'[q] = c
  <2>1. flight[g][c] \in Procs
    BY <1>2 DEF TypeOK
  <2> QED
    BY <1>1, <1>2, <2>1 DEF FlightsConsistent
<1>3. ASSUME NEW q \in Procs
      PROVE  /\ pc'[q] \in Leading => flight'[GatewayOf[q]][code'[q]] = q
             /\ pc'[q] = "wait" => flight'[GatewayOf[q]][code'[q]] # NoLeader
  BY <1>1 DEF FlightsConsistent, Leading
<1> QED
  BY <1>2, <1>3 DEF FlightsConsistent

\* Entering the group: the first caller leads, the others find a leader.
LEMMA FlightJoin ==
  ASSUME TypeOK, FlightsConsistent, NEW p \in Procs, JoinFlight(p)
  PROVE  FlightsConsistent'
<1> DEFINE g == GatewayOf[p]
           c == code[p]
<1>0. g \in Gateways /\ c \in Codes /\ p # NoLeader
  BY GatewayAssumption, ValuesAssumption DEF TypeOK
<1>1. CASE flight[g][c] = NoLeader
  <2>1. /\ \A q \in Procs : pc'[q] = IF q = p THEN "recheck" ELSE pc[q]
        /\ \A h \in Gateways, d \in Codes :
             flight'[h][d] = IF h = g /\ d = c THEN p ELSE flight[h][d]
        /\ code' = code
    BY <1>0, <1>1 DEF JoinFlight, TypeOK
  <2>2. ASSUME NEW h \in Gateways, NEW d \in Codes, flight'[h][d] # NoLeader
        PROVE  LET q == flight'[h][d] IN
               pc'[q] \in Leading /\ GatewayOf[q] = h /\ code'[q] = d
    <3>1. CASE h = g /\ d = c
      BY <2>1, <3>1 DEF Leading
    <3>2. CASE ~(h = g /\ d = c)
      <4>1. flight[h][d] \in Procs
        BY <2>1, <2>2, <3>2 DEF TypeOK
      <4> QED
        BY <2>1, <2>2, <3>2, <4>1 DEF FlightsConsistent, Leading
    <3> QED
      BY <3>1, <3>2
  <2>3. ASSUME NEW q \in Procs
        PROVE  /\ pc'[q] \in Leading => flight'[GatewayOf[q]][code'[q]] = q
               /\ pc'[q] = "wait" => flight'[GatewayOf[q]][code'[q]] # NoLeader
    <3>1. GatewayOf[q] \in Gateways /\ code[q] \in Codes /\ q # NoLeader
      BY GatewayAssumption, ValuesAssumption DEF TypeOK
    <3> QED
      BY <1>0, <1>1, <2>1, <3>1 DEF FlightsConsistent
  <2> QED
    BY <2>2, <2>3 DEF FlightsConsistent
<1>2. CASE flight[g][c] # NoLeader
  <2>1. /\ \A q \in Procs : pc'[q] = IF q = p THEN "wait" ELSE pc[q]
        /\ flight' = flight /\ code' = code /\ pc[p] = "enter"
    BY <1>2 DEF JoinFlight, TypeOK
  <2>2. ASSUME NEW h \in Gateways, NEW d \in Codes, flight'[h][d] # NoLeader
        PROVE  LET q == flight'[h][d] IN
               pc'[q] \in Leading /\ GatewayOf[q] = h /\ code'[q] = d
    <3>1. flight[h][d] \in Procs /\ flight[h][d] # p
      BY <2>1, <2>2 DEF TypeOK, FlightsConsistent, Leading
    <3> QED
      BY <2>1, <2>2, <3>1 DEF FlightsConsistent
  <2>3. ASSUME NEW q \in Procs
        PROVE  /\ pc'[q] \in Leading => flight'[GatewayOf[q]][code'[q]] = q
               /\ pc'[q] = "wait" => flight'[GatewayOf[q]][code'[q]] # NoLeader
    BY <1>2, <2>1 DEF FlightsConsistent, Leading
  <2> QED
    BY <2>2, <2>3 DEF FlightsConsistent
<1> QED
  BY <1>1, <1>2

\* Leaving the group: the call goes, and nobody is left waiting for it.
LEMMA FlightEnd ==
  ASSUME TypeOK, FlightsConsistent, NEW p \in Procs, EndFlight(p)
  PROVE  FlightsConsistent'
<1> DEFINE g == GatewayOf[p]
           c == code[p]
<1>0. g \in Gateways /\ c \in Codes /\ pc[p] = "finish" /\ flight[g][c] = p
  BY GatewayAssumption DEF TypeOK, EndFlight, FlightsConsistent, Leading
<1>1. /\ \A q \in Procs :
           pc'[q] = IF q = p \/ q \in Waiters(p) THEN "reply" ELSE pc[q]
      /\ \A h \in Gateways, d \in Codes :
           flight'[h][d] = IF h = g /\ d = c THEN NoLeader ELSE flight[h][d]
      /\ code' = code
  BY <1>0 DEF EndFlight, TypeOK
<1>2. ASSUME NEW h \in Gateways, NEW d \in Codes, flight'[h][d] # NoLeader
      PROVE  LET q == flight'[h][d] IN
             pc'[q] \in Leading /\ GatewayOf[q] = h /\ code'[q] = d
  <2>1. /\ flight'[h][d] = flight[h][d] /\ flight[h][d] \in Procs
        /\ ~(h = g /\ d = c)
    BY <1>1, <1>2 DEF TypeOK
  <2>2. LET q == flight[h][d] IN
        pc[q] \in Leading /\ GatewayOf[q] = h /\ code[q] = d
    BY <1>2, <2>1 DEF FlightsConsistent
  <2>3. flight[h][d] # p /\ flight[h][d] \notin Waiters(p)
    BY <2>1, <2>2 DEF Waiters, Leading
  <2> QED
    BY <1>1, <2>1, <2>2, <2>3
<1>3. ASSUME NEW q \in Procs
      PROVE  /\ pc'[q] \in Leading => flight'[GatewayOf[q]][code'[q]] = q
             /\ pc'[q] = "wait" => flight'[GatewayOf[q]][code'[q]] # NoLeader
  <2>1. GatewayOf[q] \in Gateways /\ code[q] \in Codes
    BY GatewayAssumption DEF TypeOK
  <2>2. CASE q = p \/ q \in Waiters(p)
    BY <1>1, <2>2 DEF Leading
  <2>3. CASE ~(q = p \/ q \in Waiters(p))
    <3>1. ASSUME pc[q] \in Leading \cup {"wait"}
          PROVE  ~(GatewayOf[q] = g /\ code[q] = c)
      BY <1>0, <2>3, <3>1 DEF FlightsConsistent, Waiters
    <3> QED
      BY <1>1, <2>1, <2>3, <3>1 DEF FlightsConsistent
  <2> QED
    BY <2>2, <2>3
<1> QED
  BY <1>2, <1>3 DEF FlightsConsistent

\* Every step leaves the group consistent.
LEMMA FlightStep == TypeOK /\ FlightsConsistent /\ [Next]_vars => FlightsConsistent'
<1> SUFFICES ASSUME TypeOK, FlightsConsistent, [Next]_vars
             PROVE  FlightsConsistent'
  OBVIOUS
<1> USE DEF Leading
<1>1. ASSUME NEW p \in Procs, NEW c \in Codes,
             \/ GetByCode(p, c) \/ CreateConflict(p, c)
             \/ Delete(p, c) \/ DeleteMissing(p, c) \/ DeleteFails(p, c)
             \/ \E u \in Links : Create(p, c, u) \/ CreateFails(p, c, u)
      PROVE  FlightsConsistent'
  <2>1. \E l \in {"enter", "reply", "set", "del"} : pc' = [pc EXCEPT ![p] = l]
    BY <1>1 DEF GetByCode, CreateConflict, Delete, DeleteMissing, DeleteFails,
                Create, CreateFails, Go
  <2>2. pc[p] = "idle" /\ flight' = flight /\ code' = [code EXCEPT ![p] = c]
    BY <1>1 DEF GetByCode, CreateConflict, Delete, DeleteMissing, DeleteFails,
                Create, CreateFails
  <2> QED
    BY <2>1, <2>2, FlightFrame DEF TypeOK
<1>2. ASSUME NEW p \in Procs, CreateCacheSet(p) \/ DeleteCacheDel(p) \/ Reply(p)
      PROVE  FlightsConsistent'
  <2>1. /\ \E l \in {"reply", "idle"} : pc' = [pc EXCEPT ![p] = l]
        /\ pc[p] \in {"set", "del", "reply"} /\ flight' = flight
        /\ code' = code \/ code' = [code EXCEPT ![p] = AnyCode]
    BY <1>2 DEF CreateCacheSet, DeleteCacheDel, Reply, Go
  <2> QED
    BY <2>1, FlightFrame DEF TypeOK
<1>3. ASSUME NEW p \in Procs, ReCheck(p) \/ Query(p) \/ RewriteCache(p)
      PROVE  FlightsConsistent'
  <2>1. /\ \E l \in {"finish", "query", "fill"} : pc' = [pc EXCEPT ![p] = l]
        /\ pc[p] \in Leading /\ flight' = flight /\ code' = code
    BY <1>3 DEF ReCheck, Query, RewriteCache, Go
  <2> QED
    BY <2>1, FlightLead
<1>4. ASSUME NEW p \in Procs, JoinFlight(p) PROVE FlightsConsistent'
  BY <1>4, FlightJoin
<1>5. ASSUME NEW p \in Procs, EndFlight(p) PROVE FlightsConsistent'
  BY <1>5, FlightEnd
<1>6. ASSUME UNCHANGED <<flight, pc, code>> PROVE FlightsConsistent'
  BY <1>6 DEF FlightsConsistent
<1> QED
  BY <1>1, <1>2, <1>3, <1>4, <1>5, <1>6 DEF Next, Step, Expire, Land, vars

\* The group is always consistent: one handler per call, and no handler waits
\* for a call that is not there.
THEOREM FlightsStayConsistent == Spec => []FlightsConsistent
<1>1. Init => FlightsConsistent
  BY GatewayAssumption, AnyCodeType DEF Init, FlightsConsistent, Leading
<1> QED
  BY <1>1, FlightStep, TypeCorrect, PTL DEF Spec

-----------------------------------------------------------------------------
\* Redis executes a command that carries a former row, or DEL.
LEMMA AnswerExecute ==
  ASSUME TypeOK, AnswerInv, NEW c \in Codes, NEW e \in once[c] \cup {Empty},
         Execute(c, e), once' = once
  PROVE  \A d \in Codes : redis'[d] \in once'[d] \cup {Empty}
BY DEF TypeOK, AnswerInv, EveryAnswerWasOnceTrue, Execute

\* The same for a command that may be lost or delayed.
LEMMA AnswerWrite ==
  ASSUME TypeOK, AnswerInv, NEW c \in Codes, NEW e \in once[c] \cup {Empty},
         CacheWrite(c, e), once' = once
  PROVE  /\ \A d \in Codes : redis'[d] \in once'[d] \cup {Empty}
         /\ \A m \in late' : m.entry \in once'[m.code] \cup {Empty}
<1>1. CASE Execute(c, e) /\ UNCHANGED <<late, suspect>>
  BY <1>1, AnswerExecute DEF AnswerInv, EveryAnswerWasOnceTrue
<1>2. CASE UNCHANGED <<redis, late>>
  BY <1>2 DEF AnswerInv, EveryAnswerWasOnceTrue
<1>3. CASE UNCHANGED redis /\ late' = late \cup {[code |-> c, entry |-> e]}
  BY <1>3 DEF AnswerInv, EveryAnswerWasOnceTrue
<1> QED
  BY <1>1, <1>2, <1>3 DEF CacheWrite

\* A handler takes up a former row of its code, or an error.
LEMMA AnswerGo ==
  ASSUME TypeOK, AnswerInv, NEW p \in Procs, NEW l, NEW v, Go(p, l, v),
         \A d \in Codes : once[d] \subseteq once'[d],
         \/ code' = code
         \/ \E c \in Codes : code' = [code EXCEPT ![p] = c],
         v \in once'[code'[p]] \cup {Empty, Failed}
  PROVE  \A q \in Procs : val'[q] \in once'[code'[q]] \cup {Empty, Failed}
<1>1. \A q \in Procs : val'[q] = IF q = p THEN v ELSE val[q]
  BY DEF Go, TypeOK
<1>2. \A q \in Procs : q # p => code'[q] = code[q] /\ code[q] \in Codes
  BY DEF TypeOK
<1> QED
  BY <1>1, <1>2 DEF AnswerInv, EveryAnswerWasOnceTrue

\* A committed statement adds to the former rows.
LEMMA AnswerCommit ==
  ASSUME TypeOK, AnswerInv, NEW c \in Codes, NEW v, Commit(c, v),
         redis' = redis, late' = late
  PROVE  /\ \A d \in Codes : once[d] \subseteq once'[d] /\ db'[d] \in once'[d]
         /\ v \in once'[c]
         /\ \A d \in Codes : redis'[d] \in once'[d] \cup {Empty}
         /\ \A m \in late' : m.entry \in once'[m.code] \cup {Empty}
<1>1. /\ \A d \in Codes : once[d] \subseteq once'[d] /\ db'[d] \in once'[d]
      /\ v \in once'[c]
  BY DEF TypeOK, AnswerInv, Commit
<1>2. \A m \in late : m.code \in Codes
  BY DEF TypeOK
<1> QED
  BY <1>1, <1>2 DEF AnswerInv, EveryAnswerWasOnceTrue

\* AnswerInv is inductive.
LEMMA AnswerStep == TypeInv /\ AnswerInv /\ [Next]_vars => AnswerInv'
<1> SUFFICES ASSUME TypeInv, AnswerInv, [Next]_vars PROVE AnswerInv'
  OBVIOUS
<1>0. TypeOK
  BY DEF TypeInv
<1> USE <1>0
<1>1. ASSUME NEW p \in Procs, NEW c \in Codes,
             \/ GetByCode(p, c) \/ CreateConflict(p, c) \/ DeleteMissing(p, c)
      PROVE  AnswerInv'
  <2>1. /\ code' = [code EXCEPT ![p] = c] /\ UNCHANGED <<db, redis, late, once>>
    BY <1>1 DEF GetByCode, CreateConflict, DeleteMissing
  <2>2. \E l \in PCs, v \in once[c] \cup {Empty, Failed} : Go(p, l, v)
    <3>1. redis[c] \in once[c] \cup {Empty} /\ db[c] \in once[c]
      BY DEF AnswerInv, EveryAnswerWasOnceTrue
    <3> QED
      BY <1>1, <3>1 DEF GetByCode, CreateConflict, DeleteMissing, CacheReads, PCs
  <2>3. code'[p] = c
    BY <2>1 DEF TypeOK
  <2>4. \A q \in Procs : val'[q] \in once'[code'[q]] \cup {Empty, Failed}
    BY <2>1, <2>2, <2>3, AnswerGo
  <2> QED
    BY <2>1, <2>4 DEF AnswerInv, EveryAnswerWasOnceTrue
<1>2. ASSUME NEW p \in Procs, NEW c \in Codes, NEW v, NEW r, NEW l,
             Commit(c, v), Go(p, l, r), r \in {v, Failed},
             code' = [code EXCEPT ![p] = c], UNCHANGED <<redis, late>>
      PROVE  AnswerInv'
  <2>1. code'[p] = c
    BY <1>2 DEF TypeOK
  <2>2. \A q \in Procs : val'[q] \in once'[code'[q]] \cup {Empty, Failed}
    BY <1>2, <2>1, AnswerCommit, AnswerGo
  <2> QED
    BY <1>2, <2>2, AnswerCommit DEF AnswerInv, EveryAnswerWasOnceTrue
<1>3. ASSUME NEW p \in Procs, NEW c \in Codes, NEW l, Go(p, l, Failed),
             code' = [code EXCEPT ![p] = c], UNCHANGED <<db, redis, late, once>>
      PROVE  AnswerInv'
  <2>1. \A q \in Procs : val'[q] \in once'[code'[q]] \cup {Empty, Failed}
    BY <1>3, AnswerGo
  <2> QED
    BY <1>3, <2>1 DEF AnswerInv, EveryAnswerWasOnceTrue
<1>4. ASSUME NEW p \in Procs, NEW c \in Codes, Delete(p, c) \/ DeleteFails(p, c)
      PROVE  AnswerInv'
  BY <1>4, <1>2, <1>3 DEF Delete, DeleteFails
<1>5. ASSUME NEW p \in Procs, NEW c \in Codes, NEW u \in Links,
             Create(p, c, u) \/ CreateFails(p, c, u)
      PROVE  AnswerInv'
  BY <1>5, <1>2, <1>3 DEF Create, CreateFails
<1>6. ASSUME NEW p \in Procs, ReCheck(p) \/ Query(p) \/ Reply(p)
      PROVE  AnswerInv'
  <2>1. code[p] \in Codes /\ UNCHANGED <<db, redis, late, once>>
    BY <1>6 DEF ReCheck, Query, Reply, TypeOK
  <2>2. redis[code[p]] \in once[code[p]] \cup {Empty} /\ db[code[p]] \in once[code[p]]
    BY <2>1 DEF AnswerInv, EveryAnswerWasOnceTrue
  <2>3. CASE ReCheck(p) \/ Query(p)
    <3>1. \E l \in PCs, v \in once[code[p]] \cup {Empty, Failed} : Go(p, l, v)
      BY <2>2, <2>3 DEF ReCheck, Query, PCs
    <3>2. code' = code
      BY <2>3 DEF ReCheck, Query
    <3>3. \A q \in Procs : val'[q] \in once'[code'[q]] \cup {Empty, Failed}
      BY <2>1, <3>1, <3>2, AnswerGo
    <3> QED
      BY <2>1, <3>3 DEF AnswerInv, EveryAnswerWasOnceTrue
  <2>4. CASE Reply(p)
    <3>1. Go(p, "idle", Empty) /\ code' = [code EXCEPT ![p] = AnyCode]
      BY <2>4 DEF Reply
    <3>2. \A q \in Procs : val'[q] \in once'[code'[q]] \cup {Empty, Failed}
      BY <2>1, <3>1, AnswerGo, AnyCodeType
    <3> QED
      BY <2>1, <3>2 DEF AnswerInv, EveryAnswerWasOnceTrue
  <2> QED
    BY <1>6, <2>3, <2>4
<1>7. ASSUME NEW p \in Procs, RewriteCache(p) \/ CreateCacheSet(p)
      PROVE  AnswerInv'
  <2>1. /\ CacheWrite(code[p], val[p]) /\ UNCHANGED <<db, code, val, once>>
        /\ pc[p] \in {"fill", "set"}
    BY <1>7 DEF RewriteCache, CreateCacheSet
  <2>2. code[p] \in Codes /\ val[p] \in Rows
    BY <2>1 DEF TypeInv, TypeOK
  <2>3. val[p] \in once[code[p]]
    BY <2>2, ValuesAssumption
       DEF AnswerInv, EveryAnswerWasOnceTrue, Rows, Entries
  <2> QED
    BY <2>1, <2>2, <2>3, AnswerWrite DEF AnswerInv, EveryAnswerWasOnceTrue
<1>8. ASSUME NEW p \in Procs, DeleteCacheDel(p) PROVE AnswerInv'
  <2>1. /\ CacheWrite(code[p], Empty) /\ UNCHANGED <<db, code, val, once>>
        /\ code[p] \in Codes
    BY <1>8 DEF DeleteCacheDel, TypeOK
  <2> QED
    BY <2>1, AnswerWrite DEF AnswerInv, EveryAnswerWasOnceTrue
<1>9. ASSUME NEW p \in Procs, EndFlight(p) PROVE AnswerInv'
  <2>1. \A q \in Procs : val'[q] \in once'[code'[q]] \cup {Empty, Failed}
    BY <1>9 DEF EndFlight, Waiters, AnswerInv, EveryAnswerWasOnceTrue
  <2> QED
    BY <1>9, <2>1 DEF EndFlight, AnswerInv, EveryAnswerWasOnceTrue
<1>10. ASSUME NEW c \in Codes, Expire(c) PROVE AnswerInv'
  BY <1>10, AnswerExecute DEF Expire, AnswerInv, EveryAnswerWasOnceTrue
<1>11. ASSUME NEW m \in late, Land(m) PROVE AnswerInv'
  <2>1. m.code \in Codes /\ m.entry \in once[m.code] \cup {Empty}
    BY DEF TypeOK, AnswerInv, EveryAnswerWasOnceTrue
  <2> QED
    BY <1>11, <2>1, AnswerExecute DEF Land, AnswerInv, EveryAnswerWasOnceTrue
<1>12. ASSUME UNCHANGED <<db, redis, code, val, late, once>> PROVE AnswerInv'
  BY <1>12 DEF AnswerInv, EveryAnswerWasOnceTrue
<1> QED
  BY <1>1, <1>4, <1>5, <1>6, <1>7, <1>8, <1>9, <1>10, <1>11, <1>12
     DEF Next, Step, JoinFlight, vars

\* Whatever the gateways serve, with any number of handlers and any faults of
\* Redis and PostgreSQL, was once the row of that code: cache-aside fills,
\* write-throughs, invalidations and delayed commands never invent a value.
THEOREM AnswersWereOnceTrue == Spec => []EveryAnswerWasOnceTrue
<1>1. Init => AnswerInv
  BY AnyCodeType DEF Init, AnswerInv, EveryAnswerWasOnceTrue
<1>2. AnswerInv => EveryAnswerWasOnceTrue
  BY DEF AnswerInv
<1> QED
  BY <1>1, <1>2, TypeInit, TypeStep, AnswerStep, PTL DEF Spec

-----------------------------------------------------------------------------
\* Redis executes a command: the entry is there afterwards, or the pairs of
\* its code are forgotten.
LEMMA QueryExecute ==
  ASSUME TypeOK, NEW c \in Codes, NEW e \in Entries, Execute(c, e)
  PROVE  \A g \in Gateways, d \in Codes :
           <<g, d>> \in queried' =>
             /\ <<g, d>> \in queried
             /\ redis[d] # Empty \/ (d = c /\ e # Empty) => redis'[d] # Empty
BY DEF TypeOK, Execute, Forget

\* The same for a command that may be lost or delayed.
LEMMA QueryWrite ==
  ASSUME TypeOK, NEW c \in Codes, NEW e \in Entries, CacheWrite(c, e)
  PROVE  \A g \in Gateways, d \in Codes :
           <<g, d>> \in queried' =>
             /\ <<g, d>> \in queried
             /\ redis[d] # Empty \/ (d = c /\ e # Empty) => redis'[d] # Empty
<1>1. CASE Execute(c, e)
  BY <1>1, QueryExecute
<1>2. CASE UNCHANGED redis /\ Forget(c)
  BY <1>2 DEF Forget
<1> QED
  BY <1>1, <1>2 DEF CacheWrite

\* A handler outside the callback moves without entering it.
LEMMA QueryFrame ==
  ASSUME TypeOK, FlightsConsistent, QueryInv, NEW p \in Procs, NEW l,
         pc[p] \notin Leading, l # "query", pc' = [pc EXCEPT ![p] = l],
         \A q \in Procs : q # p => code'[q] = code[q], flight' = flight,
         \A g \in Gateways, d \in Codes :
           <<g, d>> \in queried' =>
             <<g, d>> \in queried /\ (redis[d] # Empty => redis'[d] # Empty)
  PROVE  QueryInv'
<1>1. \A q \in Procs : pc'[q] = IF q = p THEN l ELSE pc[q]
  BY DEF TypeOK
<1>2. \A q \in Procs : GatewayOf[q] \in Gateways /\ code[q] \in Codes
  BY GatewayAssumption DEF TypeOK
<1>3. OneQueryPerFill'
  BY <1>1, <1>2 DEF OneQueryPerFill, QueryInv
<1>4. ASSUME NEW g \in Gateways, NEW c \in Codes, <<g, c>> \in queried'
      PROVE  \/ redis'[c] # Empty
             \/ flight'[g][c] # NoLeader /\ pc'[flight'[g][c]] = "fill"
  <2>1. flight[g][c] # NoLeader => flight[g][c] \in Procs /\ flight[g][c] # p
    BY DEF TypeOK, FlightsConsistent
  <2> QED
    BY <1>1, <1>4, <2>1 DEF QueryInv
<1> QED
  BY <1>3, <1>4 DEF QueryInv

\* QueryInv is inductive, given the consistency of the group.
LEMMA QueryStep ==
  TypeInv /\ FlightsConsistent /\ QueryInv /\ [Next]_vars => QueryInv'
<1> SUFFICES ASSUME TypeInv, FlightsConsistent, QueryInv, [Next]_vars
             PROVE  QueryInv'
  OBVIOUS
<1>0. TypeOK /\ \A q \in Procs : /\ GatewayOf[q] \in Gateways
                                 /\ code[q] \in Codes /\ q # NoLeader
  BY GatewayAssumption, ValuesAssumption DEF TypeInv, TypeOK
<1> USE <1>0
<1>1. ASSUME NEW p \in Procs, NEW c \in Codes,
             \/ GetByCode(p, c) \/ CreateConflict(p, c)
             \/ Delete(p, c) \/ DeleteMissing(p, c) \/ DeleteFails(p, c)
             \/ \E u \in Links : Create(p, c, u) \/ CreateFails(p, c, u)
      PROVE  QueryInv'
  <2>1. \E l \in {"enter", "reply", "set", "del"} : pc' = [pc EXCEPT ![p] = l]
    BY <1>1 DEF GetByCode, CreateConflict, Delete, DeleteMissing, DeleteFails,
                Create, CreateFails, Go
  <2>2. /\ pc[p] = "idle" /\ UNCHANGED <<flight, redis, queried>>
        /\ code' = [code EXCEPT ![p] = c]
    BY <1>1 DEF GetByCode, CreateConflict, Delete, DeleteMissing, DeleteFails,
                Create, CreateFails
  <2>3. \A q \in Procs : q # p => code'[q] = code[q]
    BY <2>2 DEF TypeOK
  <2> QED
    BY <2>1, <2>2, <2>3, QueryFrame DEF Leading
<1>2. ASSUME NEW p \in Procs, Reply(p) PROVE QueryInv'
  <2>1. /\ pc' = [pc EXCEPT ![p] = "idle"] /\ pc[p] = "reply"
        /\ UNCHANGED <<flight, redis, queried>>
        /\ code' = [code EXCEPT ![p] = AnyCode]
    BY <1>2 DEF Reply, Go
  <2>2. \A q \in Procs : q # p => code'[q] = code[q]
    BY <2>1 DEF TypeOK
  <2> QED
    BY <2>1, <2>2, QueryFrame DEF Leading
<1>3. ASSUME NEW p \in Procs, CreateCacheSet(p) \/ DeleteCacheDel(p)
      PROVE  QueryInv'
  <2>1. /\ pc' = [pc EXCEPT ![p] = "reply"] /\ pc[p] \in {"set", "del"}
        /\ flight' = flight /\ code' = code
    BY <1>3 DEF CreateCacheSet, DeleteCacheDel
  <2>2. \E e \in Entries : CacheWrite(code[p], e)
    BY <1>3, ValueSets DEF CreateCacheSet, DeleteCacheDel, TypeInv
  <2> QED
    BY <2>1, <2>2, QueryWrite, QueryFrame DEF Leading
<1>4. ASSUME NEW p \in Procs, JoinFlight(p) PROVE QueryInv'
  <2>1. CASE flight[GatewayOf[p]][code[p]] # NoLeader
    <3>1. /\ pc' = [pc EXCEPT ![p] = "wait"] /\ pc[p] = "enter"
          /\ UNCHANGED <<flight, redis, queried, code>>
      BY <1>4, <2>1 DEF JoinFlight
    <3> QED
      BY <3>1, QueryFrame DEF Leading
  <2>2. CASE flight[GatewayOf[p]][code[p]] = NoLeader
    <3>1. /\ \A q \in Procs : pc'[q] = IF q = p THEN "recheck" ELSE pc[q]
          /\ \A h \in Gateways, d \in Codes :
               flight'[h][d] = IF h = GatewayOf[p] /\ d = code[p]
                                 THEN p ELSE flight[h][d]
          /\ pc[p] = "enter" /\ UNCHANGED <<redis, queried, code>>
      BY <1>4, <2>2 DEF JoinFlight, TypeOK
    <3>2. OneQueryPerFill'
      BY <3>1 DEF OneQueryPerFill, QueryInv
    <3>3. ASSUME NEW g \in Gateways, NEW c \in Codes, <<g, c>> \in queried'
          PROVE  \/ redis'[c] # Empty
                 \/ flight'[g][c] # NoLeader /\ pc'[flight'[g][c]] = "fill"
      <4>1. /\ flight[g][c] # NoLeader => flight[g][c] \in Procs
            /\ \/ redis[c] # Empty
               \/ flight[g][c] # NoLeader /\ pc[flight[g][c]] = "fill"
        BY <3>1, <3>3 DEF QueryInv, TypeOK
      <4> QED
        BY <2>2, <3>1, <4>1
    <3> QED
      BY <3>2, <3>3 DEF QueryInv
  <2> QED
    BY <2>1, <2>2
<1>5. ASSUME NEW p \in Procs, ReCheck(p) PROVE QueryInv'
  <2>1. /\ \/ pc' = [pc EXCEPT ![p] = "finish"] /\ queried' = queried
           \/ /\ pc' = [pc EXCEPT ![p] = "query"]
              /\ queried' = queried \ {<<GatewayOf[p], code[p]>>}
        /\ pc[p] = "recheck" /\ UNCHANGED <<flight, redis, code>>
    BY <1>5 DEF ReCheck, Go
  <2>2. OneQueryPerFill'
    BY <2>1 DEF OneQueryPerFill, QueryInv, TypeOK
  <2>3. ASSUME NEW g \in Gateways, NEW c \in Codes, <<g, c>> \in queried'
        PROVE  \/ redis'[c] # Empty
               \/ flight'[g][c] # NoLeader /\ pc'[flight'[g][c]] = "fill"
    <3>1. flight[g][c] # NoLeader => flight[g][c] \in Procs
      BY DEF TypeOK
    <3>2. \/ redis[c] # Empty
          \/ flight[g][c] # NoLeader /\ pc[flight[g][c]] = "fill"
      BY <2>1, <2>3 DEF QueryInv
    <3> QED
      BY <2>1, <3>1, <3>2 DEF TypeOK
  <2> QED
    BY <2>2, <2>3 DEF QueryInv
<1>6. ASSUME NEW p \in Procs, Query(p) PROVE QueryInv'
  <2>1. /\ \/ /\ pc' = [pc EXCEPT ![p] = "fill"]
              /\ queried' = queried \cup {<<GatewayOf[p], code[p]>>}
           \/ pc' = [pc EXCEPT ![p] = "finish"] /\ queried' = queried
        /\ pc[p] = "query" /\ UNCHANGED <<flight, redis, code>>
    BY <1>6 DEF Query, Go
  <2>2. flight[GatewayOf[p]][code[p]] = p
    BY <2>1 DEF FlightsConsistent, Leading
  <2>3. OneQueryPerFill'
    <3> SUFFICES ASSUME NEW q \in Procs, pc'[q] = "query"
                 PROVE  <<GatewayOf[q], code[q]>> \notin queried'
      BY <2>1 DEF OneQueryPerFill
    <3>1. q # p /\ pc[q] = "query"
      BY <2>1 DEF TypeOK
    <3>2. flight[GatewayOf[q]][code[q]] = q
      BY <3>1 DEF FlightsConsistent, Leading
    <3> QED
      BY <2>1, <2>2, <3>1, <3>2 DEF OneQueryPerFill, QueryInv
  <2>4. ASSUME NEW g \in Gateways, NEW c \in Codes, <<g, c>> \in queried'
        PROVE  \/ redis'[c] # Empty
               \/ flight'[g][c] # NoLeader /\ pc'[flight'[g][c]] = "fill"
    <3>1. CASE <<g, c>> \in queried
      <4>1. flight[g][c] # NoLeader => flight[g][c] \in Procs
        BY DEF TypeOK
      <4>2. \/ redis[c] # Empty
            \/ flight[g][c] # NoLeader /\ pc[flight[g][c]] = "fill"
        BY <3>1 DEF QueryInv
      <4> QED
        BY <2>1, <4>1, <4>2 DEF TypeOK
    <3>2. CASE <<g, c>> \notin queried
      <4>1. g = GatewayOf[p] /\ c = code[p] /\ pc' = [pc EXCEPT ![p] = "fill"]
        BY <2>1, <2>4, <3>2
      <4> QED
        BY <2>1, <2>2, <4>1 DEF TypeOK
    <3> QED
      BY <3>1, <3>2
  <2> QED
    BY <2>3, <2>4 DEF QueryInv
<1>7. ASSUME NEW p \in Procs, RewriteCache(p) PROVE QueryInv'
  <2>1. /\ pc' = [pc EXCEPT ![p] = "finish"] /\ pc[p] = "fill"
        /\ CacheWrite(code[p], val[p]) /\ UNCHANGED <<flight, code>>
    BY <1>7 DEF RewriteCache
  <2>2. val[p] \in Entries /\ val[p] # Empty
    BY <2>1, ValueSets, ValuesAssumption DEF TypeInv
  <2>3. \A g \in Gateways, d \in Codes :
          <<g, d>> \in queried' =>
            /\ <<g, d>> \in queried
            /\ redis[d] # Empty \/ d = code[p] => redis'[d] # Empty
    BY <2>1, <2>2, QueryWrite
  <2>4. OneQueryPerFill'
    BY <2>1, <2>3 DEF OneQueryPerFill, QueryInv, TypeOK
  <2>5. ASSUME NEW g \in Gateways, NEW c \in Codes, <<g, c>> \in queried'
        PROVE  \/ redis'[c] # Empty
               \/ flight'[g][c] # NoLeader /\ pc'[flight'[g][c]] = "fill"
    <3>1. \/ redis[c] # Empty
          \/ flight[g][c] # NoLeader /\ pc[flight[g][c]] = "fill"
      BY <2>3, <2>5 DEF QueryInv
    <3>2. flight[g][c] # NoLeader =>
            flight[g][c] \in Procs /\ (flight[g][c] = p => c = code[p])
      BY DEF TypeOK, FlightsConsistent
    <3> QED
      BY <2>1, <2>3, <2>5, <3>1, <3>2 DEF TypeOK
  <2> QED
    BY <2>4, <2>5 DEF QueryInv
<1>8. ASSUME NEW p \in Procs, EndFlight(p) PROVE QueryInv'
  <2>1. /\ \A q \in Procs :
             pc'[q] = IF q = p \/ q \in Waiters(p) THEN "reply" ELSE pc[q]
        /\ \A h \in Gateways, d \in Codes :
             flight'[h][d] = IF h = GatewayOf[p] /\ d = code[p]
                               THEN NoLeader ELSE flight[h][d]
        /\ pc[p] = "finish" /\ UNCHANGED <<redis, queried, code>>
    BY <1>8 DEF EndFlight, TypeOK
  <2>2. flight[GatewayOf[p]][code[p]] = p
    BY <2>1 DEF FlightsConsistent, Leading
  <2>3. OneQueryPerFill'
    BY <2>1 DEF OneQueryPerFill, QueryInv
  <2>4. ASSUME NEW g \in Gateways, NEW c \in Codes, <<g, c>> \in queried'
        PROVE  \/ redis'[c] # Empty
               \/ flight'[g][c] # NoLeader /\ pc'[flight'[g][c]] = "fill"
    <3>1. /\ flight[g][c] # NoLeader => flight[g][c] \in Procs
          /\ \/ redis[c] # Empty
             \/ flight[g][c] # NoLeader /\ pc[flight[g][c]] = "fill"
      BY <2>1, <2>4 DEF QueryInv, TypeOK
    <3> QED
      BY <2>1, <2>2, <3>1 DEF Waiters
  <2> QED
    BY <2>3, <2>4 DEF QueryInv
<1>9. ASSUME NEW c \in Codes, NEW e \in Entries, Execute(c, e),
             UNCHANGED <<flight, pc, code>>
      PROVE  QueryInv'
  <2>1. \A g \in Gateways, d \in Codes :
          <<g, d>> \in queried' =>
            <<g, d>> \in queried /\ (redis[d] # Empty => redis'[d] # Empty)
    BY <1>9, QueryExecute
  <2> QED
    BY <1>9, <2>1 DEF QueryInv, OneQueryPerFill
<1>10. ASSUME NEW c \in Codes, Expire(c) PROVE QueryInv'
  BY <1>9, <1>10, ValueSets DEF Expire
<1>11. ASSUME NEW m \in late, Land(m) PROVE QueryInv'
  <2>1. m.code \in Codes /\ m.entry \in Entries
    BY DEF TypeOK
  <2> QED
    BY <1>9, <1>11, <2>1 DEF Land
<1>12. CASE UNCHANGED vars
  BY <1>12 DEF vars, QueryInv, OneQueryPerFill
<1> QED
  BY <1>1, <1>2, <1>3, <1>4, <1>5, <1>6, <1>7, <1>8, <1>10, <1>11, <1>12
     DEF Next, Step

\* The double check inside singleflight works for any number of handlers and
\* gateways: a gateway never repeats a SELECT while the entry that its last
\* SELECT wrote is still in the cache.
THEOREM NoStampede == Spec => []OneQueryPerFill
<1>1. Init => QueryInv
  BY DEF Init, QueryInv, OneQueryPerFill
<1>2. QueryInv => OneQueryPerFill
  BY DEF QueryInv
<1> QED
  BY <1>1, <1>2, TypeInit, TypeStep, FlightsStayConsistent, QueryStep, PTL
     DEF Spec

-----------------------------------------------------------------------------
\* What CoherenceInv says of one code.
Coherent(c) ==
  /\ \/ redis[c] \in {db[c], Empty}
     \/ \E p \in Procs : pc[p] \in {"set", "del"} /\ code[p] = c
  /\ \A m \in late : m.code # c
  /\ \A p \in Procs : code[p] = c =>
       /\ pc[p] \in {"fill", "set"} => val[p] = db[c]
       /\ pc[p] = "del" => db[c] = NotFound

\* CoherenceInv speaks of each code that is above suspicion.
LEMMA CoherenceByCode == CoherenceInv <=> \A c \in Codes \ suspect : Coherent(c)
BY DEF CoherenceInv, CoherentUnlessSuspect, Coherent

\* A step of handler p that neither starts nor ends a write, and that leaves
\* the row and the entry alone.
LEMMA CoherenceFrame ==
  ASSUME TypeOK, CoherenceInv, NEW p \in Procs, NEW l, NEW v,
         pc[p] \notin {"set", "del"}, l \notin {"fill", "set", "del"},
         Go(p, l, v), \A q \in Procs : q # p => code'[q] = code[q],
         UNCHANGED <<db, redis, late, suspect>>
  PROVE  CoherenceInv'
<1>1. \A q \in Procs : /\ pc'[q] = IF q = p THEN l ELSE pc[q]
                       /\ val'[q] = IF q = p THEN v ELSE val[q]
  BY DEF Go, TypeOK
<1>2. ASSUME NEW c \in Codes, Coherent(c) PROVE Coherent(c)'
  BY <1>1, <1>2 DEF Coherent
<1> QED
  BY <1>2, CoherenceByCode DEF CoherenceInv, CoherentUnlessSuspect, Coherent

\* CoherenceInv is inductive.
LEMMA CoherenceStep == TypeInv /\ CoherenceInv /\ [Next]_vars => CoherenceInv'
<1> SUFFICES ASSUME TypeInv, CoherenceInv, [Next]_vars PROVE CoherenceInv'
  OBVIOUS
<1>0. TypeOK /\ \A c \in Codes \ suspect : Coherent(c)
  BY CoherenceByCode DEF TypeInv
<1> USE <1>0
<1>a. ASSUME \A c \in Codes \ suspect' : Coherent(c)' PROVE CoherenceInv'
  BY <1>a DEF CoherenceInv, CoherentUnlessSuspect, Coherent
<1>1. ASSUME NEW p \in Procs, NEW c \in Codes,
             \/ GetByCode(p, c) \/ CreateConflict(p, c) \/ DeleteMissing(p, c)
      PROVE  CoherenceInv'
  <2>1. /\ code' = [code EXCEPT ![p] = c] /\ pc[p] = "idle"
        /\ UNCHANGED <<db, redis, late, suspect>>
    BY <1>1 DEF GetByCode, CreateConflict, DeleteMissing
  <2>2. \E l \in {"enter", "reply"}, v \in Values : Go(p, l, v)
    BY <1>1, ValueSets
       DEF GetByCode, CreateConflict, DeleteMissing, CacheReads, TypeOK
  <2>3. \A q \in Procs : q # p => code'[q] = code[q]
    BY <2>1 DEF TypeOK
  <2> QED
    BY <2>1, <2>2, <2>3, CoherenceFrame
<1>2. ASSUME NEW p \in Procs, ReCheck(p) \/ Reply(p) PROVE CoherenceInv'
  <2>1. /\ \E l \in {"finish", "query", "idle"}, v \in Values : Go(p, l, v)
        /\ pc[p] \in {"recheck", "reply"}
        /\ UNCHANGED <<db, redis, late, suspect>>
    BY <1>2, ValueSets DEF ReCheck, Reply, TypeOK
  <2>2. \A q \in Procs : q # p => code'[q] = code[q]
    BY <1>2 DEF ReCheck, Reply, TypeOK
  <2> QED
    BY <2>1, <2>2, CoherenceFrame
<1>3. ASSUME NEW p \in Procs, JoinFlight(p) PROVE CoherenceInv'
  <2>1. /\ \E l \in {"recheck", "wait"} : pc' = [pc EXCEPT ![p] = l]
        /\ pc[p] = "enter" /\ UNCHANGED <<db, redis, code, val, late, suspect>>
    BY <1>3 DEF JoinFlight
  <2>2. ASSUME NEW c \in Codes \ suspect' PROVE Coherent(c)'
    BY <2>1 DEF Coherent, TypeOK
  <2> QED
    BY <2>2, <1>a
<1>4. ASSUME NEW p \in Procs, Query(p) PROVE CoherenceInv'
  <2>1. CASE Go(p, "finish", Failed)
    BY <1>4, <2>1, CoherenceFrame DEF Query
  <2>2. CASE Go(p, "fill", db[code[p]])
    <3>1. /\ \A q \in Procs : /\ pc'[q] = IF q = p THEN "fill" ELSE pc[q]
                              /\ val'[q] = IF q = p THEN db[code[p]] ELSE val[q]
          /\ pc[p] = "query" /\ UNCHANGED <<db, redis, code, late, suspect>>
      BY <1>4, <2>2 DEF Query, Go, TypeOK
    <3>2. ASSUME NEW c \in Codes \ suspect' PROVE Coherent(c)'
      BY <3>1 DEF Coherent
    <3> QED
      BY <3>2, <1>a
  <2> QED
    BY <1>4, <2>1, <2>2 DEF Query
<1>5. ASSUME NEW p \in Procs, EndFlight(p) PROVE CoherenceInv'
  <2>1. /\ \A q \in Procs :
             /\ pc'[q] = IF q = p \/ q \in Waiters(p) THEN "reply" ELSE pc[q]
             /\ val'[q] = IF q \in Waiters(p) THEN val[p] ELSE val[q]
        /\ pc[p] = "finish" /\ UNCHANGED <<db, redis, code, late, suspect>>
    BY <1>5 DEF EndFlight
  <2>2. ASSUME NEW c \in Codes \ suspect' PROVE Coherent(c)'
    BY <2>1 DEF Coherent, Waiters
  <2> QED
    BY <2>2, <1>a
\* The cache writes: what a handler writes agrees with the row.
<1>6. ASSUME NEW p \in Procs, NEW e \in Entries, NEW l,
             CacheWrite(code[p], e), UNCHANGED <<db, code, val>>,
             pc' = [pc EXCEPT ![p] = l], l \notin {"fill", "set", "del"},
             \/ pc[p] \in {"fill", "set"} /\ e = val[p]
             \/ pc[p] = "del" /\ e = Empty
      PROVE  CoherenceInv'
  <2>0. code[p] \in Codes /\ \A q \in Procs : pc'[q] = IF q = p THEN l ELSE pc[q]
    BY <1>6 DEF TypeOK
  <2>1. CASE Execute(code[p], e) /\ UNCHANGED <<late, suspect>>
    <3>1. \A d \in Codes : redis'[d] = IF d = code[p] THEN e ELSE redis[d]
      BY <2>1 DEF Execute, TypeOK
    <3>2. ASSUME NEW c \in Codes \ suspect' PROVE Coherent(c)'
      BY <1>6, <2>0, <2>1, <3>1 DEF Coherent
    <3> QED
      BY <3>2, <1>a
  <2>2. CASE /\ suspect' = suspect \cup {code[p]} /\ redis' = redis
             /\ late' = late \/ late' = late \cup {[code |-> code[p], entry |-> e]}
    <3>1. ASSUME NEW c \in Codes \ suspect' PROVE Coherent(c)'
      <4>1. c # code[p] /\ Coherent(c)
        BY <2>2
      <4>2. \A m \in late' : m.code # c
        BY <2>2, <4>1 DEF Coherent
      <4> QED
        BY <1>6, <2>0, <2>2, <4>1, <4>2 DEF Coherent
    <3> QED
      BY <3>1, <1>a
  <2> QED
    BY <1>6, <2>1, <2>2 DEF CacheWrite
<1>7. ASSUME NEW p \in Procs,
             RewriteCache(p) \/ CreateCacheSet(p) \/ DeleteCacheDel(p)
      PROVE  CoherenceInv'
  BY <1>6, <1>7, ValueSets
     DEF RewriteCache, CreateCacheSet, DeleteCacheDel, TypeInv
\* The statements: a row changes under no pending write, or is suspect.
<1>8. ASSUME NEW p \in Procs, NEW c \in Codes, NEW v \in Rows, NEW l,
             pc[p] = "idle", Commit(c, v), Go(p, l, v),
             l = "set" \/ (l = "del" /\ v = NotFound),
             code' = [code EXCEPT ![p] = c], UNCHANGED <<redis, late>>,
             suspect' = IF WritePending(c) THEN suspect \cup {c} ELSE suspect
      PROVE  CoherenceInv'
  <2>1. \A q \in Procs : /\ pc'[q] = IF q = p THEN l ELSE pc[q]
                         /\ val'[q] = IF q = p THEN v ELSE val[q]
                         /\ code'[q] = IF q = p THEN c ELSE code[q]
    BY <1>8 DEF Go, TypeOK
  <2>2. \A d \in Codes : db'[d] = IF d = c THEN v ELSE db[d]
    BY <1>8 DEF Commit, TypeOK
  <2>3. ASSUME NEW d \in Codes \ suspect' PROVE Coherent(d)'
    <3>1. d \notin suspect /\ (d = c => ~WritePending(c))
      BY <1>8
    <3>2. CASE d = c
      BY <1>8, <2>1, <2>2, <3>1, <3>2 DEF Coherent, WritePending
    <3>3. CASE d # c
      BY <1>8, <2>1, <2>2, <3>1, <3>3 DEF Coherent
    <3> QED
      BY <3>2, <3>3
  <2> QED
    BY <2>3, <1>a
<1>9. ASSUME NEW p \in Procs, NEW c \in Codes,
             Delete(p, c) \/ \E u \in Links : Create(p, c, u)
      PROVE  CoherenceInv'
  BY <1>8, <1>9, ValueSets DEF Delete, Create
<1>10. ASSUME NEW p \in Procs, NEW c \in Codes, NEW v,
              pc[p] = "idle", Commit(c, v), Go(p, "reply", Failed),
              code' = [code EXCEPT ![p] = c], UNCHANGED <<redis, late>>,
              suspect' = suspect \cup {c}
       PROVE  CoherenceInv'
  <2>1. \A q \in Procs : /\ pc'[q] = IF q = p THEN "reply" ELSE pc[q]
                         /\ val'[q] = IF q = p THEN Failed ELSE val[q]
                         /\ code'[q] = IF q = p THEN c ELSE code[q]
    BY <1>10 DEF Go, TypeOK
  <2>2. \A d \in Codes : d # c => db'[d] = db[d]
    BY <1>10 DEF Commit, TypeOK
  <2>3. ASSUME NEW d \in Codes \ suspect' PROVE Coherent(d)'
    BY <1>10, <2>1, <2>2 DEF Coherent
  <2> QED
    BY <2>3, <1>a
<1>11. ASSUME NEW p \in Procs, NEW c \in Codes,
              DeleteFails(p, c) \/ \E u \in Links : CreateFails(p, c, u)
       PROVE  CoherenceInv'
  <2>1. /\ pc[p] = "idle" /\ Go(p, "reply", Failed) /\ UNCHANGED <<redis, late>>
        /\ code' = [code EXCEPT ![p] = c]
        /\ \/ UNCHANGED <<db, suspect>>
           \/ \E v \in Rows : Commit(c, v) /\ suspect' = suspect \cup {c}
    BY <1>11, ValueSets DEF DeleteFails, CreateFails
  <2>2. \A q \in Procs : q # p => code'[q] = code[q]
    BY <2>1 DEF TypeOK
  <2>3. CASE UNCHANGED <<db, suspect>>
    BY <2>1, <2>2, <2>3, CoherenceFrame
  <2>4. CASE \E v \in Rows : Commit(c, v) /\ suspect' = suspect \cup {c}
    BY <2>1, <2>4, <1>10
  <2> QED
    BY <2>1, <2>3, <2>4
\* Redis.
<1>12. ASSUME NEW c \in Codes, Expire(c) PROVE CoherenceInv'
  <2>1. /\ \A d \in Codes : redis'[d] = IF d = c THEN Empty ELSE redis[d]
        /\ UNCHANGED <<db, pc, code, val, late>>
        /\ suspect' = IF WritePending(c) THEN suspect ELSE suspect \ {c}
    BY <1>12 DEF Expire, Execute, TypeOK
  <2>2. ASSUME NEW d \in Codes \ suspect' PROVE Coherent(d)'
    <3>1. CASE d \notin suspect
      BY <2>1, <3>1 DEF Coherent
    <3>2. CASE d \in suspect
      <4>1. d = c /\ ~WritePending(c)
        BY <2>1, <3>2
      <4> QED
        BY <2>1, <4>1 DEF Coherent, WritePending
    <3> QED
      BY <3>1, <3>2
  <2> QED
    BY <2>2, <1>a
<1>13. ASSUME NEW m \in late, Land(m) PROVE CoherenceInv'
  <2>1. /\ \A d \in Codes : d # m.code => redis'[d] = redis[d]
        /\ UNCHANGED <<db, pc, code, val, suspect>> /\ late' \subseteq late
    BY <1>13 DEF Land, Execute, TypeOK
  <2>2. ASSUME NEW d \in Codes \ suspect' PROVE Coherent(d)'
    BY <2>1 DEF Coherent
  <2> QED
    BY <2>2, <1>a
<1>14. CASE UNCHANGED vars
  BY <1>14 DEF vars, CoherenceInv, CoherentUnlessSuspect
<1> QED
  BY <1>1, <1>2, <1>3, <1>4, <1>5, <1>7, <1>9, <1>11, <1>12, <1>13, <1>14
     DEF Next, Step

\* The consistency window of the cache, for any number of handlers, gateways
\* and codes: an entry differs from its row only under the writer's own pending
\* cache write, or after a race, a lost or late command or an ambiguous
\* statement, and then only until the entry expires.
THEOREM CoherenceWindow == Spec => []CoherentUnlessSuspect
<1>1. Init => CoherenceInv
  BY DEF Init, CoherenceInv, CoherentUnlessSuspect
<1>2. CoherenceInv => CoherentUnlessSuspect
  BY DEF CoherenceInv
<1> QED
  BY <1>1, <1>2, TypeInit, TypeStep, CoherenceStep, PTL DEF Spec
=============================================================================
