------------------------ MODULE AnalyticsWorkerProofs ------------------------
(***************************************************************************)
(* Proofs about AnalyticsWorker, for any number of messages and workers,   *)
(* any batch size and any number of faults.                                *)
(***************************************************************************)
EXTENDS AnalyticsWorker, FiniteSetTheorems, TLAPS

\* Outside Run a worker has no session, and without a session the broker waits
\* for nothing: a new session may start at tag one.
SessionInv ==
  \A w \in Workers :
    /\ ~alive[w] => unacked[w] = {}
    /\ pc[w] \in {"dial", "setup", "consume", "stopped", "failed"} => ~alive[w]

TypeInv == TypeOK /\ SessionInv

\* Moving a worker keeps the type of pc.
LEMMA GotoType ==
  ASSUME TypeOK, NEW w \in Workers, NEW l \in PCs, Goto(w, l)
  PROVE  /\ pc' \in [Workers -> PCs]
         /\ \A v \in Workers : pc'[v] = IF v = w THEN l ELSE pc[v]
BY DEF TypeOK, Goto

\* The messages in flight are messages.
LEMMA InFlightType ==
  ASSUME TypeOK, NEW w \in Workers
  PROVE  InFlight(w) \subseteq Msgs
BY DEF TypeOK, BatchOK, InFlight

\* Ending a session keeps the types.
LEMMA EndSessionType ==
  ASSUME TypeOK, NEW w \in Workers, EndSession(w)
  PROVE  /\ queue' \subseteq Msgs
         /\ alive' \in [Workers -> BOOLEAN]
         /\ unacked' \in [Workers -> SUBSET Nat]
         /\ \A v \in Workers : /\ unacked'[v] \subseteq unacked[v]
                               /\ alive'[v] = (v # w /\ alive[v])
                               /\ v # w => unacked'[v] = unacked[v]
         /\ unacked'[w] = {}
<1>1. queue' \subseteq Msgs
  BY InFlightType DEF TypeOK, EndSession
<1>2. /\ alive' \in [Workers -> BOOLEAN]
      /\ \A v \in Workers : alive'[v] = (v # w /\ alive[v])
  BY DEF TypeOK, EndSession
<1>3. /\ unacked' \in [Workers -> SUBSET Nat]
      /\ \A v \in Workers : unacked'[v] = IF v = w THEN {} ELSE unacked[v]
  BY DEF TypeOK, EndSession
<1> QED
  BY <1>1, <1>2, <1>3

\* A counted fault keeps the type of the counter.
LEMMA FaultType ==
  ASSUME TypeOK, Fault
  PROVE  faults' \in 0 .. MaxFaults
BY BoundsAssumption DEF TypeOK, Fault

\* Settling deliveries and resetting a batch stay within the session.
LEMMA BatchFrame ==
  ASSUME TypeOK, UNCHANGED <<sent, read>>, NEW w \in Workers,
         flushed' = flushed \/ flushed' = [flushed EXCEPT ![w] = read[w]],
         \A v \in Workers : unacked'[v] \subseteq unacked[v]
  PROVE  BatchOK' /\ flushed' \in [Workers -> Nat]
<1>1. flushed' \in [Workers -> Nat]
  BY DEF TypeOK
<1>2. ASSUME NEW v \in Workers
      PROVE  /\ unacked'[v] \subseteq 1 .. Len(sent'[v])
             /\ flushed'[v] <= read'[v] /\ read'[v] <= Len(sent'[v])
  <2>1. /\ unacked[v] \subseteq 1 .. Len(sent[v])
        /\ flushed[v] <= read[v] /\ read[v] <= Len(sent[v])
    BY DEF TypeOK, BatchOK
  <2>2. read[v] \in Nat /\ (flushed'[v] = flushed[v] \/ flushed'[v] = read[v])
    BY DEF TypeOK
  <2>3. flushed'[v] <= read[v]
    BY <2>1, <2>2
  <2> QED
    BY <2>1, <2>3
<1> QED
  BY <1>1, <1>2 DEF BatchOK

\* Flushed moves the worker and resets its batch.
LEMMA FlushedType ==
  ASSUME TypeOK, NEW w \in Workers, Flushed(w)
  PROVE  /\ pc' \in [Workers -> PCs]
         /\ \E l \in {"close", "select"} :
              \A v \in Workers : pc'[v] = IF v = w THEN l ELSE pc[v]
         /\ flushed' = [flushed EXCEPT ![w] = read[w]]
<1>1. \E l \in {"close", "select"} : Goto(w, l)
  BY DEF Flushed
<1> QED
  BY <1>1, GotoType DEF Flushed, PCs

\* BeginFlush moves the worker to the first delivery of its batch.
LEMMA BeginFlushType ==
  ASSUME TypeOK, NEW w \in Workers, BeginFlush(w)
  PROVE  /\ pc' \in [Workers -> PCs] /\ pos' \in [Workers -> Nat]
         /\ \A v \in Workers : pc'[v] = IF v = w THEN "decode" ELSE pc[v]
BY GotoType DEF BeginFlush, TypeOK, PCs

\* LoopHead leaves Run.
LEMMA LoopHeadType ==
  ASSUME TypeOK, NEW w \in Workers, LoopHead(w)
  PROVE  /\ pc' \in [Workers -> PCs]
         /\ \E l \in {"dial", "stopped"} :
              \A v \in Workers : pc'[v] = IF v = w THEN l ELSE pc[v]
<1>1. \E l \in {"dial", "stopped"} : Goto(w, l)
  BY DEF LoopHead
<1> QED
  BY <1>1, GotoType DEF PCs

\* A statement keeps the type of the table.
LEMMA StoreType ==
  ASSUME TypeOK, NEW w \in Workers, Store(w)
  PROVE  /\ inserted' \in [Msgs -> Nat]
         /\ \A m \in Msgs : inserted'[m] >= inserted[m]
         /\ \A m \in Msgs : m \in Events(w) => inserted'[m] > 0
BY DEF TypeOK, Store

\* TypeInv is inductive.
LEMMA TypeStep == TypeInv /\ [Next]_vars => TypeInv'
<1> SUFFICES ASSUME TypeInv, [Next]_vars PROVE TypeInv'
  OBVIOUS
<1>0. TypeOK /\ SessionInv
  BY DEF TypeInv
<1> USE <1>0
\* A step that leaves sent, read and the connection of every worker alone.
<1>a. ASSUME NEW w \in Workers, pc' \in [Workers -> PCs], NEW l,
             \A v \in Workers : pc'[v] = IF v = w THEN l ELSE pc[v],
             l \in {"dial", "setup", "consume", "stopped", "failed"} => ~alive[w],
             UNCHANGED <<alive, unacked>>
      PROVE  SessionInv'
  BY <1>a DEF SessionInv
\* A step that ends a session.
<1>b. ASSUME NEW w \in Workers, EndSession(w),
             \A v \in Workers : v # w => pc'[v] = pc[v]
      PROVE  SessionInv'
  BY <1>b, EndSessionType DEF SessionInv
<1>1. ASSUME NEW m \in Msgs, Publish(m) PROVE TypeInv'
  BY <1>1 DEF Publish, TypeInv, TypeOK, BatchOK, SessionInv, session, worker
<1>2. ASSUME NEW w \in Workers, Deliver(w) PROVE TypeInv'
  <2>1. PICK m \in queue : /\ queue' = queue \ {m}
                           /\ sent' = [sent EXCEPT ![w] = Append(sent[w], m)]
    BY <1>2 DEF Deliver
  <2>2. /\ unacked' = [unacked EXCEPT ![w] = unacked[w] \cup {Len(sent[w]) + 1}]
        /\ alive[w] /\ alive' = alive /\ pc' = pc
        /\ flushed' = flushed /\ read' = read
    BY <1>2 DEF Deliver, worker
  <2>3. m \in Msgs /\ sent[w] \in Seq(Msgs) /\ Len(sent[w]) \in Nat
    BY DEF TypeOK
  <2>4. Append(sent[w], m) \in Seq(Msgs) /\ Len(Append(sent[w], m)) = Len(sent[w]) + 1
    BY <2>3
  <2>5. sent' \in [Workers -> Seq(Msgs)] /\ unacked' \in [Workers -> SUBSET Nat]
    BY <2>1, <2>2, <2>3, <2>4 DEF TypeOK
  <2>6. ASSUME NEW v \in Workers
        PROVE  /\ unacked'[v] \subseteq 1 .. Len(sent'[v])
               /\ flushed'[v] <= read'[v] /\ read'[v] <= Len(sent'[v])
    <3>1. /\ unacked[v] \subseteq 1 .. Len(sent[v]) /\ read[v] \in Nat
          /\ flushed[v] <= read[v] /\ read[v] <= Len(sent[v])
      BY DEF TypeOK, BatchOK
    <3>2. CASE v = w
      <4>1. /\ sent'[v] = Append(sent[w], m)
            /\ unacked'[v] = unacked[w] \cup {Len(sent[w]) + 1}
        BY <2>1, <2>2, <3>2 DEF TypeOK
      <4> QED
        BY <2>2, <2>3, <2>4, <3>1, <3>2, <4>1
    <3>3. CASE v # w
      <4>1. sent'[v] = sent[v] /\ unacked'[v] = unacked[v]
        BY <2>1, <2>2, <3>3 DEF TypeOK
      <4> QED
        BY <2>2, <3>1, <4>1
    <3> QED
      BY <3>2, <3>3
  <2>7. SessionInv'
    BY <2>2 DEF SessionInv, TypeOK
  <2>8. BatchOK'
    BY <2>6 DEF BatchOK
  <2> QED
    BY <1>2, <2>1, <2>5, <2>7, <2>8 DEF Deliver, TypeInv, TypeOK, worker
<1>3. ASSUME NEW w \in Workers, SessionLost(w) PROVE TypeInv'
  <2>1. EndSession(w) /\ UNCHANGED <<sent, worker>>
    BY <1>3 DEF SessionLost
  <2>2. BatchOK' /\ SessionInv'
    BY <2>1, EndSessionType, BatchFrame, <1>b DEF worker
  <2>3. faults' \in 0 .. MaxFaults
    BY <1>3, FaultType DEF SessionLost
  <2> QED
    BY <1>3, <2>1, <2>2, <2>3, EndSessionType
       DEF SessionLost, TypeInv, TypeOK, worker
<1>4. ASSUME NEW w \in Workers, Cancel(w) PROVE TypeInv'
  <2>1. cancelled' \in [Workers -> BOOLEAN]
    BY <1>4 DEF Cancel, TypeOK
  <2>2. UNCHANGED <<broker, inserted, faults, closes, session, pc, closing, read,
                    flushed, pos>>
    BY <1>4 DEF Cancel
  <2> QED
    BY <2>1, <2>2
       DEF TypeInv, TypeOK, BatchOK, SessionInv, broker, session
<1>5. ASSUME NEW w \in Workers, Crash(w) PROVE TypeInv'
  <2>1. /\ EndSession(w) /\ Goto(w, "failed")
        /\ UNCHANGED <<bound, routed, dropped, dlq, inserted, closes, sent,
                       cancelled, closing, read, flushed, pos>>
    BY <1>5 DEF Crash
  <2>2. pc' \in [Workers -> PCs] /\ BatchOK' /\ SessionInv'
    BY <2>1, GotoType, EndSessionType, BatchFrame, <1>b DEF PCs
  <2>3. faults' \in 0 .. MaxFaults
    BY <1>5, FaultType DEF Crash
  <2> QED
    BY <2>1, <2>2, <2>3, EndSessionType DEF TypeInv, TypeOK
<1>6. ASSUME NEW w \in Workers, Dial(w) PROVE TypeInv'
  <2>1. \E l \in {"setup", "stopped"} : Goto(w, l) /\ ~alive[w]
    BY <1>6 DEF Dial, SessionInv
  <2>2. UNCHANGED <<broker, inserted, closes, session, cancelled, closing, read,
                    flushed, pos>>
    BY <1>6 DEF Dial
  <2>3. pc' \in [Workers -> PCs] /\ SessionInv'
    BY <2>1, <2>2, GotoType, <1>a DEF PCs, session
  <2>4. faults' \in 0 .. MaxFaults
    BY <1>6, FaultType DEF Dial, TypeOK
  <2> QED
    BY <2>2, <2>3, <2>4 DEF TypeInv, TypeOK, BatchOK, broker, session
<1>7. ASSUME NEW w \in Workers, Setup(w) PROVE TypeInv'
  <2>1. ~alive[w] /\ (Goto(w, "consume") \/ LoopHead(w))
    BY <1>7 DEF Setup, SessionInv
  <2>2. UNCHANGED <<queue, routed, dropped, dlq, inserted, closes, session,
                    cancelled, closing, read, flushed, pos>>
    BY <1>7 DEF Setup
  <2>3. pc' \in [Workers -> PCs] /\ SessionInv'
    BY <2>1, <2>2, GotoType, LoopHeadType, <1>a DEF PCs, session
  <2>4. faults' \in 0 .. MaxFaults /\ bound' \in BOOLEAN
    BY <1>7, FaultType DEF Setup, TypeOK
  <2> QED
    BY <2>2, <2>3, <2>4 DEF TypeInv, TypeOK, BatchOK, session
<1>8. ASSUME NEW w \in Workers, Consume(w) PROVE TypeInv'
  <2>1. /\ pc[w] = "consume" /\ ~alive[w] /\ unacked[w] = {}
        /\ UNCHANGED <<broker, inserted, closes, unacked, cancelled, closing, pos>>
    BY <1>8 DEF Consume, SessionInv
  <2>2. CASE LoopHead(w) /\ Fault /\ UNCHANGED <<alive, sent, read, flushed>>
    <3>1. pc' \in [Workers -> PCs] /\ SessionInv'
      BY <2>1, <2>2, LoopHeadType, <1>a
    <3> QED
      BY <2>1, <2>2, <3>1, FaultType DEF TypeInv, TypeOK, BatchOK, broker
  <2>3. CASE /\ Goto(w, "select") /\ UNCHANGED faults
             /\ alive' = [alive EXCEPT ![w] = TRUE]
             /\ sent' = [sent EXCEPT ![w] = <<>>]
             /\ read' = [read EXCEPT ![w] = 0]
             /\ flushed' = [flushed EXCEPT ![w] = 0]
    <3>1. /\ pc' \in [Workers -> PCs]
          /\ \A v \in Workers : pc'[v] = IF v = w THEN "select" ELSE pc[v]
      BY <2>3, GotoType DEF PCs
    <3>2. /\ alive' \in [Workers -> BOOLEAN]
          /\ \A v \in Workers : alive'[v] = (v = w \/ alive[v])
      BY <2>3 DEF TypeOK
    <3>3. /\ sent' \in [Workers -> Seq(Msgs)]
          /\ read' \in [Workers -> Nat] /\ flushed' \in [Workers -> Nat]
      BY <2>3 DEF TypeOK
    <3>4. SessionInv'
      BY <2>1, <3>1, <3>2 DEF SessionInv
    <3>5. BatchOK'
      <4> SUFFICES ASSUME NEW v \in Workers
                   PROVE  /\ unacked'[v] \subseteq 1 .. Len(sent'[v])
                          /\ flushed'[v] <= read'[v] /\ read'[v] <= Len(sent'[v])
        BY DEF BatchOK
      <4>1. CASE v = w
        <5>1. sent'[v] = <<>> /\ read'[v] = 0 /\ flushed'[v] = 0
          BY <2>3, <4>1 DEF TypeOK
        <5> QED
          BY <2>1, <4>1, <5>1
      <4>2. CASE v # w
        <5>1. sent'[v] = sent[v] /\ read'[v] = read[v] /\ flushed'[v] = flushed[v]
          BY <2>3, <4>2 DEF TypeOK
        <5> QED
          BY <2>1, <4>2, <5>1 DEF TypeOK, BatchOK
      <4> QED
        BY <4>1, <4>2
    <3> QED
      BY <2>1, <2>3, <3>1, <3>2, <3>3, <3>4, <3>5 DEF TypeInv, TypeOK, broker
  <2> QED
    BY <1>8, <2>2, <2>3 DEF Consume
<1>9. ASSUME NEW w \in Workers, Restart(w) PROVE TypeInv'
  <2>1. /\ ~alive[w] /\ unacked[w] = {} /\ Goto(w, "dial")
        /\ sent' = [sent EXCEPT ![w] = <<>>]
        /\ read' = [read EXCEPT ![w] = 0]
        /\ flushed' = [flushed EXCEPT ![w] = 0]
        /\ UNCHANGED <<broker, inserted, faults, closes, alive, unacked,
                       cancelled, closing, pos>>
    BY <1>9 DEF Restart, SessionInv
  <2>2. pc' \in [Workers -> PCs] /\ SessionInv'
    BY <2>1, GotoType, <1>a DEF PCs
  <2>3. /\ sent' \in [Workers -> Seq(Msgs)]
        /\ read' \in [Workers -> Nat] /\ flushed' \in [Workers -> Nat]
    BY <2>1 DEF TypeOK
  <2>4. BatchOK'
    <3> SUFFICES ASSUME NEW v \in Workers
                 PROVE  /\ unacked'[v] \subseteq 1 .. Len(sent'[v])
                        /\ flushed'[v] <= read'[v] /\ read'[v] <= Len(sent'[v])
      BY DEF BatchOK
    <3>1. CASE v = w
      <4>1. sent'[v] = <<>> /\ read'[v] = 0 /\ flushed'[v] = 0
        BY <2>1, <3>1 DEF TypeOK
      <4> QED
        BY <2>1, <3>1, <4>1
    <3>2. CASE v # w
      <4>1. sent'[v] = sent[v] /\ read'[v] = read[v] /\ flushed'[v] = flushed[v]
        BY <2>1, <3>2 DEF TypeOK
      <4> QED
        BY <2>1, <3>2, <4>1 DEF TypeOK, BatchOK
    <3> QED
      BY <3>1, <3>2
  <2> QED
    BY <2>1, <2>2, <2>3, <2>4 DEF TypeInv, TypeOK, broker
<1>10. ASSUME NEW w \in Workers, Receive(w) PROVE TypeInv'
  <2>1. /\ pc[w] = "select" /\ read[w] < Len(sent[w])
        /\ read' = [read EXCEPT ![w] = read[w] + 1]
        /\ BeginFlush(w) \/ UNCHANGED <<pc, pos>>
        /\ UNCHANGED <<broker, inserted, faults, closes, session, cancelled,
                       closing, flushed>>
    BY <1>10 DEF Receive
  <2>2. pc' \in [Workers -> PCs] /\ pos' \in [Workers -> Nat] /\ SessionInv'
    <3>1. CASE BeginFlush(w)
      BY <2>1, <3>1, BeginFlushType, <1>a DEF session
    <3>2. CASE UNCHANGED <<pc, pos>>
      BY <2>1, <3>2 DEF TypeOK, SessionInv, session
    <3> QED
      BY <2>1, <3>1, <3>2
  <2>3. read' \in [Workers -> Nat]
    BY <2>1 DEF TypeOK
  <2>4. BatchOK'
    <3> SUFFICES ASSUME NEW v \in Workers
                 PROVE  flushed[v] <= read'[v] /\ read'[v] <= Len(sent[v])
      BY <2>1 DEF BatchOK, TypeOK, session
    <3>1. /\ read[v] \in Nat /\ flushed[v] \in Nat /\ Len(sent[v]) \in Nat
          /\ flushed[v] <= read[v] /\ read[v] <= Len(sent[v])
      BY DEF BatchOK, TypeOK
    <3>2. read'[v] = IF v = w THEN read[v] + 1 ELSE read[v]
      BY <2>1 DEF TypeOK
    <3> QED
      BY <2>1, <3>1, <3>2
  <2> QED
    BY <2>1, <2>2, <2>3, <2>4 DEF TypeInv, TypeOK, broker, session
<1>11. ASSUME NEW w \in Workers, Tick(w) PROVE TypeInv'
  <2>1. /\ BeginFlush(w)
        /\ UNCHANGED <<broker, inserted, faults, closes, session, cancelled,
                       closing, read, flushed>>
    BY <1>11 DEF Tick
  <2>2. pc' \in [Workers -> PCs] /\ pos' \in [Workers -> Nat] /\ SessionInv'
    BY <2>1, BeginFlushType, <1>a DEF session
  <2> QED
    BY <2>1, <2>2 DEF TypeInv, TypeOK, BatchOK, broker, session
<1>12. ASSUME NEW w \in Workers, CtxDone(w) PROVE TypeInv'
  <2>1. /\ \/ BeginFlush(w) /\ closing' = [closing EXCEPT ![w] = TRUE]
           \/ Goto(w, "close") /\ UNCHANGED <<pos, closing>>
        /\ UNCHANGED <<broker, inserted, faults, closes, session, cancelled, read,
                       flushed>>
    BY <1>12 DEF CtxDone
  <2>2. pc' \in [Workers -> PCs] /\ pos' \in [Workers -> Nat] /\ SessionInv'
    <3>1. CASE BeginFlush(w)
      BY <2>1, <3>1, BeginFlushType, <1>a DEF session
    <3>2. CASE Goto(w, "close") /\ UNCHANGED <<pos, closing>>
      <4>1. pos' \in [Workers -> Nat]
        BY <3>2 DEF TypeOK
      <4> QED
        BY <2>1, <3>2, <4>1, GotoType, <1>a DEF PCs, session
    <3> QED
      BY <2>1, <3>1, <3>2
  <2>3. closing' \in [Workers -> BOOLEAN]
    BY <2>1 DEF TypeOK
  <2> QED
    BY <2>1, <2>2, <2>3 DEF TypeInv, TypeOK, BatchOK, broker, session
<1>13. ASSUME NEW w \in Workers, DeliveriesClosed(w) PROVE TypeInv'
  <2>1. /\ LoopHead(w) /\ ~alive[w]
        /\ UNCHANGED <<broker, inserted, faults, closes, session, cancelled,
                       closing, read, flushed, pos>>
    BY <1>13 DEF DeliveriesClosed
  <2>2. pc' \in [Workers -> PCs] /\ SessionInv'
    BY <2>1, LoopHeadType, <1>a DEF session
  <2> QED
    BY <2>1, <2>2 DEF TypeInv, TypeOK, BatchOK, broker, session
<1>14. ASSUME NEW w \in Workers, Decode(w) PROVE TypeInv'
  <2>1. /\ pc[w] = "decode" /\ pos' = [pos EXCEPT ![w] = pos[w] + 1]
        /\ \/ UNCHANGED <<pc, flushed>>
           \/ Goto(w, "insert") /\ UNCHANGED flushed
           \/ Flushed(w)
        /\ UNCHANGED <<bound, queue, routed, dropped, inserted, faults, closes,
                       alive, sent, cancelled, closing, read>>
    BY <1>14 DEF Decode
  <2>2. /\ dlq' \subseteq Msgs /\ unacked' \in [Workers -> SUBSET Nat]
        /\ \A v \in Workers : unacked'[v] \subseteq unacked[v]
    <3>1. CASE UNCHANGED <<unacked, dlq>>
      BY <3>1 DEF TypeOK
    <3>2. CASE /\ pos[w] \in unacked[w]
               /\ unacked' = [unacked EXCEPT ![w] = unacked[w] \ {pos[w]}]
               /\ dlq' = dlq \cup {sent[w][pos[w]]}
      <4>1. sent[w][pos[w]] \in Msgs
        BY <3>2 DEF TypeOK, BatchOK
      <4> QED
        BY <3>2, <4>1 DEF TypeOK
    <3> QED
      BY <1>14, <3>1, <3>2 DEF Decode
  <2>3. /\ pc' \in [Workers -> PCs]
        /\ \E l \in {"decode", "insert", "close", "select"} :
             \A v \in Workers : pc'[v] = IF v = w THEN l ELSE pc[v]
        /\ flushed' = flushed \/ flushed' = [flushed EXCEPT ![w] = read[w]]
    <3>1. CASE UNCHANGED <<pc, flushed>>
      BY <2>1, <3>1 DEF TypeOK
    <3>2. CASE Goto(w, "insert") /\ UNCHANGED flushed
      BY <3>2, GotoType DEF PCs
    <3>3. CASE Flushed(w)
      BY <3>3, FlushedType
    <3> QED
      BY <2>1, <3>1, <3>2, <3>3
  <2>4. BatchOK' /\ flushed' \in [Workers -> Nat]
    BY <2>1, <2>2, <2>3, BatchFrame
  <2>5. SessionInv'
    BY <2>1, <2>2, <2>3 DEF SessionInv
  <2>6. pos' \in [Workers -> Nat]
    BY <2>1 DEF TypeOK
  <2> QED
    BY <2>1, <2>2, <2>3, <2>4, <2>5, <2>6 DEF TypeInv, TypeOK
<1>15. ASSUME NEW w \in Workers, Insert(w) PROVE TypeInv'
  <2>1. /\ Store(w) /\ Goto(w, "ack")
        /\ UNCHANGED <<broker, faults, closes, session, cancelled, closing, read,
                       flushed, pos>>
    BY <1>15 DEF Insert
  <2>2. pc' \in [Workers -> PCs] /\ SessionInv'
    BY <2>1, GotoType, <1>a DEF PCs, session
  <2> QED
    BY <2>1, <2>2, StoreType DEF TypeInv, TypeOK, BatchOK, broker, session
<1>16. ASSUME NEW w \in Workers, InsertFails(w) PROVE TypeInv'
  <2>1. /\ EndSession(w) /\ Goto(w, "failed")
        /\ UNCHANGED <<bound, routed, dropped, dlq, closes, sent, cancelled,
                       closing, read, flushed, pos>>
    BY <1>16 DEF InsertFails
  <2>2. inserted' \in [Msgs -> Nat] /\ faults' \in 0 .. MaxFaults
    <3>1. Store(w) \/ UNCHANGED inserted
      BY <1>16 DEF InsertFails
    <3>2. Fault \/ UNCHANGED faults
      BY <1>16 DEF InsertFails
    <3> QED
      BY <3>1, <3>2, StoreType, FaultType DEF TypeOK
  <2>3. pc' \in [Workers -> PCs] /\ BatchOK' /\ SessionInv'
    BY <2>1, GotoType, EndSessionType, BatchFrame, <1>b DEF PCs
  <2> QED
    BY <2>1, <2>2, <2>3, EndSessionType DEF TypeInv, TypeOK
<1>17. ASSUME NEW w \in Workers, Ack(w) PROVE TypeInv'
  <2>1. /\ Flushed(w)
        /\ UNCHANGED <<bound, routed, dropped, dlq, inserted, faults, sent,
                       cancelled, closing, read, pos>>
    BY <1>17 DEF Ack
  <2>2. /\ pc' \in [Workers -> PCs]
        /\ \E l \in {"close", "select"} :
             \A v \in Workers : pc'[v] = IF v = w THEN l ELSE pc[v]
        /\ flushed' = [flushed EXCEPT ![w] = read[w]]
    BY <2>1, FlushedType
  <2>3. /\ queue' \subseteq Msgs /\ alive' \in [Workers -> BOOLEAN]
        /\ unacked' \in [Workers -> SUBSET Nat] /\ closes' \in Nat
        /\ \A v \in Workers : unacked'[v] \subseteq unacked[v]
        /\ SessionInv'
    <3>1. CASE UNCHANGED <<queue, alive, closes>> /\
               (UNCHANGED unacked \/
                unacked' = [unacked EXCEPT ![w] = {i \in unacked[w] : i > read[w]}])
      <4>1. /\ unacked' \in [Workers -> SUBSET Nat]
            /\ \A v \in Workers : unacked'[v] \subseteq unacked[v]
        BY <3>1 DEF TypeOK
      <4>2. SessionInv'
        BY <2>2, <3>1, <4>1 DEF SessionInv
      <4> QED
        BY <3>1, <4>1, <4>2 DEF TypeOK
    <3>2. CASE EndSession(w) /\ closes' = closes + 1
      BY <2>2, <3>2, EndSessionType, <1>b DEF TypeOK
    <3> QED
      BY <1>17, <3>1, <3>2 DEF Ack
  <2>4. BatchOK' /\ flushed' \in [Workers -> Nat]
    BY <2>1, <2>2, <2>3, BatchFrame
  <2> QED
    BY <2>1, <2>2, <2>3, <2>4 DEF TypeInv, TypeOK
<1>18. ASSUME NEW w \in Workers, Close(w) PROVE TypeInv'
  <2>1. /\ EndSession(w) /\ Goto(w, "stopped")
        /\ UNCHANGED <<bound, routed, dropped, dlq, inserted, faults, closes, sent,
                       cancelled, closing, read, flushed, pos>>
    BY <1>18 DEF Close
  <2>2. pc' \in [Workers -> PCs] /\ BatchOK' /\ SessionInv'
    BY <2>1, GotoType, EndSessionType, BatchFrame, <1>b DEF PCs
  <2> QED
    BY <2>1, <2>2, EndSessionType DEF TypeInv, TypeOK
<1>19. CASE UNCHANGED vars
  BY <1>19
     DEF vars, broker, session, worker, TypeInv, TypeOK, BatchOK, SessionInv
<1> QED
  BY <1>1, <1>2, <1>3, <1>4, <1>5, <1>6, <1>7, <1>8, <1>9, <1>10, <1>11,
     <1>12, <1>13, <1>14, <1>15, <1>16, <1>17, <1>18, <1>19 DEF Next, Step

\* Initially every worker is about to dial.
LEMMA TypeInit == Init => TypeInv
<1> SUFFICES ASSUME Init PROVE TypeInv
  OBVIOUS
<1>1. sent \in [Workers -> Seq(Msgs)] /\ \A w \in Workers : sent[w] = <<>>
  BY DEF Init
<1>2. BatchOK
  BY <1>1 DEF Init, BatchOK
<1>3. faults \in 0 .. MaxFaults
  BY BoundsAssumption DEF Init
<1>4. /\ pc \in [Workers -> PCs] /\ cancelled \in [Workers -> BOOLEAN]
      /\ closing \in [Workers -> BOOLEAN] /\ alive \in [Workers -> BOOLEAN]
  BY DEF Init, PCs
<1>5. SessionInv
  BY DEF Init, SessionInv
<1> QED
  BY <1>1, <1>2, <1>3, <1>4, <1>5 DEF Init, TypeInv, TypeOK

\* The state stays well typed; in particular a batch never holds deliveries of
\* an earlier session, and the broker waits only for tags it has handed out.
THEOREM TypeCorrect == Spec => []TypeOK
<1>1. TypeInv => TypeOK
  BY DEF TypeInv
<1> QED
  BY <1>1, TypeInit, TypeStep, PTL DEF Spec

-----------------------------------------------------------------------------
\* Why the cumulative ack is safe: the deliveries that it covers are the ones
\* of the batch; of these, the malformed ones were nacked while flush went over
\* them and the others are in the table.
FlushInv(w) ==
  /\ pc[w] = "decode" => flushed[w] < pos[w] /\ pos[w] <= read[w]
  /\ \A i \in unacked[w] :
       /\ flushed[w] < i
       /\ pc[w] = "decode" /\ i < pos[w] => sent[w][i] \notin Malformed
       /\ pc[w] \in {"insert", "ack"} /\ i <= read[w] => sent[w][i] \notin Malformed
       /\ pc[w] = "ack" /\ i <= read[w] => inserted[sent[w][i]] > 0

LossInv == NoSilentLoss /\ \A w \in Workers : FlushInv(w)

\* A step that neither settles nor moves a delivery of v leaves v's part of the
\* invariant alone; settling some, and inserting rows, does it no harm.
LEMMA FlushOther ==
  ASSUME TypeOK, NEW v \in Workers, FlushInv(v),
         pc'[v] = pc[v], read'[v] = read[v], flushed'[v] = flushed[v],
         pos'[v] = pos[v], sent'[v] = sent[v], unacked'[v] \subseteq unacked[v],
         \A m \in Msgs : inserted[m] > 0 => inserted'[m] > 0
  PROVE  FlushInv(v)'
<1>1. \A i \in unacked[v] : sent[v][i] \in Msgs
  BY DEF TypeOK, BatchOK
<1> QED
  BY <1>1 DEF FlushInv

\* A worker that holds nothing has nothing to lose.
LEMMA FlushNothing ==
  ASSUME NEW v \in Workers, unacked'[v] = {}, pc'[v] # "decode"
  PROVE  FlushInv(v)'
BY DEF FlushInv

\* Held messages stay held when the deliveries stay where they are, or go back
\* to the queue.
LEMMA LossFrame ==
  ASSUME NoSilentLoss, routed' = routed, dlq \subseteq dlq',
         \A m \in Msgs : inserted[m] > 0 => inserted'[m] > 0,
         queue \subseteq queue', routed \subseteq Msgs,
         \A v \in Workers : InFlight(v) \subseteq InFlight(v)' \cup queue'
  PROVE  NoSilentLoss'
BY DEF NoSilentLoss

\* Ending a session moves the deliveries of w back to the queue.
LEMMA LossEndSession ==
  ASSUME TypeOK, LossInv, NEW w \in Workers, EndSession(w), pc'[w] # "decode",
         UNCHANGED <<routed, dlq, sent, read, pos>>,
         flushed' = flushed \/ flushed' = [flushed EXCEPT ![w] = read[w]],
         \A v \in Workers : v # w => pc'[v] = pc[v],
         \A m \in Msgs : inserted[m] > 0 => inserted'[m] > 0
  PROVE  LossInv'
<1>1. \A v \in Workers : InFlight(v) \subseteq InFlight(v)' \cup queue'
  BY EndSessionType DEF InFlight, EndSession
<1>2. NoSilentLoss'
  BY <1>1, LossFrame DEF LossInv, EndSession, TypeOK
<1>3. ASSUME NEW v \in Workers PROVE FlushInv(v)'
  <2>1. CASE v = w
    BY <2>1, EndSessionType, FlushNothing
  <2>2. CASE v # w
    <3>1. flushed'[v] = flushed[v]
      BY <2>2 DEF TypeOK
    <3> QED
      BY <2>2, <3>1, EndSessionType, FlushOther DEF LossInv
  <2> QED
    BY <2>1, <2>2
<1> QED
  BY <1>2, <1>3 DEF LossInv

\* A step of w that leaves the broker and the table alone and that is not part
\* of flush.
LEMMA LossIdle ==
  ASSUME TypeOK, LossInv, NEW w \in Workers, pc'[w] \notin {"decode", "insert", "ack"},
         UNCHANGED <<routed, queue, dlq, inserted, sent, unacked, flushed, pos>>,
         \A v \in Workers : v # w => pc'[v] = pc[v] /\ read'[v] = read[v]
  PROVE  LossInv'
<1>1. NoSilentLoss'
  BY LossFrame DEF LossInv, InFlight, TypeOK
<1>2. ASSUME NEW v \in Workers PROVE FlushInv(v)'
  <2>1. CASE v = w
    BY <2>1 DEF LossInv, FlushInv
  <2>2. CASE v # w
    BY <2>2, FlushOther DEF LossInv
  <2> QED
    BY <2>1, <2>2
<1> QED
  BY <1>1, <1>2 DEF LossInv

\* The beginning of a flush.
LEMMA LossBegin ==
  ASSUME TypeOK, LossInv, NEW w \in Workers, BeginFlush(w),
         UNCHANGED <<routed, queue, dlq, inserted, sent, unacked, flushed>>,
         \A v \in Workers : v # w => read'[v] = read[v],
         flushed[w] < read'[w], read'[w] \in Nat
  PROVE  LossInv'
<1>0. /\ pos'[w] = flushed[w] + 1
      /\ \A v \in Workers : v # w => pos'[v] = pos[v] /\ pc'[v] = pc[v]
      /\ pc'[w] = "decode"
  BY BeginFlushType DEF BeginFlush, TypeOK
<1>1. NoSilentLoss'
  BY LossFrame DEF LossInv, InFlight, TypeOK
<1>2. ASSUME NEW v \in Workers PROVE FlushInv(v)'
  <2>1. CASE v = w
    <3>1. flushed[w] \in Nat /\ \A i \in unacked[w] : i \in Nat /\ flushed[w] < i
      BY DEF TypeOK, LossInv, FlushInv
    <3>2. \A i \in unacked[w] : ~(i < flushed[w] + 1)
      BY <3>1
    <3>3. flushed[w] < flushed[w] + 1 /\ flushed[w] + 1 <= read'[w]
      BY <3>1
    <3> QED
      BY <1>0, <2>1, <3>1, <3>2, <3>3 DEF FlushInv
  <2>2. CASE v # w
    BY <1>0, <2>2, FlushOther DEF LossInv
  <2> QED
    BY <2>1, <2>2
<1> QED
  BY <1>1, <1>2 DEF LossInv

\* The deliveries of a batch are never acked before they are settled, and every
\* other delivery stays with the broker: LossInv is inductive.
LEMMA LossStep == TypeInv /\ LossInv /\ [Next]_vars => LossInv'
<1> SUFFICES ASSUME TypeInv, LossInv, [Next]_vars PROVE LossInv'
  OBVIOUS
<1>0. TypeOK /\ SessionInv
  BY DEF TypeInv
<1> USE <1>0
<1>1. ASSUME NEW m \in Msgs, Publish(m) PROVE LossInv'
  <2>1. /\ queue \subseteq queue' /\ routed' \ routed \subseteq queue'
        /\ UNCHANGED <<dlq, inserted, session, worker>>
    BY <1>1 DEF Publish
  <2>2. NoSilentLoss'
    BY <2>1 DEF LossInv, NoSilentLoss, InFlight, session
  <2>3. \A v \in Workers : FlushInv(v)'
    BY <2>1 DEF LossInv, FlushInv, session, worker
  <2> QED
    BY <2>2, <2>3 DEF LossInv
<1>2. ASSUME NEW w \in Workers, Deliver(w) PROVE LossInv'
  <2>1. PICK m \in queue : /\ queue' = queue \ {m}
                           /\ sent' = [sent EXCEPT ![w] = Append(sent[w], m)]
    BY <1>2 DEF Deliver
  <2>2. /\ unacked' = [unacked EXCEPT ![w] = unacked[w] \cup {Len(sent[w]) + 1}]
        /\ UNCHANGED <<routed, dlq, inserted, worker>>
    BY <1>2 DEF Deliver
  <2>3. /\ m \in Msgs /\ sent[w] \in Seq(Msgs) /\ Len(sent[w]) \in Nat
        /\ unacked[w] \subseteq 1 .. Len(sent[w])
        /\ read[w] \in Nat /\ flushed[w] \in Nat /\ pos[w] \in Nat
        /\ flushed[w] <= read[w] /\ read[w] <= Len(sent[w])
    BY DEF TypeOK, BatchOK
  <2>4. /\ sent'[w] = Append(sent[w], m)
        /\ unacked'[w] = unacked[w] \cup {Len(sent[w]) + 1}
        /\ \A v \in Workers : v # w => sent'[v] = sent[v] /\ unacked'[v] = unacked[v]
    BY <2>1, <2>2 DEF TypeOK
  <2>5. /\ \A i \in unacked[w] : sent'[w][i] = sent[w][i]
        /\ sent'[w][Len(sent[w]) + 1] = m
    BY <2>3, <2>4
  <2>6. m \in InFlight(w)'
    BY <2>4, <2>5 DEF InFlight
  <2>7. \A v \in Workers : InFlight(v) \subseteq InFlight(v)'
    BY <2>4, <2>5 DEF InFlight
  <2>8. NoSilentLoss'
    BY <2>1, <2>2, <2>6, <2>7 DEF LossInv, NoSilentLoss
  <2>9. ASSUME NEW v \in Workers PROVE FlushInv(v)'
    <3>1. CASE v # w
      BY <2>2, <2>4, <3>1, FlushOther DEF LossInv, worker
    <3>2. CASE v = w
      <4>1. pc[w] = "decode" => flushed[w] < pos[w] /\ pos[w] <= read[w]
        BY DEF LossInv, FlushInv
      <4>2. ASSUME NEW i \in unacked'[w]
            PROVE  /\ flushed[w] < i
                   /\ pc[w] = "decode" /\ i < pos[w] => sent'[w][i] \notin Malformed
                   /\ pc[w] \in {"insert", "ack"} /\ i <= read[w] =>
                        sent'[w][i] \notin Malformed
                   /\ pc[w] = "ack" /\ i <= read[w] => inserted[sent'[w][i]] > 0
        <5>1. CASE i \in unacked[w]
          BY <2>5, <5>1 DEF LossInv, FlushInv
        <5>2. CASE i = Len(sent[w]) + 1
          <6>1. flushed[w] < i /\ ~(i <= read[w])
            BY <2>3, <5>2
          <6>2. pc[w] = "decode" => ~(i < pos[w])
            BY <2>3, <4>1, <5>2
          <6> QED
            BY <6>1, <6>2
        <5> QED
          BY <2>4, <5>1, <5>2
      <4> QED
        BY <2>2, <3>2, <4>1, <4>2 DEF FlushInv, worker
    <3> QED
      BY <3>1, <3>2
  <2> QED
    BY <2>8, <2>9 DEF LossInv
<1>3. ASSUME NEW w \in Workers, SessionLost(w) PROVE LossInv'
  <2>1. /\ EndSession(w) /\ UNCHANGED <<routed, dlq, inserted, sent, worker>>
    BY <1>3 DEF SessionLost
  <2>2. \A v \in Workers : InFlight(v) \subseteq InFlight(v)' \cup queue'
    BY <2>1, EndSessionType DEF InFlight, EndSession
  <2>3. NoSilentLoss'
    BY <2>1, <2>2, LossFrame DEF LossInv, EndSession, TypeOK
  <2>4. \A v \in Workers : FlushInv(v)'
    BY <2>1, EndSessionType, FlushOther DEF LossInv, worker
  <2> QED
    BY <2>3, <2>4 DEF LossInv
<1>4. ASSUME NEW w \in Workers, Cancel(w) PROVE LossInv'
  BY <1>4 DEF Cancel, LossInv, NoSilentLoss, InFlight, FlushInv, broker, session
<1>5. ASSUME NEW w \in Workers, Crash(w) \/ Close(w) PROVE LossInv'
  <2>1. /\ EndSession(w)
        /\ Goto(w, "failed") \/ Goto(w, "stopped")
        /\ UNCHANGED <<routed, dlq, inserted, sent, read, flushed, pos>>
    BY <1>5 DEF Crash, Close
  <2>2. pc'[w] # "decode" /\ \A v \in Workers : v # w => pc'[v] = pc[v]
    BY <2>1, GotoType DEF PCs
  <2> QED
    BY <2>1, <2>2, LossEndSession
<1>6. ASSUME NEW w \in Workers, Dial(w) \/ Setup(w) \/ DeliveriesClosed(w)
      PROVE  LossInv'
  <2>1. UNCHANGED <<routed, queue, dlq, inserted, session, read, flushed, pos>>
    BY <1>6 DEF Dial, Setup, DeliveriesClosed, broker
  <2>2. \/ \E l \in {"setup", "stopped", "consume"} : Goto(w, l)
        \/ LoopHead(w)
    BY <1>6 DEF Dial, Setup, DeliveriesClosed
  <2>3. /\ pc'[w] \notin {"decode", "insert", "ack"}
        /\ \A v \in Workers : v # w => pc'[v] = pc[v]
    BY <2>2, GotoType, LoopHeadType DEF PCs
  <2> QED
    BY <2>1, <2>3, LossIdle DEF session
<1>7. ASSUME NEW w \in Workers, Consume(w) \/ Restart(w) PROVE LossInv'
  <2>1. /\ unacked[w] = {} /\ UNCHANGED <<routed, queue, dlq, inserted, unacked, pos>>
    BY <1>7 DEF Consume, Restart, SessionInv, broker
  <2>2. \A v \in Workers : v # w => /\ sent'[v] = sent[v] /\ read'[v] = read[v]
                                    /\ flushed'[v] = flushed[v]
    BY <1>7 DEF Consume, Restart, TypeOK
  <2>3. (\E l \in {"select", "dial"} : Goto(w, l)) \/ LoopHead(w)
    BY <1>7 DEF Consume, Restart
  <2>4. /\ pc'[w] # "decode"
        /\ \A v \in Workers : v # w => pc'[v] = pc[v]
    BY <2>3, GotoType, LoopHeadType DEF PCs
  <2>5. \A v \in Workers : InFlight(v) \subseteq InFlight(v)' \cup queue'
    BY <2>1, <2>2 DEF InFlight
  <2>6. NoSilentLoss'
    BY <2>1, <2>5, LossFrame DEF LossInv, TypeOK
  <2>7. ASSUME NEW v \in Workers PROVE FlushInv(v)'
    <3>1. CASE v = w
      BY <2>1, <2>4, <3>1, FlushNothing
    <3>2. CASE v # w
      BY <2>1, <2>2, <2>4, <3>2, FlushOther DEF LossInv
    <3> QED
      BY <3>1, <3>2
  <2> QED
    BY <2>6, <2>7 DEF LossInv
<1>8. ASSUME NEW w \in Workers, Receive(w) PROVE LossInv'
  <2>1. /\ pc[w] = "select" /\ read' = [read EXCEPT ![w] = read[w] + 1]
        /\ BeginFlush(w) \/ UNCHANGED <<pc, pos>>
        /\ UNCHANGED <<routed, queue, dlq, inserted, session, flushed>>
    BY <1>8 DEF Receive, broker
  <2>2. /\ read'[w] = read[w] + 1 /\ \A v \in Workers : v # w => read'[v] = read[v]
        /\ read[w] \in Nat /\ flushed[w] \in Nat /\ flushed[w] <= read[w]
    BY <2>1 DEF TypeOK, BatchOK
  <2>3. flushed[w] < read'[w] /\ read'[w] \in Nat
    BY <2>2
  <2>4. CASE BeginFlush(w)
    BY <2>1, <2>2, <2>3, <2>4, LossBegin DEF session
  <2>5. CASE UNCHANGED <<pc, pos>>
    BY <2>1, <2>2, <2>5, LossIdle DEF session
  <2> QED
    BY <2>1, <2>4, <2>5
<1>9. ASSUME NEW w \in Workers, Tick(w) \/ CtxDone(w) PROVE LossInv'
  <2>1. /\ \/ BeginFlush(w) /\ flushed[w] < read[w]
           \/ Goto(w, "close") /\ UNCHANGED pos
        /\ UNCHANGED <<routed, queue, dlq, inserted, session, flushed, read>>
    BY <1>9 DEF Tick, CtxDone, broker, TypeOK
  <2>2. CASE BeginFlush(w) /\ flushed[w] < read[w]
    BY <2>1, <2>2, LossBegin DEF session, TypeOK
  <2>3. CASE Goto(w, "close") /\ UNCHANGED pos
    <3>1. pc'[w] = "close" /\ \A v \in Workers : v # w => pc'[v] = pc[v]
      BY <2>3, GotoType DEF PCs
    <3> QED
      BY <2>1, <2>3, <3>1, LossIdle DEF session
  <2> QED
    BY <2>1, <2>2, <2>3
<1>10. ASSUME NEW w \in Workers, Decode(w) PROVE LossInv'
  <2>1. /\ pc[w] = "decode" /\ pos' = [pos EXCEPT ![w] = pos[w] + 1]
        /\ UNCHANGED <<queue, routed, inserted, sent, read>>
    BY <1>10 DEF Decode
  <2>2. /\ flushed[w] \in Nat /\ pos[w] \in Nat /\ read[w] \in Nat
        /\ unacked[w] \subseteq Nat
        /\ flushed[w] < pos[w] /\ pos[w] <= read[w]
    BY <2>1 DEF TypeOK, LossInv, FlushInv
  <2>3. /\ unacked'[w] \subseteq unacked[w] /\ dlq \subseteq dlq'
        /\ \A v \in Workers : v # w => unacked'[v] = unacked[v]
        /\ \A i \in unacked[w] \ unacked'[w] : sent[w][i] \in Malformed \cap dlq'
        /\ pos[w] \in unacked'[w] => sent[w][pos[w]] \notin Malformed
    <3>1. CASE sent[w][pos[w]] \in Malformed /\ pos[w] \in unacked[w]
      <4>1. /\ unacked' = [unacked EXCEPT ![w] = unacked[w] \ {pos[w]}]
            /\ dlq' = dlq \cup {sent[w][pos[w]]}
        BY <1>10, <3>1 DEF Decode
      <4> QED
        BY <3>1, <4>1 DEF TypeOK
    <3>2. CASE ~(sent[w][pos[w]] \in Malformed /\ pos[w] \in unacked[w])
      <4>1. UNCHANGED <<unacked, dlq>>
        BY <1>10, <3>2 DEF Decode
      <4> QED
        BY <3>2, <4>1
    <3> QED
      BY <3>1, <3>2
  <2>4. \A i \in unacked'[w] : /\ i \in Nat /\ flushed[w] < i
                               /\ i <= pos[w] => sent[w][i] \notin Malformed
    <3>1. \A i \in unacked'[w] :
            flushed[w] < i /\ (i < pos[w] => sent[w][i] \notin Malformed)
      BY <2>1, <2>3 DEF LossInv, FlushInv
    <3> QED
      BY <2>2, <2>3, <3>1
  <2>5. NoSilentLoss'
    <3>1. \A v \in Workers : \A m \in InFlight(v) :
            m \in InFlight(v)' \/ m \in Malformed \cap dlq'
      BY <2>1, <2>3 DEF InFlight
    <3> QED
      BY <2>1, <2>3, <3>1 DEF LossInv, NoSilentLoss
  <2>6. /\ pos'[w] = pos[w] + 1
        /\ \A v \in Workers : v # w => pos'[v] = pos[v]
    BY <2>1 DEF TypeOK
  <2>7. /\ \A v \in Workers : v # w => pc'[v] = pc[v] /\ flushed'[v] = flushed[v]
        /\ \/ pos[w] # read[w] /\ pc'[w] = "decode" /\ flushed'[w] = flushed[w]
           \/ pos[w] = read[w] /\ pc'[w] = "insert" /\ flushed'[w] = flushed[w]
           \/ /\ pos[w] = read[w] /\ Events(w) = {}
              /\ pc'[w] \in {"select", "close"} /\ flushed'[w] = read[w]
    <3>1. CASE pos[w] # read[w] /\ UNCHANGED <<pc, flushed>>
      BY <2>1, <3>1
    <3>2. CASE pos[w] = read[w] /\ Goto(w, "insert") /\ UNCHANGED flushed
      BY <3>2, GotoType DEF PCs
    <3>3. CASE pos[w] = read[w] /\ Events(w) = {} /\ Flushed(w)
      BY <3>3, FlushedType DEF TypeOK
    <3> QED
      BY <1>10, <3>1, <3>2, <3>3 DEF Decode
  <2>8. FlushInv(w)'
    <3>1. CASE pos[w] # read[w] /\ pc'[w] = "decode" /\ flushed'[w] = flushed[w]
      <4>1. /\ flushed[w] < pos[w] + 1 /\ pos[w] + 1 <= read[w]
            /\ \A i \in unacked'[w] : i < pos[w] + 1 => i <= pos[w]
        BY <2>2, <2>4, <3>1
      <4> QED
        BY <2>1, <2>4, <2>6, <3>1, <4>1 DEF FlushInv
    <3>2. CASE pos[w] = read[w] /\ pc'[w] = "insert" /\ flushed'[w] = flushed[w]
      BY <2>1, <2>4, <3>2 DEF FlushInv
    <3>3. CASE /\ pos[w] = read[w] /\ Events(w) = {}
               /\ pc'[w] \in {"select", "close"} /\ flushed'[w] = read[w]
      <4>1. \A i \in unacked'[w] : ~(i <= read[w])
        BY <2>2, <2>4, <3>3 DEF Events
      <4>2. \A i \in unacked'[w] : read[w] < i
        BY <2>2, <2>4, <4>1
      <4> QED
        BY <3>3, <4>2 DEF FlushInv
    <3> QED
      BY <2>7, <3>1, <3>2, <3>3
  <2>9. \A v \in Workers : v # w => FlushInv(v)'
    BY <2>1, <2>3, <2>6, <2>7, FlushOther DEF LossInv
  <2> QED
    BY <2>5, <2>8, <2>9 DEF LossInv
<1>11. ASSUME NEW w \in Workers, Insert(w) PROVE LossInv'
  <2>1. /\ pc[w] = "insert" /\ Store(w) /\ Goto(w, "ack")
        /\ UNCHANGED <<routed, queue, dlq, session, read, flushed, pos>>
    BY <1>11 DEF Insert, broker
  <2>2. /\ pc'[w] = "ack" /\ \A v \in Workers : v # w => pc'[v] = pc[v]
    BY <2>1, GotoType DEF PCs
  <2>3. /\ \A m \in Msgs : inserted[m] > 0 => inserted'[m] > 0
        /\ \A m \in Msgs \cap Events(w) : inserted'[m] > 0
    BY <2>1 DEF Store, TypeOK
  <2>4. NoSilentLoss'
    BY <2>1, <2>3, LossFrame DEF LossInv, InFlight, session, TypeOK
  <2>5. FlushInv(w)'
    <3>1. ASSUME NEW i \in unacked[w]
          PROVE  /\ flushed[w] < i
                 /\ i <= read[w] => /\ sent[w][i] \notin Malformed
                                    /\ inserted'[sent[w][i]] > 0
      <4>1. /\ i \in Nat /\ sent[w][i] \in Msgs
            /\ flushed[w] \in Nat /\ read[w] \in Nat
        BY DEF TypeOK, BatchOK
      <4>2. flushed[w] < i /\ (i <= read[w] => sent[w][i] \notin Malformed)
        BY <2>1 DEF LossInv, FlushInv
      <4>3. i <= read[w] => sent[w][i] \in Events(w)
        BY <4>1, <4>2 DEF Events
      <4> QED
        BY <2>3, <4>1, <4>2, <4>3
    <3> QED
      BY <2>1, <2>2, <3>1 DEF FlushInv, session
  <2>6. \A v \in Workers : v # w => FlushInv(v)'
    BY <2>1, <2>2, <2>3, FlushOther DEF LossInv, session
  <2> QED
    BY <2>4, <2>5, <2>6 DEF LossInv
<1>12. ASSUME NEW w \in Workers, InsertFails(w) PROVE LossInv'
  <2>1. /\ EndSession(w) /\ Goto(w, "failed") /\ (Store(w) \/ UNCHANGED inserted)
        /\ UNCHANGED <<routed, dlq, sent, read, flushed, pos>>
    BY <1>12 DEF InsertFails
  <2>2. pc'[w] # "decode" /\ \A v \in Workers : v # w => pc'[v] = pc[v]
    BY <2>1, GotoType DEF PCs
  <2>3. \A m \in Msgs : inserted[m] > 0 => inserted'[m] > 0
    <3>1. CASE Store(w)
      BY <3>1 DEF Store, TypeOK
    <3>2. CASE UNCHANGED inserted
      BY <3>2
    <3> QED
      BY <2>1, <3>1, <3>2
  <2> QED
    BY <2>1, <2>2, <2>3, LossEndSession
<1>13. ASSUME NEW w \in Workers, Ack(w) PROVE LossInv'
  <2>1. /\ pc[w] = "ack" /\ Flushed(w)
        /\ UNCHANGED <<routed, dlq, inserted, sent, read, pos>>
    BY <1>13 DEF Ack
  <2>2. /\ pc'[w] # "decode" /\ pc'[w] \notin {"insert", "ack"}
        /\ \A v \in Workers : v # w => pc'[v] = pc[v]
        /\ flushed' = [flushed EXCEPT ![w] = read[w]]
    BY <2>1, FlushedType
  <2>3. CASE EndSession(w)
    BY <2>1, <2>2, <2>3, LossEndSession
  <2>4. CASE /\ UNCHANGED queue
             /\ unacked' = [unacked EXCEPT ![w] = {i \in unacked[w] : i > read[w]}]
    <3>1. /\ unacked'[w] = {i \in unacked[w] : i > read[w]}
          /\ flushed'[w] = read[w]
          /\ \A v \in Workers : v # w => /\ unacked'[v] = unacked[v]
                                         /\ flushed'[v] = flushed[v]
      BY <2>2, <2>4 DEF TypeOK
    <3>2. read[w] \in Nat /\ unacked[w] \subseteq Nat
      BY DEF TypeOK
    <3>3. \A i \in unacked[w] : i <= read[w] => /\ sent[w][i] \notin Malformed
                                                /\ inserted[sent[w][i]] > 0
      BY <2>1 DEF LossInv, FlushInv
    <3>4. \A v \in Workers : \A m \in InFlight(v) :
            m \in InFlight(v)' \/ (m \notin Malformed /\ inserted[m] > 0)
      BY <2>1, <3>1, <3>2, <3>3 DEF InFlight
    <3>5. NoSilentLoss'
      BY <2>1, <2>4, <3>4 DEF LossInv, NoSilentLoss
    <3>6. FlushInv(w)'
      <4>1. \A i \in unacked'[w] : read[w] < i
        BY <3>1, <3>2
      <4> QED
        BY <2>2, <3>1, <4>1 DEF FlushInv
    <3>7. \A v \in Workers : v # w => FlushInv(v)'
      BY <2>1, <2>2, <3>1, FlushOther DEF LossInv
    <3> QED
      BY <3>5, <3>6, <3>7 DEF LossInv
  <2>5. CASE ~alive[w] /\ UNCHANGED <<queue, unacked>>
    <3>1. unacked[w] = {} /\ \A v \in Workers : v # w => flushed'[v] = flushed[v]
      BY <2>2, <2>5 DEF SessionInv, TypeOK
    <3>2. NoSilentLoss'
      BY <2>1, <2>5 DEF LossInv, NoSilentLoss, InFlight
    <3>3. FlushInv(w)'
      BY <2>2, <2>5, <3>1, FlushNothing
    <3>4. \A v \in Workers : v # w => FlushInv(v)'
      BY <2>1, <2>2, <2>5, <3>1, FlushOther DEF LossInv
    <3> QED
      BY <3>2, <3>3, <3>4 DEF LossInv
  <2> QED
    BY <1>13, <2>3, <2>4, <2>5 DEF Ack
<1>14. CASE UNCHANGED vars
  BY <1>14 DEF vars, broker, session, worker, LossInv, NoSilentLoss, InFlight,
               FlushInv
<1> QED
  BY <1>1, <1>2, <1>3, <1>4, <1>5, <1>6, <1>7, <1>8, <1>9, <1>10, <1>11,
     <1>12, <1>13, <1>14 DEF Next, Step

\* No click that reached the queue is lost without a trace, for any number of
\* messages, workers and faults and whatever the broker makes of an ack of a
\* nacked tag: Ack(multiple) at consumer.go:215 never covers an unsettled one.
THEOREM NoMessageLost == Spec => []NoSilentLoss
<1>1. Init => LossInv
  BY DEF Init, LossInv, NoSilentLoss, FlushInv
<1>2. LossInv => NoSilentLoss
  BY DEF LossInv
<1> QED
  BY <1>1, <1>2, TypeInit, TypeStep, LossStep, PTL DEF Spec

-----------------------------------------------------------------------------
\* The pipeline implements ClickLog.

\* Every message is in one place: what the broker waits for is not in the queue
\* and was delivered once; and whatever was delivered has reached the queue.
Custody ==
  /\ queue \subseteq routed
  /\ \A w \in Workers : \A i \in 1 .. Len(sent[w]) : sent[w][i] \in routed
  /\ \A w \in Workers : \A i \in unacked[w] : sent[w][i] \notin queue
  /\ \A w, v \in Workers : \A i \in unacked[w], j \in unacked[v] :
       sent[w][i] = sent[v][j] => w = v /\ i = j

\* A step that delivers nothing and takes nothing out of the queue.
LEMMA CustodyFrame ==
  ASSUME TypeOK, Custody, UNCHANGED <<queue, routed>>,
         \A v \in Workers : /\ unacked'[v] \subseteq unacked[v]
                            /\ sent'[v] = sent[v] \/ (sent'[v] = <<>> /\ unacked'[v] = {})
  PROVE  Custody'
<1>1. \A v \in Workers : \A i \in 1 .. Len(sent'[v]) : sent'[v][i] \in routed
  BY DEF Custody
<1>2. \A v \in Workers : \A i \in unacked'[v] : i \in unacked[v] /\ sent'[v] = sent[v]
  OBVIOUS
<1> QED
  BY <1>1, <1>2 DEF Custody

\* Ending a session moves its deliveries back to the queue.
LEMMA CustodyEnd ==
  ASSUME TypeOK, Custody, NEW w \in Workers, EndSession(w), UNCHANGED <<routed, sent>>
  PROVE  Custody'
<1>1. /\ unacked'[w] = {}
      /\ \A v \in Workers : v # w => unacked'[v] = unacked[v]
  BY EndSessionType
<1>2. queue' = queue \cup {sent[w][i] : i \in unacked[w]}
  BY DEF EndSession, InFlight
<1>3. \A i \in unacked[w] : sent[w][i] \in routed
  BY DEF Custody, TypeOK, BatchOK
<1>4. \A v \in Workers : \A j \in unacked'[v] :
        v # w /\ j \in unacked[v] /\ sent[v][j] \notin queue'
  BY <1>1, <1>2 DEF Custody
<1> QED
  BY <1>2, <1>3, <1>4 DEF Custody

\* Custody is inductive.
LEMMA CustodyStep == TypeInv /\ Custody /\ [Next]_vars => Custody'
<1> SUFFICES ASSUME TypeInv, Custody, [Next]_vars PROVE Custody'
  OBVIOUS
<1>0. TypeOK /\ SessionInv
  BY DEF TypeInv
<1> USE <1>0
<1>1. ASSUME NEW m \in Msgs, Publish(m) PROVE Custody'
  <2>1. /\ UNCHANGED <<sent, unacked>> /\ m \notin routed
        /\ \/ UNCHANGED <<queue, routed>>
           \/ queue' = queue \cup {m} /\ routed' = routed \cup {m}
    BY <1>1 DEF Publish, session
  <2>2. \A w \in Workers : \A i \in unacked[w] : sent[w][i] \in routed
    BY DEF Custody, TypeOK, BatchOK
  <2> QED
    BY <2>1, <2>2 DEF Custody
<1>2. ASSUME NEW w \in Workers, Deliver(w) PROVE Custody'
  <2>1. PICK m \in queue : /\ queue' = queue \ {m}
                           /\ sent' = [sent EXCEPT ![w] = Append(sent[w], m)]
    BY <1>2 DEF Deliver
  <2>2. /\ unacked' = [unacked EXCEPT ![w] = unacked[w] \cup {Len(sent[w]) + 1}]
        /\ routed' = routed
    BY <1>2 DEF Deliver
  <2>3. /\ m \in Msgs /\ sent[w] \in Seq(Msgs) /\ Len(sent[w]) \in Nat
        /\ \A v \in Workers : unacked[v] \subseteq 1 .. Len(sent[v])
    BY DEF TypeOK, BatchOK
  <2>4. /\ Len(sent'[w]) = Len(sent[w]) + 1 /\ sent'[w][Len(sent[w]) + 1] = m
        /\ \A i \in 1 .. Len(sent[w]) : sent'[w][i] = sent[w][i]
    BY <2>1, <2>3 DEF TypeOK
  <2>5. \A v \in Workers : v # w => sent'[v] = sent[v] /\ unacked'[v] = unacked[v]
    BY <2>1, <2>2 DEF TypeOK
  <2>6. unacked'[w] = unacked[w] \cup {Len(sent[w]) + 1}
    BY <2>2 DEF TypeOK
  <2>7. \A v \in Workers : \A i \in unacked'[v] :
          \/ v = w /\ i = Len(sent[w]) + 1 /\ sent'[v][i] = m
          \/ i \in unacked[v] /\ sent'[v][i] = sent[v][i] /\ sent[v][i] # m
    BY <2>1, <2>3, <2>4, <2>5, <2>6 DEF Custody
  <2>8. \A v \in Workers : \A i \in 1 .. Len(sent'[v]) : sent'[v][i] \in routed'
    <3> SUFFICES ASSUME NEW v \in Workers, NEW i \in 1 .. Len(sent'[v])
                 PROVE  sent'[v][i] \in routed
      BY <2>2
    <3>1. CASE v # w
      BY <2>5, <3>1 DEF Custody
    <3>2. CASE v = w
      <4>1. i = Len(sent[w]) + 1 \/ i \in 1 .. Len(sent[w])
        BY <2>3, <2>4, <3>2
      <4> QED
        BY <2>1, <2>4, <3>2, <4>1 DEF Custody
    <3> QED
      BY <3>1, <3>2
  <2>9. queue' \subseteq routed'
    BY <2>1, <2>2 DEF Custody
  <2>10. \A v \in Workers : \A i \in unacked'[v] : sent'[v][i] \notin queue'
    <3> SUFFICES ASSUME NEW v \in Workers, NEW i \in unacked'[v]
                 PROVE  sent'[v][i] \notin queue \ {m}
      BY <2>1
    <3>1. CASE sent'[v][i] = m
      BY <3>1
    <3>2. CASE i \in unacked[v] /\ sent'[v][i] = sent[v][i]
      BY <3>2 DEF Custody
    <3> QED
      BY <2>7, <3>1, <3>2
  <2>11. \A u, v \in Workers : \A i \in unacked'[u], j \in unacked'[v] :
           sent'[u][i] = sent'[v][j] => u = v /\ i = j
    BY <2>7 DEF Custody
  <2> QED
    BY <2>8, <2>9, <2>10, <2>11 DEF Custody
<1>3. ASSUME NEW w \in Workers,
             \/ SessionLost(w) \/ Crash(w) \/ InsertFails(w) \/ Close(w)
      PROVE  Custody'
  BY <1>3, CustodyEnd DEF SessionLost, Crash, InsertFails, Close
<1>4. ASSUME NEW w \in Workers, Consume(w) \/ Restart(w) PROVE Custody'
  <2>1. /\ UNCHANGED <<queue, routed, unacked>>
        /\ sent' = [sent EXCEPT ![w] = <<>>] \/ sent' = sent
        /\ pc[w] \in {"consume", "failed"}
    BY <1>4 DEF Consume, Restart, broker
  <2>2. unacked[w] = {}
    BY <2>1 DEF SessionInv
  <2>3. \A v \in Workers : sent'[v] = sent[v] \/ (sent'[v] = <<>> /\ unacked'[v] = {})
    BY <2>1, <2>2 DEF TypeOK
  <2> QED
    BY <2>1, <2>3, CustodyFrame
<1>5. ASSUME NEW w \in Workers, Decode(w) PROVE Custody'
  <2>1. /\ UNCHANGED <<queue, routed, sent>>
        /\ unacked' = unacked \/ unacked' = [unacked EXCEPT ![w] = @ \ {pos[w]}]
    BY <1>5 DEF Decode
  <2>2. \A v \in Workers : unacked'[v] \subseteq unacked[v]
    BY <2>1 DEF TypeOK
  <2> QED
    BY <2>1, <2>2, CustodyFrame
<1>6. ASSUME NEW w \in Workers, Ack(w) PROVE Custody'
  <2>1. UNCHANGED <<routed, sent>>
    BY <1>6 DEF Ack
  <2>2. CASE EndSession(w)
    BY <2>1, <2>2, CustodyEnd
  <2>3. CASE ~EndSession(w)
    <3>1. /\ queue' = queue
          /\ \/ unacked' = unacked
             \/ unacked' = [unacked EXCEPT ![w] = {i \in @ : i > read[w]}]
      BY <1>6, <2>3 DEF Ack
    <3>2. \A v \in Workers : unacked'[v] \subseteq unacked[v]
      BY <3>1 DEF TypeOK
    <3> QED
      BY <2>1, <3>1, <3>2, CustodyFrame
  <2> QED
    BY <2>2, <2>3
<1>7. ASSUME UNCHANGED <<queue, routed, sent, unacked>> PROVE Custody'
  BY <1>7, CustodyFrame
<1> QED
  BY <1>1, <1>2, <1>3, <1>4, <1>5, <1>6, <1>7
     DEF Next, Step, Cancel, Dial, Setup, Receive, Tick, CtxDone,
         DeliveriesClosed, Insert, vars, broker, session

\* A step that moves deliveries between the queue and the sessions, or not at
\* all, is one that the log does not see.
LEMMA HeldKept ==
  ASSUME TypeOK, UNCHANGED <<queue, sent, unacked>>
  PROVE  Held' = Held
BY DEF Held, InFlight

\* The end of a session leaves the same clicks with the pipeline.
LEMMA HeldEnd ==
  ASSUME TypeOK, NEW w \in Workers, EndSession(w), UNCHANGED sent
  PROVE  Held' = Held
<1>1. /\ InFlight(w)' = {}
      /\ \A v \in Workers : v # w => InFlight(v)' = InFlight(v)
  BY EndSessionType DEF InFlight
<1>2. queue' = queue \cup InFlight(w)
  BY DEF EndSession
<1> QED
  BY <1>1, <1>2 DEF Held

\* BulkInsert records the events of the batch.
LEMMA RecordStep ==
  ASSUME TypeOK, Custody, NEW w \in Workers, Store(w), Held' = Held,
         UNCHANGED <<routed, dlq>>
  PROVE  Log!Next
<1>1. Events(w) \subseteq Msgs /\ Events(w) \subseteq routed \ Malformed
  BY DEF Events, TypeOK, BatchOK, Custody
<1>2. \A m \in Msgs : inserted'[m] > 0 <=> (inserted[m] > 0 \/ m \in Events(w))
  BY DEF Store, TypeOK
<1>3. Recorded' = Recorded \cup Events(w)
  BY <1>1, <1>2 DEF Recorded
<1>4. Log!Record(Events(w))
  BY <1>3 DEF Log!Record
<1> QED
  BY <1>1, <1>4 DEF Log!Next

\* Every step of the pipeline is a step of the log, or one it does not see.
LEMMA LogStep ==
  ASSUME TypeInv, LossInv, Custody, [Next]_vars
  PROVE  [Log!Next]_(Log!vars)
<1>0. TypeOK /\ SessionInv
  BY DEF TypeInv
<1> USE <1>0
<1>a. ASSUME Held' = Held, UNCHANGED <<routed, inserted, dlq>>
      PROVE  [Log!Next]_(Log!vars)
  BY <1>a DEF Log!vars, Recorded
<1>1. ASSUME NEW m \in Msgs, Publish(m) PROVE [Log!Next]_(Log!vars)
  <2>1. /\ UNCHANGED <<sent, unacked, dlq, inserted>> /\ m \notin routed
        /\ \/ UNCHANGED <<queue, routed>>
           \/ queue' = queue \cup {m} /\ routed' = routed \cup {m}
    BY <1>1 DEF Publish, session
  <2>2. CASE UNCHANGED <<queue, routed>>
    BY <2>1, <2>2, HeldKept, <1>a
  <2>3. CASE queue' = queue \cup {m} /\ routed' = routed \cup {m}
    <3>1. Held' = Held \cup {m} /\ Recorded' = Recorded
      BY <2>1, <2>3 DEF Held, InFlight, Recorded
    <3>2. Log!Accept(m)
      BY <2>1, <2>3, <3>1 DEF Log!Accept
    <3> QED
      BY <3>2 DEF Log!Next
  <2> QED
    BY <2>1, <2>2, <2>3
<1>2. ASSUME NEW w \in Workers, Deliver(w) PROVE [Log!Next]_(Log!vars)
  <2>1. PICK m \in queue : /\ queue' = queue \ {m}
                           /\ sent' = [sent EXCEPT ![w] = Append(sent[w], m)]
    BY <1>2 DEF Deliver
  <2>2. /\ unacked' = [unacked EXCEPT ![w] = unacked[w] \cup {Len(sent[w]) + 1}]
        /\ UNCHANGED <<routed, dlq, inserted>>
    BY <1>2 DEF Deliver
  <2>3. /\ m \in Msgs /\ sent[w] \in Seq(Msgs) /\ Len(sent[w]) \in Nat
        /\ unacked[w] \subseteq 1 .. Len(sent[w])
    BY DEF TypeOK, BatchOK
  <2>4. /\ sent'[w][Len(sent[w]) + 1] = m
        /\ \A i \in 1 .. Len(sent[w]) : sent'[w][i] = sent[w][i]
    BY <2>1, <2>3 DEF TypeOK
  <2>5. \A v \in Workers : v # w => InFlight(v)' = InFlight(v)
    BY <2>1, <2>2 DEF TypeOK, InFlight
  <2>6. unacked'[w] = unacked[w] \cup {Len(sent[w]) + 1}
    BY <2>2 DEF TypeOK
  <2>7. InFlight(w)' = InFlight(w) \cup {m}
    BY <2>3, <2>4, <2>6 DEF InFlight
  <2>8. Held' = Held
    BY <2>1, <2>5, <2>7 DEF Held
  <2> QED
    BY <2>2, <2>8, <1>a
<1>3. ASSUME NEW w \in Workers, SessionLost(w) \/ Crash(w) \/ Close(w)
      PROVE  [Log!Next]_(Log!vars)
  BY <1>3, HeldEnd, <1>a DEF SessionLost, Crash, Close
<1>4. ASSUME NEW w \in Workers, Insert(w) \/ InsertFails(w)
      PROVE  [Log!Next]_(Log!vars)
  <2>1. Held' = Held /\ UNCHANGED <<routed, dlq>>
    BY <1>4, HeldEnd, HeldKept DEF Insert, InsertFails, broker, session
  <2>2. Store(w) \/ UNCHANGED inserted
    BY <1>4 DEF Insert, InsertFails
  <2> QED
    BY <2>1, <2>2, RecordStep, <1>a
<1>5. ASSUME NEW w \in Workers, Consume(w) \/ Restart(w)
      PROVE  [Log!Next]_(Log!vars)
  <2>1. /\ UNCHANGED <<queue, routed, unacked, inserted, dlq>>
        /\ sent' = [sent EXCEPT ![w] = <<>>] \/ sent' = sent
        /\ pc[w] \in {"consume", "failed"}
    BY <1>5 DEF Consume, Restart, broker
  <2>2. unacked[w] = {}
    BY <2>1 DEF SessionInv
  <2>3. ASSUME NEW v \in Workers PROVE InFlight(v)' = InFlight(v)
    <3>1. CASE v = w
      BY <2>1, <2>2, <3>1 DEF InFlight
    <3>2. CASE v # w
      <4>1. sent'[v] = sent[v]
        BY <2>1, <3>2 DEF TypeOK
      <4> QED
        BY <2>1, <4>1 DEF InFlight
    <3> QED
      BY <3>1, <3>2
  <2>4. Held' = Held
    BY <2>1, <2>3 DEF Held
  <2> QED
    BY <2>1, <2>4, <1>a
<1>6. ASSUME NEW w \in Workers, Decode(w) PROVE [Log!Next]_(Log!vars)
  <2>1. UNCHANGED <<queue, routed, inserted, sent>> /\ Recorded' = Recorded
    BY <1>6 DEF Decode, Recorded
  <2>2. CASE UNCHANGED <<unacked, dlq>>
    BY <2>1, <2>2, HeldKept, <1>a
  <2>3. CASE ~UNCHANGED <<unacked, dlq>>
    <3> DEFINE i == pos[w]
               m == sent[w][pos[w]]
    <3>1. /\ m \in Malformed /\ i \in unacked[w] /\ dlq' = dlq \cup {m}
          /\ unacked' = [unacked EXCEPT ![w] = @ \ {i}]
      BY <1>6, <2>3 DEF Decode
    <3>2. InFlight(w)' = InFlight(w) \ {m} /\ m \in InFlight(w) /\ m \notin queue
      BY <2>1, <3>1 DEF Custody, InFlight, TypeOK
    <3>3. \A v \in Workers : v # w => InFlight(v)' = InFlight(v) /\ m \notin InFlight(v)
      BY <2>1, <3>1 DEF Custody, InFlight, TypeOK
    <3>4. Held' = Held \ {m} /\ m \in Held
      BY <2>1, <3>2, <3>3 DEF Held
    <3>5. Log!DeadLetter(m)
      BY <2>1, <3>1, <3>4 DEF Log!DeadLetter
    <3> QED
      BY <3>1, <3>5 DEF Log!Next
  <2> QED
    BY <2>2, <2>3
<1>7. ASSUME NEW w \in Workers, Ack(w) PROVE [Log!Next]_(Log!vars)
  <2>1. UNCHANGED <<routed, inserted, dlq, sent>> /\ pc[w] = "ack"
    BY <1>7 DEF Ack
  <2>2. CASE EndSession(w)
    BY <2>1, <2>2, HeldEnd, <1>a
  <2>3. CASE UNCHANGED <<queue, unacked>>
    BY <2>1, <2>3, HeldKept, <1>a
  <2>4. CASE /\ queue' = queue
             /\ unacked' = [unacked EXCEPT ![w] = {i \in @ : i > read[w]}]
    <3>1. \A v \in Workers : v # w => InFlight(v)' = InFlight(v)
      BY <2>1, <2>4 DEF InFlight, TypeOK
    <3>2. unacked'[w] = {i \in unacked[w] : i > read[w]}
      BY <2>4 DEF TypeOK
    <3>3. InFlight(w)' \subseteq InFlight(w)
      BY <2>1, <3>2 DEF InFlight
    <3>4. ASSUME NEW i \in unacked[w], i \notin unacked'[w]
          PROVE  sent[w][i] \in Recorded
      <4>1. i <= read[w] /\ sent[w][i] \in Msgs
        BY <3>2, <3>4 DEF TypeOK, BatchOK
      <4> QED
        BY <2>1, <4>1 DEF LossInv, FlushInv, Recorded
    <3>5. InFlight(w) \subseteq InFlight(w)' \cup Recorded
      BY <2>1, <3>4 DEF InFlight
    <3> DEFINE S == Held \ Held'
    <3>6. Held' \subseteq Held /\ S \subseteq Held \cap Recorded
      BY <2>4, <3>1, <3>3, <3>5 DEF Held
    <3>7. Held' = Held \ S /\ Recorded' = Recorded
      BY <2>1, <3>6 DEF Recorded
    <3>8. Log!Settle(S)
      BY <2>1, <3>7 DEF Log!Settle
    <3> HIDE DEF S
    <3> QED
      BY <3>6, <3>8 DEF Log!Next
  <2> QED
    BY <1>7, <2>2, <2>3, <2>4 DEF Ack
<1>8. ASSUME UNCHANGED <<queue, routed, inserted, dlq, sent, unacked>>
      PROVE  [Log!Next]_(Log!vars)
  BY <1>8, HeldKept, <1>a
<1> QED
  BY <1>1, <1>2, <1>3, <1>4, <1>5, <1>6, <1>7, <1>8
     DEF Next, Step, Cancel, Dial, Setup, Receive, Tick, CtxDone,
         DeliveriesClosed, vars, broker, session

\* For any number of messages, workers and faults, the workers of consumer.go
\* and main.go with the broker and the table are a log that keeps a click until
\* it is recorded or dead-lettered: nothing is settled early or twice, and only
\* what cannot be decoded is dead-lettered.
THEOREM WorkersImplementLog == Spec => ImplementsClickLog
<1>1. Init => Log!Init
  <2> SUFFICES ASSUME Init PROVE Log!Init
    OBVIOUS
  <2>1. \A w \in Workers : InFlight(w) = {}
    BY DEF Init, InFlight
  <2> QED
    BY <2>1 DEF Init, Held, Recorded, Log!Init
<1>2. Init => LossInv /\ Custody
  BY DEF Init, LossInv, NoSilentLoss, FlushInv, Custody
<1>3. TypeInv /\ LossInv /\ Custody /\ [Next]_vars => [Log!Next]_(Log!vars)
  BY LogStep
<1> QED
  BY <1>1, <1>2, <1>3, TypeInit, TypeStep, LossStep, CustodyStep, PTL
     DEF Spec, ImplementsClickLog, Log!Spec

-----------------------------------------------------------------------------
\* No click is recorded more often than something went wrong.

\* The deliveries that flush has not disposed of yet.
Pending(w) == (flushed[w] + 1) .. Len(sent[w])

\* w may still record m: the delivery is in its batch or behind it, whether the
\* session that it came with exists or not, and was not inserted yet.
Holds(w, m) ==
  /\ pc[w] \in {"select", "decode", "insert", "ack", "close"}
  /\ \E i \in Pending(w) : sent[w][i] = m /\ (pc[w] = "ack" => i > read[w])

Holders(m) == {w \in Workers : Holds(w, m)}

\* The broker waits for every pending delivery of a session except the nacked
\* ones, and no worker has the same click twice.
PendingInv ==
  \A w \in Workers :
    /\ alive[w] => \A i \in Pending(w) : sent[w][i] \notin Malformed => i \in unacked[w]
    /\ \A i, j \in Pending(w) :
         sent[w][i] = sent[w][j] /\ sent[w][i] \notin Malformed => i = j

\* A step concerns one worker.
SameOthers(w) ==
  \A v \in Workers \ {w} :
    /\ pc'[v] = pc[v] /\ flushed'[v] = flushed[v] /\ sent'[v] = sent[v]
    /\ read'[v] = read[v] /\ alive'[v] = alive[v] /\ unacked'[v] = unacked[v]

LEMMA OneWorker ==
  ASSUME TypeOK, NEW w \in Workers,
         Deliver(w) \/ SessionLost(w) \/ Cancel(w) \/ Crash(w) \/ Step(w)
  PROVE  SameOthers(w)
<1> USE DEF SameOthers, TypeOK, Goto, EndSession, LoopHead, BeginFlush, Flushed
<1>1. CASE Deliver(w) \/ SessionLost(w) \/ Cancel(w) \/ Crash(w)
  BY <1>1 DEF Deliver, SessionLost, Cancel, Crash, worker, session
<1>2. CASE Dial(w) \/ Setup(w)
  BY <1>2 DEF Dial, Setup, session
<1>3. CASE Consume(w) \/ Restart(w)
  BY <1>3 DEF Consume, Restart
<1>4. CASE Receive(w) \/ Tick(w) \/ CtxDone(w) \/ DeliveriesClosed(w)
  BY <1>4 DEF Receive, Tick, CtxDone, DeliveriesClosed, session
<1>5. CASE Decode(w)
  BY <1>5 DEF Decode
<1>6. CASE Insert(w) \/ InsertFails(w) \/ Close(w)
  BY <1>6 DEF Insert, InsertFails, Close, session
<1>7. CASE Ack(w)
  BY <1>7 DEF Ack
<1> QED
  BY <1>1, <1>2, <1>3, <1>4, <1>5, <1>6, <1>7 DEF Step

\* What the own step of a worker may do to its pending deliveries.
LEMMA PendingFrame ==
  ASSUME TypeOK, PendingInv, NEW w \in Workers, SameOthers(w),
         sent'[w] = sent[w], Pending(w)' \subseteq Pending(w),
         alive'[w] => /\ alive[w]
                      /\ \A i \in Pending(w)' :
                           i \in unacked[w] /\ sent[w][i] \notin Malformed
                             => i \in unacked'[w]
  PROVE  PendingInv'
<1> SUFFICES ASSUME NEW v \in Workers
             PROVE  /\ alive'[v] => \A i \in Pending(v)' :
                         sent'[v][i] \notin Malformed => i \in unacked'[v]
                    /\ \A i, j \in Pending(v)' :
                         sent'[v][i] = sent'[v][j] /\ sent'[v][i] \notin Malformed => i = j
  BY DEF PendingInv
<1>1. CASE v = w
  BY <1>1 DEF PendingInv
<1>2. CASE v # w
  BY <1>2 DEF SameOthers, PendingInv, Pending
<1> QED
  BY <1>1, <1>2

LEMMA PendingStep ==
  TypeInv /\ LossInv /\ Custody /\ PendingInv /\ [Next]_vars => PendingInv'
<1> SUFFICES ASSUME TypeInv, LossInv, Custody, PendingInv, [Next]_vars PROVE PendingInv'
  OBVIOUS
<1>0. TypeOK /\ SessionInv
  BY DEF TypeInv
<1> USE <1>0
<1>1. ASSUME UNCHANGED <<flushed, sent, alive, unacked>> PROVE PendingInv'
  BY <1>1 DEF PendingInv, Pending
<1>2. ASSUME NEW w \in Workers, Deliver(w) PROVE PendingInv'
  <2>1. PICK m \in queue : sent' = [sent EXCEPT ![w] = Append(sent[w], m)]
    BY <1>2 DEF Deliver
  <2>2. /\ unacked' = [unacked EXCEPT ![w] = unacked[w] \cup {Len(sent[w]) + 1}]
        /\ alive[w] /\ UNCHANGED <<alive, flushed>>
    BY <1>2 DEF Deliver, worker
  <2>3. m \in Msgs /\ sent[w] \in Seq(Msgs) /\ Len(sent[w]) \in Nat /\ flushed[w] \in Nat
    BY DEF TypeOK
  <2>4. /\ Len(sent'[w]) = Len(sent[w]) + 1 /\ sent'[w][Len(sent[w]) + 1] = m
        /\ \A i \in 1 .. Len(sent[w]) : sent'[w][i] = sent[w][i]
    BY <2>1, <2>3 DEF TypeOK
  <2>5. unacked'[w] = unacked[w] \cup {Len(sent[w]) + 1}
    BY <2>2 DEF TypeOK
  <2>6. \A i \in Pending(w)' :
          \/ i = Len(sent[w]) + 1
          \/ i \in Pending(w) /\ i \in 1 .. Len(sent[w])
    BY <2>2, <2>3, <2>4 DEF Pending
  <2>7. \A i \in Pending(w) : sent[w][i] \notin Malformed => sent[w][i] # m
    BY <2>2 DEF PendingInv, Custody
  <2>8. \A v \in Workers : v # w => SameOthers(w) /\ Pending(v)' = Pending(v)
    BY <1>2, OneWorker DEF Pending, SameOthers
  <2> SUFFICES ASSUME NEW v \in Workers
               PROVE  /\ alive'[v] => \A i \in Pending(v)' :
                           sent'[v][i] \notin Malformed => i \in unacked'[v]
                      /\ \A i, j \in Pending(v)' :
                           sent'[v][i] = sent'[v][j] /\ sent'[v][i] \notin Malformed => i = j
    BY DEF PendingInv
  <2>9. CASE v # w
    BY <2>8, <2>9 DEF SameOthers, PendingInv
  <2>10. CASE v = w
    <3>1. \A i \in Pending(w)' : sent'[w][i] \notin Malformed => i \in unacked'[w]
      BY <2>2, <2>4, <2>5, <2>6 DEF PendingInv
    <3>2. ASSUME NEW i \in Pending(w)', NEW j \in Pending(w)',
                 sent'[w][i] = sent'[w][j], sent'[w][i] \notin Malformed
          PROVE  i = j
      <4>1. CASE i \in Pending(w) /\ j \in Pending(w)
        <5>1. i \in 1 .. Len(sent[w]) /\ j \in 1 .. Len(sent[w])
          BY <2>3, <4>1 DEF Pending
        <5>2. sent'[w][i] = sent[w][i] /\ sent'[w][j] = sent[w][j]
          BY <2>4, <5>1
        <5> QED
          BY <3>2, <4>1, <5>2 DEF PendingInv
      <4>2. CASE ~(i \in Pending(w) /\ j \in Pending(w))
        <5>1. i = Len(sent[w]) + 1 \/ (i \in Pending(w) /\ sent'[w][i] # m)
          BY <2>4, <2>6, <2>7, <3>2
        <5>2. j = Len(sent[w]) + 1 \/ (j \in Pending(w) /\ sent'[w][j] # m)
          BY <2>4, <2>6, <2>7, <3>2
        <5> QED
          BY <2>4, <3>2, <4>2, <5>1, <5>2
      <4> QED
        BY <4>1, <4>2
    <3> QED
      BY <2>10, <3>1, <3>2
  <2> QED
    BY <2>9, <2>10
\* The end of a session.
<1>3. ASSUME NEW w \in Workers, SessionLost(w) \/ Crash(w) \/ InsertFails(w) \/ Close(w)
      PROVE  PendingInv'
  <2>1. EndSession(w) /\ UNCHANGED <<sent, flushed>>
    BY <1>3 DEF SessionLost, Crash, InsertFails, Close, worker
  <2>2. SameOthers(w)
    BY <1>3, OneWorker DEF Step
  <2>3. ~alive'[w]
    BY <2>1, EndSessionType
  <2> QED
    BY <2>1, <2>2, <2>3, PendingFrame DEF Pending
<1>4. ASSUME NEW w \in Workers, Consume(w) \/ Restart(w) PROVE PendingInv'
  <2>1. SameOthers(w)
    BY <1>4, OneWorker DEF Step
  <2>2. CASE UNCHANGED <<alive, sent, flushed>>
    BY <1>1, <1>4, <2>2 DEF Consume, Restart
  <2>3. CASE sent' = [sent EXCEPT ![w] = <<>>] /\ flushed' = [flushed EXCEPT ![w] = 0]
    <3>1. Pending(w)' = {}
      BY <2>3 DEF Pending, TypeOK
    <3>2. \A v \in Workers : v # w => Pending(v)' = Pending(v)
      BY <2>1 DEF SameOthers, Pending
    <3> QED
      BY <2>1, <3>1, <3>2 DEF PendingInv, SameOthers
  <2> QED
    BY <1>4, <2>2, <2>3 DEF Consume, Restart
<1>5. ASSUME NEW w \in Workers, Decode(w) PROVE PendingInv'
  <2>1. SameOthers(w) /\ UNCHANGED <<sent, alive>>
    BY <1>5, OneWorker DEF Step, Decode
  <2>2. \/ unacked' = unacked
        \/ unacked' = [unacked EXCEPT ![w] = @ \ {pos[w]}] /\ sent[w][pos[w]] \in Malformed
    BY <1>5 DEF Decode
  <2>3. \A i \in unacked[w] : sent[w][i] \notin Malformed => i \in unacked'[w]
    BY <2>2 DEF TypeOK
  <2>4. Pending(w)' \subseteq Pending(w)
    <3>1. flushed'[w] \in {flushed[w], read[w]}
      BY <1>5 DEF Decode, Flushed, TypeOK
    <3>2. flushed[w] \in Nat /\ read[w] \in Nat /\ flushed[w] <= read[w]
      BY DEF TypeOK, BatchOK
    <3>3. Len(sent[w]) \in Nat
      BY DEF TypeOK
    <3> QED
      BY <2>1, <3>1, <3>2, <3>3 DEF Pending
  <2> QED
    BY <2>1, <2>3, <2>4, PendingFrame
<1>6. ASSUME NEW w \in Workers, Ack(w) PROVE PendingInv'
  <2>1. SameOthers(w) /\ UNCHANGED sent /\ flushed'[w] = read[w]
    BY <1>6, OneWorker DEF Step, Ack, Flushed, TypeOK
  <2>2. /\ flushed[w] \in Nat /\ read[w] \in Nat /\ flushed[w] <= read[w]
        /\ Len(sent[w]) \in Nat
    BY DEF TypeOK, BatchOK
  <2>3. Pending(w)' \subseteq Pending(w) /\ \A i \in Pending(w)' : i > read[w]
    BY <2>1, <2>2 DEF Pending
  <2>4. CASE ~alive'[w]
    BY <2>1, <2>3, <2>4, PendingFrame
  <2>5. CASE alive'[w]
    <3>1. ~EndSession(w)
      BY <2>5, EndSessionType
    <3>2. /\ alive' = alive
          /\ \/ unacked' = unacked
             \/ unacked' = [unacked EXCEPT ![w] = {i \in @ : i > read[w]}]
      BY <1>6, <3>1 DEF Ack
    <3>3. \A i \in unacked[w] : i > read[w] => i \in unacked'[w]
      BY <3>2 DEF TypeOK
    <3> QED
      BY <2>1, <2>3, <2>5, <3>2, <3>3, PendingFrame
  <2> QED
    BY <2>4, <2>5
<1> QED
  BY <1>1, <1>2, <1>3, <1>4, <1>5, <1>6
     DEF Next, Step, Publish, Cancel, Dial, Setup, Receive, Tick, CtxDone,
         DeliveriesClosed, Insert, vars, worker, session

\* The copies of m that are ready or recorded.
Copies(m) == inserted[m] + (IF m \in queue THEN 1 ELSE 0)

Cuts == Cardinality(Interrupted)

\* What went wrong so far.
Mishaps == faults + closes + Cuts

\* Every worker that may still record m, and every copy of it, beyond the first
\* is due to a mishap.
DuplicateInv ==
  /\ IsFiniteSet(Interrupted)
  /\ \A m \in Msgs :
       /\ m \in Malformed \/ m \notin routed => inserted[m] = 0
       /\ m \notin Malformed =>
            /\ IsFiniteSet(Holders(m))
            /\ Cardinality(Holders(m)) + Copies(m) <= 1 + Mishaps

\* An interrupted worker stays so, for it is not started again, and a worker is
\* interrupted at most once.
LEMMA InterruptedStep ==
  ASSUME TypeOK, [Next]_vars, IsFiniteSet(Interrupted)
  PROVE  /\ IsFiniteSet(Interrupted') /\ Cuts \in Nat /\ Cuts' \in Nat /\ Cuts <= Cuts'
         /\ \A w \in Workers :
              InsertFails(w) /\ cancelled[w] /\ ~closing[w] => Cuts' = Cuts + 1
<1>1. Interrupted \subseteq Interrupted'
  <2> SUFFICES ASSUME NEW v \in Workers, cancelled[v], ~closing[v], pc[v] = "failed"
               PROVE  cancelled'[v] /\ ~closing'[v] /\ pc'[v] = "failed"
    BY DEF Interrupted
  <2>1. ASSUME NEW w \in Workers, Step(w) PROVE pc[w] # "failed" \/ ~cancelled[w]
    BY <2>1 DEF Step, Dial, Setup, Consume, Restart, Receive, Tick, CtxDone,
       DeliveriesClosed, Decode, Insert, InsertFails, Ack, Close
  <2>2. ASSUME NEW w \in Workers, Step(w), w # v
        PROVE  pc'[v] = pc[v] /\ cancelled' = cancelled /\ closing'[v] = closing[v]
    BY <2>2 DEF Step, Dial, Setup, Consume, Restart, Receive, Tick, CtxDone,
       DeliveriesClosed, Decode, Insert, InsertFails, Ack, Close, Goto, LoopHead,
       BeginFlush, Flushed, TypeOK
  <2>3. ASSUME NEW w \in Workers, Cancel(w) \/ Crash(w)
        PROVE  cancelled'[v] /\ ~closing'[v] /\ pc'[v] = "failed"
    BY <2>3 DEF Cancel, Crash, Goto, TypeOK
  <2>4. ASSUME UNCHANGED <<pc, cancelled, closing>>
        PROVE  cancelled'[v] /\ ~closing'[v] /\ pc'[v] = "failed"
    BY <2>4
  <2> QED
    BY <2>1, <2>2, <2>3, <2>4
       DEF Next, Publish, Deliver, SessionLost, worker, vars
<1>2. PICK w : /\ Interrupted' \subseteq Interrupted \cup {w}
               /\ \A v \in Workers : InsertFails(v) => w = v
  <2>1. ASSUME NEW v \in Workers, Cancel(v) \/ Crash(v) \/ Step(v)
        PROVE  Interrupted' \subseteq Interrupted \cup {v}
    <3>1. ASSUME NEW u \in Workers, u # v
          PROVE  /\ pc'[u] = pc[u] /\ (cancelled'[u] <=> cancelled[u])
                 /\ (closing'[u] <=> closing[u])
      BY <2>1, <3>1 DEF Cancel, Crash, Step, Dial, Setup, Consume, Restart, Receive, Tick,
         CtxDone, DeliveriesClosed, Decode, Insert, InsertFails, Ack, Close, Goto,
         LoopHead, BeginFlush, Flushed, TypeOK
    <3> QED
      BY <3>1 DEF Interrupted
  <2>2. ASSUME NEW v \in Workers, NEW u \in Workers, InsertFails(v), InsertFails(u)
        PROVE  u = v
    <3>1. pc[u] = "insert" /\ pc' = [pc EXCEPT ![v] = "failed"]
          /\ pc' = [pc EXCEPT ![u] = "failed"]
      BY <2>2 DEF InsertFails, Goto
    <3> QED
      BY <3>1 DEF TypeOK
  <2>3. CASE \E v \in Workers : InsertFails(v)
    <3>1. PICK v \in Workers : InsertFails(v)
      BY <2>3
    <3>2. Interrupted' \subseteq Interrupted \cup {v}
      BY <2>1, <3>1 DEF Step
    <3> QED
      BY <2>2, <3>1, <3>2
  <2>4. CASE ~\E v \in Workers : InsertFails(v)
    <3>1. CASE \E v \in Workers : Cancel(v) \/ Crash(v) \/ Step(v)
      BY <2>1, <2>4, <3>1
    <3>2. CASE UNCHANGED <<pc, cancelled, closing>>
      BY <2>4, <3>2 DEF Interrupted
    <3> QED
      BY <3>1, <3>2 DEF Next, Publish, Deliver, SessionLost, worker, vars
  <2> QED
    BY <2>3, <2>4
<1>3. /\ IsFiniteSet(Interrupted \cup {w})
      /\ Cardinality(Interrupted \cup {w}) =
           IF w \in Interrupted THEN Cuts ELSE Cuts + 1
  BY FS_AddElement DEF Cuts
<1>4. IsFiniteSet(Interrupted')
  BY <1>2, <1>3, FS_Subset
<1>5. Cuts \in Nat /\ Cuts' \in Nat
  BY <1>4, FS_CardinalityType DEF Cuts
<1>6. Cuts <= Cuts'
  BY <1>1, <1>4, FS_Subset DEF Cuts
<1>7. ASSUME NEW v \in Workers, InsertFails(v), cancelled[v], ~closing[v]
      PROVE  Cuts' = Cuts + 1
  <2>1. w = v /\ v \notin Interrupted /\ v \in Interrupted'
    BY <1>2, <1>7 DEF InsertFails, Interrupted, Goto, TypeOK
  <2>2. Interrupted' = Interrupted \cup {w}
    BY <1>1, <1>2, <2>1
  <2>3. Cuts' = Cardinality(Interrupted \cup {w})
    BY <2>2 DEF Cuts
  <2> QED
    BY <1>3, <2>1, <2>3
<1> QED
  BY <1>4, <1>5, <1>6, <1>7

\* Only the worker of a step can begin or cease to hold a click.
LEMMA HoldersFrame ==
  ASSUME NEW w \in Workers, SameOthers(w), NEW m
  PROVE  /\ Holders(m)' \subseteq Holders(m) \cup {w}
         /\ (Holds(w, m)' => Holds(w, m)) => Holders(m)' \subseteq Holders(m)
         /\ ~Holds(w, m)' => Holders(m)' \subseteq Holders(m) \ {w}
<1>1. \A v \in Workers \ {w} : Holds(v, m)' <=> Holds(v, m)
  BY DEF SameOthers, Holds, Pending
<1> QED
  BY <1>1 DEF Holders

\* The kinds of steps, as m sees them: nothing new, or as much as went wrong;
\* a copy is delivered to w; w records it or gives it back.
Harmless(m) ==
  /\ Holders(m)' \subseteq Holders(m)
  /\ Copies(m)' + Mishaps <= Copies(m) + Mishaps'

Delivers(w, m) ==
  /\ Holders(m)' \subseteq Holders(m) \cup {w}
  /\ Copies(m)' + 1 + Mishaps <= Copies(m) + Mishaps'

Disposes(w, m) ==
  /\ w \in Holders(m) /\ Holders(m)' \subseteq Holders(m) \ {w}
  /\ Copies(m)' + Mishaps <= Copies(m) + 1 + Mishaps'

Balanced(m) == Harmless(m) \/ \E w \in Workers : Delivers(w, m) \/ Disposes(w, m)

\* Each of them keeps the balance.
LEMMA BalanceKept ==
  ASSUME TypeOK, TypeOK', Cuts \in Nat, Cuts' \in Nat,
         NEW m \in Msgs, Balanced(m), IsFiniteSet(Holders(m)),
         Cardinality(Holders(m)) + Copies(m) <= 1 + Mishaps
  PROVE  /\ IsFiniteSet(Holders(m)')
         /\ Cardinality(Holders(m)') + Copies(m)' <= 1 + Mishaps'
<1> DEFINE H == Holders(m)
           G == Holders(m)'
           c == Copies(m)
           d == Copies(m)'
           b == Mishaps
           k == Mishaps'
<1>1. c \in Nat /\ d \in Nat /\ b \in Nat /\ k \in Nat
  <2>1. inserted[m] \in Nat /\ inserted'[m] \in Nat
    BY DEF TypeOK
  <2>2. c \in Nat /\ d \in Nat
    BY <2>1 DEF Copies
  <2>3. faults \in Nat /\ closes \in Nat
    BY BoundsAssumption DEF TypeOK
  <2>4. faults' \in Nat /\ closes' \in Nat
    BY BoundsAssumption DEF TypeOK
  <2>5. \A x, y, z \in Nat : x + y + z \in Nat
    OBVIOUS
  <2>6. faults + closes + Cuts \in Nat /\ faults' + closes' + Cuts' \in Nat
    BY <2>3, <2>4, <2>5
  <2> QED
    BY <2>2, <2>6 DEF Mishaps
<1>2. Cardinality(H) \in Nat
  BY FS_CardinalityType
<1>3. CASE Harmless(m)
  <2>1. IsFiniteSet(G) /\ Cardinality(G) <= Cardinality(H)
    BY <1>3, FS_Subset DEF Harmless
  <2>2. Cardinality(G) \in Nat /\ d + b <= c + k
    BY <1>3, <2>1, FS_CardinalityType DEF Harmless
  <2> HIDE DEF G, H, c, d, b, k
  <2>3. Cardinality(H) + c <= 1 + b
    BY DEF H, c, b
  <2>4. Cardinality(G) + d <= 1 + k
    BY <1>1, <1>2, <2>1, <2>2, <2>3
  <2> QED
    BY <2>1, <2>4 DEF G, d, k
<1>4. ASSUME NEW w \in Workers, Delivers(w, m)
      PROVE  IsFiniteSet(G) /\ Cardinality(G) + d <= 1 + k
  <2>1. /\ IsFiniteSet(H \cup {w}) /\ Cardinality(H \cup {w}) \in Nat
        /\ Cardinality(H \cup {w}) <= Cardinality(H) + 1
    <3>1. /\ IsFiniteSet(H \cup {w})
          /\ Cardinality(H \cup {w}) =
               IF w \in H THEN Cardinality(H) ELSE Cardinality(H) + 1
      BY FS_AddElement
    <3> HIDE DEF H
    <3> QED
      BY <1>2, <3>1
  <2>2. IsFiniteSet(G) /\ Cardinality(G) <= Cardinality(H \cup {w})
    BY <1>4, <2>1, FS_Subset DEF Delivers
  <2>3. Cardinality(G) \in Nat /\ d + 1 + b <= c + k
    BY <1>4, <2>2, FS_CardinalityType DEF Delivers
  <2>4. Cardinality(H) + c <= 1 + b
    OBVIOUS
  <2> HIDE DEF G, H, c, d, b, k
  <2> QED
    BY <1>1, <1>2, <2>1, <2>2, <2>3, <2>4
<1>5. ASSUME NEW w \in Workers, Disposes(w, m)
      PROVE  IsFiniteSet(G) /\ Cardinality(G) + d <= 1 + k
  <2>1. /\ IsFiniteSet(H \ {w}) /\ Cardinality(H \ {w}) = Cardinality(H) - 1
    BY <1>5, FS_RemoveElement DEF Disposes
  <2>2. IsFiniteSet(G) /\ Cardinality(G) <= Cardinality(H \ {w})
    BY <1>5, <2>1, FS_Subset DEF Disposes
  <2>3. Cardinality(G) \in Nat /\ d + b <= c + 1 + k
    BY <1>5, <2>2, FS_CardinalityType DEF Disposes
  <2>4. Cardinality(H) + c <= 1 + b
    OBVIOUS
  <2> HIDE DEF G, H, c, d, b, k
  <2> QED
    BY <1>1, <1>2, <2>1, <2>2, <2>3, <2>4
<1> QED
  BY <1>3, <1>4, <1>5 DEF Balanced

\* A click that the broker waits for, or that a batch is about to record, is
\* held by the worker.
LEMMA InFlightHeld ==
  ASSUME TypeInv, LossInv, NEW w \in Workers, NEW m \in Msgs, m \notin Malformed
  PROVE  /\ pc[w] \in {"insert", "close"} /\ m \in InFlight(w) => Holds(w, m)
         /\ pc[w] = "insert" /\ m \in Events(w) => Holds(w, m)
<1>1. /\ unacked[w] \subseteq 1 .. Len(sent[w]) /\ flushed[w] \in Nat
      /\ read[w] \in Nat /\ read[w] <= Len(sent[w]) /\ Len(sent[w]) \in Nat
  BY DEF TypeInv, TypeOK, BatchOK
<1>2. \A i \in unacked[w] : flushed[w] < i
  BY DEF LossInv, FlushInv
<1>3. \A i \in unacked[w] : i \in Pending(w)
  BY <1>1, <1>2 DEF Pending
<1>4. \A i \in (flushed[w] + 1) .. read[w] : i \in Pending(w)
  BY <1>1 DEF Pending
<1> QED
  BY <1>3, <1>4 DEF Holds, InFlight, Events

\* Every step but the publication of m itself is one of these kinds.
LEMMA StepBalanced ==
  ASSUME TypeInv, TypeOK', LossInv, Custody, PendingInv, [Next]_vars,
         IsFiniteSet(Interrupted), NEW m \in Msgs, m \notin Malformed, ~Publish(m)
  PROVE  Balanced(m)
<1>0. TypeOK /\ SessionInv
  BY DEF TypeInv
<1> USE <1>0
<1>c. /\ inserted[m] \in Nat /\ faults \in Nat /\ closes \in Nat
      /\ inserted'[m] \in Nat /\ Cuts \in Nat /\ Cuts' \in Nat /\ Cuts <= Cuts'
  BY BoundsAssumption, InterruptedStep DEF TypeOK
\* Holders leave or stay, and nothing is recorded.
<1>a. ASSUME Holders(m)' \subseteq Holders(m), UNCHANGED <<inserted, queue, closes>>,
             faults' = faults \/ Fault
      PROVE  Balanced(m)
  <2>1. Copies(m)' + Mishaps <= Copies(m) + Mishaps'
    BY <1>c, <1>a DEF Copies, Mishaps, Fault
  <2> QED
    BY <1>a, <2>1 DEF Balanced, Harmless
\* A session ends, with a mishap.
<1>b. ASSUME Holders(m)' \subseteq Holders(m), UNCHANGED inserted,
             \/ Fault /\ UNCHANGED closes
             \/ closes' = closes + 1 /\ UNCHANGED faults
      PROVE  Balanced(m)
  <2>1. Copies(m)' + Mishaps <= Copies(m) + Mishaps'
    BY <1>c, <1>b DEF Copies, Mishaps, Fault
  <2> QED
    BY <1>b, <2>1 DEF Balanced, Harmless
\* A session ends in good order.
<1>d. ASSUME NEW w \in Workers, pc[w] \in {"insert", "close"}, EndSession(w),
             Holders(m)' \subseteq Holders(m) \ {w}, UNCHANGED <<inserted, faults, closes>>
      PROVE  Balanced(m)
  <2>1. queue' = queue \cup InFlight(w)
    BY <1>d DEF EndSession
  <2>2. CASE m \in InFlight(w)
    <3>1. w \in Holders(m)
      BY <1>d, <2>2, InFlightHeld DEF Holders
    <3>2. Copies(m)' + Mishaps <= Copies(m) + 1 + Mishaps'
      BY <1>c, <1>d DEF Copies, Mishaps
    <3> QED
      BY <1>d, <3>1, <3>2 DEF Balanced, Disposes
  <2>3. CASE m \notin InFlight(w)
    <3>1. Copies(m)' + Mishaps <= Copies(m) + Mishaps'
      BY <1>c, <1>d, <2>1, <2>3 DEF Copies, Mishaps
    <3> QED
      BY <1>d, <3>1 DEF Balanced, Harmless
  <2> QED
    BY <2>2, <2>3
<1>1. ASSUME NEW x \in Msgs, Publish(x) PROVE Balanced(m)
  <2>1. x # m /\ (queue' = queue \/ queue' = queue \cup {x})
    BY <1>1 DEF Publish
  <2>2. UNCHANGED <<inserted, faults, closes, session, worker>>
    BY <1>1 DEF Publish
  <2>3. Holders(m)' = Holders(m)
    BY <2>2 DEF Holders, Holds, Pending, session, worker
  <2>4. Copies(m)' + Mishaps <= Copies(m) + Mishaps'
    BY <1>c, <2>1, <2>2 DEF Copies, Mishaps
  <2> QED
    BY <2>3, <2>4 DEF Balanced, Harmless
<1>2. ASSUME NEW w \in Workers, Deliver(w) PROVE Balanced(m)
  <2>1. PICK x \in queue : /\ queue' = queue \ {x}
                           /\ sent' = [sent EXCEPT ![w] = Append(sent[w], x)]
    BY <1>2 DEF Deliver
  <2>2. UNCHANGED <<inserted, faults, closes, worker>> /\ SameOthers(w)
    BY <1>2, OneWorker DEF Deliver
  <2>3. CASE x = m
    <3>1. Copies(m)' + 1 + Mishaps <= Copies(m) + Mishaps'
      BY <1>c, <2>1, <2>2, <2>3 DEF Copies, Mishaps
    <3>2. Delivers(w, m)
      BY <2>2, <3>1, HoldersFrame DEF Delivers
    <3> QED
      BY <3>2 DEF Balanced
  <2>4. CASE x # m
    <3>1. Copies(m)' + Mishaps <= Copies(m) + Mishaps'
      BY <1>c, <2>1, <2>2, <2>4 DEF Copies, Mishaps
    <3>2. x \in Msgs /\ sent[w] \in Seq(Msgs) /\ Len(sent[w]) \in Nat /\ flushed[w] \in Nat
      BY DEF TypeOK
    <3>3. /\ Len(sent'[w]) = Len(sent[w]) + 1 /\ sent'[w][Len(sent[w]) + 1] = x
          /\ \A i \in 1 .. Len(sent[w]) : sent'[w][i] = sent[w][i]
      BY <2>1, <3>2 DEF TypeOK
    <3>4. \A i \in Pending(w)' : sent'[w][i] = m => i \in Pending(w) /\ sent[w][i] = m
      BY <2>2, <2>4, <3>2, <3>3 DEF Pending, worker
    <3>5. Holds(w, m)' => Holds(w, m)
      BY <2>2, <3>4 DEF Holds, worker
    <3> QED
      BY <2>2, <3>1, <3>5, HoldersFrame DEF Balanced, Harmless
  <2> QED
    BY <2>3, <2>4
<1>3. ASSUME NEW w \in Workers, SessionLost(w) \/ Crash(w) PROVE Balanced(m)
  <2>1. SameOthers(w) /\ UNCHANGED <<inserted, closes, sent, flushed, read>> /\ Fault
    BY <1>3, OneWorker DEF SessionLost, Crash, worker
  <2>2. pc'[w] = pc[w] \/ pc'[w] = "failed"
    BY <1>3 DEF SessionLost, Crash, Goto, worker, TypeOK
  <2>3. Holds(w, m)' => Holds(w, m)
    BY <2>1, <2>2 DEF Holds, Pending
  <2> QED
    BY <2>1, <2>3, HoldersFrame, <1>b
<1>4. ASSUME NEW w \in Workers, Dial(w) \/ Setup(w) PROVE Balanced(m)
  <2>1. /\ SameOthers(w) /\ UNCHANGED <<inserted, queue, closes>>
        /\ faults' = faults \/ Fault
    BY <1>4, OneWorker DEF Step, Dial, Setup, broker
  <2>2. pc'[w] \in {"setup", "consume", "dial", "stopped"}
    BY <1>4 DEF Dial, Setup, Goto, LoopHead, TypeOK
  <2>3. ~Holds(w, m)'
    BY <2>2 DEF Holds
  <2> QED
    BY <2>1, <2>3, HoldersFrame, <1>a
<1>5. ASSUME NEW w \in Workers, Consume(w) \/ Restart(w) PROVE Balanced(m)
  <2>1. /\ SameOthers(w) /\ UNCHANGED <<inserted, queue, closes>>
        /\ faults' = faults \/ Fault
    BY <1>5, OneWorker DEF Step, Consume, Restart, broker
  <2>2. \/ pc'[w] \in {"dial", "stopped"}
        \/ sent' = [sent EXCEPT ![w] = <<>>] /\ flushed' = [flushed EXCEPT ![w] = 0]
    BY <1>5 DEF Consume, Restart, Goto, LoopHead, TypeOK
  <2>3. ~Holds(w, m)'
    <3>1. CASE pc'[w] \in {"dial", "stopped"}
      BY <3>1 DEF Holds
    <3>2. CASE sent' = [sent EXCEPT ![w] = <<>>] /\ flushed' = [flushed EXCEPT ![w] = 0]
      <4>1. sent'[w] = <<>> /\ flushed'[w] = 0
        BY <3>2 DEF TypeOK
      <4>2. Pending(w)' = {}
        BY <4>1 DEF Pending
      <4> QED
        BY <4>2 DEF Holds
    <3> QED
      BY <2>2, <3>1, <3>2
  <2> QED
    BY <2>1, <2>3, HoldersFrame, <1>a
<1>6. ASSUME NEW w \in Workers,
             Cancel(w) \/ Receive(w) \/ Tick(w) \/ CtxDone(w) \/ DeliveriesClosed(w)
      PROVE  Balanced(m)
  <2>1. /\ SameOthers(w) /\ UNCHANGED <<inserted, queue, closes, faults, sent, flushed>>
    BY <1>6, OneWorker DEF Step, Cancel, Receive, Tick, CtxDone, DeliveriesClosed,
       broker, session
  <2>2. \/ UNCHANGED <<pc, read>>
        \/ pc[w] = "select" /\ pc'[w] \in {"select", "decode", "close", "dial", "stopped"}
    BY <1>6 DEF Cancel, Receive, Tick, CtxDone, DeliveriesClosed, Goto, BeginFlush,
       LoopHead, TypeOK
  <2>3. Holds(w, m)' => Holds(w, m)
    BY <2>1, <2>2 DEF Holds, Pending
  <2> QED
    BY <2>1, <2>3, HoldersFrame, <1>a
<1>7. ASSUME NEW w \in Workers, Decode(w) PROVE Balanced(m)
  <2>1. SameOthers(w) /\ UNCHANGED <<inserted, queue, closes, faults, sent>>
    BY <1>7, OneWorker DEF Step, Decode
  <2>2. pc[w] = "decode" /\ pc'[w] \in {"decode", "insert", "select", "close"}
    BY <1>7 DEF Decode, Goto, Flushed, TypeOK
  <2>3. Pending(w)' \subseteq Pending(w)
    <3>1. flushed'[w] \in {flushed[w], read[w]}
      BY <1>7 DEF Decode, Flushed, TypeOK
    <3>2. /\ flushed[w] \in Nat /\ read[w] \in Nat /\ flushed[w] <= read[w]
          /\ Len(sent[w]) \in Nat
      BY DEF TypeOK, BatchOK
    <3> QED
      BY <2>1, <3>1, <3>2 DEF Pending
  <2>4. Holds(w, m)' => Holds(w, m)
    BY <2>1, <2>2, <2>3 DEF Holds
  <2> QED
    BY <2>1, <2>4, HoldersFrame, <1>a
<1>8. ASSUME NEW w \in Workers, Insert(w) PROVE Balanced(m)
  <2>1. /\ SameOthers(w) /\ UNCHANGED <<queue, closes, faults, sent, flushed, read>>
        /\ pc[w] = "insert" /\ pc'[w] = "ack" /\ Store(w)
    BY <1>8, OneWorker DEF Step, Insert, Goto, broker, session, TypeOK
  <2>2. CASE m \in Events(w)
    <3>1. PICK i \in (flushed[w] + 1) .. read[w] : sent[w][i] = m
      BY <2>2 DEF Events
    <3>2. i \in Pending(w) /\ i <= read[w] /\ read[w] \in Nat
      BY DEF Pending, TypeOK, BatchOK
    <3>3. ~Holds(w, m)'
      <4> SUFFICES ASSUME Holds(w, m)' PROVE FALSE
        OBVIOUS
      <4>1. PICK j \in Pending(w) : sent[w][j] = m /\ j > read[w]
        BY <2>1 DEF Holds, Pending
      <4>2. j = i
        BY <3>1, <3>2, <4>1 DEF PendingInv
      <4>3. i \in Nat /\ i <= read[w] /\ i > read[w]
        BY <3>2, <4>1, <4>2 DEF TypeOK
      <4> QED
        BY <3>2, <4>3
    <3>4. inserted'[m] = inserted[m] + 1
      BY <2>1, <2>2 DEF Store
    <3>5. Copies(m)' + Mishaps <= Copies(m) + 1 + Mishaps'
      BY <1>c, <2>1, <3>4 DEF Copies, Mishaps
    <3>6. w \in Holders(m)
      BY <2>1, <2>2, InFlightHeld DEF Holders
    <3> QED
      BY <2>1, <3>3, <3>5, <3>6, HoldersFrame DEF Balanced, Disposes
  <2>3. CASE m \notin Events(w)
    <3>1. inserted'[m] = inserted[m]
      BY <1>c, <2>1, <2>3 DEF Store
    <3>2. Holds(w, m)' => Holds(w, m)
      BY <2>1 DEF Holds, Pending
    <3>3. Copies(m)' + Mishaps <= Copies(m) + Mishaps'
      BY <1>c, <2>1, <3>1 DEF Copies, Mishaps
    <3> QED
      BY <2>1, <3>2, <3>3, HoldersFrame DEF Balanced, Harmless
  <2> QED
    BY <2>2, <2>3
<1>9. ASSUME NEW w \in Workers, Close(w) PROVE Balanced(m)
  <2>1. /\ SameOthers(w) /\ UNCHANGED <<inserted, closes, faults>> /\ EndSession(w)
        /\ pc[w] = "close" /\ pc'[w] = "stopped"
    BY <1>9, OneWorker DEF Step, Close, Goto, TypeOK
  <2>2. ~Holds(w, m)'
    BY <2>1 DEF Holds
  <2> QED
    BY <2>1, <2>2, HoldersFrame, <1>d
<1>10. ASSUME NEW w \in Workers, InsertFails(w) PROVE Balanced(m)
  <2>1. /\ SameOthers(w) /\ UNCHANGED closes /\ EndSession(w)
        /\ pc[w] = "insert" /\ pc'[w] = "failed"
    BY <1>10, OneWorker DEF Step, InsertFails, Goto, TypeOK
  <2>2. ~Holds(w, m)'
    BY <2>1 DEF Holds
  <2>3. Holders(m)' \subseteq Holders(m) \ {w}
    BY <2>1, <2>2, HoldersFrame
  <2>4. CASE UNCHANGED <<inserted, faults>>
    BY <2>1, <2>3, <2>4, <1>d
  <2> DEFINE Mishap == Fault \/ (faults' = faults /\ Cuts' = Cuts + 1)
  <2>5. CASE Mishap /\ inserted'[m] = inserted[m]
    <3>1. Copies(m)' + Mishaps <= Copies(m) + Mishaps'
      BY <1>c, <2>1, <2>5 DEF Copies, Mishaps, Fault
    <3> QED
      BY <2>3, <3>1 DEF Balanced, Harmless
  <2>6. CASE Mishap /\ Store(w) /\ m \in Events(w)
    <3>1. inserted'[m] = inserted[m] + 1
      BY <2>6 DEF Store
    <3>2. Copies(m)' + Mishaps <= Copies(m) + 1 + Mishaps'
      BY <1>c, <2>1, <2>6, <3>1 DEF Copies, Mishaps, Fault
    <3>3. w \in Holders(m)
      BY <2>1, <2>6, InFlightHeld DEF Holders
    <3> QED
      BY <2>3, <3>2, <3>3 DEF Balanced, Disposes
  <2>7. Store(w) => m \in Events(w) \/ inserted'[m] = inserted[m]
    BY <1>c DEF Store
  <2>8. UNCHANGED <<inserted, faults>> \/ (Mishap /\ (Store(w) \/ UNCHANGED inserted))
    BY <1>10, InterruptedStep DEF InsertFails
  <2> QED
    BY <2>4, <2>5, <2>6, <2>7, <2>8
<1>11. ASSUME NEW w \in Workers, Ack(w) PROVE Balanced(m)
  <2>1. /\ SameOthers(w) /\ UNCHANGED <<inserted, faults, sent, read>>
        /\ pc[w] = "ack" /\ pc'[w] \in {"select", "close"} /\ flushed'[w] = read[w]
    BY <1>11, OneWorker DEF Step, Ack, Flushed, Goto, TypeOK
  <2>2. /\ flushed[w] \in Nat /\ read[w] \in Nat /\ flushed[w] <= read[w]
        /\ Len(sent[w]) \in Nat
    BY DEF TypeOK, BatchOK
  <2>3. \A i \in Pending(w)' : i \in Pending(w) /\ i > read[w]
    BY <2>1, <2>2 DEF Pending
  <2>4. Holds(w, m)' => Holds(w, m)
    BY <2>1, <2>3 DEF Holds
  <2>5. Holders(m)' \subseteq Holders(m)
    BY <2>1, <2>4, HoldersFrame
  <2> QED
    BY <1>11, <2>1, <2>5, <1>a, <1>b DEF Ack
<1>12. CASE UNCHANGED vars
  <2>1. UNCHANGED <<inserted, queue, closes, faults, sent, flushed, read, pc>>
    BY <1>12 DEF vars, broker, session, worker
  <2>2. Holders(m)' = Holders(m)
    BY <2>1 DEF Holders, Holds, Pending
  <2> QED
    BY <2>1, <2>2, <1>a
<1> QED
  BY <1>1, <1>2, <1>3, <1>4, <1>5, <1>6, <1>7, <1>8, <1>9, <1>10, <1>11, <1>12
     DEF Next, Step

\* The balance is inductive.
LEMMA DuplicateStep ==
  TypeInv /\ LossInv /\ Custody /\ PendingInv /\ DuplicateInv /\ [Next]_vars
    => DuplicateInv'
<1> SUFFICES ASSUME TypeInv, LossInv, Custody, PendingInv, DuplicateInv, [Next]_vars
             PROVE  DuplicateInv'
  OBVIOUS
<1>5. IsFiniteSet(Interrupted')
  BY InterruptedStep DEF DuplicateInv, TypeInv
<1> SUFFICES ASSUME NEW m \in Msgs
             PROVE  /\ m \in Malformed \/ m \notin routed' => inserted'[m] = 0
                    /\ m \notin Malformed =>
                         /\ IsFiniteSet(Holders(m)')
                         /\ Cardinality(Holders(m)') + Copies(m)' <= 1 + Mishaps'
  BY <1>5 DEF DuplicateInv
<1>0. TypeOK /\ SessionInv /\ TypeOK' /\ IsFiniteSet(Interrupted)
  BY TypeStep DEF TypeInv, DuplicateInv
<1> USE <1>0
<1>1. m \in Malformed \/ m \notin routed' => inserted'[m] = 0
  <2>1. routed \subseteq routed'
    BY DEF Next, Step, Publish, Deliver, SessionLost, Cancel, Crash, Dial, Setup, Consume,
       Restart, Receive, Tick, CtxDone, DeliveriesClosed, Decode, Insert, InsertFails,
       Ack, Close, broker, vars
  <2>2. \/ UNCHANGED inserted
        \/ \E w \in Workers : Store(w)
    BY DEF Next, Step, Publish, Deliver, SessionLost, Cancel, Crash, Dial, Setup, Consume,
       Restart, Receive, Tick, CtxDone, DeliveriesClosed, Decode, Insert, InsertFails,
       Ack, Close, vars
  <2>3. ASSUME NEW w \in Workers, Store(w), m \in Malformed \/ m \notin routed
        PROVE  inserted'[m] = inserted[m]
    <3>1. m \notin Events(w)
      <4>1. \A i \in (flushed[w] + 1) .. read[w] : i \in 1 .. Len(sent[w])
        BY DEF TypeOK, BatchOK
      <4> QED
        BY <2>3, <4>1 DEF Events, Custody
    <3>2. inserted[m] \in Nat
      BY DEF TypeOK
    <3> QED
      BY <2>3, <3>1, <3>2 DEF Store
  <2> QED
    BY <2>1, <2>2, <2>3 DEF DuplicateInv
<1>2. ASSUME m \notin Malformed, ~Publish(m)
      PROVE  /\ IsFiniteSet(Holders(m)')
             /\ Cardinality(Holders(m)') + Copies(m)' <= 1 + Mishaps'
  <2>1. Balanced(m)
    BY <1>2, StepBalanced
  <2> QED
    BY <1>2, <2>1, BalanceKept, InterruptedStep DEF DuplicateInv
<1>3. ASSUME m \notin Malformed, Publish(m)
      PROVE  /\ IsFiniteSet(Holders(m)')
             /\ Cardinality(Holders(m)') + Copies(m)' <= 1 + Mishaps'
  <2>1. m \notin routed /\ UNCHANGED <<inserted, faults, closes, session, worker>>
    BY <1>3 DEF Publish
  <2>2. \A w \in Workers : \A i \in Pending(w) : sent[w][i] # m
    BY <2>1 DEF Custody, Pending, TypeOK
  <2>3. Holders(m)' = {}
    BY <2>1, <2>2 DEF Holders, Holds, Pending, session, worker
  <2>4. inserted'[m] = 0 /\ faults \in Nat /\ closes \in Nat /\ Cuts' \in Nat
    BY <2>1, BoundsAssumption, InterruptedStep DEF DuplicateInv, TypeOK
  <2>5. Copies(m)' <= 1 + Mishaps' /\ Copies(m)' \in Nat
    <3>1. Copies(m)' \in 0 .. 1
      BY <2>4 DEF Copies
    <3>2. faults' \in Nat /\ closes' \in Nat
      BY <2>1, <2>4
    <3>3. \A x, y, z \in Nat : x + y + z \in Nat
      OBVIOUS
    <3>4. Mishaps' \in Nat
      BY <2>4, <3>2, <3>3 DEF Mishaps
    <3> QED
      BY <3>1, <3>4
  <2>6. IsFiniteSet({}) /\ Cardinality({}) = 0
    BY FS_EmptySet
  <2>7. Cardinality(Holders(m)') = 0
    BY <2>3, <2>6
  <2> QED
    BY <2>3, <2>5, <2>6, <2>7
<1> QED
  BY <1>1, <1>2, <1>3

-----------------------------------------------------------------------------
\* A channel is closed at most once for every dead letter.

\* A dead letter is in one place: it is not ready, no session waits for it, and
\* it came with one session only.  What a session does not wait for any more
\* was dead-lettered if it is malformed.
DeadInv ==
  /\ IsFiniteSet(dlq) /\ dlq \subseteq routed /\ dlq \cap queue = {}
  /\ \A w \in Workers :
       /\ pc[w] \in {"decode", "insert", "ack"} => flushed[w] < read[w]
       /\ \A i \in unacked[w] : sent[w][i] \notin dlq
       /\ alive[w] => \A i \in 1 .. Len(sent[w]) :
            sent[w][i] \in Malformed => i \in unacked[w] \/ sent[w][i] \in dlq
  /\ \A w, v \in Workers : alive[w] /\ alive[v] =>
       \A i \in 1 .. Len(sent[w]), j \in 1 .. Len(sent[v]) :
         sent[w][i] = sent[v][j] /\ sent[w][i] \in Malformed => w = v

\* The dead letters over which no channel will be closed any more: the session
\* that they came with is over.
Buried ==
  {m \in dlq : \A w \in Workers : alive[w] =>
                 \A i \in 1 .. Len(sent[w]) : sent[w][i] # m}

ClosesInv == closes <= Cardinality(Buried)

\* Sessions that go on or end, and nothing is dead-lettered.
LEMMA DeadFrame ==
  ASSUME TypeOK, DeadInv, UNCHANGED <<dlq, routed, sent>>, dlq \cap queue' = {},
         \A v \in Workers :
           /\ pc'[v] \in {"decode", "insert", "ack"} => flushed'[v] < read'[v]
           /\ unacked'[v] \subseteq unacked[v]
           /\ alive'[v] =>
                /\ alive[v]
                /\ \A i \in unacked[v] : i \in unacked'[v] \/ sent[v][i] \notin Malformed
  PROVE  DeadInv' /\ Buried \subseteq Buried'
<1>1. \A v \in Workers : \A i \in unacked'[v] : sent'[v][i] \notin dlq'
  BY DEF DeadInv
<1>2. ASSUME NEW v \in Workers, alive'[v], NEW i \in 1 .. Len(sent[v]), sent[v][i] \in Malformed
      PROVE  i \in unacked'[v] \/ sent[v][i] \in dlq
  BY <1>2 DEF DeadInv
<1>3. \A w, v \in Workers : alive'[w] /\ alive'[v] =>
        \A i \in 1 .. Len(sent'[w]), j \in 1 .. Len(sent'[v]) :
          sent'[w][i] = sent'[v][j] /\ sent'[w][i] \in Malformed => w = v
  BY DEF DeadInv
<1>4. DeadInv'
  BY <1>1, <1>2, <1>3 DEF DeadInv
<1>5. Buried \subseteq Buried'
  BY DEF Buried
<1> QED
  BY <1>4, <1>5

\* The end of a session.
LEMMA DeadEnd ==
  ASSUME TypeOK, DeadInv, NEW w \in Workers, EndSession(w), UNCHANGED <<dlq, routed, sent>>,
         \A v \in Workers : pc'[v] \in {"decode", "insert", "ack"} => flushed'[v] < read'[v]
  PROVE  DeadInv' /\ Buried \subseteq Buried'
<1>1. \A v \in Workers : /\ unacked'[v] \subseteq unacked[v]
                         /\ alive'[v] = (v # w /\ alive[v])
                         /\ v # w => unacked'[v] = unacked[v]
  BY EndSessionType
<1>2. dlq \cap queue' = {}
  BY DEF EndSession, InFlight, DeadInv
<1> QED
  BY <1>1, <1>2, DeadFrame

\* Whatever a worker does, the batch that it flushes is not empty.
LEMMA BatchNotEmpty ==
  ASSUME TypeOK, DeadInv, [Next]_vars, NEW v \in Workers,
         pc'[v] \in {"decode", "insert", "ack"}
  PROVE  flushed'[v] < read'[v]
<1>0. flushed[v] \in Nat /\ read[v] \in Nat /\ flushed[v] <= read[v]
  BY DEF TypeOK, BatchOK
<1>1. pc[v] \in {"decode", "insert", "ack"} => flushed[v] < read[v]
  BY DEF DeadInv
<1>2. CASE pc'[v] = pc[v] /\ flushed'[v] = flushed[v] /\ read'[v] = read[v]
  BY <1>1, <1>2
<1>3. ASSUME NEW w \in Workers, w # v,
             Deliver(w) \/ SessionLost(w) \/ Cancel(w) \/ Crash(w) \/ Step(w)
      PROVE  flushed'[v] < read'[v]
  BY <1>2, <1>3, OneWorker DEF SameOthers
<1>4. CASE Deliver(v) \/ SessionLost(v) \/ Cancel(v)
  BY <1>2, <1>4 DEF Deliver, SessionLost, Cancel, worker
<1>5. CASE Crash(v) \/ Dial(v) \/ Setup(v) \/ Consume(v) \/ Restart(v) \/ DeliveriesClosed(v)
           \/ InsertFails(v) \/ Ack(v) \/ Close(v)
  BY <1>5 DEF Crash, Dial, Setup, Consume, Restart, DeliveriesClosed, InsertFails, Ack,
              Close, Flushed, LoopHead, Goto, TypeOK
<1>6. CASE Receive(v)
  <2>1. read'[v] = read[v] + 1 /\ flushed' = flushed
    BY <1>6 DEF Receive, TypeOK
  <2> QED
    BY <1>0, <2>1
<1>7. CASE Tick(v) \/ CtxDone(v)
  BY <1>1, <1>7 DEF Tick, CtxDone, BeginFlush, Goto, TypeOK
<1>8. CASE Decode(v)
  <2>1. pc[v] = "decode" /\ read' = read
    BY <1>8 DEF Decode
  <2>2. flushed' = flushed \/ pc'[v] \in {"close", "select"}
    BY <1>8 DEF Decode, Flushed, Goto, TypeOK
  <2> QED
    BY <1>1, <2>1, <2>2
<1>9. CASE Insert(v)
  BY <1>1, <1>9 DEF Insert, Goto, TypeOK
<1>10. CASE (\E m \in Msgs : Publish(m)) \/ UNCHANGED vars
  BY <1>2, <1>10 DEF Publish, vars, worker
<1> QED
  BY <1>3, <1>4, <1>5, <1>6, <1>7, <1>8, <1>9, <1>10 DEF Next, Step

\* DeadInv is inductive, and what is buried stays buried.
LEMMA DeadStep ==
  ASSUME TypeInv, LossInv, Custody, DeadInv, [Next]_vars
  PROVE  DeadInv' /\ Buried \subseteq Buried'
<1>0. TypeOK /\ SessionInv
  BY DEF TypeInv
<1> USE <1>0
<1>b. \A v \in Workers : pc'[v] \in {"decode", "insert", "ack"} => flushed'[v] < read'[v]
  BY BatchNotEmpty
<1>1. ASSUME NEW m \in Msgs, Publish(m) PROVE DeadInv' /\ Buried \subseteq Buried'
  <2>1. /\ UNCHANGED <<dlq, sent, unacked, alive>> /\ m \notin routed
        /\ routed \subseteq routed' /\ queue' \subseteq queue \cup {m}
    BY <1>1 DEF Publish, session
  <2>2. dlq' \subseteq routed' /\ dlq' \cap queue' = {}
    BY <2>1 DEF DeadInv
  <2> QED
    BY <1>b, <2>1, <2>2 DEF DeadInv, Buried
<1>2. ASSUME NEW w \in Workers, Deliver(w) PROVE DeadInv' /\ Buried \subseteq Buried'
  <2>1. PICK m \in queue : /\ queue' = queue \ {m}
                           /\ sent' = [sent EXCEPT ![w] = Append(sent[w], m)]
    BY <1>2 DEF Deliver
  <2>2. /\ unacked' = [unacked EXCEPT ![w] = unacked[w] \cup {Len(sent[w]) + 1}]
        /\ alive[w] /\ UNCHANGED <<alive, dlq, routed>>
    BY <1>2 DEF Deliver
  <2>3. /\ m \in Msgs /\ sent[w] \in Seq(Msgs) /\ Len(sent[w]) \in Nat /\ m \notin dlq
        /\ \A v \in Workers : unacked[v] \subseteq 1 .. Len(sent[v])
    BY DEF TypeOK, BatchOK, DeadInv
  <2>4. /\ Len(sent'[w]) = Len(sent[w]) + 1 /\ sent'[w][Len(sent[w]) + 1] = m
        /\ \A i \in 1 .. Len(sent[w]) : sent'[w][i] = sent[w][i]
    BY <2>1, <2>3 DEF TypeOK
  <2>5. \A v \in Workers : v # w => sent'[v] = sent[v] /\ unacked'[v] = unacked[v]
    BY <2>1, <2>2 DEF TypeOK
  <2>6. unacked'[w] = unacked[w] \cup {Len(sent[w]) + 1}
    BY <2>2 DEF TypeOK
  <2>7. ASSUME NEW v \in Workers, NEW i \in 1 .. Len(sent'[v])
        PROVE  \/ v = w /\ i = Len(sent[w]) + 1 /\ sent'[v][i] = m
               \/ i \in 1 .. Len(sent[v]) /\ sent'[v][i] = sent[v][i]
    <3>1. CASE v # w
      BY <2>5, <2>7, <3>1
    <3>2. CASE v = w
      <4>1. i = Len(sent[w]) + 1 \/ i \in 1 .. Len(sent[w])
        BY <2>3, <2>4, <2>7, <3>2
      <4> QED
        BY <2>4, <3>2, <4>1
    <3> QED
      BY <3>1, <3>2
  <2>8. ASSUME NEW v \in Workers, NEW i \in unacked'[v]
        PROVE  \/ v = w /\ i = Len(sent[w]) + 1 /\ sent'[v][i] = m
               \/ i \in unacked[v] /\ sent'[v][i] = sent[v][i]
    BY <2>3, <2>4, <2>5, <2>6, <2>8
  <2>9. ASSUME NEW v \in Workers, alive[v], NEW i \in 1 .. Len(sent[v]), sent[v][i] \in Malformed
        PROVE  sent[v][i] # m
    <3>1. CASE i \in unacked[v]
      BY <3>1 DEF Custody
    <3>2. CASE sent[v][i] \in dlq
      BY <2>3, <3>2
    <3> QED
      BY <2>9, <3>1, <3>2 DEF DeadInv
  <2>10. /\ IsFiniteSet(dlq') /\ dlq' \subseteq routed' /\ dlq' \cap queue' = {}
    BY <2>1, <2>2 DEF DeadInv
  <2>11. \A v \in Workers : \A i \in unacked'[v] : sent'[v][i] \notin dlq'
    BY <2>2, <2>3, <2>8 DEF DeadInv
  <2>12. \A v \in Workers : alive'[v] => \A i \in 1 .. Len(sent'[v]) :
            sent'[v][i] \in Malformed => i \in unacked'[v] \/ sent'[v][i] \in dlq'
    <3> SUFFICES ASSUME NEW v \in Workers, alive'[v], NEW i \in 1 .. Len(sent'[v]),
                        sent'[v][i] \in Malformed
                 PROVE  i \in unacked'[v] \/ sent'[v][i] \in dlq'
      OBVIOUS
    <3>1. CASE v = w /\ i = Len(sent[w]) + 1
      BY <2>6, <3>1
    <3>2. CASE i \in 1 .. Len(sent[v]) /\ sent'[v][i] = sent[v][i]
      <4>1. i \in unacked[v] \/ sent[v][i] \in dlq
        BY <2>2, <3>2 DEF DeadInv
      <4>2. unacked[v] \subseteq unacked'[v]
        BY <2>5, <2>6
      <4> QED
        BY <2>2, <3>2, <4>1, <4>2
    <3> QED
      BY <2>7, <3>1, <3>2
  <2>13. \A u, v \in Workers : alive'[u] /\ alive'[v] =>
           \A i \in 1 .. Len(sent'[u]), j \in 1 .. Len(sent'[v]) :
             sent'[u][i] = sent'[v][j] /\ sent'[u][i] \in Malformed => u = v
    <3> SUFFICES ASSUME NEW u \in Workers, NEW v \in Workers, alive[u], alive[v],
                        NEW i \in 1 .. Len(sent'[u]), NEW j \in 1 .. Len(sent'[v]),
                        sent'[u][i] = sent'[v][j], sent'[u][i] \in Malformed
                 PROVE  u = v
      BY <2>2
    <3>1. (u = w /\ sent'[u][i] = m) \/ (i \in 1 .. Len(sent[u]) /\ sent'[u][i] = sent[u][i])
      BY <2>7
    <3>2. (v = w /\ sent'[v][j] = m) \/ (j \in 1 .. Len(sent[v]) /\ sent'[v][j] = sent[v][j])
      BY <2>7
    <3> QED
      BY <2>9, <3>1, <3>2 DEF DeadInv
  <2>14. Buried \subseteq Buried'
    <3> SUFFICES ASSUME NEW x \in Buried, NEW v \in Workers, alive[v],
                        NEW i \in 1 .. Len(sent'[v])
                 PROVE  sent'[v][i] # x
      BY <2>2 DEF Buried
    <3> QED
      BY <2>3, <2>7 DEF Buried
  <2> QED
    BY <1>b, <2>10, <2>11, <2>12, <2>13, <2>14 DEF DeadInv
<1>3. ASSUME NEW w \in Workers,
             \/ SessionLost(w) \/ Crash(w) \/ InsertFails(w) \/ Close(w)
      PROVE  DeadInv' /\ Buried \subseteq Buried'
  BY <1>3, <1>b, DeadEnd DEF SessionLost, Crash, InsertFails, Close
<1>4. ASSUME NEW w \in Workers, Consume(w) \/ Restart(w)
      PROVE  DeadInv' /\ Buried \subseteq Buried'
  <2>1. /\ UNCHANGED <<queue, routed, dlq, unacked>> /\ pc[w] \in {"consume", "failed"}
        /\ sent' = [sent EXCEPT ![w] = <<>>] \/ (sent' = sent /\ alive' = alive)
        /\ SameOthers(w)
    BY <1>4, OneWorker DEF Consume, Restart, broker, Step
  <2>2. unacked[w] = {} /\ ~alive[w]
    BY <2>1 DEF SessionInv
  <2>3. CASE sent' = sent /\ alive' = alive
    BY <1>b, <2>1, <2>3, DeadFrame DEF DeadInv
  <2>4. CASE sent' = [sent EXCEPT ![w] = <<>>]
    <3>1. sent'[w] = <<>> /\ 1 .. Len(sent'[w]) = {}
      BY <2>4 DEF TypeOK
    <3>2. \A v \in Workers : v # w => /\ sent'[v] = sent[v] /\ unacked'[v] = unacked[v]
                                      /\ alive'[v] = alive[v]
      BY <2>1 DEF SameOthers
    <3>3. \A v \in Workers : \A i \in unacked'[v] : v # w
      BY <2>1, <2>2
    <3>4. \A v \in Workers : \A i \in 1 .. Len(sent'[v]) : v # w
      BY <3>1
    <3>5. DeadInv'
      BY <1>b, <2>1, <3>2, <3>3, <3>4 DEF DeadInv
    <3>6. Buried \subseteq Buried'
      BY <2>1, <3>2, <3>4 DEF Buried
    <3> QED
      BY <3>5, <3>6
  <2> QED
    BY <2>1, <2>3, <2>4
<1>5. ASSUME NEW w \in Workers, Decode(w) PROVE DeadInv' /\ Buried \subseteq Buried'
  <2>1. UNCHANGED <<queue, routed, sent, alive>>
    BY <1>5 DEF Decode
  <2>2. CASE UNCHANGED <<unacked, dlq>>
    BY <1>b, <2>1, <2>2, DeadFrame DEF DeadInv
  <2>3. CASE /\ sent[w][pos[w]] \in Malformed /\ pos[w] \in unacked[w]
             /\ unacked' = [unacked EXCEPT ![w] = @ \ {pos[w]}]
             /\ dlq' = dlq \cup {sent[w][pos[w]]}
    <3> DEFINE x == sent[w][pos[w]]
    <3>1. x \in routed /\ x \notin queue
      BY <2>3 DEF Custody, TypeOK, BatchOK
    <3>2. IsFiniteSet(dlq') /\ dlq' \subseteq routed' /\ dlq' \cap queue' = {}
      <4>1. IsFiniteSet(dlq')
        BY <2>3, FS_AddElement DEF DeadInv
      <4> QED
        BY <2>1, <2>3, <3>1, <4>1 DEF DeadInv
    <3>3. \A v \in Workers : \A i \in unacked'[v] :
            i \in unacked[v] /\ ~(v = w /\ i = pos[w])
      BY <2>3 DEF TypeOK
    <3>4. \A v \in Workers : \A i \in unacked'[v] : sent[v][i] # x
      BY <2>3, <3>3 DEF Custody
    <3>5. \A v \in Workers : \A i \in unacked'[v] : sent'[v][i] \notin dlq'
      BY <2>1, <2>3, <3>3, <3>4 DEF DeadInv
    <3>6. \A v \in Workers : \A i \in unacked[v] : i \in unacked'[v] \/ sent[v][i] \in dlq'
      BY <2>3 DEF TypeOK
    <3>7. \A v \in Workers : alive'[v] => \A i \in 1 .. Len(sent'[v]) :
            sent'[v][i] \in Malformed => i \in unacked'[v] \/ sent'[v][i] \in dlq'
      BY <2>1, <2>3, <3>6 DEF DeadInv
    <3>8. DeadInv'
      BY <1>b, <2>1, <3>2, <3>5, <3>7 DEF DeadInv
    <3>9. Buried \subseteq Buried'
      BY <2>1, <2>3 DEF Buried
    <3> QED
      BY <3>8, <3>9
  <2> QED
    BY <1>5, <2>2, <2>3 DEF Decode
<1>6. ASSUME NEW w \in Workers, Ack(w) PROVE DeadInv' /\ Buried \subseteq Buried'
  <2>1. UNCHANGED <<routed, sent, dlq>> /\ pc[w] = "ack"
    BY <1>6 DEF Ack
  <2>2. CASE EndSession(w)
    BY <1>b, <2>1, <2>2, DeadEnd
  <2>3. CASE ~EndSession(w)
    <3>1. /\ UNCHANGED <<queue, alive>>
          /\ \/ unacked' = unacked
             \/ unacked' = [unacked EXCEPT ![w] = {i \in @ : i > read[w]}]
      BY <1>6, <2>3 DEF Ack
    <3>2. \A i \in unacked[w] : i > read[w] \/ sent[w][i] \notin Malformed
      BY <2>1 DEF LossInv, FlushInv, TypeOK, BatchOK
    <3>3. \A v \in Workers : /\ unacked'[v] \subseteq unacked[v]
                             /\ \A i \in unacked[v] : i \in unacked'[v] \/ sent[v][i] \notin Malformed
      BY <3>1, <3>2 DEF TypeOK
    <3> QED
      BY <1>b, <2>1, <3>1, <3>3, DeadFrame DEF DeadInv
  <2> QED
    BY <2>2, <2>3
<1>7. ASSUME UNCHANGED <<queue, routed, sent, unacked, alive, dlq>>
      PROVE  DeadInv' /\ Buried \subseteq Buried'
  BY <1>b, <1>7, DeadFrame DEF DeadInv
<1> QED
  BY <1>1, <1>2, <1>3, <1>4, <1>5, <1>6, <1>7
     DEF Next, Step, Cancel, Dial, Setup, Receive, Tick, CtxDone,
         DeliveriesClosed, Insert, vars, broker, session

\* A channel that is closed over an ack buries the message that was nacked.
LEMMA CloseBuries ==
  ASSUME TypeInv, PendingInv, DeadInv, NEW w \in Workers, Ack(w), EndSession(w),
         alive[w], read[w] \notin unacked[w]
  PROVE  \E m : m \notin Buried /\ m \in Buried'
<1>0. TypeOK
  BY DEF TypeInv
<1> USE <1>0
<1> DEFINE m == sent[w][read[w]]
<1>1. /\ pc[w] = "ack" /\ UNCHANGED <<sent, dlq>>
  BY DEF Ack
<1>2. /\ flushed[w] \in Nat /\ read[w] \in Nat /\ Len(sent[w]) \in Nat
      /\ flushed[w] < read[w] /\ read[w] <= Len(sent[w])
  BY <1>1 DEF TypeOK, BatchOK, DeadInv
<1>3. read[w] \in Pending(w) /\ read[w] \in 1 .. Len(sent[w])
  BY <1>2 DEF Pending
<1>4. m \in Malformed
  BY <1>3 DEF PendingInv
<1>5. m \in dlq
  BY <1>3, <1>4 DEF DeadInv
<1>6. m \notin Buried
  BY <1>3 DEF Buried
<1>7. \A v \in Workers : alive'[v] = (v # w /\ alive[v])
  BY EndSessionType
<1>8. \A v \in Workers : alive'[v] => \A i \in 1 .. Len(sent[v]) : sent[v][i] # m
  <2> SUFFICES ASSUME NEW v \in Workers, v # w, alive[v], NEW i \in 1 .. Len(sent[v]),
                      sent[v][i] = m
               PROVE  FALSE
    BY <1>7
  <2> QED
    BY <1>3, <1>4 DEF DeadInv
<1>9. m \in Buried'
  BY <1>1, <1>5, <1>8 DEF Buried
<1> QED
  BY <1>6, <1>9

LEMMA ClosesStep ==
  TypeInv /\ LossInv /\ Custody /\ PendingInv /\ DeadInv /\ ClosesInv /\ [Next]_vars
    => DeadInv' /\ ClosesInv'
<1> SUFFICES ASSUME TypeInv, LossInv, Custody, PendingInv, DeadInv, ClosesInv, [Next]_vars
             PROVE  DeadInv' /\ ClosesInv'
  OBVIOUS
<1>1. DeadInv' /\ Buried \subseteq Buried'
  BY DeadStep
<1>2. IsFiniteSet(Buried) /\ IsFiniteSet(Buried')
  <2>1. Buried \subseteq dlq /\ Buried' \subseteq dlq'
    BY DEF Buried
  <2>2. IsFiniteSet(dlq) /\ IsFiniteSet(dlq')
    BY <1>1 DEF DeadInv
  <2> QED
    BY <2>1, <2>2, FS_Subset
<1> DEFINE k == Cardinality(Buried)
           n == Cardinality(Buried')
<1>3. k \in Nat /\ n \in Nat /\ k <= n /\ closes \in Nat /\ closes <= k
  BY <1>1, <1>2, FS_Subset, FS_CardinalityType DEF TypeInv, TypeOK, ClosesInv
<1>4. CASE UNCHANGED closes
  <2>1. closes <= n
    <3> HIDE DEF k, n
    <3> QED
      BY <1>3
  <2> QED
    BY <1>1, <1>4, <2>1 DEF ClosesInv
<1>5. CASE closes' # closes
  <2>1. PICK w \in Workers : Ack(w)
    BY <1>5 DEF Next, Step, Publish, Deliver, SessionLost, Cancel, Crash, Dial, Setup,
       Consume, Restart, Receive, Tick, CtxDone, DeliveriesClosed, Decode, Insert,
       InsertFails, Ack, Close, vars
  <2>2. /\ EndSession(w) /\ closes' = closes + 1 /\ alive[w] /\ read[w] \notin unacked[w]
    BY <1>5, <2>1 DEF Ack
  <2>3. PICK m : m \notin Buried /\ m \in Buried'
    BY <2>1, <2>2, CloseBuries
  <2>4. k < n
    <3>1. IsFiniteSet(Buried \cup {m}) /\ Cardinality(Buried \cup {m}) = k + 1
      BY <1>2, <2>3, FS_AddElement
    <3>2. Buried \cup {m} \subseteq Buried'
      BY <1>1, <2>3
    <3>3. Cardinality(Buried \cup {m}) <= n
      BY <1>2, <3>2, FS_Subset
    <3> HIDE DEF k, n
    <3> QED
      BY <1>3, <3>1, <3>3
  <2>5. closes' <= n
    <3> HIDE DEF k, n
    <3> QED
      BY <1>3, <2>2, <2>4
  <2> QED
    BY <1>1, <2>5 DEF ClosesInv
<1> QED
  BY <1>4, <1>5

\* However many workers compete and whatever fails, no click is counted more
\* often than once and once more for every session, worker or statement that
\* failed, every worker whose statement SIGTERM cut off (consumer.go:202) and
\* every channel the broker closed, of which there is at most one for every dead
\* letter: deliveries that a worker goes on with after its session was
\* lost (consumer.go:136) are part of the bound.
THEOREM FewDuplicates == Spec => []DuplicatesBounded
<1>1. Init => LossInv /\ Custody
  BY DEF Init, LossInv, NoSilentLoss, FlushInv, Custody
<1>2. Init => PendingInv /\ DuplicateInv
  <2> SUFFICES ASSUME Init PROVE PendingInv /\ DuplicateInv
    OBVIOUS
  <2>1. \A w \in Workers : Pending(w) = {}
    BY DEF Init, Pending
  <2>2. \A m \in Msgs : Holders(m) = {}
    BY <2>1 DEF Holders, Holds
  <2>3. \A m \in Msgs : inserted[m] = 0 /\ Copies(m) = 0
    BY DEF Init, Copies
  <2>4. IsFiniteSet({}) /\ Cardinality({}) = 0 /\ Interrupted = {}
    BY FS_EmptySet DEF Init, Interrupted
  <2>5. Mishaps = 0
    BY <2>4 DEF Init, Mishaps, Cuts
  <2> QED
    BY <2>1, <2>2, <2>3, <2>4, <2>5 DEF PendingInv, DuplicateInv
<1>3. ASSUME TypeInv, DuplicateInv, NEW m \in Msgs
      PROVE  inserted[m] <= 1 + faults + closes + Cardinality(Interrupted)
  <2>1. inserted[m] \in Nat /\ faults \in Nat /\ closes \in Nat /\ Cuts \in Nat
    BY <1>3, BoundsAssumption, FS_CardinalityType DEF TypeInv, TypeOK, DuplicateInv, Cuts
  <2> USE DEF Cuts
  <2>2. CASE m \in Malformed
    BY <1>3, <2>1, <2>2 DEF DuplicateInv
  <2>3. CASE m \notin Malformed
    <3>1. /\ IsFiniteSet(Holders(m))
          /\ Cardinality(Holders(m)) + Copies(m) <= 1 + Mishaps
      BY <1>3, <2>3 DEF DuplicateInv
    <3>2. Cardinality(Holders(m)) \in Nat
      BY <3>1, FS_CardinalityType
    <3> QED
      BY <2>1, <3>1, <3>2 DEF Copies, Mishaps
  <2> QED
    BY <2>2, <2>3
<1>4. Init => DeadInv /\ ClosesInv
  <2> SUFFICES ASSUME Init PROVE DeadInv /\ ClosesInv
    OBVIOUS
  <2>1. dlq = {} /\ closes = 0 /\ IsFiniteSet({}) /\ Cardinality({}) = 0
    BY FS_EmptySet DEF Init
  <2>2. Buried = {}
    BY <2>1 DEF Buried
  <2>3. DeadInv
    BY <2>1 DEF Init, DeadInv
  <2> QED
    BY <2>1, <2>2, <2>3 DEF ClosesInv
<1>5. TypeInv /\ DeadInv /\ ClosesInv => closes <= Cardinality(dlq)
  <2> SUFFICES ASSUME TypeInv, DeadInv, ClosesInv PROVE closes <= Cardinality(dlq)
    OBVIOUS
  <2>1. Buried \subseteq dlq /\ IsFiniteSet(dlq)
    BY DEF Buried, DeadInv
  <2>2. IsFiniteSet(Buried) /\ Cardinality(Buried) <= Cardinality(dlq)
    BY <2>1, FS_Subset
  <2>3. Cardinality(Buried) \in Nat /\ Cardinality(dlq) \in Nat /\ closes \in Nat
    BY <2>1, <2>2, FS_CardinalityType DEF TypeInv, TypeOK
  <2> QED
    BY <2>2, <2>3 DEF ClosesInv
<1>6. TypeInv /\ DuplicateInv /\ DeadInv /\ ClosesInv => DuplicatesBounded
  BY <1>3, <1>5 DEF DuplicatesBounded
<1> QED
  BY <1>1, <1>2, <1>4, <1>6, TypeInit, TypeStep, LossStep, CustodyStep, PendingStep,
     DuplicateStep, ClosesStep, PTL DEF Spec
=============================================================================
