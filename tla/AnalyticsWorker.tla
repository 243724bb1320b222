--------------------------- MODULE AnalyticsWorker ---------------------------
(***************************************************************************)
(* The analytics pipeline behind the exchange: the workers of              *)
(* services/analytics-worker (cmd/worker/main.go, internal/consumer,       *)
(* internal/repository) that compete for the clicks in the queue           *)
(* "analytics.clicks" and write them to the table "analytics".             *)
(*                                                                         *)
(* The broker is external and modelled by what the workers rely on: a      *)
(* durable queue, unacknowledged deliveries that go back to it when the    *)
(* session ends, a prefetch limit, cumulative acks and a dead-letter       *)
(* queue.  It may deliver in any order.  A delivery of a session is known  *)
(* by its tag, its position in `sent'.                                     *)
(***************************************************************************)
EXTENDS Naturals, Sequences, FiniteSets

CONSTANTS
  Msgs,        \* click events, each published once
  Malformed,   \* the ones whose body is not JSON
  Workers,     \* worker processes
  Stoppable,   \* the ones that may receive SIGTERM
  BatchSize,   \* BATCH_SIZE
  MaxFaults,   \* bound: lost sessions, crashes, failed dials and statements
  UnknownAck   \* what the broker may do with a cumulative ack of a tag that
               \* was settled before: "accept" it or "close" the channel

ASSUME MsgsAssumption == Malformed \subseteq Msgs
ASSUME WorkersAssumption == Stoppable \subseteq Workers
ASSUME BoundsAssumption == BatchSize \in Nat \ {0} /\ MaxFaults \in Nat
ASSUME AckAssumption == UnknownAck \subseteq {"accept", "close"}

VARIABLES
  bound,      \* the queue exists and is bound to the exchange
  queue,      \* messages in the queue, ready
  routed,     \* history: messages that the exchange put in the queue
  dropped,    \* history: messages published while there was no queue
  dlq,        \* messages in the dead-letter queue
  inserted,   \* rows of "analytics" per message
  faults,     \* faults so far
  closes,     \* channels that the broker closed over an ack
  pc,         \* where each worker is
  cancelled,  \* runCtx is cancelled (SIGTERM)
  closing,    \* Run is flushing because of it
  alive,      \* the session of the worker exists, as the broker sees it
  sent,       \* messages the broker delivered in this session
  unacked,    \* tags the broker waits for
  read,       \* tags up to here were received from the deliveries channel
  flushed,    \* tags up to here are no longer in the batch
  pos         \* the delivery that flush looks at

broker == <<bound, queue, routed, dropped, dlq>>
session == <<alive, sent, unacked>>
worker == <<pc, cancelled, closing, read, flushed, pos>>
vars == <<broker, inserted, faults, closes, session, worker>>

PCs == {"dial", "setup", "consume", "select", "decode", "insert", "ack",
        "close", "stopped", "failed"}

\* The batch of a worker, and what the broker waits for, are part of what was
\* delivered in the session.
BatchOK ==
  \A w \in Workers :
    /\ unacked[w] \subseteq 1 .. Len(sent[w])
    /\ flushed[w] <= read[w] /\ read[w] <= Len(sent[w])

TypeOK ==
  /\ bound \in BOOLEAN
  /\ queue \subseteq Msgs /\ routed \subseteq Msgs /\ dropped \subseteq Msgs
  /\ dlq \subseteq Msgs
  /\ inserted \in [Msgs -> Nat]
  /\ faults \in 0 .. MaxFaults /\ closes \in Nat
  /\ pc \in [Workers -> PCs]
  /\ cancelled \in [Workers -> BOOLEAN] /\ closing \in [Workers -> BOOLEAN]
  /\ alive \in [Workers -> BOOLEAN]
  /\ sent \in [Workers -> Seq(Msgs)]
  /\ unacked \in [Workers -> SUBSET Nat]
  /\ read \in [Workers -> Nat] /\ flushed \in [Workers -> Nat]
  /\ pos \in [Workers -> Nat]
  /\ BatchOK

Init ==
  /\ bound = FALSE
  /\ queue = {} /\ routed = {} /\ dropped = {} /\ dlq = {}
  /\ inserted = [m \in Msgs |-> 0]
  /\ faults = 0 /\ closes = 0
  /\ pc = [w \in Workers |-> "dial"]
  /\ cancelled = [w \in Workers |-> FALSE]
  /\ closing = [w \in Workers |-> FALSE]
  /\ alive = [w \in Workers |-> FALSE]
  /\ sent = [w \in Workers |-> <<>>]
  /\ unacked = [w \in Workers |-> {}]
  /\ read = [w \in Workers |-> 0]
  /\ flushed = [w \in Workers |-> 0]
  /\ pos = [w \in Workers |-> 0]

-----------------------------------------------------------------------------
\* Helpers.

Fault == faults < MaxFaults /\ faults' = faults + 1

Goto(w, l) == pc' = [pc EXCEPT ![w] = l]

\* The messages the broker waits for worker w to settle.
InFlight(w) == {sent[w][i] : i \in unacked[w]}

\* The broker ends the session of w: what it had not settled is ready again.
EndSession(w) ==
  /\ alive' = [alive EXCEPT ![w] = FALSE]
  /\ unacked' = [unacked EXCEPT ![w] = {}]
  /\ queue' = queue \cup InFlight(w)

\* The head of main's loop.
LoopHead(w) == Goto(w, IF cancelled[w] THEN "stopped" ELSE "dial")

-----------------------------------------------------------------------------
\* The gateway publishes a click.  With no queue bound the exchange drops it:
\* the publisher does not ask for mandatory routing.
Publish(m) ==
  /\ m \notin routed \cup dropped
  /\ IF bound
       THEN /\ queue' = queue \cup {m} /\ routed' = routed \cup {m}
            /\ UNCHANGED dropped
       ELSE dropped' = dropped \cup {m} /\ UNCHANGED <<queue, routed>>
  /\ UNCHANGED <<bound, dlq, inserted, faults, closes, session, worker>>

\* The broker pushes a message to a consumer that is below its prefetch count.
Deliver(w) ==
  /\ alive[w]
  /\ Cardinality(unacked[w]) < 2 * BatchSize
  /\ \E m \in queue :
       /\ queue' = queue \ {m}
       /\ sent' = [sent EXCEPT ![w] = Append(@, m)]
  /\ unacked' = [unacked EXCEPT ![w] = @ \cup {Len(sent[w]) + 1}]
  /\ UNCHANGED <<bound, routed, dropped, dlq, inserted, faults, closes, alive,
                 worker>>

\* The session breaks: broker restart, missed heartbeats, network.
SessionLost(w) ==
  /\ alive[w]
  /\ Fault
  /\ EndSession(w)
  /\ UNCHANGED <<bound, routed, dropped, dlq, inserted, closes, sent, worker>>

-----------------------------------------------------------------------------
\* cmd/worker/main.go.

\* dialWithRetry: a failed dial is tried again after the backoff, unless the
\* context is cancelled by then.
Dial(w) ==
  /\ pc[w] = "dial"
  /\ \/ Goto(w, "setup") /\ UNCHANGED faults
     \/ cancelled[w] /\ Fault /\ Goto(w, "stopped")
  /\ UNCHANGED <<broker, inserted, closes, session, cancelled, closing, read,
                 flushed, pos>>

\* Consumer.Setup declares the queues and the binding, or main starts over.
Setup(w) ==
  /\ pc[w] = "setup"
  /\ \/ bound' = TRUE /\ Goto(w, "consume") /\ UNCHANGED faults
     \/ Fault /\ LoopHead(w) /\ UNCHANGED bound
  /\ UNCHANGED <<queue, routed, dropped, dlq, inserted, closes, session,
                 cancelled, closing, read, flushed, pos>>

\* Mutated form: the batch outlives the session it was received in.
ConsumeKeepsBatch(w) ==
  /\ pc[w] = "consume"
  /\ Goto(w, "select")
  /\ alive' = [alive EXCEPT ![w] = TRUE]
  /\ sent' = [sent EXCEPT ![w] = <<>>]
  /\ UNCHANGED <<broker, inserted, faults, closes, unacked, cancelled, closing,
                 read, flushed, pos>>

\* Run opens the channel, sets the prefetch and starts to consume, with an
\* empty batch; an AMQP error is not fatal and main starts over.
Consume(w) ==
  /\ pc[w] = "consume"
  /\ \/ /\ Goto(w, "select")
        /\ alive' = [alive EXCEPT ![w] = TRUE]
        /\ sent' = [sent EXCEPT ![w] = <<>>]
        /\ read' = [read EXCEPT ![w] = 0]
        /\ flushed' = [flushed EXCEPT ![w] = 0]
        /\ UNCHANGED faults
     \/ Fault /\ LoopHead(w) /\ UNCHANGED <<alive, sent, read, flushed>>
  /\ UNCHANGED <<broker, inserted, closes, unacked, cancelled, closing, pos>>

\* SIGTERM.
Cancel(w) ==
  /\ w \in Stoppable /\ ~cancelled[w]
  /\ pc[w] \notin {"stopped", "failed"}
  /\ cancelled' = [cancelled EXCEPT ![w] = TRUE]
  /\ UNCHANGED <<broker, inserted, faults, closes, session, pc, closing, read,
                 flushed, pos>>

\* The process dies.
Crash(w) ==
  /\ pc[w] \notin {"stopped", "failed"}
  /\ Fault
  /\ Goto(w, "failed")
  /\ EndSession(w)
  /\ UNCHANGED <<bound, routed, dropped, dlq, inserted, closes, sent,
                 cancelled, closing, read, flushed, pos>>

\* Docker restarts a worker that exited with an error and was not told to stop.
Restart(w) ==
  /\ pc[w] = "failed" /\ ~cancelled[w]
  /\ Goto(w, "dial")
  /\ sent' = [sent EXCEPT ![w] = <<>>]
  /\ read' = [read EXCEPT ![w] = 0]
  /\ flushed' = [flushed EXCEPT ![w] = 0]
  /\ UNCHANGED <<broker, inserted, faults, closes, alive, unacked, cancelled,
                 closing, pos>>

-----------------------------------------------------------------------------
\* Consumer.Run.

\* What flush is called with starts at the first delivery of the batch.
BeginFlush(w) ==
  /\ Goto(w, "decode")
  /\ pos' = [pos EXCEPT ![w] = flushed[w] + 1]

\* A delivery is appended to the batch, which is flushed when it is full.
\* Deliveries that the client library holds are received even after the
\* session has ended.
Receive(w) ==
  /\ pc[w] = "select"
  /\ read[w] < Len(sent[w])
  /\ read' = [read EXCEPT ![w] = @ + 1]
  /\ IF read[w] + 1 - flushed[w] >= BatchSize
       THEN BeginFlush(w) ELSE UNCHANGED <<pc, pos>>
  /\ UNCHANGED <<broker, inserted, faults, closes, session, cancelled, closing,
                 flushed>>

\* Mutated form: the ticker does nothing, only a full batch is flushed.
TickIdle(w) ==
  /\ pc[w] = "select"
  /\ read[w] >= flushed[w] + BatchSize
  /\ BeginFlush(w)
  /\ UNCHANGED <<broker, inserted, faults, closes, session, cancelled, closing,
                 read, flushed>>

\* The ticker: flush whatever has accumulated.
Tick(w) ==
  /\ pc[w] = "select"
  /\ read[w] > flushed[w]
  /\ BeginFlush(w)
  /\ UNCHANGED <<broker, inserted, faults, closes, session, cancelled, closing,
                 read, flushed>>

\* Mutated form: Run only returns when there is something to flush.
CtxDoneWithBatch(w) ==
  /\ pc[w] = "select"
  /\ cancelled[w] /\ read[w] > flushed[w]
  /\ BeginFlush(w)
  /\ closing' = [closing EXCEPT ![w] = TRUE]
  /\ UNCHANGED <<broker, inserted, faults, closes, session, cancelled, read,
                 flushed>>

\* ctx.Done: flush the batch and return, or return at once.
CtxDone(w) ==
  /\ pc[w] = "select"
  /\ cancelled[w]
  /\ IF read[w] > flushed[w]
       THEN BeginFlush(w) /\ closing' = [closing EXCEPT ![w] = TRUE]
       ELSE Goto(w, "close") /\ UNCHANGED <<pos, closing>>
  /\ UNCHANGED <<broker, inserted, faults, closes, session, cancelled, read,
                 flushed>>

\* The deliveries channel is closed: Run returns, the batch is forgotten, and
\* main closes the connection and dials again.
DeliveriesClosed(w) ==
  /\ pc[w] = "select"
  /\ ~alive[w]
  /\ LoopHead(w)
  /\ UNCHANGED <<broker, inserted, faults, closes, session, cancelled, closing,
                 read, flushed, pos>>

-----------------------------------------------------------------------------
\* Consumer.flush.

\* Mutated form: the loop does not skip a message after it has nacked it.
EventsUnskipped(w) == {sent[w][i] : i \in (flushed[w] + 1) .. read[w]}

\* The events that flush decodes from the batch of w.
Events(w) ==
  {sent[w][i] : i \in (flushed[w] + 1) .. read[w]} \ Malformed

\* Mutated form: the batch is not reset after it was flushed.
FlushedKeepsBatch(w) ==
  /\ UNCHANGED flushed
  /\ Goto(w, IF closing[w] THEN "close" ELSE "select")

\* flush returns nil: the batch is emptied, and Run goes on, or returns when
\* it is the flush of the shutdown.
Flushed(w) ==
  /\ flushed' = [flushed EXCEPT ![w] = read[w]]
  /\ Goto(w, IF closing[w] THEN "close" ELSE "select")

\* One round of the decoding loop.  A malformed message is nacked, which the
\* broker only sees while the session exists.  After the last one flush is
\* over if there is nothing to insert.
Decode(w) ==
  LET i == pos[w]
      last == i = read[w]
  IN
  /\ pc[w] = "decode"
  /\ pos' = [pos EXCEPT ![w] = i + 1]
  /\ IF sent[w][i] \in Malformed /\ i \in unacked[w]
       THEN /\ unacked' = [unacked EXCEPT ![w] = @ \ {i}]
            /\ dlq' = dlq \cup {sent[w][i]}
       ELSE UNCHANGED <<unacked, dlq>>
  /\ \/ ~last /\ UNCHANGED <<pc, flushed>>
     \/ last /\ Events(w) # {} /\ Goto(w, "insert") /\ UNCHANGED flushed
     \/ last /\ Events(w) = {} /\ Flushed(w)
  /\ UNCHANGED <<bound, queue, routed, dropped, inserted, faults, closes, alive,
                 sent, cancelled, closing, read>>

\* BulkInsert: one statement for the batch.
Store(w) ==
  inserted' = [m \in Msgs |-> inserted[m] + (IF m \in Events(w) THEN 1 ELSE 0)]

\* The statement is committed and BulkInsert returns nil, in spite of a SIGTERM
\* that comes while the statement is under way.  (One that came earlier in the
\* flush might as well come now: only Exec looks at the context.)  The flush of
\* the shutdown begins with a cancelled context.
Insert(w) ==
  /\ pc[w] = "insert"
  /\ ~closing[w]
  /\ Store(w)
  /\ Goto(w, "ack")
  /\ UNCHANGED <<broker, faults, closes, session, cancelled, closing, read,
                 flushed, pos>>

\* BulkInsert fails: ErrFatal, main closes the connection and exits.  In the
\* flush of the shutdown the statement is never sent.  Otherwise a fault or the
\* SIGTERM has cut it off, before or after it was committed.
InsertFails(w) ==
  /\ pc[w] = "insert"
  /\ IF cancelled[w] THEN UNCHANGED faults ELSE Fault
  /\ (~closing[w] /\ Store(w)) \/ UNCHANGED inserted
  /\ Goto(w, "failed")
  /\ EndSession(w)
  /\ UNCHANGED <<bound, routed, dropped, dlq, closes, sent, cancelled, closing,
                 read, flushed, pos>>

\* Mutated form: the ack covers everything that was delivered.
AckAll(w) ==
  /\ pc[w] = "ack"
  /\ unacked' = [unacked EXCEPT ![w] = {}]
  /\ Flushed(w)
  /\ UNCHANGED <<broker, inserted, faults, closes, alive, sent, cancelled,
                 closing, read, pos>>

\* Ack(multiple) on the last delivery of the batch; its error is ignored.  The
\* tag is unknown to the broker when that delivery was malformed and nacked.
Ack(w) ==
  /\ pc[w] = "ack"
  /\ \/ /\ ~alive[w]
        /\ UNCHANGED <<queue, alive, unacked, closes>>
     \/ /\ alive[w]
        /\ read[w] \in unacked[w] \/ "accept" \in UnknownAck
        /\ unacked' = [unacked EXCEPT ![w] = {i \in @ : i > read[w]}]
        /\ UNCHANGED <<queue, alive, closes>>
     \/ /\ alive[w]
        /\ read[w] \notin unacked[w] /\ "close" \in UnknownAck
        /\ EndSession(w)
        /\ closes' = closes + 1
  /\ Flushed(w)
  /\ UNCHANGED <<bound, routed, dropped, dlq, inserted, faults, sent, cancelled,
                 closing, read, pos>>

\* Run has returned after SIGTERM: main closes the connection and stops.
Close(w) ==
  /\ pc[w] = "close"
  /\ Goto(w, "stopped")
  /\ EndSession(w)
  /\ UNCHANGED <<bound, routed, dropped, dlq, inserted, faults, closes, sent,
                 cancelled, closing, read, flushed, pos>>

-----------------------------------------------------------------------------
\* What a worker does of its own accord.
Step(w) ==
  \/ Dial(w) \/ Setup(w) \/ Consume(w) \/ Restart(w)
  \/ Receive(w) \/ Tick(w) \/ CtxDone(w) \/ DeliveriesClosed(w)
  \/ Decode(w) \/ Insert(w) \/ InsertFails(w) \/ Ack(w) \/ Close(w)

Next ==
  \/ \E m \in Msgs : Publish(m)
  \/ \E w \in Workers :
       Deliver(w) \/ SessionLost(w) \/ Cancel(w) \/ Crash(w) \/ Step(w)

\* The broker delivers what it can, and each worker goes on: the ticker fires,
\* a closed channel is noticed, a call returns, Docker restarts the process.
Fairness == \A w \in Workers : WF_vars(Deliver(w)) /\ WF_vars(Step(w))

Spec == Init /\ [][Next]_vars
FairSpec == Spec /\ Fairness

-----------------------------------------------------------------------------
\* Properties.

\* A message that reached the queue is never lost: it is ready, or with a
\* worker whose session the broker still knows, or its row is in the table, or
\* it was malformed and is in the dead-letter queue.  The cumulative ack, the
\* prefetched deliveries behind the batch, nacks in the middle of it and every
\* way a worker or its session can end are covered.
NoSilentLoss ==
  \A m \in routed :
    \/ m \in queue
    \/ \E w \in Workers : m \in InFlight(w)
    \/ m \notin Malformed /\ inserted[m] > 0
    \/ m \in Malformed /\ m \in dlq

\* The workers that ended with an error when they were told to stop, and not in
\* the flush of the shutdown.
Interrupted ==
  {w \in Workers : cancelled[w] /\ ~closing[w] /\ pc[w] = "failed"}

\* At-least-once, and no more often than something went wrong: a click is
\* counted twice only if a session, a worker or a statement failed, if SIGTERM
\* cut off a statement that was committed, which a worker meets at most once, or
\* if the broker closed the channel over an ack of a nacked tag, which happens
\* at most once for every message in the dead-letter queue.
DuplicatesBounded ==
  /\ \A m \in Msgs : inserted[m] <= 1 + faults + closes + Cardinality(Interrupted)
  /\ closes <= Cardinality(dlq)

\* Every message that reached the queue is counted or dead-lettered in the end:
\* a batch that never fills up is flushed by the ticker, and the work of a
\* worker that failed or was stopped is taken over.
EveryClickSettled ==
  \A m \in Msgs :
    m \in routed ~> IF m \in Malformed THEN m \in dlq ELSE inserted[m] > 0

\* A worker that is told to stop does stop.
ShutdownCompletes ==
  \A w \in Workers : cancelled[w] ~> pc[w] \in {"stopped", "failed"}

\* "On shutdown, any buffered un-flushed messages are flushed before returning"
\* (consumer.go).
GracefulFlush ==
  \A w \in Workers :
    closing[w] /\ pc[w] \in {"stopped", "failed"} => flushed[w] = read[w]

-----------------------------------------------------------------------------
\* The promise of the pipeline.

Held == queue \cup UNION {InFlight(w) : w \in Workers}
Recorded == {m \in Msgs : inserted[m] > 0}

Log == INSTANCE ClickLog WITH
  accepted <- routed, held <- Held, recorded <- Recorded, dead <- dlq

\* The refinement: whatever the workers, their sessions and the database go
\* through, a click in the queue stays with the pipeline until it is recorded
\* or, being malformed, dead-lettered, and no step settles a click any earlier,
\* settles one it does not hold, or dead-letters one that can be decoded.
ImplementsClickLog == Log!Spec
=============================================================================
