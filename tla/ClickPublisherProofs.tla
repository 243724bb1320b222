------------------------ MODULE ClickPublisherProofs ------------------------
(***************************************************************************)
(* Proofs about ClickPublisher, for any number of clicks and of faults.    *)
(***************************************************************************)
EXTENDS ClickPublisher, TLAPS

\* The parts of TypeOK that are about the connections.
ConnType ==
  /\ dials \in Nat /\ losses \in 0 .. MaxLosses
  /\ open \subseteq 1 .. dials /\ reach \subseteq open
  /\ conn \in 0 .. dials /\ channel \in {0, conn}
  /\ watched \in 0 .. dials /\ newConn \in 0 .. dials

\* The parts that are about where the goroutines are.
GoroutineType ==
  /\ up \in BOOLEAN /\ closed \in BOOLEAN
  /\ watcher \in Watching /\ closer \in Closing
  /\ click \in [Clicks -> ClickStates]

\* The parts that are about what the clicks hold.
ClickType ==
  /\ ch \in [Clicks -> 0 .. dials]
  /\ start \in [Clicks -> -1 .. MaxLosses]

\* The steps of the network keep the connections well typed.
LEMMA NetworkConnType ==
  ASSUME TypeOK, Outage \/ Recover \/ (\E k \in open : Break(k) \/ Detect(k))
  PROVE  ConnType'
<1>1. /\ UNCHANGED <<dials, conn, channel, watched, newConn>>
      /\ reach' \subseteq open' /\ open' \subseteq open
      /\ losses' \in {losses} \/ (losses < MaxLosses /\ losses' = losses + 1)
  BY DEF TypeOK, Outage, Recover, Break, Detect, Fault, publisher, watch
<1> QED
  BY <1>1, LossesAssumption DEF TypeOK, ConnType

\* A connection that is dialled has a number of its own.
LEMMA DialConnType ==
  ASSUME TypeOK, DialConn
  PROVE  /\ dials' \in Nat /\ dials <= dials'
         /\ open' \subseteq 1 .. dials' /\ reach' \subseteq open'
         /\ newConn' \in 0 .. dials' /\ dials + 1 \in 0 .. dials'
         /\ conn \in 0 .. dials' /\ watched \in 0 .. dials'
         /\ ch \in [Clicks -> 0 .. dials']
<1>1. dials' = dials + 1 /\ dials \in Nat
  BY DEF TypeOK, DialConn
<1>2. 0 .. dials \subseteq 0 .. dials' /\ 1 .. dials \subseteq 1 .. dials'
  BY <1>1
<1>3. ch \in [Clicks -> 0 .. dials']
  BY <1>2 DEF TypeOK
<1> QED
  BY <1>1, <1>2, <1>3 DEF TypeOK, DialConn

\* The steps of the watcher keep the connections well typed.
LEMMA WatcherConnType ==
  ASSUME TypeOK, NewPublisher \/ Watcher
  PROVE  ConnType' /\ ClickType'
<1>1. CASE NewPublisher
  BY <1>1, DialConnType DEF NewPublisher, TypeOK, ConnType, ClickType, clicks
<1>2. CASE Top
  BY <1>2 DEF Top, TypeOK, ConnType, ClickType, network, publisher, clicks
<1>3. CASE Notified \/ CheckClosed
  BY <1>3 DEF Notified, CheckClosed, TypeOK, ConnType, ClickType, network, publisher, clicks
<1>4. CASE Degrade
  BY <1>4 DEF Degrade, TypeOK, ConnType, ClickType, network, clicks
<1>5. CASE Redial
  <2>1. CASE DialConn
    BY <1>5, <2>1, DialConnType
    DEF Redial, TypeOK, ConnType, ClickType, publisher, clicks, network
  <2>2. CASE ~DialConn
    BY <1>5, <2>2 DEF Redial, TypeOK, ConnType, ClickType, network, publisher, clicks
  <2> QED
    BY <2>1, <2>2
<1>6. CASE Declare
  <2>1. UNCHANGED <<dials, publisher, watched, newConn, clicks>>
    BY <1>6 DEF Declare, network
  <2>2. open' \subseteq open /\ reach' \subseteq open'
    BY <1>6 DEF Declare, DeclareFails, network, TypeOK
  <2>3. losses' \in 0 .. MaxLosses
    BY <1>6, LossesAssumption DEF Declare, DeclareFails, Fault, network, TypeOK
  <2> QED
    BY <2>1, <2>2, <2>3 DEF TypeOK, ConnType, ClickType, publisher, clicks
<1>7. CASE Install
  BY <1>7 DEF Install, TypeOK, ConnType, ClickType, network, clicks
<1> QED
  BY <1>1, <1>2, <1>3, <1>4, <1>5, <1>6, <1>7 DEF Watcher

\* The goroutines go from one place to another.
LEMMA GoroutineStep == ASSUME TypeOK, Next PROVE GoroutineType'
<1>1. up' \in BOOLEAN
  BY Zenon DEF TypeOK, Next, Outage, Recover, Break, Detect, NewPublisher, Watcher, Top,
     Notified, Degrade, CheckClosed, Redial, Declare, Install, SetClosed, Lock, Release,
     Redirect, ReadChannel, Send, network
<1>2. closed' \in BOOLEAN
  BY Zenon DEF TypeOK, Next, Outage, Recover, Break, Detect, NewPublisher, Watcher, Top,
     Notified, Degrade, CheckClosed, Redial, Declare, Install, SetClosed, Lock, Release,
     Redirect, ReadChannel, Send, publisher
<1>3. watcher' \in Watching
  BY DEF TypeOK, Next, Outage, Recover, Break, Detect, NewPublisher, Watcher, Top,
     Notified, Degrade, CheckClosed, Redial, Declare, Install, SetClosed, Lock, Release,
     Redirect, ReadChannel, Send, watch, Watching
<1>4. closer' \in Closing
  BY DEF TypeOK, Next, Outage, Recover, Break, Detect, NewPublisher, Watcher, Top,
     Notified, Degrade, CheckClosed, Redial, Declare, Install, SetClosed, Lock, Release,
     Redirect, ReadChannel, Send, Closing
<1>5. click' = click \/ \E c \in Clicks, s \in ClickStates : click' = [click EXCEPT ![c] = s]
  BY DEF Next, Outage, Recover, Break, Detect, NewPublisher, Watcher, Top,
     Notified, Degrade, CheckClosed, Redial, Declare, Install, SetClosed, Lock, Release,
     Redirect, ReadChannel, Send, clicks, ClickStates
<1>6. click' \in [Clicks -> ClickStates]
  BY <1>5 DEF TypeOK
<1> QED
  BY <1>1, <1>2, <1>3, <1>4, <1>6 DEF GoroutineType

\* TypeOK is inductive.
LEMMA TypeStep == TypeOK /\ [Next]_vars => TypeOK'
<1> SUFFICES ASSUME TypeOK, [Next]_vars PROVE TypeOK'
  OBVIOUS
<1>1. CASE UNCHANGED vars
  BY <1>1 DEF TypeOK, vars, network, publisher, watch, clicks
<1>2. CASE Next
  <2>0. ConnType' /\ GoroutineType' /\ ClickType' => TypeOK'
    BY Zenon DEF TypeOK, ConnType, GoroutineType, ClickType
  <2>1. GoroutineType'
    BY <1>2, GoroutineStep
  <2>2. CASE Outage \/ Recover \/ (\E k \in open : Break(k) \/ Detect(k))
    <3>1. ConnType'
      BY <2>2, NetworkConnType
    <3>2. UNCHANGED <<dials, ch, start>>
      BY <2>2 DEF Outage, Recover, Break, Detect, clicks
    <3>3. ClickType'
      BY <3>2 DEF TypeOK, ClickType
    <3> QED
      BY <2>0, <2>1, <3>1, <3>3
  <2>3. CASE NewPublisher \/ Watcher
    BY <2>0, <2>1, <2>3, WatcherConnType
  <2>4. CASE SetClosed \/ Lock \/ Release
    <3>1. /\ UNCHANGED <<dials, losses, watched, newConn, ch, start>>
          /\ \/ UNCHANGED <<open, reach, conn, channel>>
             \/ /\ open' = open \ {conn} /\ reach' = reach \ {conn}
                /\ conn' = 0 /\ channel' = 0
      BY <2>4, Zenon DEF SetClosed, Lock, Release, network, publisher, watch, clicks
    <3>2. ConnType'
      <4>1. /\ dials' \in Nat /\ losses' \in 0 .. MaxLosses
            /\ watched' \in 0 .. dials' /\ newConn' \in 0 .. dials'
        BY <3>1 DEF TypeOK
      <4>2. open' \subseteq 1 .. dials' /\ reach' \subseteq open'
        BY <3>1 DEF TypeOK
      <4>3. conn' \in 0 .. dials' /\ channel' \in {0, conn'}
        BY <3>1 DEF TypeOK
      <4> QED
        BY <4>1, <4>2, <4>3 DEF ConnType
    <3>3. ClickType'
      BY <3>1 DEF TypeOK, ClickType
    <3> QED
      BY <2>0, <2>1, <3>2, <3>3
  <2>5. CASE \E c \in Clicks : Redirect(c) \/ ReadChannel(c) \/ Send(c)
    <3>1. UNCHANGED <<network, publisher, watch>>
      BY <2>5 DEF Redirect, ReadChannel, Send
    <3>2. ConnType'
      BY <3>1 DEF TypeOK, ConnType, network, publisher, watch
    <3>3. channel \in 0 .. dials /\ dials' = dials /\ losses \in -1 .. MaxLosses /\ -1 \in -1 .. MaxLosses
      BY <3>1, LossesAssumption DEF TypeOK, network
    <3>4. ch' = ch \/ \E c \in Clicks : ch' = [ch EXCEPT ![c] = channel]
      BY <2>5 DEF Redirect, ReadChannel, Send
    <3>5. start' = start \/ \E c \in Clicks, s \in {-1, losses} : start' = [start EXCEPT ![c] = s]
      BY <2>5 DEF Redirect, ReadChannel, Send
    <3>6. ch' \in [Clicks -> 0 .. dials']
      BY <3>3, <3>4 DEF TypeOK
    <3>7. start' \in [Clicks -> -1 .. MaxLosses]
      BY <3>3, <3>5 DEF TypeOK
    <3> QED
      BY <2>0, <2>1, <3>2, <3>6, <3>7 DEF ClickType
  <2> QED
    BY <1>2, <2>2, <2>3, <2>4, <2>5 DEF Next
<1> QED
  BY <1>1, <1>2

\* Nothing is dialled at the start.
LEMMA TypeInit == Init => TypeOK
<1> SUFFICES ASSUME Init PROVE TypeOK
  OBVIOUS
<1>1. up \in BOOLEAN /\ closed \in BOOLEAN
  BY Zenon DEF Init
<1>2. 0 \in 0 .. MaxLosses /\ -1 \in -1 .. MaxLosses
  BY LossesAssumption
<1> QED
  BY <1>1, <1>2 DEF Init, TypeOK, Watching, Closing, ClickStates

\* The publisher's state stays well typed; p.channel is nil or a channel of
\* p.conn whatever the watcher, Close and the clicks do.
THEOREM PublisherTypeCorrect == Spec => []TypeOK
BY TypeInit, TypeStep, PTL DEF Spec

-----------------------------------------------------------------------------
\* The inductive invariant.

\* The watcher has seen its connection close and has not stored another.
Reconnecting == watcher \in {"degrade", "check", "dial", "declare", "install"}

\* What the watcher knows of p.conn: it watches it, or Close has taken it, and
\* while it reconnects p.conn is a connection that has closed.
WatcherInv ==
  /\ watcher = "new" => conn = 0 /\ \A c \in Clicks : click[c] = "none"
  /\ watcher \in {"top", "wait"} => channel = conn
  /\ watcher = "wait" => conn \in {0, watched}
  /\ Reconnecting => conn \notin open

\* Close sets the flag first.
CloserInv == closer # "idle" => closed

\* The publisher was healthy when c started and nothing has happened since.
Undisturbed(c) == start[c] # -1 /\ losses <= start[c] /\ ~closed

\* Such a click finds the publisher as it was.
ClickInv ==
  \A c \in Clicks :
    /\ start[c] <= losses
    /\ click[c] \in {"start", "send"} /\ Undisturbed(c) =>
         Healthy /\ (click[c] = "send" => ch[c] = conn)

PublisherInv ==
  /\ TypeOK
  /\ WatcherInv
  /\ NoOrphanConnection
  /\ CloserInv
  /\ ClickInv
  /\ LossExplained

\* WatcherInv and NoOrphanConnection are preserved.
LEMMA WatcherStep ==
  ASSUME TypeOK, TypeOK', WatcherInv, NoOrphanConnection, Next
  PROVE  WatcherInv' /\ NoOrphanConnection'
<1> USE DEF Reconnecting
<1>0. /\ 0 \notin open /\ 0 \notin open' /\ dials + 1 \notin open
      /\ conn # dials + 1 /\ reach \subseteq open
  BY DEF TypeOK
<1>1. CASE Outage \/ Recover \/ (\E k \in open : Break(k) \/ Detect(k))
  <2>1. UNCHANGED <<publisher, watch, closer, clicks>> /\ open' \subseteq open
    BY <1>1 DEF Outage, Recover, Break, Detect
  <2> QED
    BY <2>1 DEF WatcherInv, NoOrphanConnection, publisher, watch, clicks
<1>2. CASE NewPublisher
  <2>1. open = {}
    BY <1>0, <1>2 DEF NewPublisher, WatcherInv, NoOrphanConnection
  <2> QED
    BY <1>2, <2>1 DEF NewPublisher, DialConn, WatcherInv, NoOrphanConnection
<1>3. CASE Top
  BY <1>3 DEF Top, WatcherInv, NoOrphanConnection, network, publisher
<1>4. CASE Notified
  <2>1. conn \notin open
    BY <1>0, <1>4 DEF Notified, WatcherInv
  <2> QED
    BY <1>4, <2>1 DEF Notified, WatcherInv, NoOrphanConnection, network, publisher
<1>5. CASE Degrade
  BY <1>5 DEF Degrade, WatcherInv, NoOrphanConnection, network
<1>6. CASE CheckClosed
  BY <1>6 DEF CheckClosed, WatcherInv, NoOrphanConnection, network, publisher
<1>7. CASE Redial
  <2>1. conn \notin open /\ open = {} /\ watcher = "dial" /\ UNCHANGED <<conn, channel>>
    BY <1>7 DEF Redial, WatcherInv, NoOrphanConnection, publisher
  <2>2. CASE watcher' = "declare"
    <3>1. open' = {dials + 1} /\ newConn' = dials + 1
      BY <1>7, <2>1, <2>2 DEF Redial, DialConn
    <3> QED
      BY <1>0, <2>1, <2>2, <3>1 DEF WatcherInv, NoOrphanConnection
  <2>3. CASE watcher' = "check" /\ UNCHANGED network
    BY <2>1, <2>3 DEF WatcherInv, NoOrphanConnection, network
  <2> QED
    BY <1>7, <2>2, <2>3 DEF Redial
<1>8. CASE Declare
  <2>1. /\ watcher = "declare" /\ UNCHANGED <<conn, channel, newConn>>
        /\ \/ watcher' = "install" /\ open' = open
           \/ watcher' = "check" /\ open' = open \ {newConn}
    BY <1>8 DEF Declare, DeclareFails, publisher, network
  <2> QED
    BY <2>1 DEF WatcherInv, NoOrphanConnection
<1>9. CASE Install
  BY <1>9 DEF Install, WatcherInv, NoOrphanConnection, network
<1>10. CASE SetClosed \/ Lock
  BY <1>10 DEF SetClosed, Lock, WatcherInv, NoOrphanConnection, network, publisher,
     watch, clicks
<1>11. CASE Release
  BY <1>0, <1>11 DEF Release, WatcherInv, NoOrphanConnection, watch, clicks
<1>12. CASE \E c \in Clicks : Redirect(c) \/ ReadChannel(c) \/ Send(c)
  <2>1. UNCHANGED <<network, publisher, watch>>
    BY <1>12 DEF Redirect, ReadChannel, Send
  <2>2. watcher # "new"
    BY <1>12 DEF Redirect, ReadChannel, Send, WatcherInv
  <2> QED
    BY <2>1, <2>2 DEF WatcherInv, NoOrphanConnection, network, publisher, watch
<1> QED
  BY <1>1, <1>2, <1>3, <1>4, <1>5, <1>6, <1>7, <1>8, <1>9, <1>10, <1>11, <1>12
  DEF Next, Watcher

\* The flag is never taken back and Close never starts before it.
LEMMA CloserStep ==
  ASSUME CloserInv, Next
  PROVE  CloserInv' /\ (closed => closed')
BY Zenon DEF CloserInv, Next, Outage, Recover, Break, Detect, NewPublisher, Watcher, Top,
   Notified, Degrade, CheckClosed, Redial, Declare, Install, SetClosed, Lock, Release,
   Redirect, ReadChannel, Send, publisher

\* Without a fault, a healthy publisher that is not closed keeps its
\* connection.
LEMMA HealthyStep ==
  ASSUME TypeOK, WatcherInv, CloserInv, Next, Healthy, losses' = losses, ~closed'
  PROVE  Healthy' /\ conn' = conn
<1>0. /\ conn \in reach /\ conn \in open /\ conn # 0 /\ ~closed
      /\ watcher \in {"top", "wait"} /\ reach \subseteq 1 .. dials
  BY DEF Healthy, TypeOK
<1>1. CASE Outage \/ (\E k \in open : Break(k))
  BY <1>1 DEF Outage, Break, Fault, TypeOK
<1>2. CASE Recover \/ (\E k \in open : Detect(k))
  BY <1>2 DEF Recover, Detect, Healthy, publisher, watch
<1>3. CASE NewPublisher \/ Degrade \/ CheckClosed \/ Redial \/ Declare \/ Install
  BY <1>0, <1>3 DEF NewPublisher, Degrade, CheckClosed, Redial, Declare, Install
<1>4. CASE Top
  BY <1>0, <1>4 DEF Top, Healthy, network, publisher
<1>5. CASE Notified
  BY <1>0, <1>5 DEF Notified, WatcherInv
<1>6. CASE SetClosed
  BY <1>6 DEF SetClosed
<1>7. CASE Lock \/ Release
  BY <1>0, <1>7 DEF Lock, Release, CloserInv
<1>8. CASE \E c \in Clicks : Redirect(c) \/ ReadChannel(c) \/ Send(c)
  BY <1>8 DEF Redirect, ReadChannel, Send, Healthy, network, publisher, watch
<1> QED
  BY <1>1, <1>2, <1>3, <1>4, <1>5, <1>6, <1>7, <1>8 DEF Next, Watcher

\* Faults only add up.
LEMMA LossesStep == ASSUME TypeOK, Next PROVE losses' \in {losses, losses + 1}
BY DEF TypeOK, Next, Outage, Recover, Break, Detect, Fault, NewPublisher, Watcher, Top,
   Notified, Degrade, CheckClosed, Redial, Declare, DeclareFails, Install, SetClosed,
   Lock, Release, Redirect, ReadChannel, Send, network

\* What a step does to one click.
LEMMA ClickStep ==
  ASSUME TypeOK, Next, NEW c \in Clicks
  PROVE  \/ click'[c] = click[c] /\ ch'[c] = ch[c] /\ start'[c] = start[c]
         \/ Redirect(c) \/ ReadChannel(c) \/ Send(c)
<1>1. CASE UNCHANGED clicks
  BY <1>1 DEF clicks
<1>2. CASE \E d \in Clicks : Redirect(d) \/ ReadChannel(d) \/ Send(d)
  <2>1. PICK d \in Clicks : Redirect(d) \/ ReadChannel(d) \/ Send(d)
    BY <1>2
  <2>2. CASE d = c
    BY <2>1, <2>2
  <2>3. CASE d # c
    BY <2>1, <2>3 DEF Redirect, ReadChannel, Send, TypeOK
  <2> QED
    BY <2>2, <2>3
<1> QED
  BY <1>1, <1>2 DEF Next, Outage, Recover, Break, Detect, NewPublisher, Watcher, Top,
     Notified, Degrade, CheckClosed, Redial, Declare, Install, SetClosed, Lock, Release

\* ClickInv and LossExplained are preserved.
LEMMA LossStep ==
  ASSUME PublisherInv, Next
  PROVE  ClickInv' /\ LossExplained'
<1>0. /\ TypeOK /\ WatcherInv /\ CloserInv /\ losses' \in {losses, losses + 1}
      /\ losses \in Nat /\ (closed => closed')
  BY LossesStep, CloserStep DEF PublisherInv, TypeOK
<1> SUFFICES ASSUME NEW c \in Clicks
             PROVE  /\ start'[c] <= losses'
                    /\ click'[c] \in {"start", "send"} /\ Undisturbed(c)' =>
                         Healthy' /\ (click'[c] = "send" => ch'[c] = conn')
                    /\ click'[c] \in {"lost", "dropped"} =>
                         start'[c] = -1 \/ losses' > start'[c] \/ closed'
  BY DEF ClickInv, LossExplained
<1>1. /\ start[c] <= losses /\ start[c] \in Int
      /\ click[c] \in {"start", "send"} /\ Undisturbed(c) =>
           Healthy /\ (click[c] = "send" => ch[c] = conn)
      /\ click[c] \in {"lost", "dropped"} =>
           start[c] = -1 \/ losses > start[c] \/ closed
  BY <1>0, LossesAssumption DEF PublisherInv, ClickInv, LossExplained, TypeOK
<1>2. CASE click'[c] = click[c] /\ ch'[c] = ch[c] /\ start'[c] = start[c]
  <2>1. start'[c] <= losses'
    BY <1>0, <1>1, <1>2
  <2>2. ASSUME click'[c] \in {"start", "send"}, Undisturbed(c)'
        PROVE  Healthy' /\ (click'[c] = "send" => ch'[c] = conn')
    <3>1. losses' = losses /\ Undisturbed(c) /\ ~closed'
      BY <1>0, <1>1, <1>2, <2>2 DEF Undisturbed
    <3>2. Healthy' /\ conn' = conn
      BY <1>0, <1>1, <1>2, <2>2, <3>1, HealthyStep
    <3> QED
      BY <1>1, <1>2, <2>2, <3>1, <3>2
  <2>3. ASSUME click'[c] \in {"lost", "dropped"}
        PROVE  start'[c] = -1 \/ losses' > start'[c] \/ closed'
    BY <1>0, <1>1, <1>2, <2>3
  <2> QED
    BY <2>1, <2>2, <2>3
<1>3. CASE Redirect(c)
  <2>1. /\ click'[c] = "start" /\ start'[c] = IF Healthy THEN losses ELSE -1
        /\ losses' = losses /\ (Healthy' <=> Healthy)
    BY <1>0, <1>3 DEF Redirect, Healthy, TypeOK, network, publisher, watch
  <2> QED
    BY <1>0, <2>1 DEF Undisturbed
<1>4. CASE ReadChannel(c)
  <2>1. /\ click[c] = "start" /\ ch'[c] = channel /\ start'[c] = start[c]
        /\ click'[c] = IF channel = 0 THEN "dropped" ELSE "send"
        /\ losses' = losses /\ conn' = conn /\ (Healthy' <=> Healthy) /\ (closed' <=> closed)
    BY <1>0, <1>4 DEF ReadChannel, Healthy, TypeOK, network, publisher, watch
  <2>2. Undisturbed(c)' <=> Undisturbed(c)
    BY <2>1 DEF Undisturbed
  <2>3. Healthy => channel = conn /\ channel # 0
    BY <1>0 DEF Healthy, WatcherInv, TypeOK
  <2>4. click'[c] = "dropped" => ~Undisturbed(c)
    BY <1>1, <2>1, <2>3
  <2> QED
    BY <1>0, <1>1, <2>1, <2>2, <2>3, <2>4 DEF Undisturbed
<1>5. CASE Send(c)
  <2>1. /\ click[c] = "send" /\ start'[c] = start[c]
        /\ click'[c] \in {"arrived", "lost", "dropped"}
        /\ ch[c] \in reach => click'[c] = "arrived"
        /\ losses' = losses /\ (closed' <=> closed)
    BY <1>0, <1>5 DEF Send, TypeOK, network, publisher
  <2>2. Undisturbed(c) => click'[c] = "arrived"
    BY <1>1, <2>1 DEF Healthy
  <2> QED
    BY <1>0, <1>1, <2>1, <2>2 DEF Undisturbed
<1> QED
  BY <1>0, <1>2, <1>3, <1>4, <1>5, ClickStep

\* PublisherInv is inductive.
LEMMA PublisherStep == PublisherInv /\ [Next]_vars => PublisherInv'
<1> SUFFICES ASSUME PublisherInv, [Next]_vars PROVE PublisherInv'
  OBVIOUS
<1>1. TypeOK'
  BY TypeStep DEF PublisherInv
<1>2. CASE Next
  BY <1>1, <1>2, WatcherStep, CloserStep, LossStep DEF PublisherInv
<1>3. CASE UNCHANGED vars
  BY <1>1, <1>3 DEF PublisherInv, WatcherInv, Reconnecting, NoOrphanConnection, CloserInv,
     ClickInv, Undisturbed, Healthy, LossExplained, vars, network, publisher, watch, clicks
<1> QED
  BY <1>2, <1>3

\* It holds before the first dial.
LEMMA PublisherInit == Init => PublisherInv
<1> SUFFICES ASSUME Init PROVE PublisherInv
  OBVIOUS
<1>1. WatcherInv /\ NoOrphanConnection /\ CloserInv
  BY DEF Init, WatcherInv, Reconnecting, NoOrphanConnection, CloserInv
<1>2. ClickInv /\ LossExplained
  BY DEF Init, ClickInv, LossExplained
<1> QED
  BY <1>1, <1>2, TypeInit DEF PublisherInv

\* No connection is ever open that neither p.conn nor the dial under way names,
\* whatever fails and whenever Close runs.
THEOREM NoConnectionLeaks == Spec => []NoOrphanConnection
<1>1. PublisherInv => NoOrphanConnection
  BY DEF PublisherInv
<1> QED
  BY <1>1, PublisherInit, PublisherStep, PTL DEF Spec

\* A click of a healthy publisher reaches the broker unless a fault or Close
\* comes before it is sent.
THEOREM EveryLossExplained == Spec => []LossExplained
<1>1. PublisherInv => LossExplained
  BY DEF PublisherInv
<1> QED
  BY <1>1, PublisherInit, PublisherStep, PTL DEF Spec

-----------------------------------------------------------------------------
\* What Close leaves behind.

\* Nothing has been lost yet: the first connection is the only one, and the
\* watcher has not moved from it, until Close has taken it.
UndisturbedInv ==
  losses = 0 =>
    /\ watcher \in {"new", "top", "wait", "done"}
    /\ watcher = "new" => open = {} /\ dials = 0
    /\ watcher # "new" /\ closer # "done" =>
         conn = 1 /\ open = {1} /\ reach = {1}
    /\ watcher = "wait" /\ closer # "done" => watched = 1
    /\ watcher = "done" => closer = "done"
    /\ closer = "done" => open = {}

\* The watcher reconnects only after the first dial, and what p.conn names once
\* Close is done was stored by the watcher afterwards.
LeftInv ==
  /\ watcher # "new" => dials > 0
  /\ watcher \in {"declare", "install"} => newConn > 1
  /\ watcher = "new" => closer = "idle"
  /\ closer = "done" =>
       /\ conn # 0 => conn = newConn /\ newConn > 1
       /\ Reconnecting => conn = 0
       /\ watcher = "done" => conn \notin open

\* Together with what is known of the watcher they imply the property.
LEMMA LeftBehind ==
  ASSUME TypeOK, WatcherInv, NoOrphanConnection, UndisturbedInv, LeftInv
  PROVE  CloseLeavesOnlyADial
<1> SUFFICES ASSUME closer = "done", open # {}
             PROVE  /\ losses > 0 /\ open = {newConn} /\ newConn > 1
                    /\ watcher \in {"declare", "install", "top", "wait"}
  BY DEF CloseLeavesOnlyADial
<1>0. 0 \notin open /\ losses \in Nat /\ watcher \in Watching
  BY LossesAssumption DEF TypeOK
<1>1. losses > 0
  BY <1>0 DEF UndisturbedInv
<1>2. CASE watcher \in {"declare", "install"}
  <2>1. conn = 0 /\ newConn > 1
    BY <1>2 DEF LeftInv, Reconnecting
  <2> QED
    BY <1>0, <1>1, <1>2, <2>1 DEF NoOrphanConnection
<1>3. CASE watcher \notin {"declare", "install"}
  <2>1. open = {conn} /\ conn # 0
    BY <1>0, <1>3 DEF NoOrphanConnection
  <2>2. conn = newConn /\ newConn > 1 /\ ~Reconnecting /\ watcher # "done"
    BY <2>1 DEF LeftInv
  <2>3. watcher # "new"
    BY DEF LeftInv
  <2> QED
    BY <1>0, <1>1, <2>1, <2>2, <2>3 DEF Reconnecting, Watching
<1> QED
  BY <1>2, <1>3

\* Without a fault, nothing but Close happens to the first connection.
LEMMA UndisturbedStep ==
  ASSUME TypeOK, TypeOK', WatcherInv, CloserInv, LeftInv, UndisturbedInv, Next
  PROVE  UndisturbedInv'
<1> SUFFICES ASSUME losses' = 0 PROVE UndisturbedInv'
  BY DEF UndisturbedInv
<1>0. losses = 0
  BY LossesStep DEF TypeOK
<1>1. /\ watcher \in {"new", "top", "wait", "done"}
      /\ watcher = "new" => open = {} /\ dials = 0
      /\ watcher # "new" /\ closer # "done" =>
           conn = 1 /\ open = {1} /\ reach = {1}
      /\ watcher = "wait" /\ closer # "done" => watched = 1
      /\ watcher = "done" => closer = "done"
      /\ closer = "done" => open = {}
  BY <1>0 DEF UndisturbedInv
<1>2. CASE Recover
  BY <1>1, <1>2 DEF Recover, UndisturbedInv, publisher, watch
<1>3. ASSUME Outage \/ \E k \in open : Break(k) PROVE FALSE
  BY <1>0, <1>3 DEF Outage, Break, Fault
<1>4. ASSUME \E k \in open : Detect(k) PROVE FALSE
  BY <1>1, <1>4 DEF Detect
<1>5. CASE NewPublisher
  <2>1. dials = 0 /\ open = {} /\ reach = {} /\ closer = "idle"
    BY <1>1, <1>5 DEF NewPublisher, LeftInv, TypeOK
  <2>2. conn' = 1 /\ open' = {1} /\ reach' = {1} /\ watcher' = "top" /\ closer' = "idle"
    BY <1>5, <2>1 DEF NewPublisher, DialConn
  <2> QED
    BY <2>2 DEF UndisturbedInv
<1>6. CASE Top
  BY <1>1, <1>6 DEF Top, UndisturbedInv, network, publisher
<1>7. CASE Notified
  <2>1. closer = "done" /\ closed
    BY <1>1, <1>7 DEF Notified, CloserInv
  <2> QED
    BY <1>1, <1>7, <2>1 DEF Notified, UndisturbedInv, network, publisher
<1>8. ASSUME Degrade \/ CheckClosed \/ Redial \/ Declare \/ Install PROVE FALSE
  BY <1>1, <1>8 DEF Degrade, CheckClosed, Redial, Declare, Install
<1>9. CASE SetClosed \/ Lock
  BY <1>1, <1>9 DEF SetClosed, Lock, UndisturbedInv, network, publisher, watch
<1>10. CASE Release
  BY <1>1, <1>10 DEF Release, UndisturbedInv, LeftInv, watch
<1>11. CASE \E c \in Clicks : Redirect(c) \/ ReadChannel(c) \/ Send(c)
  BY <1>1, <1>11 DEF Redirect, ReadChannel, Send, UndisturbedInv, network, publisher, watch
<1> QED
  BY <1>2, <1>3, <1>4, <1>5, <1>6, <1>7, <1>8, <1>9, <1>10, <1>11 DEF Next, Watcher

\* LeftInv is preserved.
LEMMA LeftStep ==
  ASSUME TypeOK, TypeOK', WatcherInv, CloserInv, LeftInv, Next
  PROVE  LeftInv'
<1> USE DEF Reconnecting
<1>0. 0 \notin open /\ 0 \notin open' /\ dials \in Nat /\ dials' \in Nat
  BY DEF TypeOK
<1>1. CASE Outage \/ Recover \/ (\E k \in open : Break(k) \/ Detect(k))
  <2>1. UNCHANGED <<dials, publisher, watch, closer>> /\ open' \subseteq open
    BY <1>1 DEF Outage, Recover, Break, Detect
  <2> QED
    BY <2>1 DEF LeftInv, publisher, watch
<1>2. CASE NewPublisher
  BY <1>0, <1>2 DEF NewPublisher, DialConn, LeftInv
<1>3. CASE Top
  BY <1>0, <1>3 DEF Top, LeftInv, network, publisher
<1>4. CASE Notified
  <2>1. closer = "done" => watcher' = "done"
    BY <1>4 DEF Notified, CloserInv
  <2>2. conn \notin open
    BY <1>0, <1>4 DEF Notified, WatcherInv
  <2> QED
    BY <1>4, <2>1, <2>2 DEF Notified, LeftInv, network, publisher
<1>5. CASE Degrade
  BY <1>5 DEF Degrade, LeftInv, network
<1>6. CASE CheckClosed
  BY <1>0, <1>6 DEF CheckClosed, LeftInv, network, publisher
<1>7. CASE Redial
  <2>1. CASE DialConn /\ watcher' = "declare"
    BY <1>0, <1>7, <2>1 DEF Redial, DialConn, LeftInv, publisher
  <2>2. CASE watcher' = "check" /\ UNCHANGED <<network, newConn>>
    BY <1>7, <2>2 DEF Redial, LeftInv, network, publisher
  <2> QED
    BY <1>7, <2>1, <2>2 DEF Redial
<1>8. CASE Declare
  BY <1>8 DEF Declare, LeftInv, network, publisher
<1>9. CASE Install
  BY <1>9 DEF Install, LeftInv, network
<1>10. CASE SetClosed \/ Lock
  BY <1>10 DEF SetClosed, Lock, LeftInv, network, publisher, watch
<1>11. CASE Release
  BY <1>0, <1>11 DEF Release, LeftInv, watch
<1>12. CASE \E c \in Clicks : Redirect(c) \/ ReadChannel(c) \/ Send(c)
  BY <1>12 DEF Redirect, ReadChannel, Send, LeftInv, network, publisher, watch
<1> QED
  BY <1>1, <1>2, <1>3, <1>4, <1>5, <1>6, <1>7, <1>8, <1>9, <1>10, <1>11, <1>12
  DEF Next, Watcher

\* After Close has returned, the only connection that can be open is one that
\* the watcher was dialling; without a lost connection there is none.
THEOREM CloseLeavesLittle == Spec => []CloseLeavesOnlyADial
<1> DEFINE Inv == PublisherInv /\ UndisturbedInv /\ LeftInv
<1>1. Init => Inv
  <2> SUFFICES ASSUME Init PROVE Inv
    OBVIOUS
  <2>1. UndisturbedInv /\ LeftInv
    BY DEF Init, UndisturbedInv, LeftInv, Reconnecting
  <2> QED
    BY <2>1, PublisherInit
<1>2. Inv /\ [Next]_vars => Inv'
  <2> SUFFICES ASSUME Inv, [Next]_vars PROVE Inv'
    OBVIOUS
  <2>1. PublisherInv'
    BY PublisherStep
  <2>2. CASE Next
    BY <2>1, <2>2, UndisturbedStep, LeftStep DEF PublisherInv
  <2>3. CASE UNCHANGED vars
    BY <2>1, <2>3 DEF UndisturbedInv, LeftInv, Reconnecting, vars, network, publisher, watch
  <2> QED
    BY <2>2, <2>3
<1>3. Inv => CloseLeavesOnlyADial
  BY LeftBehind DEF PublisherInv
<1> QED
  BY <1>1, <1>2, <1>3, PTL DEF Spec
=============================================================================
