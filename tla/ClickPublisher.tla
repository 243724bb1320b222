---------------------------- MODULE ClickPublisher ----------------------------
(***************************************************************************)
(* The publisher of click events in the gateway                            *)
(* (internal/analytics/publisher.go): click goroutines that publish, the   *)
(* goroutine that watches the connection and dials again, and Close, which *)
(* main defers and which runs once the HTTP server is down.                *)
(*                                                                         *)
(* Connections are numbered as they are dialled, 0 stands for nil.  Each   *)
(* has one channel, known by the same number.  The AMQP library and the    *)
(* broker are external: `open' is what the library believes, `reach' what  *)
(* the broker still reads; heartbeats make the one follow the other.       *)
(***************************************************************************)
EXTENDS Integers

CONSTANTS
  Clicks,    \* redirects that publish a click
  MaxLosses  \* bound: broken connections, broker outages, failed declarations

ASSUME LossesAssumption == MaxLosses \in Nat

VARIABLES
  up,       \* the broker accepts connections
  open,     \* connections that the library has not noticed to be closed
  reach,    \* connections on which the broker receives
  dials,    \* connections dialled so far
  losses,   \* faults so far
  conn,     \* p.conn
  channel,  \* p.channel
  closed,   \* p.closed
  watcher,  \* where watchAndReconnect is
  watched,  \* its local conn
  newConn,  \* its local newConn
  closer,   \* where Close is; it holds p.mu at "release"
  click,    \* where each click goroutine is, or what became of its event
  ch,       \* its local ch
  start     \* history: losses when it started if the publisher was healthy
            \* then, and -1 if it was not

network == <<up, open, reach, dials, losses>>
publisher == <<conn, channel, closed>>
watch == <<watcher, watched, newConn>>
clicks == <<click, ch, start>>
vars == <<network, publisher, watch, closer, clicks>>

Watching == {"new", "top", "wait", "degrade", "check", "dial", "declare",
             "install", "done"}
Closing == {"idle", "lock", "release", "done"}
ClickStates == {"none", "start", "send", "arrived", "lost", "dropped"}

\* p.channel is nil or a channel of p.conn.
TypeOK ==
  /\ up \in BOOLEAN /\ closed \in BOOLEAN
  /\ dials \in Nat /\ losses \in 0 .. MaxLosses
  /\ open \subseteq 1 .. dials /\ reach \subseteq open
  /\ conn \in 0 .. dials /\ channel \in {0, conn}
  /\ watcher \in Watching
  /\ watched \in 0 .. dials /\ newConn \in 0 .. dials
  /\ closer \in Closing
  /\ click \in [Clicks -> ClickStates]
  /\ ch \in [Clicks -> 0 .. dials]
  /\ start \in [Clicks -> -1 .. MaxLosses]

Init ==
  /\ up = TRUE
  /\ open = {} /\ reach = {} /\ dials = 0 /\ losses = 0
  /\ conn = 0 /\ channel = 0 /\ closed = FALSE
  /\ watcher = "new" /\ watched = 0 /\ newConn = 0
  /\ closer = "idle"
  /\ click = [c \in Clicks |-> "none"]
  /\ ch = [c \in Clicks |-> 0]
  /\ start = [c \in Clicks |-> -1]

-----------------------------------------------------------------------------
\* The network and the broker.

Fault == losses < MaxLosses /\ losses' = losses + 1

\* The broker goes down, and with it every connection.
Outage ==
  /\ up
  /\ Fault
  /\ up' = FALSE
  /\ reach' = {}
  /\ UNCHANGED <<open, dials, publisher, watch, closer, clicks>>

Recover ==
  /\ ~up
  /\ up' = TRUE
  /\ UNCHANGED <<open, reach, dials, losses, publisher, watch, closer, clicks>>

\* One connection breaks.
Break(k) ==
  /\ k \in reach
  /\ Fault
  /\ reach' = reach \ {k}
  /\ UNCHANGED <<up, open, dials, publisher, watch, closer, clicks>>

\* The library misses two heartbeats, or reads an error, and closes.
Detect(k) ==
  /\ k \in open \ reach
  /\ open' = open \ {k}
  /\ UNCHANGED <<up, reach, dials, losses, publisher, watch, closer, clicks>>

-----------------------------------------------------------------------------
\* dial.

\* DialConfig.
DialConn ==
  /\ up
  /\ dials' = dials + 1
  /\ newConn' = dials + 1
  /\ open' = open \cup {dials + 1}
  /\ reach' = reach \cup {dials + 1}

\* Mutated form: dial returns the error and leaves the connection open.
DeclareFailsOpen ==
  /\ newConn \in open => Fault
  /\ newConn \notin open => UNCHANGED losses
  /\ UNCHANGED <<open, reach>>

\* Opening the channel or declaring the exchange fails, and dial closes the
\* connection.
DeclareFails ==
  /\ newConn \in open => Fault
  /\ newConn \notin open => UNCHANGED losses
  /\ open' = open \ {newConn}
  /\ reach' = reach \ {newConn}

\* NewPublisher, with a broker that answers: otherwise main ends the process.
NewPublisher ==
  /\ watcher = "new"
  /\ DialConn
  /\ conn' = dials + 1
  /\ channel' = dials + 1
  /\ watcher' = "top"
  /\ UNCHANGED <<up, losses, closed, watched, closer, clicks>>

-----------------------------------------------------------------------------
\* watchAndReconnect.

\* p.mu is held for writing by Close; the other critical sections are single
\* steps.
Locked == closer = "release"

\* The head of the loop.
Top ==
  /\ watcher = "top" /\ ~Locked
  /\ watched' = conn
  /\ watcher' = IF conn = 0 THEN "done" ELSE "wait"
  /\ UNCHANGED <<network, publisher, newConn, closer, clicks>>

\* The close notification; it comes at once for a connection closed before.
Notified ==
  /\ watcher = "wait"
  /\ watched \notin open
  /\ watcher' = IF closed THEN "done" ELSE "degrade"
  /\ UNCHANGED <<network, publisher, watched, newConn, closer, clicks>>

Degrade ==
  /\ watcher = "degrade" /\ ~Locked
  /\ channel' = 0
  /\ watcher' = "check"
  /\ UNCHANGED <<network, conn, closed, watched, newConn, closer, clicks>>

\* The head of the inner loop; the backoff passes before the dial.
CheckClosed ==
  /\ watcher = "check"
  /\ watcher' = IF closed THEN "done" ELSE "dial"
  /\ UNCHANGED <<network, publisher, watched, newConn, closer, clicks>>

\* Mutated form: the first failed attempt ends the goroutine.
RedialOnce ==
  /\ watcher = "dial"
  /\ \/ DialConn /\ watcher' = "declare" /\ UNCHANGED <<up, losses>>
     \/ ~up /\ watcher' = "done" /\ UNCHANGED <<network, newConn>>
  /\ UNCHANGED <<publisher, watched, closer, clicks>>

Redial ==
  /\ watcher = "dial"
  /\ \/ DialConn /\ watcher' = "declare" /\ UNCHANGED <<up, losses>>
     \/ ~up /\ watcher' = "check" /\ UNCHANGED <<network, newConn>>
  /\ UNCHANGED <<publisher, watched, closer, clicks>>

Declare ==
  /\ watcher = "declare"
  /\ \/ newConn \in reach /\ watcher' = "install" /\ UNCHANGED network
     \/ DeclareFails /\ watcher' = "check" /\ UNCHANGED <<up, dials>>
  /\ UNCHANGED <<publisher, watched, newConn, closer, clicks>>

\* Mutated form: the new channel is not stored.
InstallConnOnly ==
  /\ watcher = "install" /\ ~Locked
  /\ conn' = newConn
  /\ watcher' = "top"
  /\ UNCHANGED <<network, channel, closed, watched, newConn, closer, clicks>>

\* The new connection and channel are stored.
Install ==
  /\ watcher = "install" /\ ~Locked
  /\ conn' = newConn
  /\ channel' = newConn
  /\ watcher' = "top"
  /\ UNCHANGED <<network, closed, watched, newConn, closer, clicks>>

Watcher ==
  Top \/ Notified \/ Degrade \/ CheckClosed \/ Redial \/ Declare \/ Install

-----------------------------------------------------------------------------
\* Close.

SetClosed ==
  /\ closer = "idle" /\ watcher # "new"
  /\ closed' = TRUE
  /\ closer' = "lock"
  /\ UNCHANGED <<network, conn, channel, watch, clicks>>

Lock ==
  /\ closer = "lock"
  /\ closer' = "release"
  /\ UNCHANGED <<network, publisher, watch, clicks>>

\* Mutated form: p.channel is not reset.
ReleaseKeepsChannel ==
  /\ closer = "release"
  /\ open' = open \ {conn}
  /\ reach' = reach \ {conn}
  /\ conn' = 0
  /\ closer' = "done"
  /\ UNCHANGED <<up, dials, losses, channel, closed, watch, clicks>>

\* Mutated form: Close returns without giving up p.mu.
ReleaseKeepsLock ==
  /\ closer = "release"
  /\ open' = open \ {conn}
  /\ reach' = reach \ {conn}
  /\ conn' = 0 /\ channel' = 0
  /\ UNCHANGED <<up, dials, losses, closed, watch, closer, clicks>>

\* Mutated form: only the channel is closed.
ReleaseChannelOnly ==
  /\ closer = "release"
  /\ conn' = 0 /\ channel' = 0
  /\ closer' = "done"
  /\ UNCHANGED <<network, closed, watch, clicks>>

\* The channel and the connection are closed and forgotten, p.mu is released.
Release ==
  /\ closer = "release"
  /\ open' = open \ {conn}
  /\ reach' = reach \ {conn}
  /\ conn' = 0 /\ channel' = 0
  /\ closer' = "done"
  /\ UNCHANGED <<up, dials, losses, closed, watch, clicks>>

-----------------------------------------------------------------------------
\* Publish, in the goroutine that the redirect handler starts.

\* The publisher is connected and nobody is about to change that.
Healthy == watcher \in {"top", "wait"} /\ conn \in reach /\ ~closed

\* The handler has answered and starts the goroutine.  Close only runs when
\* the handlers are done.
Redirect(c) ==
  /\ click[c] = "none"
  /\ closer = "idle" /\ watcher # "new"
  /\ click' = [click EXCEPT ![c] = "start"]
  /\ start' = [start EXCEPT ![c] = IF Healthy THEN losses ELSE -1]
  /\ UNCHANGED <<network, publisher, watch, closer, ch>>

\* The channel is read under the lock; without one the event is dropped.
ReadChannel(c) ==
  /\ click[c] = "start" /\ ~Locked
  /\ ch' = [ch EXCEPT ![c] = channel]
  /\ click' = [click EXCEPT ![c] = IF channel = 0 THEN "dropped" ELSE "send"]
  /\ UNCHANGED <<network, publisher, watch, closer, start>>

\* PublishWithContext: an error drops the event; without confirms the event may
\* also be lost without one.
Send(c) ==
  /\ click[c] = "send"
  /\ click' = [click EXCEPT ![c] = IF ch[c] \in reach THEN "arrived"
                                   ELSE IF ch[c] \in open THEN "lost"
                                   ELSE "dropped"]
  /\ UNCHANGED <<network, publisher, watch, closer, ch, start>>

-----------------------------------------------------------------------------
Next ==
  \/ Outage \/ Recover \/ \E k \in open : Break(k) \/ Detect(k)
  \/ NewPublisher \/ Watcher
  \/ SetClosed \/ Lock \/ Release
  \/ \E c \in Clicks : Redirect(c) \/ ReadChannel(c) \/ Send(c)

\* Heartbeats run, goroutines are scheduled and calls of the library return.
\* Nothing is assumed of the broker or of when Close is called.
Fairness ==
  /\ WF_vars(\E k \in open : Detect(k))
  /\ WF_vars(NewPublisher) /\ WF_vars(Watcher)
  /\ WF_vars(Lock \/ Release)
  /\ \A c \in Clicks : WF_vars(ReadChannel(c) \/ Send(c))

Spec == Init /\ [][Next]_vars
FairSpec == Spec /\ Fairness

-----------------------------------------------------------------------------
\* Properties.

\* No connection is forgotten while it is open, whatever fails during a dial
\* and whoever replaces p.conn: Close and the watcher can reach it.
NoOrphanConnection ==
  open \subseteq {conn} \cup (IF watcher \in {"declare", "install"}
                                THEN {newConn} ELSE {})

\* An event is lost or dropped only if there was a reason: the publisher was
\* not connected when the redirect was answered, or lost the connection or was
\* closed before the event was sent.  A goroutine that holds a channel of an
\* earlier connection does not lose events otherwise.
LossExplained ==
  \A c \in Clicks :
    click[c] \in {"lost", "dropped"} =>
      start[c] = -1 \/ losses > start[c] \/ closed

\* What Close can leave open, which CloseReleases below is about: at most the
\* connection of a dial that was under way, and so none if no connection was
\* lost before.  The watcher still holds it and waits on it; a dial that fails
\* after Close, or a connection that is lost then, leaves nothing.
CloseLeavesOnlyADial ==
  closer = "done" /\ open # {} =>
    /\ losses > 0
    /\ open = {newConn} /\ newConn > 1
    /\ watcher \in {"declare", "install", "top", "wait"}

\* A broker that is up is connected to again, unless Close was called.
Reconnects ==
  (up /\ watcher # "new") ~> (channel \in reach \/ ~up \/ closed)

\* A click goroutine ends: neither a reconnect nor Close blocks it for ever.
ClicksEnd ==
  \A c \in Clicks :
    click[c] = "start" ~> click[c] \in {"arrived", "lost", "dropped"}

\* "Close releases the AMQP channel and connection and stops the reconnect
\* goroutine" (publisher.go).
CloseReleases == closed ~> (watcher = "done" /\ open = {})
=============================================================================
