------------------------------ MODULE ClickLog ------------------------------
(***************************************************************************)
(* What the analytics pipeline promises for a click that has reached the   *)
(* queue, with no sessions, batches, tags or workers in sight: the         *)
(* pipeline holds it until its row is in the table, or until it is moved   *)
(* to the dead-letter queue because it cannot be decoded, and only then    *)
(* lets go of it.  A click may be recorded while it is still held, and     *)
(* then again; it is never taken back.                                     *)
(***************************************************************************)
CONSTANTS
  Msgs,       \* click events
  Malformed   \* the ones that cannot be decoded

VARIABLES
  accepted,  \* clicks that have reached the queue
  held,      \* clicks that some process still has to settle
  recorded,  \* clicks with a row in the table
  dead       \* clicks in the dead-letter queue

vars == <<accepted, held, recorded, dead>>

Init == accepted = {} /\ held = {} /\ recorded = {} /\ dead = {}

\* A click reaches the queue.
Accept(m) ==
  /\ m \notin accepted
  /\ accepted' = accepted \cup {m}
  /\ held' = held \cup {m}
  /\ UNCHANGED <<recorded, dead>>

\* The rows of a batch are committed; some of them may be there already.
Record(S) ==
  /\ recorded' = recorded \cup S
  /\ UNCHANGED <<accepted, held, dead>>

\* A click that cannot be decoded is moved to the dead-letter queue.
DeadLetter(m) ==
  /\ m \in held
  /\ dead' = dead \cup {m}
  /\ held' = held \ {m}
  /\ UNCHANGED <<accepted, recorded>>

\* Recorded clicks are let go of.
Settle(S) ==
  /\ held' = held \ S
  /\ UNCHANGED <<accepted, recorded, dead>>

Next ==
  \/ \E m \in Msgs : Accept(m)
  \/ \E S \in SUBSET (accepted \ Malformed) : Record(S)
  \/ \E m \in Malformed : DeadLetter(m)
  \/ \E S \in SUBSET (held \cap recorded) : Settle(S)

Spec == Init /\ [][Next]_vars
=============================================================================
