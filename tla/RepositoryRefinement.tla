------------------------ MODULE RepositoryRefinement ------------------------
(***************************************************************************)
(* CachedURLRepository implements LinkStore.  Two history variables are    *)
(* added to its steps: what the row of a code has been since no request    *)
(* for it was under way, and the codes that were suspect at some time      *)
(* since then.                                                             *)
(***************************************************************************)
EXTENDS CachedURLRepository

VARIABLES
  recent,  \* history: the values of each row since its code was last at rest
  tainted  \* history: the codes that were suspect since then

hvars == <<vars, recent, tainted>>

\* A request for c is under way.
Busy(c) == \E p \in Procs : pc[p] # "idle" /\ code[p] = c

HInit ==
  /\ Init
  /\ recent = [c \in Codes |-> {NotFound}]
  /\ tainted = {}

HNext ==
  /\ Next
  /\ recent' = [c \in Codes |->
                  IF Busy(c)' THEN recent[c] \cup {db'[c]} ELSE {db'[c]}]
  /\ tainted' = suspect' \cup {c \in tainted : Busy(c)'}

HSpec == HInit /\ [][HNext]_hvars
FairHSpec == HSpec /\ Fairness

\* A request has been answered when its handler is about to return.
Where == [p \in Procs |-> CASE pc[p] = "idle" -> "idle"
                            [] pc[p] = "reply" -> "answered"
                            [] OTHER -> "asked"]
Answered == [p \in Procs |-> IF pc[p] = "reply" THEN val[p] ELSE Empty]

Store == INSTANCE LinkStore WITH
  rows <- db, doubtful <- tainted, at <- Where, answer <- Answered,
  NoAnswer <- Empty, Faulty <- Faults # {}

-----------------------------------------------------------------------------
\* The refinement: seen from the service, cache, singleflight, negative entries
\* and write-through are a store whose answers may be stale only while calls
\* for the same code overlap.  A handler that joins a singleflight call late,
\* after the row it returns has been deleted, is such a case.  The exception,
\* until the TTL ends it, is a code that a fault or a write that was overtaken
\* has made doubtful, which without faults takes a row that changes during
\* another call for its code.
ImplementsLinkStore == Store!Spec
=============================================================================
