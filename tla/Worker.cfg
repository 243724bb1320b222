\* Under fairness: two workers, one of which may be stopped, batches of two, one malformed message.
CONSTANTS
  Msgs = {m1, bad}
  Malformed = {bad}
  Workers = {w1, w2}
  Stoppable = {w2}
  BatchSize = 2
  MaxFaults = 2
  UnknownAck = {"accept", "close"}
SPECIFICATION FairSpec
CHECK_DEADLOCK FALSE
INVARIANTS
  TypeOK
  NoSilentLoss
  DuplicatesBounded
PROPERTIES
  ImplementsClickLog
  EveryClickSettled
  ShutdownCompletes
