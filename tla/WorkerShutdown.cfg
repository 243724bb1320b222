\* One worker and an ideal environment.
CONSTANTS
  Msgs = {m1, m2}
  Malformed = {}
  Workers = {w1}
  Stoppable = {w1}
  BatchSize = 2
  MaxFaults = 0
  UnknownAck = {"accept", "close"}
SPECIFICATION Spec
CHECK_DEADLOCK FALSE
INVARIANT
  GracefulFlush
