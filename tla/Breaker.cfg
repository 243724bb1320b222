\* Three callers, both breakers, an outage and a client that hangs up.
CONSTANTS
  Calls = {a, b, c}
  Breakers <- BothBreakers
  MaxRequests = 6
  MaxFaults = 2
SPECIFICATION FairSpec
INVARIANTS
  TypeOK
  CountsAddUp
  NeverWedged
  OpensOnlyOnFailures
PROPERTIES
  Recovers
