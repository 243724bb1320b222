\* Three handlers behind two gateways, every fault, one code, one link, under fairness.
CONSTANTS
  p1 = p1
  p2 = p2
  p3 = p3
  g1 = g1
  g2 = g2
  Codes = {c1}
  Links = {l1}
  Procs = {p1, p2, p3}
  Gateways = {g1, g2}
  GatewayOf <- TwoGateways
  Faults <- AllFaults
  MaxLate = 1
  NotFound = NotFound
  Empty = Empty
  Failed = Failed
  NoLeader = NoLeader
SPECIFICATION FairHSpec
INVARIANTS
  TypeOK
  EveryAnswerWasOnceTrue
  CoherentUnlessSuspect
  OneQueryPerFill
  FlightsConsistent
PROPERTIES
  ImplementsLinkStore
  RequestsReturn
  EventuallyCoherent
