\* Two handlers of one gateway and a cache and a database that never fail.
CONSTANTS
  p1 = p1
  p2 = p2
  p3 = p3
  g1 = g1
  g2 = g2
  Codes = {c1}
  Links = {l1}
  Procs = {p1, p2}
  Gateways = {g1}
  GatewayOf <- OneGateway
  Faults <- NoFaults
  MaxLate = 0
  NotFound = NotFound
  Empty = Empty
  Failed = Failed
  NoLeader = NoLeader
SPECIFICATION HSpec
INVARIANT
  DeleteInvalidates
