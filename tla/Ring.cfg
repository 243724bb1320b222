\* Three nodes with two virtual nodes each, anywhere on a ring of six.
CONSTANTS
  Nodes = {n1, n2, n3}
  Replicas = 2
  Positions = {0, 1, 2, 3, 4, 5}
  Lookups = {p}
  NoNode = NoNode
SPECIFICATION Spec
SYMMETRY NodeSymmetry
INVARIANTS
  TypeOK
  OwnersHaveClients
  RingOfMembers
PROPERTIES
  RoutesClockwise
  OnlyItsKeysMove
