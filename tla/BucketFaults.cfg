\* Three calls, one eviction, past the expiry of the key, Burst = 2 * Rate.
CONSTANTS
  c1 = c1
  c2 = c2
  c3 = c3
  Rate = 1
  Burst = 2
  Minute = 2
  Calls <- MCCalls3
  MaxTime = 5
  MaxEvictions = 1
SPECIFICATION Spec
SYMMETRY MCSymmetry3
INVARIANTS
  TypeOK
  GrantsBounded
PROPERTIES
  WholeTokenSuffices
