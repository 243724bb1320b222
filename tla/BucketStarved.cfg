\* One client at a time, a token takes two ticks.
CONSTANTS
  c1 = c1
  c2 = c2
  c3 = c3
  Rate = 2
  Burst = 1
  Minute = 4
  Calls <- MCCalls2
  MaxTime = 8
  MaxEvictions = 0
SPECIFICATION Spec
INVARIANTS
  NotStarved
