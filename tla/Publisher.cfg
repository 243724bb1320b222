\* Two clicks, two faults, Close at any time.
CONSTANTS
  k1 = k1
  k2 = k2
  Clicks <- MCClicks
  MaxLosses = 2
SPECIFICATION FairSpec
INVARIANTS
  TypeOK
  CloseLeavesOnlyADial
  NoOrphanConnection
  LossExplained
PROPERTIES
  Reconnects
  ClicksEnd
CHECK_DEADLOCK FALSE
