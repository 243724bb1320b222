\* One fault, and Close while the watcher dials.
CONSTANTS
  k1 = k1
  k2 = k2
  Clicks <- MCClicks
  MaxLosses = 1
SPECIFICATION FairSpec
PROPERTIES
  CloseReleases
CHECK_DEADLOCK FALSE
