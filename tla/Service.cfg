\* Three requests of any kind, two attempts, one day to live.
CONSTANTS
  Hosts = {"h", "6"}
  Literals = {"6"}
  HashURL <- Hash
  Base = 2
  CodeLength = 2
  Reqs = {r1, r2, r3}
  LongURLs <- Shortened
  Aliases <- OneAlias
  Codes <- BothCodes
  Retries = 2
  ExpiresIn = {0, 1}
  MaxTime = 2
  None = None
  NoAlias = NoAlias
  Never = Never
SPECIFICATION Spec
CHECK_DEADLOCK FALSE
SYMMETRY ReqSymmetry
INVARIANTS
  TypeOK
  CreatedStays
  OneRowPerRequest
  GivesUpOnlyWhenTaken
  DeletesCounted
PROPERTY
  GoneStaysGone
