\* Two requests for the same URL with a fragment.
CONSTANTS
  Hosts = {"h", "6"}
  Literals = {"6"}
  HashURL <- Hash
  Base = 2
  CodeLength = 2
  Reqs = {r1, r2}
  LongURLs <- OnlyFragment
  Aliases <- OneAlias
  Codes <- BothCodes
  Retries = 2
  ExpiresIn = {0}
  MaxTime = 0
  None = None
  NoAlias = NoAlias
  Never = Never
SPECIFICATION Spec
CHECK_DEADLOCK FALSE
INVARIANT
  RetryFindsAnother
