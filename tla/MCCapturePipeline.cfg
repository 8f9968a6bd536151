CONSTANTS
  Captures = {1, 2}
  a = a
  b = b
  Name <- NameOf
  Delete = FALSE
  MaxFailures = 1
  MaxKills = 2
  NONE = NONE
SPECIFICATION FairSpec
INVARIANTS
  NothingLost
  OncePerCrash
  PoliciesAgree
PROPERTIES
  EventuallyAnalysed
CHECK_DEADLOCK FALSE
