CONSTANTS
  Captures = {1, 2}
  a = a
  b = b
  Name <- NameOf
  Delete = TRUE
  MaxFailures = 1
  MaxKills = 1
  NONE = NONE
SPECIFICATION Spec
PROPERTIES
  DeletedWhenCopied
CHECK_DEADLOCK FALSE
