CONSTANTS
  Workers = {w1, w2}
  Main = Main
  Windows = 1
  Iterations = 2
  Ids = {a}
  Unfilled <- LastEngine
  NULL = NULL
SPECIFICATION FairSpec
PROPERTIES
  AbortEndsProcess
CHECK_DEADLOCK FALSE
