CONSTANTS
  Workers = {w1, w2, w3}
  Main = Main
  Windows = 2
  Iterations = 2
  Ids = {a}
  Unfilled <- LastEngine
  NULL = NULL
SPECIFICATION Spec
SYMMETRY WorkerSymmetry
INVARIANTS
  AbortedWindowNeverReported
CHECK_DEADLOCK FALSE
