CONSTANTS
  Workers = {w1, w2}
  Main = Main
  Windows = 2
  Iterations = 2
  Ids = {a}
  Unfilled <- NoEngine
  NULL = NULL
SPECIFICATION FairSpec
INVARIANTS
  NoUseAfterFree
  VerdictIsIntersection
  NothingLeftBehind
PROPERTIES
  AnalysesEveryWindow
  Terminates
