CONSTANTS
  Ids = {a, b}
  Times <- Seconds
  Settings <- Overlapping
  MaxPackets = 4
  INVALID = INVALID
SPECIFICATION Spec
INVARIANTS
  AnalysedIsWindow
  FlowsFitSketch
  NothingUnseen
CHECK_DEADLOCK FALSE
