SPECIFICATION TableSpec
CONSTANTS
  Thicknesses = {0, 2}
  Refused = 9
  Configured = 1
  MaxTyped = 2
  MaxStarts = 1
  PerFrame = 1
  GhTimeout = TRUE
  MaxInputs = 2
  DefaultThickness = 1
  MaxPackets = 2
  MaxEvents = 3
INVARIANTS
  SavedAsTyped
  OnTableIsSaved
  CorrectedAsMeasured
PROPERTIES
  TableCatchesUp
CHECK_DEADLOCK FALSE
