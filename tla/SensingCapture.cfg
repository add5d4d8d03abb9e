SPECIFICATION Spec
CONSTANTS
  Artifacts <- FirstAndLast
  Tokens = {"K7M"}
  MaxSequence = 2
  QueueSize = 1
  MaxShots = 3
  MaxCommands = 2
  MaxStarts = 2
CHECK_DEADLOCK FALSE
INVARIANTS
  OneFrame
  SavedIsComplete
  IncompleteIsPending
PROPERTIES
  ReservedOnce
  CommandAnswered
