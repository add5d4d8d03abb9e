SPECIFICATION PublishingSpec
CONSTANTS
  Others = {}
  MaxSessions = 2
  MaxSeq = 1
  MaxQueue = 2
INVARIANTS
  StoppedMeansStill
PROPERTY MotionStops
CHECK_DEADLOCK FALSE
