SPECIFICATION Spec
CONSTANTS
  c1 = c1
  Clients = {c1}
  Others = {rival}
  rival = rival
  MaxInputs = 2
  MaxAxes = 1
  MaxPending = 1
  MaxSessions = 2
  MaxDisturbances = 1
INVARIANTS
  OneInputPerSession
  NoOrphanedAuthority
  LastWordIsStop
PROPERTIES
  NoSpuriousFault
  DeadMan
  InputTakesEffect
CHECK_DEADLOCK FALSE
