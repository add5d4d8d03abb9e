SPECIFICATION RequestSpec
CONSTANTS
  sensing = sensing
  other = other
  NoAgent = NoAgent
  Agents = {sensing, other}
  Station = sensing
  Actions = {1, 2, 3, 4}
  Outcomes = {"completed", "failed"}
  Eligible <- ByRole
  Runs = {r1, r2}
  NoRun = NoRun
  Length = 2
  StepActions <- TwoSteps
  Callers = {c1, c2}
  MaxFaults = 1
INVARIANTS
  ExecutesItsOwn
  OneSuccessorInTurn
  DoneIsRecorded
PROPERTIES
  EveryActionFinishes
  ImplementsOrchestration
  FollowsSequence
CHECK_DEADLOCK FALSE
