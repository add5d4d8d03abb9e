SPECIFICATION Spec
CONSTANTS
  g1 = g1
  g2 = g2
  NoAgent = NoAgent
  Agents = {g1, g2}
  Actions = {1, 2, 3}
  Outcomes = {"completed", "failed"}
  Eligible <- BothEligible
INVARIANTS
  StoresAgree
  ClaimOnlyWhenFree
PROPERTIES
  LocalNeverRegresses
  ImplementsLifecycle
