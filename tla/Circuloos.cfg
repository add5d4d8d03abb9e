SPECIFICATION Spec
CONSTANTS
  p1 = p1
  p2 = p2
  Callers = {p1, p2}
  Quantities = {1, 2}
  Details = {old, new}
  old = old
  new = new
  MaxAds = 2
  MaxCalls = 3
  MaxMeasured = 1
  MaxFaults = 1
INVARIANTS
  BrokerHasPublished
  IdentitiesInTurn
  QuantityAsPrepared
PROPERTIES
  RegistryLasts
  PublicationConverges
CHECK_DEADLOCK FALSE
