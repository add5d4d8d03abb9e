SPECIFICATION Spec
CONSTANTS
  timber = timber
  u1 = u1
  u2 = u2
  root = root
  Entities = {timber}
  Consumers = {u1, u2}
  Admins = {}
  MaxCalls = 4
SYMMETRY Symmetry
CHECK_DEADLOCK FALSE
INVARIANT StoresAgree
