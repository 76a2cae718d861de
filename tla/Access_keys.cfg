CONSTANTS
  Accounts = {a1, a2}
  Stores = {s1}
  Keys = {k1, k2}
  Grants = {g1}
  Conns = {c1}
  None = None
  Founded <- MCFounded
  Lifetime = 3
  Interval = 2
  MaxTime = 4
SPECIFICATION Spec
SYMMETRY Symm
CHECK_DEADLOCK FALSE
INVARIANTS SingleDelivery ServedInTime ScopeNeverWidens
PROPERTIES ApprovalSticks 
