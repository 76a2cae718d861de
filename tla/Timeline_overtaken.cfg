CONSTANTS
  A = A  B = B
  Workspaces = {A, B}
  None = None
  PageSize = 1
  MaxRank = 4
  Initial <- MCInitial
  Changing = {A}
  MaxChanges = 2
  Slots = {s1, s2}
  MaxVisits = 3
SPECIFICATION Spec
CHECK_DEADLOCK FALSE
INVARIANTS VisitContiguous
