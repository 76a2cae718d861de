CONSTANTS
  Accounts = {a1}
  Stores = {s1, s2}
  Events = {e1, e2}
  Calls = {c1, c2}
  None = None
  Days = 1
  MaxDay = 2
  MaxCalls = 2
  MaxFaults = 1
SPECIFICATION Spec
SYMMETRY Symm
CHECK_DEADLOCK FALSE
INVARIANTS StoredIsMetered AnswerPassedOn PageCovers
