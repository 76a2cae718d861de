CONSTANTS
  u1 = u1  u2 = u2
  m1 = m1  m2 = m2  m3 = m3
  Tabs = {t1, t2}
  Subs = {u1, u2}
  Emails = {m1, m2, m3}
  Tokens = {j1}
  Pages = {p1}
  Gmail <- MCGmail
  Old <- MCOld
  MaxLogins = 3
  MaxChanges = 1
  MaxLost = 2
  Absent = Absent
SPECIFICATION LoginSpec
SYMMETRY SymmTabs
CHECK_DEADLOCK FALSE
INVARIANTS SameAccount
