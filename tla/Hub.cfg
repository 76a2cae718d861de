CONSTANTS
  e1 = e1  e2 = e2  e3 = e3
  w1 = w1  w2 = w2
  Ids = {e1, e2, e3}
  Torn = Torn
  None = None
  Conns = {c1, c2}
  Writers = {w1, w2}
  Readers = {}
  Authored <- MCAuthored
  Batches <- MCBatches
  Cuts = {"boundary"}
  WriteMayFail = TRUE
  MaxFaults = 1
  Accounts = {a1, a2, a3}
  Stores = {s1}
  Invites = {i1}
  Sources = {q1}
  Requests = {c1, c2}
  Null = Null
  Unlimited = Unlimited
  Limits = {1, 2, Unlimited}
  MaxUsed = 3
  u1 = u1  u2 = u2
  m1 = m1  m2 = m2  m3 = m3
  Tabs = {c1, c2}
  Subs = {u1, u2}
  Emails = {m1, m2, m3}
  Tokens = {j1}
  Pages = {p1}
  Gmail <- MCGmail
  Old <- MCOld
  MaxLogins = 3
  MaxChanges = 1
  MaxLost = 1
  Absent = Absent
SPECIFICATION HubSpec
SYMMETRY HubSymm

CHECK_DEADLOCK FALSE
INVARIANTS
  WatermarkStored AckedReadable AcceptedOnce
  TeardownComplete MembersAccounted
  OnePersonEach AccountKept UndisturbedArrives
PROPERTIES DurableLog NeverOrphaned DeadStaysDead ClaimsStick
