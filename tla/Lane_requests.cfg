CONSTANTS
  m1 = m1  m2 = m2  t1 = t1
  Slots = {r1, r2}
  Tasks = {t1}
  Members = {m1, m2}
  Authors = {m1}
  Moved <- MCMoved
  MaxRequests = 3
  None = None
SPECIFICATION Spec
SYMMETRY Symm
CHECK_DEADLOCK FALSE
INVARIANTS TypeOK WatermarksCovered LaneKeepsOrder ReadFresh AttributionInTime AuthoredArrives
