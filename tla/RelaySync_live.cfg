CONSTANTS
  e1 = e1  e2 = e2  e3 = e3
  w1 = w1  w2 = w2
  Ids = {e1, e2}
  Torn = Torn
  None = None
  Conns = {c1, c2}
  Writers = {w1, w2}
  Readers = {r1}
  Authored <- MCAuthoredSmall
  Batches <- MCBatches
  Cuts = {"boundary"}
  WriteMayFail = FALSE
  MaxFaults = 1
SPECIFICATION FairSyncSpec
INVARIANTS NoUnderReturn
PROPERTY Delivery
