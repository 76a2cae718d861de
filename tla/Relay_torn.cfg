CONSTANTS
  Ids = {a, b}
  Torn = Torn
  Conns = {c1, c2}
  Batches <- MCBatches
  Cuts = {"boundary", "partial", "unterminated"}
  WriteMayFail = TRUE
  MaxFaults = 2
SPECIFICATION FairSpec
INVARIANTS IndexExact
PROPERTY QueueDrains
