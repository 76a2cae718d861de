CONSTANTS
  Ids = {a, b}
  Torn = Torn
  Conns = {c1, c2}
  Batches <- MCBatches
  Cuts = {"boundary", "partial", "unterminated"}
  WriteMayFail = FALSE
  MaxFaults = 2
SPECIFICATION Spec
SYMMETRY Symm
INVARIANTS AckedRecoverable
