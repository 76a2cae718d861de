CONSTANTS
  A = A  B = B
  Workspaces = {A, B}
  None = None
  MaxTasks = 3
  Boards = {0, 2, 3}
  Graphs <- MCGraphs
  Members = {"ann", "bob"}
  MemberOf <- MCMemberOf
  PriorityOf <- MCPriorityOf
  Cancelled = {1}
  Link <- MCLink
  Created <- MCCreated
  Ended <- MCEnded
  Now = 0
  Before = 3  After = 4  Chunk = 3  Edge = 2  Client = 2  Offset = 1
  s1 = s1  s2 = s2
  Slots = {s1, s2}
  MaxGestures = 5
  MaxGrafts = 3
SPECIFICATION Spec
SYMMETRY MCSymmetry
CHECK_DEADLOCK FALSE
INVARIANTS OnScreen ArrowsDown RoomToPan
