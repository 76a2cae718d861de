CONSTANTS
  MaxWorkspaces = 2
  Initial = 1
  MaxKeys = 1
  MaxHistory = 3
  MaxSlots = 2
  MaxMenus = 1
  MaxGestures = 5
  MaxFaults = 1
  Entrances <- MCEntrances
  Buttons <- MCButtons
  Personal = Personal
  None = None
SPECIFICATION Spec
CHECK_DEADLOCK FALSE
INVARIANTS BusyIsRunning IdleOnMine
PROPERTIES HistoryKept
