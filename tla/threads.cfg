SPECIFICATION WFairSpec
CONSTANTS
  StartStates = {"null", "wild"}
  Painters = {"main", "ui", "listener"}
  Rows = 2
  Lengths = {1, 3}
  Users = {0, 1}
INVARIANTS
  WTypeOK
  ThreadsInv
  CalmUntilQuit
  PeersCalmUntilQuit
  InputWaitsForMenu
  HostOutlivesItsUse
  ClientFindsENet
  LeavesNothingBehind
  DrawnWhileOpen
  DrawingInv
  LinesHaveTheirRow
  PanelShowsUsers
PROPERTIES
  ShutdownCompletes
CHECK_DEADLOCK FALSE
