SPECIFICATION Spec
CONSTANTS
  Clients = {c1, c2, c3}
  HostName = host
  NoUser = none
  Wild = wild
  StartPtrs = {none}
  MaxConn = 3
  HostLines = 1
  Leavers = {}
  Talkers = {c1}
  ClientLines = 1
  Lossy = FALSE
  Timeouts = FALSE
SYMMETRY Symmetry
INVARIANTS
  ScreensAgree
  OrderOK
CHECK_DEADLOCK FALSE
