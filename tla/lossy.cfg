SPECIFICATION Spec
CONSTANTS
  Clients = {c1, c2}
  HostName = host
  NoUser = none
  Wild = wild
  StartPtrs = {none, wild}
  MaxConn = 2
  HostLines = 0
  Leavers = {c1, c2}
  Talkers = {c1, c2}
  ClientLines = 2
  Lossy = TRUE
  Timeouts = FALSE
SYMMETRY Symmetry
INVARIANTS
  IInv
  NumbersOK
  HostFindsSender
  HostNamesAuthors
PROPERTIES
  ImplementsRoom
CHECK_DEADLOCK FALSE
