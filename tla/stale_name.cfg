SPECIFICATION Spec
CONSTANTS
  Clients = {c1, c2, c3}
  HostName = host
  NoUser = none
  Wild = wild
  StartPtrs = {none}
  MaxConn = 2
  HostLines = 0
  Leavers = {c1}
  Talkers = {c3}
  ClientLines = 1
  Lossy = TRUE
  Timeouts = FALSE
SYMMETRY Symmetry
INVARIANTS
  ClientsNameAuthors
CHECK_DEADLOCK FALSE
