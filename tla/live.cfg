SPECIFICATION FairSpec
CONSTANTS
  Clients = {c1, c2}
  HostName = host
  NoUser = none
  Wild = wild
  StartPtrs = {none}
  MaxConn = 2
  HostLines = 0
  Leavers = {c1, c2}
  Talkers = {c1, c2}
  ClientLines = 1
  Lossy = FALSE
  Timeouts = TRUE
PROPERTIES
  JoinCompletes
  GoneUsersDropped
  GoneUsersDroppedByAll
  LinesArrive
CHECK_DEADLOCK FALSE
