SPECIFICATION FairSpec
CONSTANTS
  Clients = {c1, c2}
  HostName = host
  NoUser = none
  Wild = wild
  StartPtrs = {none}
  MaxConn = 2
  HostLines = 0
  Leavers = {c1, c2}
  Talkers = {c1, c2}
  ClientLines = 0
  Lossy = TRUE
  Timeouts = FALSE
PROPERTIES
  JoinCompletes
CHECK_DEADLOCK FALSE
