SPECIFICATION Spec
CONSTANTS
  Clients = {c1, c2, c3}
  HostName = host
  NoUser = none
  Wild = wild
  StartPtrs = {none}
  MaxConn = 2
  HostLines = 0
  Leavers = {c1, c2, c3}
  Talkers = {c1}
  ClientLines = 1
  Lossy = FALSE
  Timeouts = TRUE
SYMMETRY Symmetry
INVARIANTS
  TypeOK
  RosterMatchesPeers
  LocalUserMatchesPeer
  ReplicaCatchesUp
  RegisteredNeverFaults
  ClientsNameAuthors
  LinesShownOnce
  ReplicaOK
CHECK_DEADLOCK FALSE
