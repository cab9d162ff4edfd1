SPECIFICATION Spec
CONSTANTS
  Junk = junk
  Byte <- MCByte
  Strings <- MCStrings
  IDs <- MCIDs
  Maps <- MCMaps
  Records <- MCRecords
  Addresses <- MCAddresses
  Chunks <- MCChunks
  INIT_CAPACITY = 64
  Word = 65536
  MaxLength = 700
INVARIANTS
  CopiesOwnMemory
CHECK_DEADLOCK FALSE
