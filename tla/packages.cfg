SPECIFICATION FairSpec
CONSTANTS
  Junk = junk
  Byte <- MCByte
  Strings <- MCStrings
  IDs <- MCIDs
  Maps <- MCMaps
  Records <- MCRecords
  Addresses <- MCAddresses
  Chunks <- MCChunks
  INIT_CAPACITY = 64
  Word = 65536
  MaxLength = 700
INVARIANTS
  TypeOK
  HoldsWhatWasWritten
  CopiesWithinBuffer
  TransferInv
  RoundTrip
  LogNamesAddress
PROPERTIES
  AllReceived
  WritesEnd
CHECK_DEADLOCK FALSE
