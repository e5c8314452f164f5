CONSTANTS
  HEADER_SIZE = 1
  MAX_PAYLOAD = 5
  SendBuffer = 3
  Payload = {1, 4, 5, 6}
  MaxMessages = 3
SPECIFICATION FairSpec
CHECK_DEADLOCK FALSE
INVARIANTS
  TypeOK
  NoStall
  NothingLost
  IntactUnlessShortTwice
PROPERTIES
  DeliveredInTheEnd
