SPECIFICATION FairSpec
CONSTANTS
  HEADER_SIZE = 1
  MAX_PAYLOAD = 4
  SendBuffer = 2
  Payload = {1, 3, 4, 5}
  MaxMessages = 2
INVARIANTS
  
  ClosedForAReason
PROPERTY AcceptedIsProcessed
CHECK_DEADLOCK FALSE
