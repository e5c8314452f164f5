CONSTANTS
  HEADER_SIZE = 1
  MAX_PAYLOAD = 5
  SendBuffer = 3
  Payload = {1, 4, 5, 6}
  MaxMessages = 3
SPECIFICATION Spec
CHECK_DEADLOCK FALSE
INVARIANT EncodeFits
