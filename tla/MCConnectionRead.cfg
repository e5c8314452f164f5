CONSTANTS
  HEADER_SIZE = 2
  MAX_PAYLOAD = 3
  MaxPackets = 3
  Packet <- MCPacket
SPECIFICATION FairSpec
CHECK_DEADLOCK FALSE
INVARIANTS
  TypeOK
  DecoderInv
  NeverFull
PROPERTIES
  ProcessedInOrder
  ArrivedIsProcessed
  ClosedInTheEnd
