CONSTANTS
  c1 = c1
  c2 = c2
  c3 = c3
  alice = alice
  bob = bob
  WAKER_TOKEN = WAKER_TOKEN
  None = None
  ThreadAmount = 2
  Conn = {c1, c2, c3}
  User = {alice, bob}
  Plans <- MCPlans
  MayHangUp = {}
  MayStop = FALSE
  AcceptMayFail = FALSE
SPECIFICATION Spec
CHECK_DEADLOCK FALSE
INVARIANTS
  NoLostWakeup
  
  PrivateDelivery
  Balanced
PROPERTIES
  BroadcastInOrder
