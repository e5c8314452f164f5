CONSTANTS
  c1 = c1
  c2 = c2
  alice = alice
  bob = bob
  WAKER_TOKEN = WAKER_TOKEN
  None = None
  ThreadAmount = 2
  Conn = {c1, c2}
  User = {alice, bob}
  Plans <- MCPlans
  MayHangUp = {}
  MayStop = FALSE
  AcceptMayFail = FALSE
SPECIFICATION FairSpec
CHECK_DEADLOCK FALSE
PROPERTIES
  GlobalReachesAll
  PrivateReachesAddressee
