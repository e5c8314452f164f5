CONSTANTS
  c1 = c1
  c2 = c2
  alice = alice
  WAKER_TOKEN = WAKER_TOKEN
  None = None
  ThreadAmount = 2
  Conn = {c1, c2}
  User = {alice}
  Plans <- MCPlans
  MayHangUp = {c2}
  MayStop = TRUE
  AcceptMayFail = TRUE
SPECIFICATION Spec
CHECK_DEADLOCK FALSE
INVARIANT JoinWaitsForThreads
