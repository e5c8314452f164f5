SPECIFICATION FairSpec
CONSTANTS
  Line <- MCLine
  MaxEntered = 2
  MaxText = 2
  Incoming <- MCIncoming
  MaxIncoming = 1
INVARIANTS
  LoginFirst
  
  
  NoLostWakeup
  NoPanicWhileConnected
  QuitIsClean
PROPERTIES
  QuitEnds
  EnteredIsSent
CHECK_DEADLOCK FALSE
