CONSTANTS
  d1 = d1
  d2 = d2
  a1 = a1
  a2 = a2
  s1 = s1
  ZeroAddress = zero
  HandlerAddress = handler
  NoSession = nosession
  DID <- MCDID
  Account <- MCAccount
  SessionId <- MCSessionId
  MaxControllers = 3
  SessionDuration = 2
  MaxTime = 5
SPECIFICATION SRSpec
INVARIANTS
  DIDInv
  ValidOnlyIfOpen
PROPERTIES
  ImplementsControllerSet
  ControllerStable
  LockedForever
  LockedSessionStays
  NeverRenewed
CHECK_DEADLOCK FALSE
