CONSTANTS
  d1 = d1
  dEmpty = dEmpty
  a1 = a1
  c1 = c1
  c2 = c2
  r1 = r1
  p1 = p1
  m1 = m1
  x1 = x1
  s1 = s1
  t1 = t1
  t2 = t2
  v1 = v1
  v2 = v2
  ZeroAddress = zero
  EmptyDID = dEmpty
  HandlerAddress = handler
  RegistryAddress = registry
  NoRegistry = noregistry
  ForeignRegistry = foreign
  NoSession = nosession
  NoInstance = noinstance
  NoVerifier = noverifier
  DID <- MCDID
  Account <- MCAccount
  Role <- MCRole
  PolicyId <- MCPolicy
  Resource <- MCResource
  Salt <- MCSalt
  Verifier <- MCVerifier
  Satisfiable <- MCSatisfiable
  ContextId <- MCContextId
  Deployable <- MCClones
  Permission <- MCPermission
  SessionId <- MCSession
  InitContextId <- MCOneContext
  MaxCount = 1
  MaxControllers = 1
  SessionDuration = 1
  MaxTime = 3
SPECIFICATION HSpec
CONSTRAINT Explored
CHECK_DEADLOCK FALSE
PROPERTIES
  LockedOwnerFreezes
  NoVerifierSwing
  AccessNeedsGrantOrSession
