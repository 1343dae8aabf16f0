SPECIFICATION GateFairSpec
CONSTANTS
  Call = {c1, c2, r1}
  Creation = {c1, c2}
  Price <- MCPrice
  ZeroAddress = zero
  NotStored = notStored
  ForeignContext = foreign
  GivenContext = given
  User = {u1}
  Self = u1
INVARIANTS
  StoredIsRegistered
  RegisteredInContext
  AnsweredIsOnChain
  HeldMeanwhile
PROPERTIES
  WaitEnds
CONSTRAINT Explored
CHECK_DEADLOCK FALSE
