CONSTANTS
  h1 = h1
  h2 = h2
  h3 = h3
  di = di
  dw = dw
  k0 = k0
  k1 = k1
  k2 = k2
  Old = Old
  None = None
  Handler = {h1, h2, h3}
  DID = {di, dw, k0, k1, k2}
  KeyId <- MCKeyId
  Method <- MCMethod
  Existing <- MCExisting
  Workload <- MCWorkload
SPECIFICATION FairSpec
INVARIANTS CreatedIsComplete BatchIsAtomic NeverAhead KeyFollowsNetwork
PROPERTIES DeletedStaysDeleted RevokedSignsNothing AnchoredIsFinished
