CONSTANTS
  c1 = c1
  c2 = c2
  c3 = c3
  NoClient = NoClient
  m1 = m1
  m2 = m2
  op = op
  req = req
  sk = sk
  Client = {c1, c2, c3}
  Key = {m1, m2, op, req, sk}
  Order <- MCOrder
  Namespace <- MCNamespace
  Longer <- MCLonger
  ServiceKey = sk
  Workload <- MCWorkload
  Stored <- MCStored
  ScanBatch = 2
SPECIFICATION FairSpec
INVARIANTS SealedUnderServiceKey ListedOnce
PROPERTIES ImplementsStore CallsEnd
