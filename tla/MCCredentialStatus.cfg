CONSTANTS
  Engine = {"bolt", "redis"}
  Request = {r1, r2}
  NoList = NoList
  Credential = {c1, c2, c3}
  PoolSize = 4
  Shuffle <- MCShuffle
  MaxCreate = 1
  MaxUpdate = 1
  CanReset = FALSE
SPECIFICATION Spec
SYMMETRY Symmetry
INVARIANTS IndexUnique ListShared PublishedExactly
PROPERTIES DeletedNotRestored
CHECK_DEADLOCK FALSE
