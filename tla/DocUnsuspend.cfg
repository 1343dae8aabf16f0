CONSTANTS
  Engine = {"bolt", "redis"}
  Request = {r1}
  NoList = NoList
  Credential = {c1, c2}
  PoolSize = 4
  Shuffle <- MCShuffle
  MaxCreate = 1
  MaxUpdate = 1
  CanReset = TRUE
SPECIFICATION Spec
INVARIANTS RevokedIsPublished
CHECK_DEADLOCK FALSE
