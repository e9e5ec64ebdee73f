CONSTANTS
  d1 = d1
  d2 = d2
  a1 = a1
  t1 = t1
  t2 = t2
  Digest <- MCDigest
  Peer <- MCPeer
  Task <- MCTask
  Author <- MCAuthor
  Size <- MCSize
  Bytes <- MCBytes
  MaxTime = 5
  Expiration = {1, 4}
  Certified = {3}
  ExpirationBuffer = 1
  MemoryQuota = 1
  DbQuota = 2
  BatchQuota = 2
  MaxCalls = 2
  MaxRestarts = 1
SPECIFICATION Spec
PROPERTY KeptThroughRestart
CHECK_DEADLOCK FALSE
