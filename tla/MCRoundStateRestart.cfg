CONSTANTS
  v1 = v1
  v2 = v2
  v3 = v3
  v4 = v4
  x = x
  y = y
  None = None
  Validator <- MCValidator
  Honest <- MCHonest
  Quorum <- MCQuorum
  Minority <- MCMinority
  Block = {x, y}
  round <- MCround
  MaxRound = 2
  Votes = {}
  Timeouts <- RestartTimeouts
SPECIFICATION Spec
INVARIANT TCsVerify
