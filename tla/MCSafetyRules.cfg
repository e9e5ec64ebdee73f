CONSTANTS
  g = g
  a1 = a1
  a2 = a2
  b2 = b2
  k1 = k1
  k2 = k2
  None = None
  Genesis = g
  Block <- MCBlock
  round <- MCround
  parent <- MCparent
  Epoch <- MCEpoch
  Round <- MCRound
  Key <- MCKey
  expected_key <- MCexpected_key
  stored_keys <- MCKey
  enable_cached_safety_data = TRUE
SPECIFICATION Spec
INVARIANT CacheCoherent
PROPERTY ContractKept
