CONSTANTS
  v1 = v1
  v2 = v2
  v3 = v3
  v4 = v4
  g = g
  a1 = a1
  a2 = a2
  b2 = b2
  b3 = b3
  p1 = p1
  p2 = p2
  None = None
  Genesis = g
  Block <- MCBlock
  round <- MCround
  parent <- MCparent
  Validator <- MCValidator
  Honest <- MCHonest
  Quorum <- MCQuorum
  Round <- MCRound
  Replica <- MCReplica
SPECIFICATION Spec
SYMMETRY Symmetry
INVARIANTS OneQCPerRound Agreement OrderAssertion
PROPERTY OneLedger
CHECK_DEADLOCK FALSE
