CONSTANTS
  v1 = v1
  v2 = v2
  v3 = v3
  v4 = v4
  None = None
  Validator = {v1, v2, v3, v4}
  Quorum = {{v1, v2}, {v1, v3}, {v1, v2, v3}, {v1, v2, v4}, {v1, v3, v4}, {v1, v2, v3, v4}}
  Minority = {{v1}, {v1, v2}, {v1, v3}, {v1, v4}, {v2, v3}, {v1, v2, v3}, {v1, v2, v4}, {v1, v3, v4}, {v2, v3, v4}, {v1, v2, v3, v4}}
  Block <- MCBlock
  Genesis <- MCGenesis
  round <- MCround
  parent <- MCparent
  Scenario <- MCScenario
SPECIFICATION Spec
INVARIANT TypeOK
INVARIANT CanTimeOut
PROPERTY RoundsNeverFall
PROPERTY EveryRoundEnds
CHECK_DEADLOCK FALSE
