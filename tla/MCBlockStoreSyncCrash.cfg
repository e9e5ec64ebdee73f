CONSTANTS
  g = g
  a1 = a1
  c2 = c2
  a3 = a3
  a4 = a4
  e4 = e4
  a5 = a5
  d6 = d6
  None = None
  Genesis = g
  Block <- MCBlock
  round <- MCround
  parent <- MCparent
  Certified <- MCCertified
  OrderCerts <- MCOrderCerts
  CommitCerts <- MCCommitCerts
  WindowSizes = {0}
  max_pruned_blocks_in_mem = 1
  max_commit_gap = 2
SPECIFICATION Spec
INVARIANT ValidDBAfterCommit
