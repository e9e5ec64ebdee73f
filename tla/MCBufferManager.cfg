CONSTANTS
  self = self
  p = p
  f = f
  Validator <- MCValidator
  Self = self
  Faulty = {f}
  Quorum <- MCQuorum
  MaxRound = 3
  MaxBatch = 2
  MaxBacklog = 1
  VoteCache = 3
  MaxProofs = 1
  Scenario <- MCScenario
  FaultyVote <- MCFaultyVote
  Decision = {2}
SPECIFICATION Spec
INVARIANTS
  RootsFirstUnprocessed
  AckedVoteKept
  PersistsExecuted
  AnswerFitsItem
  IntakeReopens
PROPERTIES
  CommitsCertified
  BlocksGetThrough
  ResetAnswered
CHECK_DEADLOCK FALSE
