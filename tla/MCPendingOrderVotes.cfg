CONSTANTS
  v1 = v1
  v2 = v2
  v3 = v3
  v4 = v4
  a1 = a1
  b1 = b1
  a2 = a2
  MaxPower = 3
  Validator <- MCValidator
  Weights <- MCWeights
  LedgerInfo <- MCLedgerInfo
  RoundOf <- MCRoundOf
  CommitRound <- MCCommitRound
  Certified = {a1, a2}
  Window = 3
SYMMETRY MCSymmetry
CONSTRAINT MCVoting
SPECIFICATION OrderSpec
INVARIANTS QuorumsShareHonest EntriesCertified CertsHonest
  HonestVotesCount
