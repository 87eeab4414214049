\* What the table shows while the node changes and requests fail.
SPECIFICATION FairSpec
CONSTANTS
  v1 = v1
  v2 = v2
  Validator = {v1, v2}
  NodeStates <- MCVoting
  ValidatorsPeriod = 2
  ConsensusPeriod = 1
INVARIANTS
  TypeOK
  TableIsMemory
  OfflineNotUnderstated
PROPERTY
  TableFollows
