\* Whose votes are dropped.
SPECIFICATION ChainSpec
CONSTANTS
  v1 = v1
  v2 = v2
  v3 = v3
  p1 = p1
  None = None
  Validator = {v1, v2}
  LastHeight = 3
  Height = {1, 2, 3}
  Round = {0}
  Payload = {p1}
  Votes <- MCVotes
  Blocks <- BlockMsg
  flags <- MCFlags
  Faults = {}
  BondedSets <- Changing
  Reliable = TRUE
PROPERTY
  SigningVotesAreSaved
