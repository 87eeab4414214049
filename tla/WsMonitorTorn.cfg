\* A kill during a write, then a restart: votes of that height are refused.
SPECIFICATION Spec
CONSTANTS
  v1 = v1
  v2 = v2
  p1 = p1
  p2 = p2
  None = None
  Validator = {v1, v2}
  Height = {5, 6, 7}
  Round = {0}
  Payload = {p1, p2}
  Votes <- MCVotes
  Blocks <- MCBlocks
  flags <- MCFlags
  Faults = {"kill"}
PROPERTY
  HandledVotesAreSaved
