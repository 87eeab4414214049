\* The handlers under kills, restarts and failing writes.
SPECIFICATION FairSpec
CONSTANTS
  v1 = v1
  v2 = v2
  p1 = p1
  p2 = p2
  None = None
  Validator = {v1, v2}
  Height = {5, 6, 7}
  Round = {0}
  Payload = {p1, p2}
  Votes <- MCVotes
  Blocks <- MCBlocks
  flags <- MCFlags
  Faults = {"kill", "disk"}
INVARIANTS
  TypeOK
  SavedVotesWereReceived
  EventsNotRepeated
  OnlyPromisedHeightsSaved
  SignaturesDescribeBlock
  ValidatorsNeverEmptied
  HandlersConsistent
PROPERTY
  ImplementsVoteArchive
  HandlersReturn
  SignaturesWrittenOnce
