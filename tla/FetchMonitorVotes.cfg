\* Whose votes the poller keeps.
SPECIFICATION Spec
CONSTANTS
  v1 = v1
  v2 = v2
  b1 = b1
  None = None
  NilVote = NilVote
  Validator = {v1, v2}
  Height = {5, 6, 7}
  Round = {0}
  Block = {b1}
  Snapshots <- MCSnapshots
  Unreadable <- MCUnreadable
  flags <- MCFlags
  Faults = {}
PROPERTY
  KeptVotesAreOwn
