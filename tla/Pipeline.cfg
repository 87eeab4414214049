\* Three events and two faults of the node or the network.
SPECIFICATION PipelineFairSpec
CONSTANTS
  v1 = v1
  v2 = v2
  p1 = p1
  p2 = p2
  None = None
  Validator = {v1, v2}
  Height = {5}
  Round = {0}
  Payload = {p1, p2}
  flags <- MCFlags
  MaxEvents = 3
  MaxQueue = 3
  MaxFaults = 2
  Votes <- MCVotes
  Blocks <- MCBlocks
  EventOf <- MCEventOf
INVARIANTS
  TypeOK
  NoGapOnConnection
  HandledInOrder
  TakenVotesAreKept
  ListedInOrderOfEmission
PROPERTIES
  ImplementsEventStream
  ArrivedIsDone
  EventuallyServed
