---------------------------- MODULE PipelineProofs ----------------------------
(* Theorems about Pipeline: put together, the loop and the monitor each    *)
(* keep what is proved of them alone, for any events, any faults of the    *)
(* connection and any answers of the node.                                 *)
EXTENDS Pipeline, ConnectionProofs

-------------------------------------------------------------------------------
(* The loop of the pipeline is a loop of WsConnection: the monitor only    *)
(* decides which of its steps are taken.                                   *)

LEMMA PipelineStepOfLoop == PipelineNext => [Next]_vars
<1> SUFFICES ASSUME PipelineNext, ~UNCHANGED vars PROVE Next
  OBVIOUS
<1>1. CASE LoopStep
  BY <1>1 DEF LoopStep, HandleEvent, HandlerReturns, Next, ClientStep
<1>2. CASE OutsideStep
  BY <1>2 DEF OutsideStep, Next
<1>3. CASE MonitorStep
  BY <1>3 DEF MonitorStep
<1> QED
  BY <1>1, <1>2, <1>3 DEF PipelineNext

(* The websocket process implements its loop.                              *)
THEOREM PipelineIsLoop == PipelineSpec => Spec
<1>1. PipelineInit => Init
  BY DEF PipelineInit
<1>2. [PipelineNext]_allVars => [Next]_vars
  BY PipelineStepOfLoop DEF allVars
<1> QED
  BY <1>1, <1>2, PTL DEF PipelineSpec, Spec

(* With the monitor as its callback the loop still has TypeOK.             *)
THEOREM PipelineTypeCorrect == PipelineSpec => []TypeOK
  BY PipelineIsLoop, ConnectionTypeCorrect, PTL

(* With the monitor as its callback events are still handled in the order  *)
(* in which the node emitted them, each at most once.                      *)
THEOREM PipelineInOrder == PipelineSpec => []HandledInOrder
  BY PipelineIsLoop, EventsInOrder, PTL

(* However long its handlers take, the loop leaves no gap in the events of *)
(* a connection: they are handled, or they wait, in the order of arrival.  *)
THEOREM PipelineNoGap == PipelineSpec => []NoGapOnConnection
  BY PipelineIsLoop, NoGapOnAnyConnection, PTL

(* The pipeline implements the stream of events: while a handler waits,    *)
(* events are lost in no other way than with their connection.             *)
THEOREM PipelineImplementsStream == PipelineSpec => ImplementsEventStream
  BY PipelineIsLoop, LoopImplementsStream, PTL

-------------------------------------------------------------------------------
(* The monitor of the pipeline is the one of WsMonitorProofs, without      *)
(* kills and without failing writes.                                       *)
MP == INSTANCE WsMonitorProofs WITH Faults <- {}

LEMMA MonitorAssumptions ==
  /\ Height \subseteq Nat
  /\ Votes \subseteq MP!VoteMsg /\ Blocks \subseteq MP!BlockMsg /\ None \notin Votes \cup Blocks
  /\ flags \in MP!Options /\ MP!Accepted(flags) /\ ~flags.dashboard_only
  BY MonitorAssumption DEF M!VoteMsg, MP!VoteMsg, M!BlockMsg, MP!BlockMsg, M!Options, MP!Options,
     M!Accepted, MP!Accepted, M!HasTarget, MP!HasTarget

LEMMA MonitorKeepsVotes == MP!Spec => []MP!TakenVotesAreKept
  BY MonitorAssumptions, MP!NoTakenVoteLost

LEMMA MonitorInv == MP!Spec => []MP!Inv
  BY MonitorAssumptions, MP!InvInvariant

(* Words of the two instances that mean the same.                          *)
LEMMA SameWords ==
  /\ M!NoRounds = MP!NoRounds
  /\ \A m : M!Slot(m) = MP!Slot(m)
  /\ \A r, m : M!Merge(r, m) = MP!Merge(r, m)
  /\ \A h : M!Selects(flags, h) <=> MP!Selects(flags, h)
  /\ \A b : M!SignaturesOf(b) = MP!SignaturesOf(b)
  /\ M!TornVotes = MP!TornVotes /\ \A r : M!JsonVotes(r) = MP!JsonVotes(r)
  /\ M!TornSignatures = MP!TornSignatures /\ \A d : M!JsonSignatures(d) = MP!JsonSignatures(d)
  BY DEF M!NoRounds, MP!NoRounds, M!Slots, MP!Slots, M!Slot, MP!Slot, M!VoteType, MP!VoteType,
     M!Merge, MP!Merge, M!Range, MP!Range, M!Selects, MP!Selects, M!EqualsTarget, MP!EqualsTarget,
     M!check_blocks_list, MP!check_blocks_list, M!HasTarget, MP!HasTarget,
     M!SignaturesOf, MP!SignaturesOf, M!TornVotes, MP!TornVotes, M!JsonVotes, MP!JsonVotes,
     M!TornSignatures, MP!TornSignatures, M!JsonSignatures, MP!JsonSignatures

LEMMA SameUpdate ==
  { M!update_validators(validators, r) : r \in M!Reply(M!ValidatorsBody) }
    = { MP!update_validators(validators, r) : r \in MP!Reply(MP!ValidatorsBody) }
  BY DEF M!update_validators, MP!update_validators, M!get_validators, MP!get_validators,
     M!handle_abci_request, MP!handle_abci_request, M!handle_request, MP!handle_request,
     M!Reply, MP!Reply, M!ValidatorsBody, MP!ValidatorsBody

LEMMA SameInit == M!Init => MP!Init
  BY SameWords DEF M!Init, MP!Init, M!AbsentVotes, MP!AbsentVotes, M!AbsentSignatures, MP!AbsentSignatures

LEMMA SameReceipt ==
  ASSUME NEW m \in Votes, M!ReceiveVote(m)
  PROVE  MP!ReceiveVote(m)
  BY SameWords DEF M!ReceiveVote, MP!ReceiveVote, M!Accept, MP!Accept, M!files, MP!files

LEMMA SameBlock ==
  ASSUME NEW b \in Blocks, M!ReceiveBlock(b)
  PROVE  MP!ReceiveBlock(b)
  BY SameWords DEF M!ReceiveBlock, MP!ReceiveBlock, M!files, MP!files

LEMMA SameStart == (M!Launch => MP!Launch) /\ (M!Start => MP!Start)
<1>1. M!Launch => MP!Launch
  BY DEF M!Launch, MP!Launch, M!memory, MP!memory, M!files, MP!files, M!history, MP!history
<1>2. M!Start => MP!Start
  BY SameUpdate DEF M!Start, MP!Start, M!files, MP!files, M!history, MP!history
<1> QED
  BY <1>1, <1>2

LEMMA SameHandlerStep == M!HandlerStep => MP!HandlerStep
<1> USE DEF M!memory, MP!memory, M!files, MP!files, M!history, MP!history
<1>1. M!Refreshed => MP!Refreshed
  BY SameUpdate, SameWords DEF M!Refreshed, MP!Refreshed, M!Accept, MP!Accept
<1>2. M!LoadVotes => MP!LoadVotes
  BY SameWords DEF M!LoadVotes, MP!LoadVotes
<1>3. M!OpenVotes => MP!OpenVotes
  BY SameWords DEF M!OpenVotes, MP!OpenVotes
<1>4. M!CloseVotes => MP!CloseVotes
  BY SameWords DEF M!CloseVotes, MP!CloseVotes
<1>5. M!OpenSignatures => MP!OpenSignatures
  BY SameWords DEF M!OpenSignatures, MP!OpenSignatures
<1>6. M!CloseSignatures => MP!CloseSignatures
  BY SameWords DEF M!CloseSignatures, MP!CloseSignatures
<1> QED
  BY <1>1, <1>2, <1>3, <1>4, <1>5, <1>6 DEF M!HandlerStep, MP!HandlerStep

LEMMA PipelineStepOfMonitor == PipelineNext => [MP!Next]_(MP!vars)
<1>1. CASE MonitorStep
  BY <1>1, SameStart, SameHandlerStep DEF MonitorStep, MP!Next
<1>2. UNCHANGED monitorVars => UNCHANGED MP!vars
  BY DEF monitorVars, MP!vars, MP!memory, MP!files, MP!history
<1>3. CASE HandleEvent
  <2>1. M!ReceiveValidatorSetUpdates => MP!ReceiveValidatorSetUpdates
    BY DEF M!ReceiveValidatorSetUpdates, MP!ReceiveValidatorSetUpdates,
       M!memory, MP!memory, M!files, MP!files, M!history, MP!history
  <2> QED
    BY <1>2, <1>3, <2>1, SameReceipt, SameBlock DEF HandleEvent, Take, MP!Next
<1> QED
  BY <1>1, <1>2, <1>3 DEF PipelineNext, LoopStep, OutsideStep

(* The websocket process implements its monitor: events that come over a   *)
(* connection are among those that WsMonitor takes in any order, and the   *)
(* loop that awaits the callback adds no step of its own to the files.     *)
THEOREM PipelineIsMonitor == PipelineSpec => MP!Spec
<1>1. PipelineInit => MP!Init
  BY SameInit DEF PipelineInit
<1>2. UNCHANGED allVars => UNCHANGED MP!vars
  BY DEF allVars, monitorVars, MP!vars, MP!memory, MP!files, MP!history
<1>3. [PipelineNext]_allVars => [MP!Next]_(MP!vars)
  BY <1>2, PipelineStepOfMonitor
<1> QED
  BY <1>1, <1>3, PTL DEF PipelineSpec, MP!Spec

(* Whatever happens on the connection, no vote that the monitor has taken  *)
(* is missing in the files when the callback has returned.                 *)
THEOREM PipelineKeepsVotes == PipelineSpec => []TakenVotesAreKept
<1>1. MP!TakenVotesAreKept => TakenVotesAreKept
  BY SameWords DEF TakenVotesAreKept, M!TakenVotesAreKept, MP!TakenVotesAreKept,
     M!InFile, MP!InFile, M!Range, MP!Range
<1> QED
  BY <1>1, PipelineIsMonitor, MonitorKeepsVotes, PTL

-------------------------------------------------------------------------------
(* The order of the lists.  Entry e of a list is event e of the node.      *)

Entry(e, h, s, p) ==
  /\ EventOf[e] \in Votes
  /\ EventOf[e].height = h
  /\ MP!Slot(EventOf[e]) = s
  /\ EventOf[e].payload = p

(* The list is an increasing series of events of N.                        *)
Series(list, h, s, N) ==
  \E n \in [DOMAIN list -> N] :
    \A i \in DOMAIN list : Entry(n[i], h, s, list[i]) /\ (i > 1 => n[i - 1] < n[i])

(* The places of a list before its last one.                               *)
LEMMA Places ==
  \A k \in Nat :
    /\ \A i \in 1 .. k : i = k \/ i \in 1 .. k - 1
    /\ \A i \in 1 .. k + 1 : i = k + 1 \/ i \in 1 .. k
    /\ \A i \in 1 .. k + 1 : i > 1 => i - 1 \in 1 .. k /\ i - 1 # k + 1
  OBVIOUS

LEMMA SeriesWider ==
  ASSUME NEW list, NEW h, NEW s, NEW N, NEW L, N \subseteq L, Series(list, h, s, N)
  PROVE  Series(list, h, s, L)
<1>1. PICK n \in [DOMAIN list -> N] :
        \A i \in DOMAIN list : Entry(n[i], h, s, list[i]) /\ (i > 1 => n[i - 1] < n[i])
  BY DEF Series
<1>2. n \in [DOMAIN list -> L]
  OBVIOUS
<1> QED
  BY <1>1, <1>2 DEF Series

LEMMA SeriesOfNone == \A h, s, N : Series(<< >>, h, s, N)
<1> SUFFICES ASSUME NEW h, NEW s, NEW N PROVE Series(<< >>, h, s, N)
  OBVIOUS
<1>1. DOMAIN << >> = {}
  OBVIOUS
<1>2. [i \in {} |-> i] \in [{} -> N]
  OBVIOUS
<1> QED
  BY <1>1, <1>2 DEF Series

LEMMA SeriesAppend ==
  ASSUME NEW S, NEW list \in Seq(S), NEW h, NEW s, NEW N, NEW e, NEW p \in S,
         \A x \in N : x < e, Entry(e, h, s, p), Series(list, h, s, N)
  PROVE  Series(Append(list, p), h, s, N \cup {e})
<1> DEFINE more == Append(list, p)
           k == Len(list)
<1>1. /\ k \in Nat /\ DOMAIN list = 1 .. k /\ DOMAIN more = 1 .. k + 1
      /\ \A i \in 1 .. k : more[i] = list[i]
      /\ more[k + 1] = p
  OBVIOUS
<1>2. PICK n \in [1 .. k -> N] :
        \A i \in 1 .. k : Entry(n[i], h, s, list[i]) /\ (i > 1 => n[i - 1] < n[i])
  BY <1>1 DEF Series
<1> DEFINE m == [i \in 1 .. k + 1 |-> IF i = k + 1 THEN e ELSE n[i]]
<1>3. m \in [1 .. k + 1 -> N \cup {e}]
  BY <1>1
<1> HIDE DEF more
<1>4. ASSUME NEW i \in 1 .. k + 1
      PROVE  Entry(m[i], h, s, more[i]) /\ (i > 1 => m[i - 1] < m[i])
  <2>1. CASE i = k + 1
    <3>1. m[i] = e /\ more[i] = p
      BY <1>1, <2>1
    <3>2. i > 1 => m[i - 1] \in N
      <4>1. i > 1 => i - 1 \in 1 .. k /\ i - 1 # k + 1
        BY <1>1, Places
      <4>2. i > 1 => m[i - 1] = n[i - 1] /\ n[i - 1] \in N
        BY <1>1, <1>2, <4>1
      <4> QED
        BY <4>2
    <3> QED
      BY <3>1, <3>2
  <2>2. CASE i # k + 1
    <3>1. i \in 1 .. k /\ m[i] = n[i] /\ more[i] = list[i]
      BY <1>1, <2>2
    <3>2. i > 1 => i - 1 \in 1 .. k + 1 /\ i - 1 # k + 1
      BY <1>1, <3>1
    <3> QED
      BY <1>2, <3>1, <3>2
  <2> QED
    BY <2>1, <2>2
<1> HIDE DEF m
<1>5. \E f \in [DOMAIN more -> N \cup {e}] :
        \A i \in DOMAIN more : Entry(f[i], h, s, more[i]) /\ (i > 1 => f[i - 1] < f[i])
  BY <1>1, <1>3, <1>4
<1> QED
  BY <1>5 DEF Series, more

-------------------------------------------------------------------------------
(* The invariant: as long as the vote in hand is not merged, the lists are *)
(* made of earlier events only.                                            *)

Heard == { handled[i] : i \in 1 .. Len(handled) }
Earlier == { handled[i] : i \in 1 .. Len(handled) - 1 }
Newest == handled[Len(handled)]

HandlingWaits == Running /\ client # "handling" => pc = "listening"

VoteIsNewest == vote # None => Len(handled) > 0 /\ EventOf[Newest] = vote

Fresh == vote # None /\ pc \in {"refreshing", "accepted"}

FilesInOrder(N) ==
  \A h \in Height : \A s \in MP!Slots : Series(ws_votes[h].rounds[s], h, s, N)

FilesListed == FilesInOrder(Heard) /\ (Fresh => FilesInOrder(Earlier))

DocumentListed ==
  pc \in {"merged", "dumping votes"} => \A s \in MP!Slots : Series(state[s], vote.height, s, Heard)

ListInv == HandlingWaits /\ VoteIsNewest /\ FilesListed /\ DocumentListed

Sound == TypeInv /\ HandledInOrder /\ MP!Inv

LEMMA HeardOf ==
  ASSUME Sound
  PROVE  /\ Len(handled) \in Nat
         /\ Heard = Range(handled)
         /\ Earlier \subseteq Heard
         /\ Len(handled) > 0 => /\ Heard = Earlier \cup {Newest}
                               /\ \A n \in Earlier : n < Newest
<1>1. handled \in Seq(1 .. MaxEvents)
  BY DEF Sound, TypeInv, TypeOK
<1>2. Len(handled) \in Nat /\ DOMAIN handled = 1 .. Len(handled)
  BY <1>1
<1>3. Heard = Range(handled)
  BY <1>2 DEF Heard, Range
<1>4. Earlier \subseteq Heard
  BY <1>2 DEF Earlier, Heard
<1>5. ASSUME Len(handled) > 0 PROVE Heard = Earlier \cup {Newest}
  <2>1. Len(handled) \in 1 .. Len(handled)
    BY <1>2, <1>5
  <2>2. \A i \in 1 .. Len(handled) : i = Len(handled) \/ i \in 1 .. Len(handled) - 1
    BY <1>2, Places
  <2> QED
    BY <1>4, <2>1, <2>2 DEF Earlier, Heard, Newest
<1>6. ASSUME Len(handled) > 0, NEW n \in Earlier PROVE n < Newest
  <2>1. PICK i \in 1 .. Len(handled) - 1 : n = handled[i]
    BY DEF Earlier
  <2>2. i \in 1 .. Len(handled) /\ Len(handled) \in 1 .. Len(handled) /\ i < Len(handled)
    BY <1>2, <1>6
  <2> QED
    BY <2>1, <2>2 DEF Sound, HandledInOrder, Newest
<1> QED
  BY <1>2, <1>3, <1>4, <1>5, <1>6

LEMMA FilesWider ==
  ASSUME NEW N, NEW L, N \subseteq L, FilesInOrder(N)
  PROVE  FilesInOrder(L)
  BY SeriesWider DEF FilesInOrder

LEMMA ListInit == PipelineInit => ListInv
<1> SUFFICES ASSUME PipelineInit PROVE ListInv
  OBVIOUS
<1>1. pc = "down" /\ vote = None
  BY SameInit DEF PipelineInit, MP!Init
<1>2. FilesInOrder(Heard)
  <2>1. \A h \in Height : ws_votes[h] = MP!AbsentVotes
    BY SameInit DEF PipelineInit, MP!Init
  <2> QED
    BY <2>1, SeriesOfNone DEF FilesInOrder, MP!AbsentVotes, MP!NoRounds
<1> QED
  BY <1>1, <1>2 DEF ListInv, HandlingWaits, Running, VoteIsNewest, FilesListed, Fresh, DocumentListed

(* An event goes to a monitor that is listening; what was heard before is  *)
(* then earlier than it.                                                   *)
LEMMA HandleEventLists ==
  ASSUME Sound, ListInv, Running, HandleEvent
  PROVE  ListInv'
<1>1. pc = "listening" /\ client' = "handling"
  BY DEF HandleEvent, ReceiveEvent, ListInv, HandlingWaits
<1>2. vote = None
  BY <1>1 DEF Sound, MP!Inv, MP!VotesInv, MP!VoteInHand, MP!Handling
<1>3. PICK e \in 1 .. MaxEvents : handled' = Append(handled, e)
  <2>1. Head(queue) \in Message /\ Head(queue).kind = "event"
    BY DEF HandleEvent, ReceiveEvent, Sound, TypeInv, TypeOK
  <2> QED
    BY <2>1, EventNumbers DEF HandleEvent, ReceiveEvent
<1>4. /\ Len(handled) \in Nat /\ Len(handled') = Len(handled) + 1
      /\ \A i \in 1 .. Len(handled) : handled'[i] = handled[i]
      /\ handled'[Len(handled) + 1] = e
  BY <1>3, AppendOf DEF Sound, TypeInv, TypeOK
<1>5. Earlier' = Heard /\ Newest' = e /\ Len(handled') > 0
  BY <1>4 DEF Earlier, Heard, Newest
<1>6. Last(handled') = e
  BY <1>4 DEF Last
<1>7. /\ vote' \in {None, EventOf[e]}
      /\ pc' \notin {"merged", "dumping votes"}
      /\ ws_votes' = ws_votes
  <2>1. Take(EventOf[e])
    BY <1>6 DEF HandleEvent
  <2> HIDE DEF Take
  <2>2. ASSUME EventOf[e] \in Votes, M!ReceiveVote(EventOf[e])
        PROVE  /\ vote' \in {None, EventOf[e]} /\ pc' \notin {"merged", "dumping votes"}
               /\ ws_votes' = ws_votes
    BY <1>2, <2>2 DEF M!ReceiveVote, M!Accept, M!files
  <2>3. ASSUME NEW b \in Blocks, M!ReceiveBlock(b)
        PROVE  /\ vote' = None /\ pc' \notin {"merged", "dumping votes"} /\ ws_votes' = ws_votes
    BY <1>2, <2>3 DEF M!ReceiveBlock, M!files
  <2>4. ASSUME M!ReceiveValidatorSetUpdates
        PROVE  /\ vote' = None /\ pc' \notin {"merged", "dumping votes"} /\ ws_votes' = ws_votes
    BY <1>2, <2>4 DEF M!ReceiveValidatorSetUpdates, M!files, M!memory
  <2>5. ASSUME UNCHANGED monitorVars
        PROVE  /\ vote' = None /\ pc' \notin {"merged", "dumping votes"} /\ ws_votes' = ws_votes
    BY <1>1, <1>2, <2>5 DEF monitorVars
  <2> QED
    BY <2>1, <2>2, <2>3, <2>4, <2>5 DEF Take
<1>8. FilesInOrder(Earlier)'
  BY <1>5, <1>7 DEF ListInv, FilesListed, FilesInOrder
<1>9. FilesInOrder(Heard)'
  <2>1. Heard \subseteq Heard'
    BY <1>4 DEF Heard
  <2> QED
    BY <1>5, <1>8, <2>1, SeriesWider DEF FilesInOrder
<1> QED
  BY <1>1, <1>5, <1>7, <1>8, <1>9 DEF ListInv, HandlingWaits, VoteIsNewest, FilesListed, DocumentListed

(* The other steps of the loop leave the lists and the last event alone,   *)
(* and let a handler end only when the monitor listens.                    *)
LEMMA LoopLists ==
  ASSUME ListInv, UNCHANGED monitorVars,
         \/ Running /\ (HandlerReturns \/ ConnectionStep \/ ResolveFails \/ Silence)
         \/ NodeStep
         \/ UNCHANGED vars
  PROVE  ListInv'
<1>1. handled' = handled
  BY DEF HandlerReturns, CallbackReturns, ConnectionStep, Connect, DnsPauseEnds, Subscribe,
         ReceiveAck, ReceiveError, ReceiveGarbage, Disconnect, ErrorPauseEnds, SilencePauseEnds,
         SeesClosed, ResolveFails, Silence, NodeStep, Emit, Miss, CancelSubscription, SendGarbage,
         LoseConnection, NoticeLoss, NodeReturns, vars
<1>2. Running /\ client' # "handling" => client # "handling" \/ pc = "listening"
  BY DEF HandlerReturns, ConnectionStep, Connect, DnsPauseEnds, Subscribe, ReceiveAck,
         ReceiveError, ReceiveGarbage, ErrorPauseEnds, SilencePauseEnds, SeesClosed,
         ResolveFails, Silence, NodeStep, Emit, Miss, CancelSubscription, SendGarbage,
         LoseConnection, NoticeLoss, NodeReturns, clientVars, vars
<1> QED
  BY <1>1, <1>2 DEF ListInv, HandlingWaits, Running, VoteIsNewest, FilesListed, FilesInOrder,
     Fresh, Heard, Earlier, Newest, DocumentListed, monitorVars

(* A step of the monitor that writes no votes file.                        *)
LEMMA QuietLists ==
  ASSUME ListInv, UNCHANGED vars, ws_votes' = ws_votes,
         (Running /\ pc # "listening") \/ ~Running' \/ pc' = "listening",
         vote' \in {None, vote},
         Fresh' => Fresh,
         pc' \in {"merged", "dumping votes"} =>
           pc \in {"merged", "dumping votes"} /\ UNCHANGED <<state, vote>>
  PROVE  ListInv'
<1>1. handled' = handled /\ client' = client
  BY DEF vars, clientVars
<1>2. HandlingWaits'
  BY <1>1 DEF ListInv, HandlingWaits
<1>3. VoteIsNewest'
  BY <1>1 DEF ListInv, VoteIsNewest, Newest
<1>4. FilesListed'
  BY <1>1 DEF ListInv, FilesListed, FilesInOrder, Heard, Earlier
<1>5. DocumentListed'
  BY <1>1 DEF ListInv, DocumentListed, Heard
<1> QED
  BY <1>2, <1>3, <1>4, <1>5 DEF ListInv

(* Merging appends the newest event to a series of earlier ones.           *)
LEMMA MergeLists ==
  ASSUME Sound, ListInv, UNCHANGED vars, pc = "accepted", vote # None,
         state' = MP!Merge(ws_votes[vote.height].rounds, vote), pc' = "merged",
         UNCHANGED <<vote, ws_votes>>
  PROVE  ListInv'
<1>1. handled' = handled /\ client' = client
  BY DEF vars, clientVars
<1>2. Running /\ Running' /\ Fresh /\ ~Fresh'
  BY DEF Running, Fresh
<1>3. HandlingWaits'
  BY <1>1, <1>2 DEF ListInv, HandlingWaits
<1>4. VoteIsNewest'
  BY <1>1 DEF ListInv, VoteIsNewest, Newest
<1>5. FilesListed'
  BY <1>1, <1>2 DEF ListInv, FilesListed, FilesInOrder, Heard, Earlier
<1>6. ASSUME NEW s \in MP!Slots PROVE Series(state'[s], vote.height, s, Heard)
  <2> DEFINE list == ws_votes[vote.height].rounds[s]
  <2>1. vote \in Votes
    BY DEF Sound, MP!Inv, MP!TypeInv, MP!InHand, MP!Handling
  <2>2. MP!Slot(vote) \in MP!Slots /\ vote.payload \in Payload /\ vote.height \in Height
    BY <2>1, MonitorAssumptions, MP!SlotType
  <2>3. ws_votes[vote.height].rounds \in MP!Rounds
    BY <2>2 DEF Sound, MP!Inv, MP!TypeInv, MP!TypeOK, MP!VotesFile
  <2>4. list \in Seq(Payload)
    BY <2>3 DEF MP!Rounds
  <2>5. state'[s] = IF s = MP!Slot(vote) /\ vote.payload \notin MP!Range(list)
                    THEN Append(list, vote.payload) ELSE list
    BY <2>1, <2>3, MonitorAssumptions, MP!MergeExtends
  <2>6. Series(list, vote.height, s, Earlier)
    BY <1>2, <2>2 DEF ListInv, FilesListed, FilesInOrder
  <2>7. /\ Earlier \subseteq Heard /\ Heard = Earlier \cup {Newest}
        /\ \A n \in Earlier : n < Newest
    BY HeardOf DEF ListInv, VoteIsNewest
  <2>8. s = MP!Slot(vote) => Entry(Newest, vote.height, s, vote.payload)
    BY <2>1 DEF Entry, ListInv, VoteIsNewest
  <2> HIDE DEF list
  <2>9. Series(list, vote.height, s, Heard)
    BY <2>6, <2>7, SeriesWider
  <2>10. s = MP!Slot(vote) => Series(Append(list, vote.payload), vote.height, s, Heard)
    BY <2>2, <2>4, <2>6, <2>7, <2>8, SeriesAppend
  <2> QED
    BY <2>5, <2>9, <2>10
<1>7. DocumentListed'
  BY <1>1, <1>6 DEF DocumentListed, Heard
<1> QED
  BY <1>3, <1>4, <1>5, <1>7 DEF ListInv

(* Writing a file replaces its lists by those of a document in order.      *)
LEMMA WriteLists ==
  ASSUME Sound, ListInv, UNCHANGED vars, pc \in {"merged", "dumping votes"},
         NEW f,
         ws_votes' = [ws_votes EXCEPT ![vote.height] = f],
         \A s \in MP!Slots : Series(f.rounds[s], vote.height, s, Heard),
         vote' \in {None, vote},
         pc' = "listening" \/ (pc' = "dumping votes" /\ UNCHANGED <<state, vote>>)
  PROVE  ListInv'
<1>1. handled' = handled /\ client' = client
  BY DEF vars, clientVars
<1>2. HandlingWaits'
  BY <1>1 DEF ListInv, HandlingWaits, Running
<1>3. VoteIsNewest'
  BY <1>1 DEF ListInv, VoteIsNewest, Newest
<1>4. FilesInOrder(Heard)'
  <2>1. DOMAIN ws_votes = Height
    BY DEF Sound, MP!Inv, MP!TypeInv, MP!TypeOK
  <2>2. \A h \in Height : ws_votes'[h] = IF h = vote.height THEN f ELSE ws_votes[h]
    BY <2>1
  <2> QED
    BY <1>1, <2>2 DEF ListInv, FilesListed, FilesInOrder, Heard
<1>5. ~Fresh'
  BY DEF Fresh
<1>6. DocumentListed'
  BY <1>1 DEF ListInv, DocumentListed, Heard
<1> QED
  BY <1>2, <1>3, <1>4, <1>5, <1>6 DEF ListInv, FilesListed

LEMMA MonitorLists ==
  ASSUME Sound, ListInv, MonitorStep
  PROVE  ListInv'
<1> USE DEF MP!memory, MP!files, MP!history
<1>1. UNCHANGED vars /\ (MP!Launch \/ MP!Start \/ MP!HandlerStep)
  BY SameStart, SameHandlerStep DEF MonitorStep
<1>2. CASE MP!Launch \/ MP!Start
  <2>1. /\ ws_votes' = ws_votes /\ vote' = vote
        /\ pc' \in {"starting", "exited", "listening"}
    BY <1>2 DEF MP!Launch, MP!Start
  <2> QED
    BY <1>1, <2>1, QuietLists DEF Running, Fresh
<1>3. CASE MP!Refreshed
  <2>1. /\ ws_votes' = ws_votes /\ pc = "refreshing" /\ vote' \in {None, vote}
        /\ pc' \in {"accepted", "listening"}
    BY <1>3 DEF MP!Refreshed, MP!Accept
  <2> QED
    BY <1>1, <2>1, QuietLists DEF Running, Fresh
<1>4. CASE MP!LoadVotes
  <2>1. pc = "accepted" /\ vote # None /\ ws_votes' = ws_votes
    BY <1>4, MonitorAssumptions DEF MP!LoadVotes, Sound, MP!Inv, MP!TypeInv, MP!InHand, MP!Handling
  <2>2. CASE ws_votes[vote.height].status = "torn"
    <3>1. pc' = "listening" /\ vote' = None
      BY <1>4, <2>2 DEF MP!LoadVotes
    <3> QED
      BY <1>1, <2>1, <3>1, QuietLists DEF Fresh
  <2>3. CASE ws_votes[vote.height].status # "torn"
    <3>1. /\ pc' = "merged" /\ vote' = vote
          /\ state' = MP!Merge(ws_votes[vote.height].rounds, vote)
      BY <1>4, <2>3 DEF MP!LoadVotes
    <3> QED
      BY <1>1, <2>1, <3>1, MergeLists
  <2> QED
    BY <2>2, <2>3
<1>5. CASE MP!OpenVotes
  <2>1. \A s \in MP!Slots : Series(MP!TornVotes.rounds[s], vote.height, s, Heard)
    BY SeriesOfNone DEF MP!TornVotes, MP!NoRounds
  <2> QED
    BY <1>1, <1>5, <2>1, WriteLists DEF MP!OpenVotes
<1>6. CASE MP!CloseVotes
  <2>1. \A s \in MP!Slots : Series(MP!JsonVotes(state).rounds[s], vote.height, s, Heard)
    BY <1>6 DEF MP!CloseVotes, MP!JsonVotes, ListInv, DocumentListed
  <2> QED
    BY <1>1, <1>6, <2>1, WriteLists DEF MP!CloseVotes
<1>7. CASE MP!OpenSignatures \/ MP!CloseSignatures
  <2>1. /\ ws_votes' = ws_votes /\ vote' = vote
        /\ pc \in {"block ready", "dumping signatures"}
        /\ pc' \in {"dumping signatures", "listening"}
    BY <1>7 DEF MP!OpenSignatures, MP!CloseSignatures
  <2> QED
    BY <1>1, <2>1, QuietLists DEF Running, Fresh
<1> QED
  BY <1>1, <1>2, <1>3, <1>4, <1>5, <1>6, <1>7 DEF MP!HandlerStep

LEMMA PipelineSound == PipelineSpec => []Sound
<1>1. Spec => []TypeInv
  BY InitTypes, TypeStep, PTL DEF Spec
<1> QED
  BY <1>1, PipelineIsLoop, PipelineIsMonitor, MonitorInv, EventsInOrder, PTL DEF Sound

(* Whatever is lost, refused or delivered again on the way, the list of a  *)
(* validator's events in a file is in the order of their emission.         *)
THEOREM ListsInOrder == PipelineSpec => []ListedInOrderOfEmission
<1>1. Sound /\ ListInv /\ [PipelineNext]_allVars => ListInv'
  <2> SUFFICES ASSUME Sound, ListInv, [PipelineNext]_allVars PROVE ListInv'
    OBVIOUS
  <2>1. CASE MonitorStep
    BY <2>1, MonitorLists
  <2>2. CASE Running /\ HandleEvent
    BY <2>2, HandleEventLists
  <2>3. CASE LoopStep /\ ~HandleEvent
    BY <2>3, LoopLists DEF LoopStep
  <2>4. CASE OutsideStep
    BY <2>4, LoopLists DEF OutsideStep
  <2>5. CASE UNCHANGED allVars
    BY <2>5, LoopLists DEF allVars
  <2> QED
    BY <2>1, <2>2, <2>3, <2>4, <2>5 DEF PipelineNext, LoopStep
<1>2. Sound /\ ListInv => ListedInOrderOfEmission
  <2> SUFFICES ASSUME Sound, ListInv, NEW h \in Height, NEW s \in M!Slots
               PROVE  Series(ws_votes[h].rounds[s], h, s, Range(handled))
    BY SameWords DEF ListedInOrderOfEmission, Series, Entry
  <2>1. s \in MP!Slots
    BY DEF M!Slots, MP!Slots
  <2> QED
    BY <2>1, HeardOf DEF ListInv, FilesListed, FilesInOrder
<1> QED
  BY <1>1, <1>2, ListInit, PipelineSound, PTL DEF PipelineSpec
===============================================================================
