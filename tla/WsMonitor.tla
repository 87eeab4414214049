------------------------------ MODULE WsMonitor ------------------------------
(***************************************************************************)
(* The websocket monitor process (src/ws_monitor.py): it keeps the set of  *)
(* bonded validators, and for each event that the websocket loop hands to  *)
(* its callback it updates the files of the event's height,                *)
(*                                                                         *)
(*    result/<height>/ws_votes.json       read, extended and rewritten at  *)
(*                                        every vote                       *)
(*    result/<height>/ws_signatures.json  written at the first NewBlock    *)
(*                                                                         *)
(* The process is one asyncio task, so a handler runs to its end before    *)
(* the next event is taken; it can be cut by a signal or fail on an        *)
(* OSError at any point.  Files survive the process, memory does not.      *)
(* Events arrive in any order and any number of times: the websocket loop  *)
(* reconnects and resubscribes (module WsConnection).                      *)
(***************************************************************************)
EXTENDS Functions, Sequences, SavePolicy, Calls

CONSTANTS
  Height,    \* heights that occur
  Round,     \* rounds that occur
  Payload,   \* the timestamp, hash and signature of a vote, taken together
  Votes,     \* Vote events the node may send
  Blocks,    \* NewBlock events the node may send
  flags,     \* the command line, as accepted by parse_args
  Faults,    \* what may go wrong locally: "kill" and "disk"
  None       \* no vote, or no block, is being handled

VoteMsg == [height : Height, round : Round, type : {1, 2, 32},
            validator : Validator, payload : Payload]

(* The height of a NewBlock event's last_commit, who signed it, and the    *)
(* proposer named in the block's own header.                               *)
BlockMsg == [height : Height, signers : SUBSET Validator, proposer : Validator]

ASSUME HeightAssumption == Height \subseteq Nat
ASSUME EventAssumption ==
  /\ Votes \subseteq VoteMsg
  /\ Blocks \subseteq BlockMsg
  /\ None \notin Votes \cup Blocks
ASSUME FlagsAssumption == flags \in Options /\ Accepted(flags) /\ ~flags.dashboard_only
ASSUME FaultsAssumption == Faults \subseteq {"kill", "disk"}

VARIABLES
  pc,             \* where the process is
  validators,     \* self.validators
  vote,           \* the vote in hand, or None
  state,          \* the JSON document being extended: 'rounds' of the file
  data,           \* the signatures document about to be written, or None
  ws_votes,       \* result/<height>/ws_votes.json
  ws_signatures,  \* result/<height>/ws_signatures.json
  votes_taken,    \* history: votes that passed every test but the load
  blocks_taken    \* history: blocks that passed every test

memory == <<validators, vote, state, data>>
files == <<ws_votes, ws_signatures>>
history == <<votes_taken, blocks_taken>>
vars == <<pc, memory, files, history>>

PC == { "down", "starting", "exited", "listening", "refreshing",
        "accepted", "merged", "dumping votes",
        "block ready", "dumping signatures" }

(* state['rounds'][round][type][validator] is a list of events; a list not *)
(* yet created is the empty sequence.                                      *)
Slots == Round \X {"Prevote", "Precommit"} \X Validator
Rounds == [Slots -> Seq(Payload)]
NoRounds == [s \in Slots |-> << >>]

(* A file is absent, holds a JSON document, or was opened for writing and  *)
(* holds some proper prefix of one, which json.load refuses.               *)
VotesFile == [status : {"absent", "torn", "json"}, rounds : Rounds]
AbsentVotes == [status |-> "absent", rounds |-> NoRounds]
TornVotes == [status |-> "torn", rounds |-> NoRounds]
JsonVotes(rounds) == [status |-> "json", rounds |-> rounds]

Signatures == [height : Height, signed : SUBSET Validator,
               missed : SUBSET Validator, proposer : Validator]
SignaturesFile == [status : {"absent", "torn"}] \cup [status : {"json"}, data : Signatures]
AbsentSignatures == [status |-> "absent"]
TornSignatures == [status |-> "torn"]
JsonSignatures(d) == [status |-> "json", data |-> d]

-------------------------------------------------------------------------------

Init ==
  /\ pc = "down"
  /\ validators = {}
  /\ vote = None
  /\ state = NoRounds
  /\ data = None
  /\ ws_votes = [h \in Height |-> AbsentVotes]
  /\ ws_signatures = [h \in Height |-> AbsentSignatures]
  /\ votes_taken = {}
  /\ blocks_taken = {}

(* The user starts the program; __init__ leaves the validators empty.      *)
Launch ==
  /\ pc \in {"down", "exited"}
  /\ pc' = "starting"
  /\ UNCHANGED <<memory, files, history>>

(* start: without any validator the process exits.                         *)
Start ==
  /\ pc = "starting"
  /\ validators' \in { update_validators(validators, r) : r \in Reply(ValidatorsBody) }
  /\ pc' = IF validators' = {} THEN "exited" ELSE "listening"
  /\ UNCHANGED <<vote, state, data, files, history>>

-------------------------------------------------------------------------------
(* Vote events.                                                            *)

VoteType(m) == IF m.type = 1 THEN "Prevote" ELSE "Precommit"
Slot(m) == <<m.round, VoteType(m), m.validator>>

(* Mutants of Merge: the vote instead of its event is appended; validators *)
(* share one list; no test for an equal event; only the first event kept.  *)
MergeWholeVote(rounds, m) == [rounds EXCEPT ![Slot(m)] = Append(@, m)]

MergeSharedList(rounds, m) ==
  [ s \in Slots |->
      IF s[1] = m.round /\ s[2] = VoteType(m) /\ m.payload \notin Range(rounds[s])
      THEN Append(rounds[s], m.payload)
      ELSE rounds[s] ]

MergeAlways(rounds, m) == [rounds EXCEPT ![Slot(m)] = Append(@, m.payload)]

MergeFirstOnly(rounds, m) ==
  IF rounds[Slot(m)] # << >> THEN rounds ELSE MergeAlways(rounds, m)

(* Append the event unless the list already holds an equal one.            *)
Merge(rounds, m) ==
  IF m.payload \in Range(rounds[Slot(m)])
  THEN rounds
  ELSE [rounds EXCEPT ![Slot(m)] = Append(@, m.payload)]

(* Mutant of Accept: the height is not tested.                             *)
AcceptAnyHeight(m) ==
  /\ pc' = "accepted"
  /\ vote' = m
  /\ votes_taken' = votes_taken \cup {m}

(* The handler goes on with a vote of a known validator, or is done.       *)
Accept(m) ==
  IF Selects(flags, m.height)
  THEN /\ pc' = "accepted"
       /\ vote' = m
       /\ votes_taken' = votes_taken \cup {m}
  ELSE /\ pc' = "listening"
       /\ vote' = None
       /\ UNCHANGED votes_taken

ReceiveVote(m) ==
  /\ pc = "listening"
  /\ m.type \in {1, 2}        \* any other type is logged and skipped
  /\ IF m.validator \in validators
     THEN Accept(m)
     ELSE pc' = "refreshing" /\ vote' = m /\ UNCHANGED votes_taken
  /\ UNCHANGED <<validators, state, data, files, blocks_taken>>

(* The await of update_validators returns, with a vote in hand or for a    *)
(* ValidatorSetUpdates event.                                              *)
Refreshed ==
  /\ pc = "refreshing"
  /\ validators' \in { update_validators(validators, r) : r \in Reply(ValidatorsBody) }
  /\ IF vote # None /\ vote.validator \in validators'
     THEN Accept(vote)
     ELSE pc' = "listening" /\ vote' = None /\ UNCHANGED votes_taken
  /\ UNCHANGED <<state, data, files, blocks_taken>>

(* Mutants of LoadVotes: the file is not loaded; the vote is not added.    *)
LoadVotesUnmerged ==
  /\ pc = "accepted"
  /\ pc' = "merged"
  /\ state' = ws_votes[vote.height].rounds
  /\ UNCHANGED <<validators, vote, data, files, history>>

LoadVotesForgets ==
  /\ pc = "accepted"
  /\ pc' = "merged"
  /\ state' = Merge(NoRounds, vote)
  /\ UNCHANGED <<validators, vote, data, files, history>>

(* Load the file, if there is one, and extend the document.  A file that   *)
(* does not decode ends the handler.                                       *)
LoadVotes ==
  /\ pc = "accepted"
  /\ IF ws_votes[vote.height].status = "torn"
     THEN /\ pc' = "listening"
          /\ vote' = None
          /\ UNCHANGED state
     ELSE /\ pc' = "merged"
          /\ state' = Merge(ws_votes[vote.height].rounds, vote)
          /\ UNCHANGED vote
  /\ UNCHANGED <<validators, data, files, history>>

(* Mutant of OpenVotes: mode 'x', tried again while the file exists.        *)
OpenVotesExclusive ==
  /\ pc = "merged"
  /\ ws_votes[vote.height].status = "absent"
  /\ pc' = "dumping votes"
  /\ ws_votes' = [ws_votes EXCEPT ![vote.height] = TornVotes]
  /\ UNCHANGED <<memory, ws_signatures, history>>

(* open(file_path, 'w') creates the file or truncates it.                  *)
OpenVotes ==
  /\ pc = "merged"
  /\ pc' = "dumping votes"
  /\ ws_votes' = [ws_votes EXCEPT ![vote.height] = TornVotes]
  /\ UNCHANGED <<memory, ws_signatures, history>>

(* json.dump and the close of the file.                                    *)
CloseVotes ==
  /\ pc = "dumping votes"
  /\ pc' = "listening"
  /\ ws_votes' = [ws_votes EXCEPT ![vote.height] = JsonVotes(state)]
  /\ vote' = None
  /\ state' = NoRounds
  /\ UNCHANGED <<validators, data, ws_signatures, history>>

-------------------------------------------------------------------------------
(* ValidatorSetUpdates and NewBlock events.  NewRoundStep is only logged.  *)

ReceiveValidatorSetUpdates ==
  /\ pc = "listening"
  /\ pc' = "refreshing"
  /\ UNCHANGED <<memory, files, history>>

(* Mutants of SignaturesOf: the height of the block, not of the commit;    *)
(* those in the commit instead of the known ones in it; the first signer   *)
(* as the proposer; the test on the commit inverted.                       *)
SignaturesOfHeader(b) ==
  [ height   |-> b.height + 1,
    signed   |-> validators \cap b.signers,
    missed   |-> validators \ b.signers,
    proposer |-> b.proposer ]

SignaturesOfCommit(b) ==
  [ height   |-> b.height,
    signed   |-> b.signers,
    missed   |-> validators \ b.signers,
    proposer |-> b.proposer ]

SignaturesOfFirstSigner(b) ==
  [ height   |-> b.height,
    signed   |-> validators \cap b.signers,
    missed   |-> validators \ b.signers,
    proposer |-> CHOOSE v \in b.signers : TRUE ]

SignaturesOfInverted(b) ==
  [ height   |-> b.height,
    signed   |-> validators \ b.signers,
    missed   |-> validators \cap b.signers,
    proposer |-> b.proposer ]

SignaturesOf(b) ==
  [ height   |-> b.height,
    signed   |-> validators \cap b.signers,
    missed   |-> validators \ b.signers,
    proposer |-> b.proposer ]

(* Mutant of ReceiveBlock: without the test that the file does not exist.  *)
ReceiveBlockAgain(b) ==
  /\ pc = "listening"
  /\ Selects(flags, b.height)
  /\ pc' = "block ready"
  /\ data' = SignaturesOf(b)
  /\ blocks_taken' = blocks_taken \cup {b}
  /\ UNCHANGED <<validators, vote, state, files, votes_taken>>

(* process_new_block_entry up to the test that the file does not exist.    *)
ReceiveBlock(b) ==
  /\ pc = "listening"
  /\ Selects(flags, b.height)
  /\ ws_signatures[b.height].status = "absent"
  /\ pc' = "block ready"
  /\ data' = SignaturesOf(b)
  /\ blocks_taken' = blocks_taken \cup {b}
  /\ UNCHANGED <<validators, vote, state, files, votes_taken>>

OpenSignatures ==
  /\ pc = "block ready"
  /\ pc' = "dumping signatures"
  /\ ws_signatures' = [ws_signatures EXCEPT ![data.height] = TornSignatures]
  /\ UNCHANGED <<memory, ws_votes, history>>

CloseSignatures ==
  /\ pc = "dumping signatures"
  /\ pc' = "listening"
  /\ ws_signatures' = [ws_signatures EXCEPT ![data.height] = JsonSignatures(data)]
  /\ data' = None
  /\ UNCHANGED <<validators, vote, state, ws_votes, history>>

-------------------------------------------------------------------------------
(* Faults.                                                                 *)

(* An OSError from makedirs, open, read, write or close: the callback logs *)
(* it and the loop takes the next event.  Whatever the open has done to    *)
(* the file stays done.                                                    *)
WriteFails ==
  /\ "disk" \in Faults
  /\ pc \in {"accepted", "merged", "dumping votes", "block ready", "dumping signatures"}
  /\ pc' = "listening"
  /\ vote' = None
  /\ state' = NoRounds
  /\ data' = None
  /\ UNCHANGED <<validators, files, history>>

(* SIGINT raises KeyboardInterrupt wherever the process is, terminate()    *)
(* ends it there; in both cases an open file keeps what has been flushed.  *)
Kill ==
  /\ "kill" \in Faults
  /\ pc \notin {"down", "exited"}
  /\ pc' = "down"
  /\ validators' = {}
  /\ vote' = None
  /\ state' = NoRounds
  /\ data' = None
  /\ UNCHANGED <<files, history>>

-------------------------------------------------------------------------------

HandlerStep ==
  Refreshed \/ LoadVotes \/ OpenVotes \/ CloseVotes \/ OpenSignatures \/ CloseSignatures

Next ==
  \/ Launch
  \/ Start
  \/ \E m \in Votes : ReceiveVote(m)
  \/ \E b \in Blocks : ReceiveBlock(b)
  \/ ReceiveValidatorSetUpdates
  \/ HandlerStep
  \/ WriteFails
  \/ Kill

Spec == Init /\ [][Next]_vars

(* A handler that is not waiting for the node keeps running, and the wait  *)
(* for the node is cut off by the ten second timeout of the request.       *)
FairSpec == Spec /\ WF_vars(Start) /\ WF_vars(HandlerStep)

-------------------------------------------------------------------------------
(* Properties.                                                             *)

TypeOK ==
  /\ pc \in PC
  /\ validators \subseteq Validator
  /\ vote \in Votes \cup {None}
  /\ state \in Rounds
  /\ data \in Signatures \cup {None}
  /\ ws_votes \in [Height -> VotesFile]
  /\ ws_signatures \in [Height -> SignaturesFile]
  /\ votes_taken \subseteq Votes
  /\ blocks_taken \subseteq Blocks

(* A vote was taken for this height, round, type and validator.            *)
Received(h, s, p) ==
  \E m \in votes_taken : m.height = h /\ Slot(m) = s /\ m.payload = p

(* The document d describes a block of height h that was received: it sorts *)
(* a non-empty validator set into those in the commit and those not in it.  *)
Describes(d, h) ==
  /\ d.height = h
  /\ d.signed \cup d.missed # {}
  /\ \E b \in blocks_taken :
       /\ b.height = h
       /\ d.signed \subseteq b.signers
       /\ d.missed \cap b.signers = {}

(* Every event in a votes file was received, for that height, round, type and *)
(* validator: no vote is filed under another height or validator and none  *)
(* survives from a document that belonged to another file.                 *)
SavedVotesWereReceived ==
  \A h \in Height : \A s \in Slots :
    \A p \in Range(ws_votes[h].rounds[s]) : Received(h, s, p)

(* However often the node resends a vote, and however often the process is *)
(* restarted on an existing file, an event is listed once.                 *)
EventsNotRepeated ==
  \A h \in Height : \A s \in Slots : IsInjective(ws_votes[h].rounds[s])

(* A file exists only for a height that README.md promises to save.        *)
OnlyPromisedHeightsSaved ==
  \A h \in Height :
    ws_votes[h].status # "absent" \/ ws_signatures[h].status # "absent"
      => ~flags.no_save /\ Promised(flags, h)

(* A signatures file describes one block that was received, at the height  *)
(* of its directory.                                                       *)
SignaturesDescribeBlock ==
  \A h \in Height : ws_signatures[h].status = "json" =>
    Describes(ws_signatures[h].data, h)

(* A signatures file is written once: over all restarts and however often  *)
(* the block is announced, a complete file is never touched again, and one *)
(* that was cut short is completed by the dump that created it or never.   *)
SignaturesWrittenOnce ==
  [][ \A h \in Height :
        \/ ws_signatures'[h] = ws_signatures[h]
        \/ ws_signatures[h].status = "absent"
        \/ /\ ws_signatures[h].status = "torn"
           /\ pc = "dumping signatures" /\ data.height = h
           /\ ws_signatures'[h] = JsonSignatures(data) ]_vars

(* Once monitoring has begun, no failed, empty or unusable answer of the   *)
(* node empties the validator set.                                         *)
ValidatorsNeverEmptied ==
  pc \notin {"down", "starting", "exited"} => validators # {}

(* When the handler of a vote of a known validator at a selected height    *)
(* gives control back, the vote is in the file (README.md: the votes are   *)
(* saved to result/[height]/ws_votes.json).                                *)
InFile(m) ==
  /\ ws_votes[m.height].status = "json"
  /\ m.payload \in Range(ws_votes[m.height].rounds[Slot(m)])

HandledVotesAreSaved ==
  [][ \A m \in Votes :
        (vote = m /\ pc # "refreshing" /\ pc' = "listening") => InFile(m)' ]_vars

(* While nothing is killed and no write fails, the files lose nothing: of  *)
(* all the votes taken since the first start, in whatever order and for    *)
(* whatever heights, none is missing when a handler has given control back *)
(* (each vote rewrites the whole file of its height).                      *)
TakenVotesAreKept == pc = "listening" => \A m \in votes_taken : InFile(m)

(* The callback always gives control back to the websocket loop, unless    *)
(* the process ends: no event blocks the ones behind it for ever.          *)
HandlersReturn == pc # "listening" ~> pc \in {"listening", "down", "exited"}

-------------------------------------------------------------------------------
(* What makes the safety properties inductive: what a handler holds while  *)
(* it is under way.                                                        *)

Handling == {"accepted", "merged", "dumping votes"}
HandlingBlock == {"block ready", "dumping signatures"}

(* A vote is in hand exactly while its handler runs, it has passed the     *)
(* tests, and from the load to the dump its file has not moved.            *)
VoteInHand ==
  /\ pc \in Handling =>
       /\ vote \in votes_taken
       /\ Selects(flags, vote.height)
  /\ pc \notin Handling \cup {"refreshing"} => vote = None
  /\ pc = "merged" =>
       /\ ws_votes[vote.height].status # "torn"
       /\ state = Merge(ws_votes[vote.height].rounds, vote)
  /\ pc = "dumping votes" => ws_votes[vote.height].status = "torn"

(* The document in memory obeys what is asked of the file.                 *)
DocumentInHand ==
  pc \in {"merged", "dumping votes"} =>
    \A s \in Slots :
      /\ IsInjective(state[s])
      /\ \A p \in Range(state[s]) : Received(vote.height, s, p)

(* The signatures about to be written describe a block that was received.  *)
SignaturesInHand ==
  pc \in HandlingBlock =>
    Selects(flags, data.height) /\ Describes(data, data.height)

(* The test that the file does not exist still holds when it is opened.    *)
SignaturesFileInHand ==
  /\ pc = "block ready" => ws_signatures[data.height].status = "absent"
  /\ pc = "dumping signatures" => ws_signatures[data.height].status = "torn"

(* A file without a document reads as an empty one, and every file is of a *)
(* selected height.                                                        *)
VotesFilesInOrder ==
  \A h \in Height :
    /\ ws_votes[h].status # "json" => ws_votes[h].rounds = NoRounds
    /\ ws_votes[h].status # "absent" => Selects(flags, h)

SignatureFilesInOrder ==
  \A h \in Height : ws_signatures[h].status # "absent" => Selects(flags, h)

(* The handlers, the memory and the files agree at every moment: this,     *)
(* with the properties themselves, is the inductive invariant.             *)
HandlersConsistent ==
  /\ VoteInHand
  /\ DocumentInHand
  /\ VotesFilesInOrder
  /\ SignaturesInHand
  /\ SignaturesFileInHand
  /\ SignatureFilesInOrder

(***************************************************************************)
(* The archive a reader of result/ relies on, in the sense of VoteArchive. *)
(* While a votes file is open for writing its document is in memory.       *)
(***************************************************************************)
DocumentOf(file) ==
  [ status |-> CASE file.status = "absent" -> "empty"
                 [] file.status = "json"   -> "kept"
                 [] file.status = "torn"   -> "lost",
    rounds |-> file.rounds ]

Archive ==
  [ h \in Height |->
      IF pc = "dumping votes" /\ vote.height = h
      THEN DocumentOf(JsonVotes(state))
      ELSE DocumentOf(ws_votes[h]) ]

VotesArchive == INSTANCE VoteArchive WITH archive <- Archive

(* The monitor implements the archive.                                     *)
ImplementsVoteArchive == VotesArchive!Spec
===============================================================================
