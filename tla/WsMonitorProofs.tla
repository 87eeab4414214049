--------------------------- MODULE WsMonitorProofs ---------------------------
(***************************************************************************)
(* Proofs about WsMonitor: type correctness, the safety of the files under *)
(* kills, restarts and failing writes, and that the votes files implement  *)
(* VoteArchive, for every value of the constants.                          *)
(***************************************************************************)
EXTENDS WsMonitor, PolicyProofs, TLAPS

-------------------------------------------------------------------------------
(* Merging a vote into a document.                                         *)

(* A vote that the handler goes on with has a slot of the document.        *)
LEMMA SlotType ==
  ASSUME NEW m \in Votes
  PROVE  Slot(m) \in Slots /\ m.payload \in Payload /\ m.height \in Height
BY EventAssumption DEF Slot, Slots, VoteType, VoteMsg

(* Merge leaves every other list alone, and lists the vote's event: at the *)
(* end if it is new, where it was if it is not.                            *)
LEMMA MergeExtends ==
  ASSUME NEW rounds \in Rounds, NEW m \in Votes
  PROVE  /\ Merge(rounds, m) \in Rounds
         /\ \A s \in Slots :
              Merge(rounds, m)[s] =
                IF s = Slot(m) /\ m.payload \notin Range(rounds[s])
                THEN Append(rounds[s], m.payload)
                ELSE rounds[s]
<1>1. Slot(m) \in Slots /\ m.payload \in Payload
  BY SlotType
<1>2. rounds[Slot(m)] \in Seq(Payload)
  BY <1>1 DEF Rounds
<1>3. Append(rounds[Slot(m)], m.payload) \in Seq(Payload)
  BY <1>1, <1>2
<1>4. QED
  BY <1>1, <1>2, <1>3 DEF Merge, Rounds

(* The events of a list with one appended.                                 *)
LEMMA RangeOfAppend ==
  ASSUME NEW S, NEW q \in Seq(S), NEW e \in S
  PROVE  Range(Append(q, e)) = Range(q) \cup {e}
<1> DEFINE r == Append(q, e)
<1>1. /\ DOMAIN q = 1 .. Len(q)
      /\ DOMAIN r = 1 .. Len(q) + 1
      /\ Len(q) \in Nat
      /\ \A i \in 1 .. Len(q) : r[i] = q[i]
      /\ r[Len(q) + 1] = e
  OBVIOUS
<1>2. ASSUME NEW x \in Range(r) PROVE x \in Range(q) \cup {e}
  <2>1. PICK i \in 1 .. Len(q) + 1 : x = r[i]
    BY <1>1 DEF Range
  <2>2. CASE i = Len(q) + 1
    BY <1>1, <2>1, <2>2
  <2>3. CASE i \in 1 .. Len(q)
    BY <1>1, <2>1, <2>3 DEF Range
  <2>4. QED
    BY <1>1, <2>2, <2>3
<1>3. ASSUME NEW x \in Range(q) \cup {e} PROVE x \in Range(r)
  <2>1. CASE x = e
    <3>1. Len(q) + 1 \in DOMAIN r
      BY <1>1
    <3>2. QED
      BY <1>1, <2>1, <3>1 DEF Range
  <2>2. CASE x \in Range(q)
    <3>1. PICK i \in 1 .. Len(q) : x = q[i]
      BY <1>1, <2>2 DEF Range
    <3>2. i \in DOMAIN r /\ r[i] = x
      BY <1>1, <3>1
    <3>3. QED
      BY <3>2 DEF Range
  <2>3. QED
    BY <2>1, <2>2
<1>4. QED
  BY <1>2, <1>3

(* Appending an event that is not in the list repeats none.                *)
LEMMA InjectiveAppend ==
  ASSUME NEW S, NEW q \in Seq(S), NEW e \in S, IsInjective(q), e \notin Range(q)
  PROVE  IsInjective(Append(q, e))
<1> DEFINE r == Append(q, e)
<1>1. /\ DOMAIN q = 1 .. Len(q)
      /\ DOMAIN r = 1 .. Len(q) + 1
      /\ Len(q) \in Nat
      /\ \A i \in 1 .. Len(q) : r[i] = q[i] /\ q[i] \in Range(q)
      /\ r[Len(q) + 1] = e
  BY DEF Range
<1>2. ASSUME NEW i \in DOMAIN r, NEW j \in DOMAIN r, r[i] = r[j]
      PROVE  i = j
  <2>1. CASE i \in 1 .. Len(q) /\ j \in 1 .. Len(q)
    BY <1>1, <1>2, <2>1 DEF IsInjective
  <2>2. CASE i = Len(q) + 1 /\ j \in 1 .. Len(q)
    BY <1>1, <1>2, <2>2
  <2>3. CASE i \in 1 .. Len(q) /\ j = Len(q) + 1
    BY <1>1, <1>2, <2>3
  <2>4. CASE i = Len(q) + 1 /\ j = Len(q) + 1
    BY <2>4
  <2>5. QED
    BY <1>1, <2>1, <2>2, <2>3, <2>4
<1>3. QED
  BY <1>2 DEF IsInjective

-------------------------------------------------------------------------------
(* Type correctness.                                                       *)

LEMMA NoRoundsType == NoRounds \in Rounds /\ \A s \in Slots : Range(NoRounds[s]) = {}
BY DEF NoRounds, Rounds, Range

(* A handler under way has the vote, or the document, it works on.         *)
InHand ==
  /\ pc \in Handling => vote \in Votes
  /\ pc \in HandlingBlock => data \in Signatures

TypeInv == TypeOK /\ InHand

LEMMA TypeInit == Init => TypeInv
<1> SUFFICES ASSUME Init PROVE TypeInv
  OBVIOUS
<1>1. ws_votes \in [Height -> VotesFile]
  BY NoRoundsType DEF Init, VotesFile, AbsentVotes
<1>2. ws_signatures \in [Height -> SignaturesFile]
  BY DEF Init, SignaturesFile, AbsentSignatures
<1>3. TypeOK
  BY <1>1, <1>2, NoRoundsType DEF Init, TypeOK, PC
<1>4. InHand
  BY DEF Init, InHand, Handling, HandlingBlock
<1>5. QED
  BY <1>3, <1>4 DEF TypeInv

LEMMA TypeStep == TypeInv /\ [Next]_vars => TypeInv'
<1> SUFFICES ASSUME TypeInv, [Next]_vars PROVE TypeInv'
  OBVIOUS
<1> USE DEF TypeInv, TypeOK, InHand, Handling, HandlingBlock, PC,
            memory, files, history
<1>1. CASE Launch
  BY <1>1 DEF Launch
<1>2. CASE Start
  <2>1. validators' \subseteq Validator
    BY <1>2, RefreshKeepsValidators DEF Start
  <2>2. QED
    BY <1>2, <2>1 DEF Start
<1>3. ASSUME NEW m \in Votes, ReceiveVote(m) PROVE TypeInv'
  BY <1>3 DEF ReceiveVote, Accept
<1>4. ASSUME NEW b \in Blocks, ReceiveBlock(b) PROVE TypeInv'
  <2>1. b.height \in Height /\ b.proposer \in Validator
    BY EventAssumption DEF BlockMsg
  <2>2. SignaturesOf(b) \in Signatures
    BY <2>1 DEF SignaturesOf, Signatures
  <2>3. QED
    BY <1>4, <2>2 DEF ReceiveBlock
<1>5. CASE ReceiveValidatorSetUpdates
  BY <1>5 DEF ReceiveValidatorSetUpdates
<1>6. CASE Refreshed
  <2>1. validators' \subseteq Validator
    BY <1>6, RefreshKeepsValidators DEF Refreshed
  <2>2. QED
    BY <1>6, <2>1 DEF Refreshed, Accept
<1>7. CASE LoadVotes
  <2>1. vote \in Votes /\ vote.height \in Height
    BY <1>7, SlotType DEF LoadVotes
  <2>2. ws_votes[vote.height].rounds \in Rounds
    BY <2>1 DEF VotesFile
  <2>3. Merge(ws_votes[vote.height].rounds, vote) \in Rounds
    BY <2>1, <2>2, MergeExtends
  <2>4. QED
    BY <1>7, <2>1, <2>3 DEF LoadVotes
<1>8. CASE OpenVotes
  <2>1. TornVotes \in VotesFile
    BY NoRoundsType DEF VotesFile, TornVotes
  <2>2. QED
    BY <1>8, <2>1 DEF OpenVotes
<1>9. CASE CloseVotes
  <2>1. JsonVotes(state) \in VotesFile
    BY DEF VotesFile, JsonVotes
  <2>2. QED
    BY <1>9, <2>1, NoRoundsType DEF CloseVotes
<1>10. CASE OpenSignatures
  <2>1. TornSignatures \in SignaturesFile
    BY DEF SignaturesFile, TornSignatures
  <2>2. QED
    BY <1>10, <2>1 DEF OpenSignatures
<1>11. CASE CloseSignatures
  <2>1. JsonSignatures(data) \in SignaturesFile
    BY <1>11 DEF CloseSignatures, SignaturesFile, JsonSignatures
  <2>2. QED
    BY <1>11, <2>1 DEF CloseSignatures
<1>12. CASE WriteFails
  BY <1>12, NoRoundsType DEF WriteFails
<1>13. CASE Kill
  BY <1>13, NoRoundsType DEF Kill
<1>14. CASE UNCHANGED vars
  BY <1>14 DEF vars
<1>15. QED
  BY <1>1, <1>2, <1>3, <1>4, <1>5, <1>6, <1>7, <1>8, <1>9, <1>10, <1>11,
     <1>12, <1>13, <1>14 DEF Next, HandlerStep

(* Every variable keeps its type, whatever events, answers, kills and      *)
(* failing writes occur; and no handler runs without the event it handles, *)
(* without which the type of the files would not be preserved.             *)
THEOREM TypeCorrect == Spec => []TypeOK
<1>1. Spec => []TypeInv
  BY TypeInit, TypeStep, PTL DEF Spec
<1>2. TypeInv => TypeOK
  BY DEF TypeInv
<1>3. QED
  BY <1>1, <1>2, PTL

-------------------------------------------------------------------------------
(* The votes files.                                                        *)

(* What the handler of a vote and the votes files keep true together.      *)
VotesInv ==
  /\ VoteInHand
  /\ DocumentInHand
  /\ VotesFilesInOrder
  /\ SavedVotesWereReceived
  /\ EventsNotRepeated

LEMMA VotesInit == Init => VotesInv
<1> SUFFICES ASSUME Init PROVE VotesInv
  OBVIOUS
<1>1. VoteInHand /\ DocumentInHand
  BY DEF Init, VoteInHand, DocumentInHand, Handling
<1>2. \A h \in Height : ws_votes[h] = AbsentVotes
  BY DEF Init
<1>3. VotesFilesInOrder
  BY <1>2 DEF VotesFilesInOrder, AbsentVotes
<1>4. SavedVotesWereReceived
  BY <1>2, NoRoundsType DEF SavedVotesWereReceived, AbsentVotes
<1>5. EventsNotRepeated
  BY <1>2 DEF EventsNotRepeated, AbsentVotes, NoRounds, IsInjective
<1>6. QED
  BY <1>1, <1>3, <1>4, <1>5 DEF VotesInv

(* What was received once stays received.                                  *)
LEMMA ReceivedStays ==
  ASSUME votes_taken \subseteq votes_taken'
  PROVE  \A h, s, p : Received(h, s, p) => Received(h, s, p)'
BY DEF Received

(* A step that leaves the votes files alone and ends outside the part of a *)
(* handler that holds a document disturbs only what is said of the vote.   *)
LEMMA VotesFrame ==
  ASSUME VotesInv, UNCHANGED ws_votes, votes_taken \subseteq votes_taken',
         pc' \notin {"merged", "dumping votes"},
         pc' = "accepted" => vote' \in votes_taken' /\ Selects(flags, vote'.height),
         pc' \notin {"accepted", "refreshing"} => vote' = None
  PROVE  VotesInv'
<1>1. VoteInHand'
  BY DEF VoteInHand, Handling
<1>2. DocumentInHand'
  BY DEF DocumentInHand
<1>3. VotesFilesInOrder' /\ EventsNotRepeated'
  BY DEF VotesInv, VotesFilesInOrder, EventsNotRepeated
<1>4. SavedVotesWereReceived'
  BY ReceivedStays DEF VotesInv, SavedVotesWereReceived
<1>5. QED
  BY <1>1, <1>2, <1>3, <1>4 DEF VotesInv

(* The extended document lists received events, each once.                 *)
LEMMA MergeKeepsDocument ==
  ASSUME NEW rounds \in Rounds, NEW m \in Votes, m \in votes_taken,
         \A s \in Slots : /\ IsInjective(rounds[s])
                         /\ \A p \in Range(rounds[s]) : Received(m.height, s, p)
  PROVE  \A s \in Slots :
           /\ IsInjective(Merge(rounds, m)[s])
           /\ \A p \in Range(Merge(rounds, m)[s]) : Received(m.height, s, p)
<1> SUFFICES ASSUME NEW s \in Slots
             PROVE  /\ IsInjective(Merge(rounds, m)[s])
                    /\ \A p \in Range(Merge(rounds, m)[s]) : Received(m.height, s, p)
  OBVIOUS
<1>1. CASE s = Slot(m) /\ m.payload \notin Range(rounds[s])
  <2>1. Merge(rounds, m)[s] = Append(rounds[s], m.payload)
    BY <1>1, MergeExtends
  <2>2. rounds[s] \in Seq(Payload) /\ m.payload \in Payload
    BY SlotType DEF Rounds
  <2>3. Received(m.height, s, m.payload)
    BY <1>1 DEF Received
  <2>4. QED
    BY <1>1, <2>1, <2>2, <2>3, RangeOfAppend, InjectiveAppend
<1>2. CASE ~(s = Slot(m) /\ m.payload \notin Range(rounds[s]))
  BY <1>2, MergeExtends
<1>3. QED
  BY <1>1, <1>2

LEMMA VotesStep == TypeInv /\ VotesInv /\ [Next]_vars => VotesInv'
<1> SUFFICES ASSUME TypeInv, VotesInv, [Next]_vars PROVE VotesInv'
  OBVIOUS
<1>0. VoteInHand
  BY DEF VotesInv
<1> USE DEF memory, files, history
<1>1. CASE Launch
  BY <1>0, <1>1, VotesFrame DEF Launch, VoteInHand, Handling
<1>2. CASE Start
  BY <1>0, <1>2, VotesFrame DEF Start, VoteInHand, Handling
<1>3. ASSUME NEW m \in Votes, ReceiveVote(m) PROVE VotesInv'
  BY <1>3, VotesFrame DEF ReceiveVote, Accept
<1>4. ASSUME NEW b \in Blocks, ReceiveBlock(b) PROVE VotesInv'
  BY <1>0, <1>4, VotesFrame DEF ReceiveBlock, VoteInHand, Handling
<1>5. CASE ReceiveValidatorSetUpdates
  BY <1>5, VotesFrame DEF ReceiveValidatorSetUpdates
<1>6. CASE Refreshed
  BY <1>6, VotesFrame DEF Refreshed, Accept
<1>7. CASE LoadVotes
  <2>1. vote \in Votes /\ vote.height \in Height /\ vote \in votes_taken
    BY <1>0, <1>7, SlotType DEF LoadVotes, TypeInv, InHand, Handling, VoteInHand
  <2>2. CASE ws_votes[vote.height].status = "torn"
    BY <1>7, <2>2, VotesFrame DEF LoadVotes
  <2>3. CASE ws_votes[vote.height].status # "torn"
    <3> DEFINE rounds == ws_votes[vote.height].rounds
    <3>1. rounds \in Rounds
      BY <2>1 DEF TypeInv, TypeOK, VotesFile
    <3>2. /\ pc' = "merged"
          /\ state' = Merge(rounds, vote)
          /\ UNCHANGED <<vote, ws_votes, votes_taken>>
      BY <1>7, <2>3 DEF LoadVotes
    <3>3. \A s \in Slots :
            /\ IsInjective(rounds[s])
            /\ \A p \in Range(rounds[s]) : Received(vote.height, s, p)
      BY <2>1 DEF VotesInv, SavedVotesWereReceived, EventsNotRepeated
    <3>4. \A s \in Slots :
            /\ IsInjective(state'[s])
            /\ \A p \in Range(state'[s]) : Received(vote.height, s, p)
      BY <2>1, <3>1, <3>2, <3>3, MergeKeepsDocument
    <3>5. DocumentInHand'
      BY <3>2, <3>4 DEF DocumentInHand, Received
    <3>6. VoteInHand'
      BY <1>0, <1>7, <2>3, <3>2 DEF VoteInHand, Handling, LoadVotes
    <3>7. VotesFilesInOrder' /\ EventsNotRepeated' /\ SavedVotesWereReceived'
      BY <3>2 DEF VotesInv, VotesFilesInOrder, EventsNotRepeated,
                  SavedVotesWereReceived, Received
    <3>8. QED
      BY <3>5, <3>6, <3>7 DEF VotesInv
  <2>4. QED
    BY <2>2, <2>3
<1>8. CASE OpenVotes
  <2>1. vote \in Votes /\ vote.height \in Height /\ Selects(flags, vote.height)
    BY <1>0, <1>8, SlotType DEF OpenVotes, TypeInv, InHand, Handling, VoteInHand
  <2>2. \A h \in Height :
          ws_votes'[h] = IF h = vote.height THEN TornVotes ELSE ws_votes[h]
    BY <1>8 DEF OpenVotes, TypeInv, TypeOK
  <2>3. pc = "merged" /\ pc' = "dumping votes" /\ UNCHANGED <<vote, state, votes_taken>>
    BY <1>8 DEF OpenVotes
  <2>4. VoteInHand'
    <3>1. vote' \in votes_taken' /\ Selects(flags, vote'.height)
      BY <1>0, <2>1, <2>3 DEF VoteInHand, Handling
    <3>2. ws_votes'[vote'.height].status = "torn"
      <4>1. vote' = vote
        BY <2>3
      <4>2. ws_votes'[vote.height] = TornVotes
        BY <2>1, <2>2
      <4>3. QED
        BY <4>1, <4>2 DEF TornVotes
    <3>3. QED
      BY <2>3, <3>1, <3>2 DEF VoteInHand, Handling
  <2>5. DocumentInHand'
    BY <2>3 DEF VotesInv, DocumentInHand, Received
  <2>6. VotesFilesInOrder'
    BY <2>1, <2>2 DEF VotesInv, VotesFilesInOrder, TornVotes
  <2>7. SavedVotesWereReceived'
    <3>1. SUFFICES ASSUME NEW h \in Height, NEW s \in Slots,
                          NEW p \in Range(ws_votes'[h].rounds[s])
                   PROVE  Received(h, s, p)'
      BY DEF SavedVotesWereReceived
    <3>2. h # vote.height
      BY <2>2, <3>1, NoRoundsType DEF TornVotes
    <3>3. Received(h, s, p)
      BY <2>2, <3>2 DEF VotesInv, SavedVotesWereReceived
    <3>4. QED
      BY <2>3, <3>3, ReceivedStays
  <2>8. EventsNotRepeated'
    BY <2>2 DEF VotesInv, EventsNotRepeated, TornVotes, NoRounds, IsInjective
  <2>9. QED
    BY <2>4, <2>5, <2>6, <2>7, <2>8 DEF VotesInv
<1>9. CASE CloseVotes
  <2>1. vote \in Votes /\ vote.height \in Height /\ Selects(flags, vote.height)
    BY <1>0, <1>9, SlotType DEF CloseVotes, TypeInv, InHand, Handling, VoteInHand
  <2>2. \A h \in Height :
          ws_votes'[h] = IF h = vote.height THEN JsonVotes(state) ELSE ws_votes[h]
    BY <1>9 DEF CloseVotes, TypeInv, TypeOK
  <2>3. pc = "dumping votes" /\ pc' = "listening" /\ vote' = None /\ UNCHANGED votes_taken
    BY <1>9 DEF CloseVotes
  <2>4. \A s \in Slots :
          /\ IsInjective(state[s])
          /\ \A p \in Range(state[s]) : Received(vote.height, s, p)
    BY <2>3 DEF VotesInv, DocumentInHand
  <2>5. VoteInHand' /\ DocumentInHand'
    BY <2>3 DEF VoteInHand, DocumentInHand, Handling
  <2>6. VotesFilesInOrder'
    BY <2>1, <2>2 DEF VotesInv, VotesFilesInOrder, JsonVotes
  <2>7. SavedVotesWereReceived'
    <3>1. SUFFICES ASSUME NEW h \in Height, NEW s \in Slots,
                          NEW p \in Range(ws_votes'[h].rounds[s])
                   PROVE  Received(h, s, p)'
      BY DEF SavedVotesWereReceived
    <3>2. Received(h, s, p)
      <4>1. CASE h = vote.height
        BY <2>2, <2>4, <4>1 DEF JsonVotes
      <4>2. CASE h # vote.height
        BY <2>2, <4>2 DEF VotesInv, SavedVotesWereReceived
      <4>3. QED
        BY <4>1, <4>2
    <3>3. QED
      BY <2>3, <3>2, ReceivedStays
  <2>8. EventsNotRepeated'
    BY <2>2, <2>4 DEF VotesInv, EventsNotRepeated, JsonVotes
  <2>9. QED
    BY <2>5, <2>6, <2>7, <2>8 DEF VotesInv
<1>10. CASE OpenSignatures
  BY <1>0, <1>10, VotesFrame DEF OpenSignatures, VoteInHand, Handling
<1>11. CASE CloseSignatures
  BY <1>0, <1>11, VotesFrame DEF CloseSignatures, VoteInHand, Handling
<1>12. CASE WriteFails
  BY <1>12, VotesFrame DEF WriteFails
<1>13. CASE Kill
  BY <1>13, VotesFrame DEF Kill
<1>14. CASE UNCHANGED vars
  <2>1. UNCHANGED <<pc, vote, state, ws_votes, votes_taken>>
    BY <1>14 DEF vars
  <2>2. VoteInHand' /\ VotesFilesInOrder' /\ EventsNotRepeated'
    BY <2>1 DEF VotesInv, VoteInHand, VotesFilesInOrder, EventsNotRepeated
  <2>3. DocumentInHand' /\ SavedVotesWereReceived'
    BY <2>1, ReceivedStays DEF VotesInv, DocumentInHand, SavedVotesWereReceived
  <2>4. QED
    BY <2>2, <2>3 DEF VotesInv
<1>15. QED
  BY <1>1, <1>2, <1>3, <1>4, <1>5, <1>6, <1>7, <1>8, <1>9, <1>10, <1>11,
     <1>12, <1>13, <1>14 DEF Next, HandlerStep

-------------------------------------------------------------------------------
(* The signatures files and the validator set.                             *)

SignaturesInv ==
  /\ SignaturesInHand
  /\ SignaturesFileInHand
  /\ SignatureFilesInOrder
  /\ SignaturesDescribeBlock
  /\ ValidatorsNeverEmptied

LEMMA SignaturesInit == Init => SignaturesInv
<1> SUFFICES ASSUME Init PROVE SignaturesInv
  OBVIOUS
<1>1. \A h \in Height : ws_signatures[h].status = "absent"
  BY DEF Init, AbsentSignatures
<1>2. QED
  BY <1>1 DEF Init, SignaturesInv, SignaturesInHand, SignaturesFileInHand, HandlingBlock,
              SignatureFilesInOrder, SignaturesDescribeBlock, ValidatorsNeverEmptied

(* What describes a received block goes on doing so.                       *)
LEMMA DescribesStays ==
  ASSUME blocks_taken \subseteq blocks_taken'
  PROVE  \A d, h : Describes(d, h) => Describes(d, h)'
BY DEF Describes

(* A step that leaves the signatures files alone and ends outside the      *)
(* handler of a block disturbs only what is said of the validators.        *)
LEMMA SignaturesFrame ==
  ASSUME SignaturesInv, UNCHANGED ws_signatures, blocks_taken \subseteq blocks_taken',
         pc' \notin HandlingBlock,
         pc' \notin {"down", "starting", "exited"} => validators' # {}
  PROVE  SignaturesInv'
<1>1. SignaturesInHand' /\ SignaturesFileInHand' /\ ValidatorsNeverEmptied'
  BY DEF SignaturesInHand, SignaturesFileInHand, HandlingBlock, ValidatorsNeverEmptied
<1>2. SignatureFilesInOrder'
  BY DEF SignaturesInv, SignatureFilesInOrder
<1>3. SignaturesDescribeBlock'
  BY DescribesStays DEF SignaturesInv, SignaturesDescribeBlock
<1>4. QED
  BY <1>1, <1>2, <1>3 DEF SignaturesInv

LEMMA SignaturesStep == TypeInv /\ SignaturesInv /\ [Next]_vars => SignaturesInv'
<1> SUFFICES ASSUME TypeInv, SignaturesInv, [Next]_vars PROVE SignaturesInv'
  OBVIOUS
<1>0. ValidatorsNeverEmptied
  BY DEF SignaturesInv
<1> USE DEF memory, files, history
<1>1. CASE Launch
  BY <1>1, SignaturesFrame DEF Launch, HandlingBlock
<1>2. CASE Start
  BY <1>2, SignaturesFrame DEF Start, HandlingBlock
<1>3. ASSUME NEW m \in Votes, ReceiveVote(m) PROVE SignaturesInv'
  BY <1>0, <1>3, SignaturesFrame
  DEF ReceiveVote, Accept, HandlingBlock, ValidatorsNeverEmptied
<1>4. ASSUME NEW b \in Blocks, ReceiveBlock(b) PROVE SignaturesInv'
  <2>1. /\ pc = "listening" /\ pc' = "block ready"
        /\ data' = SignaturesOf(b)
        /\ blocks_taken' = blocks_taken \cup {b}
        /\ Selects(flags, b.height)
        /\ ws_signatures[b.height].status = "absent"
        /\ UNCHANGED <<validators, ws_signatures>>
    BY <1>4 DEF ReceiveBlock
  <2>2. validators # {}
    BY <1>0, <2>1 DEF ValidatorsNeverEmptied
  <2>3. SignaturesOf(b) \in Signatures
    BY EventAssumption DEF SignaturesOf, Signatures, BlockMsg, TypeInv, TypeOK
  <2>4. /\ data'.height = b.height
        /\ data'.signed = validators \cap b.signers
        /\ data'.missed = validators \ b.signers
    BY <2>1 DEF SignaturesOf
  <2>5. Describes(data, b.height)'
    BY <2>1, <2>2, <2>4 DEF Describes
  <2>6. SignaturesInHand' /\ SignaturesFileInHand'
    BY <2>1, <2>4, <2>5 DEF SignaturesInHand, SignaturesFileInHand
  <2>7. SignatureFilesInOrder'
    BY <2>1 DEF SignaturesInv, SignatureFilesInOrder
  <2>8. SignaturesDescribeBlock'
    BY <2>1, DescribesStays DEF SignaturesInv, SignaturesDescribeBlock
  <2>9. ValidatorsNeverEmptied'
    BY <2>1, <2>2 DEF ValidatorsNeverEmptied
  <2>10. QED
    BY <2>6, <2>7, <2>8, <2>9 DEF SignaturesInv
<1>5. CASE ReceiveValidatorSetUpdates
  BY <1>0, <1>5, SignaturesFrame
  DEF ReceiveValidatorSetUpdates, HandlingBlock, ValidatorsNeverEmptied
<1>6. CASE Refreshed
  <2>1. validators # {}
    BY <1>0, <1>6 DEF Refreshed, ValidatorsNeverEmptied
  <2>2. validators' # {}
    BY <1>6, <2>1, RefreshKeepsValidators DEF Refreshed, TypeInv, TypeOK
  <2>3. QED
    BY <1>6, <2>2, SignaturesFrame DEF Refreshed, Accept, HandlingBlock
<1>7. CASE LoadVotes
  BY <1>0, <1>7, SignaturesFrame DEF LoadVotes, HandlingBlock, ValidatorsNeverEmptied
<1>8. CASE OpenVotes
  BY <1>0, <1>8, SignaturesFrame DEF OpenVotes, HandlingBlock, ValidatorsNeverEmptied
<1>9. CASE CloseVotes
  BY <1>0, <1>9, SignaturesFrame DEF CloseVotes, HandlingBlock, ValidatorsNeverEmptied
<1>10. CASE OpenSignatures
  <2>1. /\ pc = "block ready" /\ pc' = "dumping signatures"
        /\ UNCHANGED <<validators, data, blocks_taken>>
    BY <1>10 DEF OpenSignatures
  <2>2. \A h \in Height :
          ws_signatures'[h] = IF h = data.height THEN TornSignatures ELSE ws_signatures[h]
    BY <1>10 DEF OpenSignatures, TypeInv, TypeOK
  <2>3. Selects(flags, data.height) /\ Describes(data, data.height)
    BY <2>1 DEF SignaturesInv, SignaturesInHand, HandlingBlock
  <2>4. SignaturesInHand' /\ SignaturesFileInHand'
    <3>1. data.height \in Height
      <4>1. data \in Signatures
        BY <2>1 DEF TypeInv, InHand, HandlingBlock
      <4> QED
        BY <4>1 DEF Signatures
    <3>2. SignaturesFileInHand'
      <4>1. ws_signatures'[data.height] = TornSignatures /\ data' = data
        BY <2>1, <2>2, <3>1
      <4>2. ws_signatures'[data'.height].status = "torn"
        BY <4>1 DEF TornSignatures
      <4> QED
        BY <2>1, <4>2 DEF SignaturesFileInHand
    <3> QED
      BY <2>1, <2>3, <3>2, DescribesStays DEF SignaturesInHand
  <2>5. SignatureFilesInOrder'
    BY <2>2, <2>3 DEF SignaturesInv, SignatureFilesInOrder
  <2>6. SignaturesDescribeBlock'
    <3>1. SUFFICES ASSUME NEW h \in Height, ws_signatures'[h].status = "json"
                   PROVE  Describes(ws_signatures[h].data, h)'
      BY DEF SignaturesDescribeBlock
    <3>2. h # data.height /\ ws_signatures'[h] = ws_signatures[h]
      BY <2>2, <3>1 DEF TornSignatures
    <3>3. Describes(ws_signatures[h].data, h)
      BY <3>1, <3>2 DEF SignaturesInv, SignaturesDescribeBlock
    <3>4. QED
      BY <2>1, <3>2, <3>3, DescribesStays
  <2>7. ValidatorsNeverEmptied'
    BY <1>0, <2>1 DEF ValidatorsNeverEmptied
  <2>8. QED
    BY <2>4, <2>5, <2>6, <2>7 DEF SignaturesInv
<1>11. CASE CloseSignatures
  <2>1. /\ pc = "dumping signatures" /\ pc' = "listening"
        /\ UNCHANGED <<validators, blocks_taken>>
    BY <1>11 DEF CloseSignatures
  <2>2. \A h \in Height :
          ws_signatures'[h] = IF h = data.height THEN JsonSignatures(data)
                              ELSE ws_signatures[h]
    BY <1>11 DEF CloseSignatures, TypeInv, TypeOK
  <2>3. Selects(flags, data.height) /\ Describes(data, data.height)
    BY <2>1 DEF SignaturesInv, SignaturesInHand, HandlingBlock
  <2>4. SignaturesInHand' /\ SignaturesFileInHand' /\ ValidatorsNeverEmptied'
    BY <1>0, <2>1 DEF SignaturesInHand, SignaturesFileInHand, HandlingBlock,
                      ValidatorsNeverEmptied
  <2>5. SignatureFilesInOrder'
    BY <2>2, <2>3 DEF SignaturesInv, SignatureFilesInOrder
  <2>6. SignaturesDescribeBlock'
    <3>1. SUFFICES ASSUME NEW h \in Height, ws_signatures'[h].status = "json"
                   PROVE  Describes(ws_signatures[h].data, h)'
      BY DEF SignaturesDescribeBlock
    <3>2. CASE h = data.height
      <4>1. ws_signatures'[h].data = data
        BY <2>2, <3>2 DEF JsonSignatures
      <4>2. QED
        BY <2>1, <2>3, <3>2, <4>1 DEF Describes
    <3>3. CASE h # data.height
      <4>1. ws_signatures'[h] = ws_signatures[h]
        BY <2>2, <3>3
      <4>2. Describes(ws_signatures[h].data, h)
        BY <3>1, <4>1 DEF SignaturesInv, SignaturesDescribeBlock
      <4>3. QED
        BY <2>1, <4>1, <4>2 DEF Describes
    <3>4. QED
      BY <3>2, <3>3
  <2>7. QED
    BY <2>4, <2>5, <2>6 DEF SignaturesInv
<1>12. CASE WriteFails
  BY <1>0, <1>12, SignaturesFrame DEF WriteFails, HandlingBlock, ValidatorsNeverEmptied
<1>13. CASE Kill
  BY <1>13, SignaturesFrame DEF Kill, HandlingBlock
<1>14. CASE UNCHANGED vars
  <2>1. UNCHANGED <<pc, validators, data, ws_signatures, blocks_taken>>
    BY <1>14 DEF vars
  <2>2. SignaturesInHand' /\ SignaturesDescribeBlock'
    BY <2>1, DescribesStays DEF SignaturesInv, SignaturesInHand, SignaturesDescribeBlock
  <2>3. SignaturesFileInHand' /\ SignatureFilesInOrder' /\ ValidatorsNeverEmptied'
    BY <2>1 DEF SignaturesInv, SignaturesFileInHand, SignatureFilesInOrder,
                ValidatorsNeverEmptied
  <2>4. QED
    BY <2>2, <2>3 DEF SignaturesInv
<1>15. QED
  BY <1>1, <1>2, <1>3, <1>4, <1>5, <1>6, <1>7, <1>8, <1>9, <1>10, <1>11,
     <1>12, <1>13, <1>14 DEF Next, HandlerStep

-------------------------------------------------------------------------------
(* The safety theorems.                                                    *)

Inv == TypeInv /\ VotesInv /\ SignaturesInv

LEMMA InvInvariant == Spec => []Inv
<1>1. Init => Inv
  BY TypeInit, VotesInit, SignaturesInit DEF Inv
<1>2. Inv /\ [Next]_vars => Inv'
  BY TypeStep, VotesStep, SignaturesStep DEF Inv
<1>3. QED
  BY <1>1, <1>2, PTL DEF Spec

(* What a handler holds between its steps (the vote, the document, the     *)
(* signatures in hand) agrees with what it has tested and loaded.          *)
THEOREM HandlersStayConsistent == Spec => []HandlersConsistent
<1>1. Inv => HandlersConsistent
  BY DEF Inv, VotesInv, SignaturesInv, HandlersConsistent
<1>2. QED
  BY <1>1, InvInvariant, PTL

(* The votes files hold nothing but what was received for their height,    *)
(* round, type and validator.                                              *)
THEOREM VotesFilesSafe == Spec => []SavedVotesWereReceived
<1>1. Inv => SavedVotesWereReceived
  BY DEF Inv, VotesInv
<1>2. QED
  BY <1>1, InvInvariant, PTL

(* No event is listed twice, over any number of redeliveries and restarts. *)
THEOREM NoEventRepeated == Spec => []EventsNotRepeated
<1>1. Inv => EventsNotRepeated
  BY DEF Inv, VotesInv
<1>2. QED
  BY <1>1, InvInvariant, PTL

(* Every signatures file describes one received block of its own height.   *)
THEOREM SignaturesFilesSafe == Spec => []SignaturesDescribeBlock
<1>1. Inv => SignaturesDescribeBlock
  BY DEF Inv, SignaturesInv
<1>2. QED
  BY <1>1, InvInvariant, PTL

(* A signatures file is written once: a complete one is never touched      *)
(* again, and one cut short is completed by the dump that created it or    *)
(* never, over all restarts and however often its block is announced.      *)
THEOREM SignaturesFilesFinal == Spec => SignaturesWrittenOnce
<1>1. Inv /\ [Next]_vars =>
        [ \A h \in Height :
            \/ ws_signatures'[h] = ws_signatures[h]
            \/ ws_signatures[h].status = "absent"
            \/ /\ ws_signatures[h].status = "torn"
               /\ pc = "dumping signatures" /\ data.height = h
               /\ ws_signatures'[h] = JsonSignatures(data) ]_vars
  <2> SUFFICES ASSUME Inv, Next, NEW h \in Height, ws_signatures'[h] # ws_signatures[h]
               PROVE  \/ ws_signatures[h].status = "absent"
                      \/ /\ ws_signatures[h].status = "torn"
                         /\ pc = "dumping signatures" /\ data.height = h
                         /\ ws_signatures'[h] = JsonSignatures(data)
    OBVIOUS
  <2>1. OpenSignatures \/ CloseSignatures
    BY DEF Next, HandlerStep, Launch, Start, ReceiveVote, ReceiveBlock, Refreshed, LoadVotes,
           ReceiveValidatorSetUpdates, OpenVotes, CloseVotes, WriteFails, Kill, files
  <2>2. ws_signatures \in [Height -> SignaturesFile] /\ SignaturesFileInHand
    BY DEF Inv, TypeInv, TypeOK, SignaturesInv
  <2>3. CASE OpenSignatures
    <3>1. data.height = h /\ pc = "block ready"
      BY <2>2, <2>3 DEF OpenSignatures
    <3> QED
      BY <2>2, <3>1 DEF SignaturesFileInHand
  <2>4. CASE CloseSignatures
    <3>1. /\ data.height = h /\ pc = "dumping signatures"
          /\ ws_signatures'[h] = JsonSignatures(data)
      BY <2>2, <2>4 DEF CloseSignatures
    <3> QED
      BY <2>2, <3>1 DEF SignaturesFileInHand
  <2> QED
    BY <2>1, <2>3, <2>4
<1> QED
  BY <1>1, InvInvariant, PTL DEF Spec, SignaturesWrittenOnce

(* Nothing is written for a height that the command line does not promise. *)
THEOREM PromisedHeightsOnly == Spec => []OnlyPromisedHeightsSaved
<1>1. Inv => OnlyPromisedHeightsSaved
  <2> SUFFICES ASSUME Inv, NEW h \in Height,
                      ws_votes[h].status # "absent" \/ ws_signatures[h].status # "absent"
               PROVE  ~flags.no_save /\ Promised(flags, h)
    BY DEF OnlyPromisedHeightsSaved
  <2>1. Selects(flags, h)
    BY DEF Inv, VotesInv, SignaturesInv, VotesFilesInOrder, SignatureFilesInOrder
  <2>2. QED
    BY <2>1, SelectedIsPromised, HeightAssumption, FlagsAssumption
<1>2. QED
  BY <1>1, InvInvariant, PTL

(* The validator set, once fetched, is never emptied while the process     *)
(* monitors.                                                               *)
THEOREM ValidatorsKept == Spec => []ValidatorsNeverEmptied
<1>1. Inv => ValidatorsNeverEmptied
  BY DEF Inv, SignaturesInv
<1>2. QED
  BY <1>1, InvInvariant, PTL

-------------------------------------------------------------------------------
(* What a dump writes.                                                     *)

(* Merge loses nothing, and the vote's event is in its list.               *)
LEMMA MergeHas ==
  ASSUME NEW rounds \in Rounds, NEW m \in Votes
  PROVE  /\ m.payload \in Range(Merge(rounds, m)[Slot(m)])
         /\ \A s \in Slots : Range(rounds[s]) \subseteq Range(Merge(rounds, m)[s])
<1>1. Slot(m) \in Slots /\ m.payload \in Payload
  BY SlotType
<1>2. \A s \in Slots : rounds[s] \in Seq(Payload)
  BY DEF Rounds
<1>3. ASSUME NEW s \in Slots, s = Slot(m), m.payload \notin Range(rounds[s])
      PROVE  Range(Merge(rounds, m)[s]) = Range(rounds[s]) \cup {m.payload}
  BY <1>1, <1>2, <1>3, MergeExtends, RangeOfAppend
<1>4. ASSUME NEW s \in Slots, ~(s = Slot(m) /\ m.payload \notin Range(rounds[s]))
      PROVE  Merge(rounds, m)[s] = rounds[s]
  BY <1>4, MergeExtends
<1>5. QED
  BY <1>1, <1>3, <1>4

(* The document being written holds the vote it is written for.            *)
VoteInDocument == pc = "dumping votes" => vote.payload \in Range(state[Slot(vote)])

LEMMA VoteInDocumentStep == Inv /\ VoteInDocument /\ [Next]_vars => VoteInDocument'
<1> SUFFICES ASSUME Inv, VoteInDocument, [Next]_vars, pc' = "dumping votes"
             PROVE  vote'.payload \in Range(state'[Slot(vote')])
  BY DEF VoteInDocument
<1>1. OpenVotes \/ UNCHANGED vars
  BY DEF Next, HandlerStep, Launch, Start, ReceiveVote, Accept, ReceiveBlock, Refreshed,
         ReceiveValidatorSetUpdates, LoadVotes, CloseVotes, OpenSignatures, CloseSignatures,
         WriteFails, Kill
<1>2. CASE OpenVotes
  <2>1. vote \in Votes /\ vote.height \in Height
    BY <1>2, SlotType DEF OpenVotes, Inv, TypeInv, InHand, Handling
  <2>2. ws_votes[vote.height].rounds \in Rounds
    BY <2>1 DEF Inv, TypeInv, TypeOK, VotesFile
  <2>3. state = Merge(ws_votes[vote.height].rounds, vote)
    BY <1>2 DEF OpenVotes, Inv, VotesInv, VoteInHand
  <2>4. state' = state /\ vote' = vote
    BY <1>2 DEF OpenVotes, memory
  <2>5. vote.payload \in Range(state[Slot(vote)])
    BY <2>1, <2>2, <2>3, MergeHas
  <2>6. QED
    BY <2>4, <2>5
<1>3. CASE UNCHANGED vars
  BY <1>3 DEF vars, memory, VoteInDocument
<1>4. QED
  BY <1>1, <1>2, <1>3

(* Without faults a file is torn only while it is dumped, and a vote taken *)
(* is in its file, still on its way there, or in the document that is      *)
(* being written over it.                                                  *)
OnlyDumpsTorn ==
  \A h \in Height : ws_votes[h].status = "torn" => pc = "dumping votes" /\ vote.height = h

OnItsWay(m) == pc \in {"accepted", "merged"} /\ m = vote

InDocument(m) ==
  pc = "dumping votes" /\ m.height = vote.height /\ m.payload \in Range(state[Slot(m)])

NoVoteLost == \A m \in votes_taken : InFile(m) \/ OnItsWay(m) \/ InDocument(m)

KeptInv == OnlyDumpsTorn /\ NoVoteLost

LEMMA KeptInit == Init => KeptInv
  BY DEF Init, KeptInv, OnlyDumpsTorn, NoVoteLost, AbsentVotes

(* Steps outside the dump that leave the files alone.                      *)
LEMMA KeptFrame ==
  ASSUME KeptInv, UNCHANGED ws_votes, pc # "dumping votes",
         \A m \in votes_taken' : (m \in votes_taken /\ ~OnItsWay(m)) \/ OnItsWay(m)'
  PROVE  KeptInv'
<1>1. OnlyDumpsTorn'
  BY DEF KeptInv, OnlyDumpsTorn
<1>2. NoVoteLost'
  BY DEF KeptInv, NoVoteLost, InDocument, InFile
<1>3. QED
  BY <1>1, <1>2 DEF KeptInv

LEMMA KeptStep ==
  ASSUME Faults = {}, Inv, KeptInv, [Next]_vars
  PROVE  KeptInv'
<1> USE DEF memory, files, history
<1>0. /\ pc \notin Handling \cup {"refreshing"} => vote = None
      /\ ws_votes \in [Height -> VotesFile]
      /\ \A m \in votes_taken : m \in Votes /\ m.height \in Height /\ Slot(m) \in Slots
  BY SlotType DEF Inv, VotesInv, VoteInHand, TypeInv, TypeOK
<1>1. CASE Launch \/ Start \/ ReceiveValidatorSetUpdates \/ OpenSignatures \/ CloseSignatures
  BY <1>1, KeptFrame DEF Launch, Start, ReceiveValidatorSetUpdates, OpenSignatures,
                         CloseSignatures, OnItsWay
<1>2. ASSUME NEW m \in Votes, ReceiveVote(m) PROVE KeptInv'
  BY <1>2, KeptFrame DEF ReceiveVote, Accept, OnItsWay
<1>3. ASSUME NEW b \in Blocks, ReceiveBlock(b) PROVE KeptInv'
  BY <1>3, KeptFrame DEF ReceiveBlock, OnItsWay
<1>4. CASE Refreshed
  BY <1>4, KeptFrame DEF Refreshed, Accept, OnItsWay
<1>5. CASE LoadVotes
  <2>1. vote.height \in Height
    BY <1>5, SlotType DEF LoadVotes, Inv, TypeInv, InHand, Handling
  <2>2. ws_votes[vote.height].status # "torn"
    BY <1>5, <2>1 DEF LoadVotes, KeptInv, OnlyDumpsTorn
  <2>3. QED
    BY <1>5, <2>2, KeptFrame DEF LoadVotes, OnItsWay
<1>6. CASE OpenVotes
  <2> DEFINE k == vote.height
             r == ws_votes[k].rounds
  <2>1. /\ pc = "merged" /\ pc' = "dumping votes" /\ UNCHANGED <<vote, state, votes_taken>>
        /\ ws_votes' = [ws_votes EXCEPT ![k] = TornVotes]
    BY <1>6 DEF OpenVotes
  <2>2. vote \in Votes /\ k \in Height
    BY <2>1, SlotType DEF Inv, TypeInv, InHand, Handling
  <2>3. state = Merge(r, vote) /\ r \in Rounds
    BY <1>0, <2>1, <2>2 DEF Inv, VotesInv, VoteInHand, VotesFile
  <2>4. \A h \in Height : ws_votes'[h] = IF h = k THEN TornVotes ELSE ws_votes[h]
    BY <1>0, <2>1
  <2>5. OnlyDumpsTorn'
    BY <2>1, <2>4 DEF KeptInv, OnlyDumpsTorn
  <2>6. ASSUME NEW m \in votes_taken PROVE InFile(m)' \/ InDocument(m)'
    <3>1. CASE m = vote
      BY <2>1, <2>2, <2>3, <3>1, MergeHas DEF InDocument
    <3>2. CASE m # vote /\ m.height = k
      <4>1. m.payload \in Range(r[Slot(m)])
        BY <2>1, <3>2 DEF KeptInv, NoVoteLost, OnItsWay, InDocument, InFile
      <4>2. m.payload \in Range(state[Slot(m)])
        BY <1>0, <2>2, <2>3, <4>1, MergeHas
      <4>3. QED
        BY <2>1, <3>2, <4>2 DEF InDocument
    <3>3. CASE m # vote /\ m.height # k
      BY <1>0, <2>1, <2>4, <3>3 DEF KeptInv, NoVoteLost, OnItsWay, InDocument, InFile
    <3>4. QED
      BY <3>1, <3>2, <3>3
  <2>7. QED
    BY <2>1, <2>5, <2>6 DEF KeptInv, NoVoteLost
<1>7. CASE CloseVotes
  <2> DEFINE k == vote.height
             d == JsonVotes(state)
  <2>0. d.status = "json" /\ d.rounds = state
    BY DEF JsonVotes
  <2>1. /\ pc = "dumping votes" /\ pc' = "listening" /\ UNCHANGED votes_taken
        /\ ws_votes' = [ws_votes EXCEPT ![k] = d]
    BY <1>7 DEF CloseVotes
  <2>2. \A h \in Height : ws_votes'[h] = IF h = k THEN d ELSE ws_votes[h]
    BY <1>0, <2>1
  <2> HIDE DEF d
  <2>3. OnlyDumpsTorn'
    BY <2>0, <2>1, <2>2 DEF KeptInv, OnlyDumpsTorn
  <2>4. ASSUME NEW m \in votes_taken PROVE InFile(m)'
    <3>1. InFile(m) \/ InDocument(m)
      BY <2>1 DEF KeptInv, NoVoteLost, OnItsWay
    <3>2. CASE m.height = k
      <4>1. ws_votes[k].status = "torn"
        BY <2>1 DEF Inv, VotesInv, VoteInHand
      <4>2. InDocument(m)
        BY <3>1, <3>2, <4>1 DEF InFile
      <4>3. QED
        BY <1>0, <2>0, <2>2, <3>2, <4>2 DEF InDocument, InFile
    <3>3. CASE m.height # k
      BY <1>0, <2>2, <3>1, <3>3 DEF InDocument, InFile
    <3>4. QED
      BY <3>2, <3>3
  <2>5. QED
    BY <2>1, <2>3, <2>4 DEF KeptInv, NoVoteLost
<1>8. ~WriteFails /\ ~Kill
  BY DEF WriteFails, Kill
<1>9. CASE UNCHANGED vars
  BY <1>9 DEF vars, KeptInv, OnlyDumpsTorn, NoVoteLost, InFile, OnItsWay, InDocument
<1>10. QED
  BY <1>1, <1>2, <1>3, <1>4, <1>5, <1>6, <1>7, <1>8, <1>9 DEF Next, HandlerStep

(* While nothing is killed and no write fails, no vote that was taken is   *)
(* missing when a handler has given control back.                          *)
THEOREM NoTakenVoteLost == ASSUME Faults = {} PROVE Spec => []TakenVotesAreKept
<1>1. KeptInv => TakenVotesAreKept
  BY DEF KeptInv, NoVoteLost, OnItsWay, InDocument, TakenVotesAreKept
<1>2. Inv /\ KeptInv /\ [Next]_vars => KeptInv'
  BY KeptStep
<1>3. QED
  BY <1>1, <1>2, KeptInit, InvInvariant, PTL DEF Spec

-------------------------------------------------------------------------------
(* The votes files implement VoteArchive.                                  *)

(* How each kind of file reads.                                            *)
LEMMA DocumentOfFile ==
  /\ DocumentOf(AbsentVotes) = [status |-> "empty", rounds |-> NoRounds]
  /\ DocumentOf(TornVotes) = [status |-> "lost", rounds |-> NoRounds]
  /\ \A rounds : DocumentOf(JsonVotes(rounds)) = [status |-> "kept", rounds |-> rounds]
BY DEF DocumentOf, AbsentVotes, TornVotes, JsonVotes

(* Outside a dump the archive is what the files hold.                      *)
LEMMA ArchiveIdle ==
  ASSUME pc # "dumping votes"
  PROVE  Archive = [h \in Height |-> DocumentOf(ws_votes[h])]
BY DEF Archive

(* Only the steps that end in a dump, or start from one, change what a     *)
(* reader sees.                                                            *)
LEMMA ArchiveFrame ==
  ASSUME pc # "dumping votes", pc' # "dumping votes", UNCHANGED ws_votes
  PROVE  UNCHANGED Archive
BY DEF Archive, DocumentOf

LEMMA ArchiveInit == Init => VotesArchive!Init
<1> SUFFICES ASSUME Init PROVE VotesArchive!Init
  OBVIOUS
<1>1. Archive = [h \in Height |-> DocumentOf(AbsentVotes)]
  BY ArchiveIdle DEF Init
<1>2. QED
  BY <1>1, DocumentOfFile DEF VotesArchive!Init, VotesArchive!Nothing, NoRounds

(* Opening the file publishes the extended document: it records the vote's *)
(* event if it is new.                                                     *)
LEMMA OpenVotesRecords ==
  ASSUME Inv, OpenVotes
  PROVE  VotesArchive!Next \/ UNCHANGED Archive
<1> DEFINE k == vote.height
           r == ws_votes[k].rounds
<1>1. vote \in Votes /\ k \in Height /\ Slot(vote) \in Slots /\ vote.payload \in Payload
  BY SlotType DEF OpenVotes, Inv, TypeInv, InHand, Handling
<1>2. /\ pc = "merged" /\ pc' = "dumping votes"
      /\ UNCHANGED <<vote, state>>
      /\ ws_votes' = [ws_votes EXCEPT ![k] = TornVotes]
  BY DEF OpenVotes, memory
<1>3. state = Merge(r, vote) /\ ws_votes[k].status # "torn"
  BY <1>2 DEF Inv, VotesInv, VoteInHand
<1>4. ws_votes \in [Height -> VotesFile] /\ r \in Rounds
  BY <1>1 DEF Inv, TypeInv, TypeOK, VotesFile
<1>5. Archive = [h \in Height |-> DocumentOf(ws_votes[h])]
  BY <1>2, ArchiveIdle
<1>6. Archive' = [h \in Height |-> IF h = k THEN [status |-> "kept", rounds |-> state]
                                  ELSE DocumentOf(ws_votes[h])]
  <2>1. vote' = vote /\ state' = state /\ pc' = "dumping votes"
    BY <1>2
  <2>2. \A h \in Height : h # k => ws_votes'[h] = ws_votes[h]
    BY <1>2, <1>4
  <2>3. Archive' = [h \in Height |-> IF h = k THEN DocumentOf(JsonVotes(state))
                                    ELSE DocumentOf(ws_votes'[h])]
    BY <2>1 DEF Archive, DocumentOf, JsonVotes
  <2>4. QED
    BY <2>2, <2>3, DocumentOfFile
<1>7. CASE vote.payload \in Range(r[Slot(vote)])
  <2>1. state = r
    BY <1>3, <1>7 DEF Merge
  <2>2. r # NoRounds
    BY <1>1, <1>7, NoRoundsType
  <2>3. ws_votes[k].status = "json"
    BY <1>1, <2>2 DEF Inv, VotesInv, VotesFilesInOrder
  <2>4. DocumentOf(ws_votes[k]) = [status |-> "kept", rounds |-> r]
    BY <2>3 DEF DocumentOf
  <2>5. QED
    BY <1>5, <1>6, <2>1, <2>4
<1>8. CASE vote.payload \notin Range(r[Slot(vote)])
  <2>1. state = [r EXCEPT ![Slot(vote)] = Append(@, vote.payload)]
    BY <1>3, <1>8 DEF Merge
  <2>2. ws_votes[k].status \in {"absent", "json"}
    BY <1>1, <1>3, <1>4 DEF VotesFile
  <2>3. Archive[k].status # "lost" /\ Archive[k].rounds = r
    BY <1>1, <1>5, <2>2 DEF DocumentOf
  <2>4. Archive' = [Archive EXCEPT ![k] = [status |-> "kept", rounds |-> state]]
    BY <1>1, <1>5, <1>6
  <2>5. VotesArchive!Record(k, Slot(vote), vote.payload)
    BY <1>8, <2>1, <2>3, <2>4 DEF VotesArchive!Record, VotesArchive!Range, Range
  <2>6. QED
    BY <1>1, <2>5 DEF VotesArchive!Next
<1>9. QED
  BY <1>7, <1>8

(* Closing it changes nothing for the reader.                              *)
LEMMA CloseVotesStutters ==
  ASSUME Inv, CloseVotes
  PROVE  UNCHANGED Archive
<1>1. vote.height \in Height
  BY SlotType DEF CloseVotes, Inv, TypeInv, InHand, Handling
<1>2. /\ pc = "dumping votes" /\ pc' = "listening"
      /\ ws_votes' = [ws_votes EXCEPT ![vote.height] = JsonVotes(state)]
  BY DEF CloseVotes
<1>3. ws_votes \in [Height -> VotesFile]
  BY DEF Inv, TypeInv, TypeOK
<1>4. \A h \in Height :
        ws_votes'[h] = IF vote.height = h THEN JsonVotes(state) ELSE ws_votes[h]
  BY <1>2, <1>3
<1>5. Archive' = [h \in Height |-> DocumentOf(ws_votes'[h])]
  BY <1>2 DEF Archive, DocumentOf
<1>6. Archive = [h \in Height |-> DocumentOf(ws_votes'[h])]
  BY <1>2, <1>4 DEF Archive
<1>7. QED
  BY <1>5, <1>6

(* Leaving a dump before its end loses the document.                       *)
LEMMA CutDumpLoses ==
  ASSUME Inv, pc' # "dumping votes", UNCHANGED ws_votes
  PROVE  VotesArchive!Next \/ UNCHANGED Archive
<1>1. CASE pc # "dumping votes"
  BY <1>1, ArchiveFrame
<1>2. CASE pc = "dumping votes"
  <2> DEFINE k == vote.height
  <2>1. k \in Height
    BY <1>2, SlotType DEF Inv, TypeInv, InHand, Handling
  <2>2. ws_votes[k].status = "torn" /\ ws_votes[k].rounds = NoRounds
    BY <1>2, <2>1 DEF Inv, VotesInv, VoteInHand, VotesFilesInOrder
  <2>3. Archive = [h \in Height |-> IF h = k THEN [status |-> "kept", rounds |-> state]
                                   ELSE DocumentOf(ws_votes[h])]
    BY <1>2, DocumentOfFile DEF Archive
  <2>4. Archive' = [h \in Height |-> DocumentOf(ws_votes[h])]
    BY DEF Archive, DocumentOf
  <2>5. DocumentOf(ws_votes[k]) = [status |-> "lost", rounds |-> NoRounds]
    BY <2>2 DEF DocumentOf
  <2>6. Archive' = [Archive EXCEPT ![k] = [status |-> "lost", rounds |-> NoRounds]]
    BY <2>1, <2>3, <2>4, <2>5
  <2>7. VotesArchive!Lose(k)
    BY <2>1, <2>3, <2>6 DEF VotesArchive!Lose, VotesArchive!Nothing, NoRounds
  <2>8. QED
    BY <2>1, <2>7 DEF VotesArchive!Next
<1>3. QED
  BY <1>1, <1>2

LEMMA ArchiveStep == Inv /\ [Next]_vars => [VotesArchive!Next]_Archive
<1> SUFFICES ASSUME Inv, [Next]_vars PROVE VotesArchive!Next \/ UNCHANGED Archive
  OBVIOUS
<1> USE DEF memory, files, history
<1>1. CASE OpenVotes
  BY <1>1, OpenVotesRecords
<1>2. CASE CloseVotes
  BY <1>2, CloseVotesStutters
<1>3. CASE WriteFails \/ Kill
  BY <1>3, CutDumpLoses DEF WriteFails, Kill
<1>4. CASE Launch \/ Start \/ ReceiveValidatorSetUpdates \/ OpenSignatures \/ CloseSignatures
  BY <1>4, ArchiveFrame
  DEF Launch, Start, ReceiveValidatorSetUpdates, OpenSignatures, CloseSignatures
<1>5. CASE LoadVotes
  BY <1>5, ArchiveFrame DEF LoadVotes
<1>6. CASE Refreshed
  BY <1>6, ArchiveFrame DEF Refreshed, Accept
<1>7. ASSUME NEW m \in Votes, ReceiveVote(m) PROVE UNCHANGED Archive
  BY <1>7, ArchiveFrame DEF ReceiveVote, Accept
<1>8. ASSUME NEW b \in Blocks, ReceiveBlock(b) PROVE UNCHANGED Archive
  BY <1>8, ArchiveFrame DEF ReceiveBlock
<1>9. CASE UNCHANGED vars
  BY <1>9 DEF vars, Archive, DocumentOf, JsonVotes
<1>10. QED
  BY <1>1, <1>2, <1>3, <1>4, <1>5, <1>6, <1>7, <1>8, <1>9 DEF Next, HandlerStep

(* The votes files, read with the document of an open file in place of its *)
(* torn text, are an archive: each document grows by one new event at a    *)
(* time or is lost as a whole, and a lost one never comes back.            *)
THEOREM MonitorImplementsArchive == Spec => ImplementsVoteArchive
<1>1. Spec => VotesArchive!Init /\ [][VotesArchive!Next]_Archive
  BY InvInvariant, ArchiveInit, ArchiveStep, PTL DEF Spec
<1>2. QED
  BY <1>1 DEF ImplementsVoteArchive, VotesArchive!Spec

===============================================================================
