----------------------------- MODULE ChainProofs -----------------------------
(* Theorems about ChainMonitor: what the signatures files mean, for any    *)
(* chain, any votes and all faults.                                        *)
EXTENDS ChainMonitor, WsMonitorProofs

-------------------------------------------------------------------------------
(* The chain: two more signing sets are settled than blocks are committed, *)
(* and a commit is made by those that sign.                                *)

ChainTypes ==
  /\ height \in Nat /\ 1 <= height
  /\ signing \in Seq(SUBSET Validator) /\ Len(signing) = height + 1
  /\ proposers \in Seq(Validator) /\ Len(proposers) = height - 1
  /\ commits \in Seq(SUBSET Validator) /\ Len(commits) = height - 1
  /\ \A h \in 1 .. height - 1 : commits[h] \subseteq signing[h]

(* A set of validators that is in memory is one the chain has had.         *)
MemoryOfChain == validators = {} \/ \E k \in 1 .. height + 1 : validators = signing[k]

(* The document is about a committed block whose successor is committed    *)
(* too, and sorts one of the chain's sets by that block's commit.          *)
Explains(d) ==
  /\ d.height \in 1 .. height - 2
  /\ \E k \in 1 .. height + 1 :
       /\ d.signed = signing[k] \cap commits[d.height]
       /\ d.missed = signing[k] \ commits[d.height]
  /\ d.proposer = proposers[d.height + 1]

DocumentsExplain ==
  /\ pc \in HandlingBlock => Explains(data)
  /\ \A h \in Height : Written(h) => Data(h).height = h /\ Explains(Data(h))

ChainInv == ChainTypes /\ MemoryOfChain /\ DocumentsExplain

-------------------------------------------------------------------------------
(* The monitor on a chain is the monitor.                                  *)

LEMMA NewBlockIsBlock ==
  ASSUME ChainTypes, NEW h \in 2 .. height - 1, height <= LastHeight + 1
  PROVE  NewBlock(h) \in Blocks
<1>1. h - 1 \in 1 .. LastHeight /\ h - 1 \in 1 .. height - 1 /\ h \in 1 .. height - 1
  BY ChainAssumption DEF ChainTypes
<1>2. commits[h - 1] \in SUBSET Validator /\ proposers[h] \in Validator
  BY <1>1 DEF ChainTypes
<1> QED
  BY <1>1, <1>2, ChainAssumption DEF NewBlock, BlockMsg

(* The heights of the chain end at LastHeight.                             *)
Ends == height <= LastHeight + 1

LEMMA MonitorStepIsStep ==
  ASSUME ChainTypes, Ends, MonitorStep
  PROVE  Next
<1>1. ASSUME NEW h \in 2 .. height - 1, ReceiveBlock(NewBlock(h)) PROVE Next
  BY <1>1, NewBlockIsBlock DEF Ends, Next
<1> QED
  BY <1>1 DEF MonitorStep, Next, HandlerStep

-------------------------------------------------------------------------------
(* Extending the chain keeps what was said of it.                          *)

LEMMA AppendKeeps ==
  ASSUME NEW S, NEW q \in Seq(S), NEW e \in S
  PROVE  /\ Append(q, e) \in Seq(S)
         /\ Len(q) \in Nat
         /\ Len(Append(q, e)) = Len(q) + 1
         /\ \A i \in 1 .. Len(q) : Append(q, e)[i] = q[i]
         /\ Append(q, e)[Len(q) + 1] = e
  OBVIOUS

LEMMA CommitExtends ==
  ASSUME ChainTypes, Commit
  PROVE  /\ ChainTypes'
         /\ height' = height + 1
         /\ \A k \in 1 .. height + 1 : signing'[k] = signing[k]
         /\ \A h \in 1 .. height - 1 : commits'[h] = commits[h] /\ proposers'[h] = proposers[h]
<1>1. height \in Nat /\ 1 <= height /\ height' = height + 1
  BY DEF ChainTypes, Commit
<1>2. signing[height] \in SUBSET Validator
  BY <1>1 DEF ChainTypes
<1>3. PICK p \in signing[height] : proposers' = Append(proposers, p)
  BY DEF Commit
<1>4. PICK S \in SUBSET signing[height] : commits' = Append(commits, S)
  BY DEF Commit
<1>5. PICK V \in SUBSET Validator : signing' = Append(signing, V)
  BY ChainAssumption DEF Commit
<1>6. /\ signing' \in Seq(SUBSET Validator) /\ Len(signing') = height' + 1
      /\ \A k \in 1 .. height + 1 : signing'[k] = signing[k]
  BY <1>1, <1>5, AppendKeeps DEF ChainTypes
<1>7. p \in Validator /\ S \in SUBSET Validator
  BY <1>2
<1>8. /\ proposers' \in Seq(Validator) /\ Len(proposers') = height' - 1
      /\ \A h \in 1 .. height - 1 : proposers'[h] = proposers[h]
  BY <1>1, <1>3, <1>7, AppendKeeps DEF ChainTypes
<1>9. /\ commits' \in Seq(SUBSET Validator) /\ Len(commits') = height' - 1
      /\ \A h \in 1 .. height - 1 : commits'[h] = commits[h]
      /\ commits'[height] = S
  BY <1>1, <1>4, <1>7, AppendKeeps DEF ChainTypes
<1>10. \A h \in 1 .. height' - 1 : commits'[h] \subseteq signing'[h]
  <2>1. commits'[height] \subseteq signing'[height]
    BY <1>1, <1>4, <1>6, <1>9
  <2>2. ASSUME NEW h \in 1 .. height - 1 PROVE commits'[h] \subseteq signing'[h]
    <3>1. h \in 1 .. height + 1
      BY <1>1
    <3>2. commits[h] \subseteq signing[h]
      BY DEF ChainTypes
    <3>3. commits'[h] = commits[h] /\ signing'[h] = signing[h]
      BY <1>6, <1>9, <3>1
    <3> QED
      BY <3>2, <3>3
  <2> QED
    BY <1>1, <2>1, <2>2
<1> QED
  BY <1>1, <1>6, <1>8, <1>9, <1>10 DEF ChainTypes

LEMMA CommitKeepsExplained ==
  ASSUME ChainTypes, Commit, NEW d, Explains(d)
  PROVE  /\ d.height \in 1 .. height' - 2
         /\ \E k \in 1 .. height' + 1 :
              /\ d.signed = signing'[k] \cap commits'[d.height]
              /\ d.missed = signing'[k] \ commits'[d.height]
         /\ d.proposer = proposers'[d.height + 1]
<1>1. /\ height \in Nat /\ height' = height + 1
      /\ d.height \in 1 .. height - 2
      /\ d.height \in 1 .. height - 1 /\ d.height + 1 \in 1 .. height - 1
  BY CommitExtends DEF ChainTypes, Explains
<1>2. commits'[d.height] = commits[d.height] /\ proposers'[d.height + 1] = proposers[d.height + 1]
  BY <1>1, CommitExtends
<1>3. PICK k \in 1 .. height + 1 : /\ d.signed = signing[k] \cap commits[d.height]
                                   /\ d.missed = signing[k] \ commits[d.height]
  BY DEF Explains
<1>4. k \in 1 .. height' + 1 /\ signing'[k] = signing[k]
  BY <1>1, CommitExtends
<1> QED
  BY <1>1, <1>2, <1>3, <1>4 DEF Explains

-------------------------------------------------------------------------------
(* The invariant.                                                          *)

LEMMA ChainInitInv == ChainInit => ChainInv /\ Ends
<1> SUFFICES ASSUME ChainInit PROVE ChainInv /\ Ends
  OBVIOUS
<1>1. PICK V \in SUBSET Validator : signing = [h \in 1 .. 2 |-> V]
  BY ChainAssumption DEF ChainInit
<1>2. signing \in Seq(SUBSET Validator) /\ Len(signing) = 2
  BY <1>1
<1>3. height = 1 /\ proposers = << >> /\ commits = << >>
  BY DEF ChainInit
<1>4. ChainTypes
  BY <1>2, <1>3 DEF ChainTypes
<1>5. MemoryOfChain /\ DocumentsExplain
  BY DEF ChainInit, Init, MemoryOfChain, DocumentsExplain, HandlingBlock, Written,
         AbsentSignatures
<1>6. Ends
  BY <1>3, ChainAssumption DEF Ends
<1> QED
  BY <1>4, <1>5, <1>6 DEF ChainInv

LEMMA CommitStep ==
  ASSUME ChainInv, Commit
  PROVE  ChainInv' /\ Ends'
<1> USE DEF ChainInv
<1>1. UNCHANGED vars /\ height <= LastHeight /\ height' = height + 1
  BY DEF Commit
<1>2. UNCHANGED <<pc, validators, data, ws_signatures>>
  BY <1>1 DEF vars, memory, files
<1>3. Ends'
  BY <1>1, ChainAssumption DEF Ends, ChainTypes
<1>4. MemoryOfChain'
  <2>1. CASE validators = {}
    BY <1>2, <2>1 DEF MemoryOfChain
  <2>2. CASE \E k \in 1 .. height + 1 : validators = signing[k]
    <3>1. PICK k \in 1 .. height + 1 : validators = signing[k]
      BY <2>2
    <3>2. k \in 1 .. height' + 1 /\ signing'[k] = signing[k]
      BY <1>1, CommitExtends DEF ChainTypes
    <3> QED
      BY <1>2, <3>1, <3>2 DEF MemoryOfChain
  <2> QED
    BY <2>1, <2>2 DEF MemoryOfChain
<1>5. ASSUME NEW d, Explains(d)
      PROVE  /\ d.height \in 1 .. height' - 2
             /\ \E k \in 1 .. height' + 1 :
                  /\ d.signed = signing'[k] \cap commits'[d.height]
                  /\ d.missed = signing'[k] \ commits'[d.height]
             /\ d.proposer = proposers'[d.height + 1]
  BY <1>5, CommitKeepsExplained
<1>6. pc' \in HandlingBlock => Explains(data)'
  BY <1>2, <1>5 DEF DocumentsExplain, Explains
<1>7. \A h \in Height : Written(h)' => Data(h)'.height = h /\ Explains(Data(h))'
  BY <1>2, <1>5 DEF DocumentsExplain, Written, Data, Explains
<1> QED
  BY <1>3, <1>4, <1>6, <1>7, CommitExtends DEF DocumentsExplain

(* A step of the monitor: an answer is a set of the chain, a document made *)
(* from a NewBlock event is explained, and one that is written has been.   *)
LEMMA MonitorKeepsChain ==
  ASSUME ChainInv, Inv, MonitorStep, UNCHANGED chainVars
  PROVE  ChainInv'
<1> USE DEF ChainInv, memory, files, history
<1>1. UNCHANGED <<height, signing, proposers, commits>>
  BY DEF chainVars
<1>2. \A d : Explains(d)' <=> Explains(d)
  BY <1>1 DEF Explains
<1>3. ChainTypes'
  BY <1>1 DEF ChainTypes
<1>4. ws_signatures \in [Height -> SignaturesFile] /\ validators \subseteq Validator
  BY DEF Inv, TypeInv, TypeOK
<1>5. ASSUME validators' = validators PROVE MemoryOfChain'
  BY <1>1, <1>5 DEF MemoryOfChain
<1>6. ASSUME pc' \notin HandlingBlock, UNCHANGED ws_signatures PROVE DocumentsExplain'
  BY <1>1, <1>6 DEF DocumentsExplain, Written, Data, Explains
<1>7. ASSUME Answered PROVE MemoryOfChain'
  <2>1. height + 1 \in 1 .. height + 1
    BY DEF ChainTypes
  <2> QED
    BY <1>1, <1>5, <1>7, <2>1 DEF Answered, bonded, MemoryOfChain
<1>8. CASE Launch \/ ReceiveValidatorSetUpdates \/ LoadVotes \/ OpenVotes \/ CloseVotes
           \/ WriteFails
  BY <1>3, <1>5, <1>6, <1>8 DEF Launch, ReceiveValidatorSetUpdates, LoadVotes, OpenVotes,
                                CloseVotes, WriteFails, HandlingBlock
<1>9. CASE (Start \/ Refreshed) /\ Answered
  BY <1>3, <1>6, <1>7, <1>9 DEF Start, Refreshed, Accept, HandlingBlock
<1>10. ASSUME NEW m \in Votes, ReceiveVote(m) PROVE ChainInv'
  BY <1>3, <1>5, <1>6, <1>10 DEF ReceiveVote, Accept, HandlingBlock
<1>11. CASE Kill
  <2>1. MemoryOfChain'
    BY <1>11 DEF Kill, MemoryOfChain
  <2> QED
    BY <1>3, <1>6, <1>11, <2>1 DEF Kill, HandlingBlock
<1>12. ASSUME NEW h \in 2 .. height - 1, ReceiveBlock(NewBlock(h)) PROVE ChainInv'
  <2>1. /\ data' = SignaturesOf(NewBlock(h)) /\ pc = "listening"
        /\ UNCHANGED <<validators, ws_signatures>>
    BY <1>12 DEF ReceiveBlock
  <2>2. validators # {}
    BY <2>1 DEF Inv, SignaturesInv, ValidatorsNeverEmptied
  <2>3. PICK k \in 1 .. height + 1 : validators = signing[k]
    BY <2>2 DEF MemoryOfChain
  <2>4. /\ data'.height = h - 1
        /\ data'.signed = signing[k] \cap commits[h - 1]
        /\ data'.missed = signing[k] \ commits[h - 1]
        /\ data'.proposer = proposers[h]
    BY <2>1, <2>3 DEF SignaturesOf, NewBlock
  <2>5. h - 1 \in 1 .. height - 2 /\ (h - 1) + 1 = h
    BY DEF ChainTypes
  <2>6. Explains(data)'
    BY <1>1, <2>4, <2>5 DEF Explains
  <2>7. DocumentsExplain'
    BY <1>1, <2>1, <2>6 DEF DocumentsExplain, Written, Data, Explains
  <2> QED
    BY <1>3, <1>5, <2>1, <2>7
<1>13. CASE OpenSignatures
  <2>1. /\ pc = "block ready" /\ pc' = "dumping signatures" /\ UNCHANGED <<validators, data>>
        /\ ws_signatures' = [ws_signatures EXCEPT ![data.height] = TornSignatures]
    BY <1>13 DEF OpenSignatures
  <2>2. Explains(data)
    BY <2>1 DEF DocumentsExplain, HandlingBlock
  <2>3. \A h \in Height : Written(h)' => ws_signatures'[h] = ws_signatures[h]
    BY <1>4, <2>1 DEF Written, TornSignatures
  <2>4. \A h \in Height : Written(h)' => Data(h)'.height = h /\ Explains(Data(h)')
    BY <2>3 DEF DocumentsExplain, Written, Data
  <2>5. DocumentsExplain'
    BY <1>1, <2>1, <2>2, <2>4 DEF DocumentsExplain, Explains
  <2> QED
    BY <1>3, <1>5, <2>1, <2>5
<1>14. CASE CloseSignatures
  <2>1. /\ pc = "dumping signatures" /\ pc' = "listening" /\ UNCHANGED <<validators>>
        /\ ws_signatures' = [ws_signatures EXCEPT ![data.height] = JsonSignatures(data)]
    BY <1>14 DEF CloseSignatures
  <2>2. Explains(data)
    BY <2>1 DEF DocumentsExplain, HandlingBlock
  <2>3. \A h \in Height : h # data.height => ws_signatures'[h] = ws_signatures[h]
    BY <1>4, <2>1
  <2>4. \A h \in Height : h = data.height => ws_signatures'[h].data = data
    BY <1>4, <2>1 DEF JsonSignatures
  <2>5. \A h \in Height : Written(h)' => Data(h)'.height = h /\ Explains(Data(h)')
    BY <2>2, <2>3, <2>4 DEF DocumentsExplain, Written, Data
  <2>6. DocumentsExplain'
    BY <1>1, <2>1, <2>5 DEF DocumentsExplain, HandlingBlock, Explains
  <2> QED
    BY <1>3, <1>5, <2>1, <2>6
<1> QED
  BY <1>8, <1>9, <1>10, <1>11, <1>12, <1>13, <1>14 DEF MonitorStep

(* On the chain the monitor's own invariant holds as well.                 *)
AllInv == ChainInv /\ Ends /\ Inv

LEMMA AllInvariant == ChainSpec => []AllInv
<1>1. ChainInit => AllInv
  <2>1. Init => Inv
    BY TypeInit, VotesInit, SignaturesInit DEF Inv
  <2> QED
    BY <2>1, ChainInitInv DEF AllInv, ChainInit
<1>2. AllInv /\ [ChainNext]_allVars => AllInv'
  <2> SUFFICES ASSUME AllInv, [ChainNext]_allVars PROVE AllInv'
    OBVIOUS
  <2>1. [Next]_vars => Inv'
    BY TypeStep, VotesStep, SignaturesStep DEF AllInv, Inv
  <2>2. CASE Commit
    BY <2>1, <2>2, CommitStep DEF AllInv, Commit
  <2>3. CASE MonitorStep /\ UNCHANGED chainVars
    <3>1. Next
      BY <2>3, MonitorStepIsStep DEF AllInv, ChainInv
    <3>2. Ends'
      BY <2>3 DEF AllInv, Ends, chainVars
    <3> QED
      BY <2>1, <2>3, <3>1, <3>2, MonitorKeepsChain DEF AllInv
  <2>4. CASE UNCHANGED allVars
    <3>1. UNCHANGED vars /\ UNCHANGED chainVars
      BY <2>4 DEF allVars
    <3>2. UNCHANGED <<pc, validators, data, ws_signatures>>
      BY <3>1 DEF vars, memory, files
    <3>3. ChainTypes' /\ Ends' /\ MemoryOfChain'
      BY <3>1, <3>2 DEF AllInv, ChainInv, ChainTypes, Ends, MemoryOfChain, chainVars
    <3>4. DocumentsExplain'
      BY <3>1, <3>2 DEF AllInv, ChainInv, DocumentsExplain, Written, Data, Explains, chainVars
    <3> QED
      BY <2>1, <3>1, <3>3, <3>4 DEF AllInv, ChainInv
  <2> QED
    BY <2>2, <2>3, <2>4 DEF ChainNext
<1> QED
  BY <1>1, <1>2, PTL DEF ChainSpec

-------------------------------------------------------------------------------
(* The refinement.                                                         *)

(* A monitor on a chain is a monitor: an event of a chain is one of those  *)
(* that WsMonitor takes in any order, and a committed block changes none   *)
(* of its variables.  What is proved of WsMonitor holds here.              *)
THEOREM ChainIsMonitor == ChainSpec => Spec
<1>1. ChainInit => Init
  BY DEF ChainInit
<1>2. AllInv /\ [ChainNext]_allVars => [Next]_vars
  <2>1. UNCHANGED allVars => UNCHANGED vars
    BY DEF allVars
  <2>2. Commit => UNCHANGED vars
    BY DEF Commit
  <2> QED
    BY <2>1, <2>2, MonitorStepIsStep DEF AllInv, ChainInv, ChainNext
<1> QED
  BY <1>1, <1>2, AllInvariant, PTL DEF ChainSpec, Spec

(* On a chain, too, the votes files are an archive whose documents grow    *)
(* until they are lost as a whole.                                         *)
THEOREM ChainImplementsArchive == ChainSpec => ImplementsVoteArchive
  BY ChainIsMonitor, MonitorImplementsArchive, PTL

-------------------------------------------------------------------------------
(* What the signatures files mean.                                         *)

(* No one is listed as signed who is not in the commit of that height, and *)
(* no one as missed who is.                                                *)
THEOREM CommitsAreOfTheirHeight == ChainSpec => []CommitOfItsHeight
<1>1. AllInv => CommitOfItsHeight
  <2> SUFFICES ASSUME AllInv, NEW h \in Height, Written(h)
               PROVE  /\ h < height
                      /\ Data(h).signed \subseteq commits[h]
                      /\ Data(h).missed \cap commits[h] = {}
    BY DEF CommitOfItsHeight
  <2>1. Data(h).height = h /\ Explains(Data(h))
    BY DEF AllInv, ChainInv, DocumentsExplain
  <2>2. h < height
    BY <2>1 DEF Explains, AllInv, ChainInv, ChainTypes
  <2> QED
    BY <2>1, <2>2 DEF Explains
<1> QED
  BY <1>1, AllInvariant, PTL

(* Signed and missed together are one set that the chain has had.          *)
THEOREM NoMixtureOfSets == ChainSpec => []OneValidatorSet
<1>1. AllInv => OneValidatorSet
  <2> SUFFICES ASSUME AllInv, NEW h \in Height, Written(h)
               PROVE  \E k \in DOMAIN signing : Data(h).signed \cup Data(h).missed = signing[k]
    BY DEF OneValidatorSet
  <2>1. PICK k \in 1 .. height + 1 : /\ Data(h).signed = signing[k] \cap commits[Data(h).height]
                                     /\ Data(h).missed = signing[k] \ commits[Data(h).height]
    BY DEF AllInv, ChainInv, DocumentsExplain, Explains
  <2>2. k \in DOMAIN signing
    BY DEF AllInv, ChainInv, ChainTypes
  <2> QED
    BY <2>1, <2>2
<1> QED
  BY <1>1, AllInvariant, PTL

(* The proposer in the file of height h is the one of block h + 1.         *)
THEOREM ProposerOfNextBlock == ChainSpec => []ProposerIsOfNextBlock
<1>1. AllInv => ProposerIsOfNextBlock
  BY DEF AllInv, ChainInv, DocumentsExplain, Explains, ProposerIsOfNextBlock
<1> QED
  BY <1>1, AllInvariant, PTL

(* While the validator set has not changed, a file lists exactly those who *)
(* signed and those who should have.                                       *)
THEOREM ExactWhileUnchanged == ChainSpec => []SignaturesExact
<1>1. AllInv => SignaturesExact
  <2> SUFFICES ASSUME AllInv, Unchanged, NEW h \in Height, Written(h)
               PROVE  Data(h).signed = commits[h] /\ Data(h).missed = signing[h] \ commits[h]
    BY DEF SignaturesExact
  <2>1. /\ Data(h).height = h /\ h \in 1 .. height - 2
        /\ \E k \in 1 .. height + 1 : /\ Data(h).signed = signing[k] \cap commits[h]
                                      /\ Data(h).missed = signing[k] \ commits[h]
    BY DEF AllInv, ChainInv, DocumentsExplain, Explains
  <2>2. PICK k \in 1 .. height + 1 : /\ Data(h).signed = signing[k] \cap commits[h]
                                     /\ Data(h).missed = signing[k] \ commits[h]
    BY <2>1
  <2>3. /\ DOMAIN signing = 1 .. height + 1 /\ h \in 1 .. height + 1 /\ h \in 1 .. height - 1
        /\ commits[h] \subseteq signing[h]
    BY <2>1 DEF AllInv, ChainInv, ChainTypes
  <2>4. signing[k] = signing[h]
    BY <2>3 DEF Unchanged
  <2> QED
    BY <2>2, <2>3, <2>4
<1> QED
  BY <1>1, AllInvariant, PTL

-------------------------------------------------------------------------------
(* Votes of an unchanged set.                                              *)

(* The vote in hand is by a validator that signs its height.               *)
VoteOfChain == vote # None => vote.height \in 1 .. height /\ vote.validator \in signing[vote.height]

LEMMA VoteOfChainStep == AllInv /\ VoteOfChain /\ [ChainNext]_allVars => VoteOfChain'
<1> SUFFICES ASSUME AllInv, VoteOfChain, [ChainNext]_allVars PROVE VoteOfChain'
  OBVIOUS
<1>1. CASE Commit
  <2>1. /\ UNCHANGED vote /\ height \in Nat /\ height' = height + 1
        /\ \A k \in 1 .. height + 1 : signing'[k] = signing[k]
    BY <1>1, CommitExtends DEF AllInv, ChainInv, ChainTypes, Commit, vars, memory
  <2> QED
    BY <2>1 DEF VoteOfChain
<1>2. CASE MonitorStep /\ UNCHANGED chainVars
  <2>1. ASSUME NEW m \in Votes, m.height <= height, m.validator \in signing[m.height],
               ReceiveVote(m)
        PROVE  VoteOfChain'
    <3>1. m.height \in 1 .. height
      BY <2>1, SlotType, ChainAssumption DEF AllInv, ChainInv, ChainTypes
    <3>2. vote' \in {m, None}
      BY <2>1 DEF ReceiveVote, Accept
    <3> QED
      BY <1>2, <2>1, <3>1, <3>2 DEF VoteOfChain, chainVars
  <2>2. (\E m \in Votes : m.height <= height /\ m.validator \in signing[m.height] /\ ReceiveVote(m))
        \/ vote' \in {vote, None}
    BY <1>2 DEF MonitorStep, Launch, Start, Refreshed, Accept, ReceiveBlock, LoadVotes, OpenVotes,
            ReceiveValidatorSetUpdates, CloseVotes, OpenSignatures, CloseSignatures, WriteFails,
            Kill, memory
  <2> QED
    BY <1>2, <2>1, <2>2 DEF VoteOfChain, chainVars
<1>3. CASE UNCHANGED allVars
  BY <1>3 DEF allVars, vars, memory, chainVars, VoteOfChain
<1> QED
  BY <1>1, <1>2, <1>3 DEF ChainNext

(* A vote that is in hand when its handler gives control back was dropped  *)
(* after a refresh, found a torn file, was cut off by a failing write, or  *)
(* has been written.                                                       *)
LEMMA WaysBack ==
  ASSUME AllInv, NEW m \in Votes, vote = m, pc' = "listening", ChainNext
  PROVE  \/ Refreshed /\ UNCHANGED chainVars
         \/ LoadVotes
         \/ CloseVotes
         \/ WriteFails
<1>1. vote # None
  BY EventAssumption
<1>2. pc \in Handling \cup {"refreshing"}
  BY <1>1 DEF AllInv, Inv, VotesInv, VoteInHand
<1>3. ~Commit
  <2>1. Commit => UNCHANGED pc
    BY DEF Commit, vars
  <2> QED
    BY <1>2, <2>1 DEF Handling
<1> QED
  BY <1>2, <1>3 DEF ChainNext, MonitorStep, Launch, Start, ReceiveVote, ReceiveBlock, OpenVotes,
         ReceiveValidatorSetUpdates, OpenSignatures, CloseSignatures, Kill, Handling

(* As long as the validator set has not changed, the vote of a promised    *)
(* height by a validator that signs it is in the file when its handler     *)
(* gives control back, unless that write fails or an earlier one was cut   *)
(* short.                                                                  *)
THEOREM UnchangedSetIsSaved == ChainSpec => VotesOfUnchangedSetAreSaved
<1> DEFINE J == AllInv /\ VoteOfChain /\ VoteInDocument
<1>1. ChainInit => VoteOfChain /\ VoteInDocument
  BY DEF ChainInit, Init, VoteOfChain, VoteInDocument
<1>2. ASSUME J, J', [ChainNext]_allVars, NEW m \in Votes, Unchanged, ~WriteFails,
             ws_votes[m.height].status = "torn" => pc = "dumping votes",
             vote = m, Selects(flags, m.height), pc' = "listening", ChainNext
      PROVE  InFile(m)'
  <2>1. m.height \in Height /\ vote # None
    BY <1>2, SlotType, EventAssumption
  <2>2. ~(Refreshed /\ UNCHANGED chainVars)
    <3> SUFFICES ASSUME Refreshed, UNCHANGED chainVars PROVE FALSE
      OBVIOUS
    <3>1. Unchanged' /\ UNCHANGED <<height, signing>>
      BY <1>2 DEF Unchanged, chainVars
    <3>2. m.height \in 1 .. height' /\ m.validator \in signing'[m.height]
      BY <1>2, <2>1, <3>1 DEF VoteOfChain
    <3>3. validators' = signing'[m.height]
      <4>1. validators' # {}
        BY <1>2 DEF AllInv, Inv, SignaturesInv, ValidatorsNeverEmptied
      <4>2. PICK k \in 1 .. height' + 1 : validators' = signing'[k]
        BY <1>2, <4>1 DEF AllInv, ChainInv, MemoryOfChain
      <4>3. DOMAIN signing' = 1 .. height' + 1 /\ m.height \in 1 .. height' + 1
        <5>1. height' \in Nat /\ signing' \in Seq(SUBSET Validator) /\ Len(signing') = height' + 1
          BY <1>2 DEF AllInv, ChainInv, ChainTypes
        <5>2. DOMAIN signing' = 1 .. height' + 1
          BY <5>1
        <5>3. m.height \in 1 .. height' + 1
          BY <3>2, <5>1
        <5> QED
          BY <5>2, <5>3
      <4>4. k \in DOMAIN signing' /\ m.height \in DOMAIN signing'
        BY <4>2, <4>3
      <4>5. \A i \in DOMAIN signing' : signing'[i] = signing'[1]
        BY <3>1 DEF Unchanged
      <4> QED
        BY <4>2, <4>4, <4>5
    <3>4. Accept(m)
      BY <1>2, <2>1, <3>2, <3>3 DEF Refreshed
    <3> QED
      BY <1>2, <3>4 DEF Accept
  <2>3. ~LoadVotes
    BY <1>2 DEF LoadVotes
  <2>4. CloseVotes
    BY <1>2, <2>2, <2>3, WaysBack
  <2>5. pc = "dumping votes" /\ ws_votes' = [ws_votes EXCEPT ![m.height] = JsonVotes(state)]
    BY <1>2, <2>4 DEF CloseVotes
  <2>6. ws_votes'[m.height] = JsonVotes(state)
    <3>1. DOMAIN ws_votes = Height
      BY <1>2 DEF AllInv, Inv, TypeInv, TypeOK
    <3> QED
      BY <2>1, <2>5, <3>1
  <2>7. m.payload \in Range(state[Slot(m)])
    BY <1>2, <2>5 DEF VoteInDocument
  <2> QED
    BY <2>6, <2>7 DEF InFile, JsonVotes
<1>3. AllInv /\ VoteInDocument /\ [ChainNext]_allVars => VoteInDocument'
  <2> SUFFICES ASSUME AllInv, VoteInDocument, [ChainNext]_allVars PROVE VoteInDocument'
    OBVIOUS
  <2>1. [Next]_vars
    BY MonitorStepIsStep DEF AllInv, ChainInv, ChainNext, Commit, allVars
  <2> QED
    BY <2>1, VoteInDocumentStep DEF AllInv
<1>4. J /\ J' /\ [ChainNext]_allVars =>
        [ \A m \in Votes :
            ( /\ Unchanged
              /\ ~WriteFails
              /\ ws_votes[m.height].status = "torn" => pc = "dumping votes" )
            => Saved(m) ]_allVars
  <2> SUFFICES ASSUME J, J', ChainNext, NEW m \in Votes, Unchanged, ~WriteFails,
                      ws_votes[m.height].status = "torn" => pc = "dumping votes"
               PROVE  Saved(m)
    OBVIOUS
  <2>1. MustSave(flags, m.height) => Selects(flags, m.height)
    <3>1. m.height \in Nat
      BY SlotType, HeightAssumption
    <3> QED
      BY <3>1, SelectsWhatIsPromised, FlagsAssumption
  <2> QED
    BY <1>2, <2>1 DEF Saved
<1> QED
  BY <1>1, <1>3, <1>4, AllInvariant, VoteOfChainStep, PTL
     DEF ChainSpec, VotesOfUnchangedSetAreSaved
===============================================================================
