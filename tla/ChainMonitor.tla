----------------------------- MODULE ChainMonitor -----------------------------
(***************************************************************************)
(* The websocket monitor on a chain: WsMonitor takes any vote and any      *)
(* block; here they come from a CometBFT chain with a staking module, the  *)
(* part of the world outside the program, with the three delays that the   *)
(* program has to live with:                                               *)
(*                                                                         *)
(*    the commit of block h travels in block h + 1;                        *)
(*    a change of the bonded set at block h is a change of the set that    *)
(*    signs from block h + 2 on;                                           *)
(*    the staking query answers with the bonded set of the last block.     *)
(*                                                                         *)
(* Events reach the monitor in any order, late and repeatedly.             *)
(***************************************************************************)
EXTENDS WsMonitor

CONSTANTS
  LastHeight,    \* bound: the last height of the chain
  BondedSets,    \* bonded sets that occur
  Reliable       \* whether every request for the validators is answered

ASSUME ChainAssumption ==
  /\ LastHeight \in Nat
  /\ Height = 1 .. LastHeight
  /\ BondedSets \subseteq (SUBSET Validator) \ {{}}
  /\ Blocks = BlockMsg
  /\ Reliable \in BOOLEAN

VARIABLES
  height,     \* the height in consensus: the blocks below it are committed
  signing,    \* the validators that sign each height, as far as it is settled
  proposers,  \* who proposed each committed block
  commits     \* who is in the commit of each committed block

chainVars == <<height, signing, proposers, commits>>
allVars == <<vars, chainVars>>

(* The bonded set of the last committed block signs from two blocks later. *)
bonded == signing[height + 1]

ChainInit ==
  /\ Init
  /\ height = 1
  /\ \E V \in BondedSets : signing = [h \in 1 .. 2 |-> V]
  /\ proposers = << >>
  /\ commits = << >>

(* Block `height' is committed, and changes the bonded set or does not.    *)
(* Any group of its validators may hold two thirds of the voting power.    *)
Commit ==
  /\ height <= LastHeight
  /\ height' = height + 1
  /\ \E p \in signing[height] : proposers' = Append(proposers, p)
  /\ \E S \in (SUBSET signing[height]) \ {{}} : commits' = Append(commits, S)
  /\ \E V \in BondedSets : signing' = Append(signing, V)
  /\ UNCHANGED vars

(* The NewBlock event of block h, as the monitor reads it.                 *)
NewBlock(h) ==
  [height |-> h - 1, signers |-> commits[h - 1], proposer |-> proposers[h]]

(* An answer to the staking query: the bonded set, or nothing usable.      *)
Answered ==
  \/ validators' = bonded
  \/ ~Reliable /\ validators' = validators

MonitorStep ==
  \/ Launch
  \/ Start /\ Answered
  \/ Refreshed /\ Answered
  \/ \E m \in Votes :
       m.height <= height /\ m.validator \in signing[m.height] /\ ReceiveVote(m)
  \/ \E h \in 2 .. height - 1 : ReceiveBlock(NewBlock(h))
  \/ ReceiveValidatorSetUpdates
  \/ LoadVotes \/ OpenVotes \/ CloseVotes
  \/ OpenSignatures \/ CloseSignatures
  \/ WriteFails
  \/ Kill

ChainNext == Commit \/ (MonitorStep /\ UNCHANGED chainVars)

ChainSpec == ChainInit /\ [][ChainNext]_allVars

-------------------------------------------------------------------------------
(* Properties.                                                             *)

Written(h) == ws_signatures[h].status = "json"
Data(h) == ws_signatures[h].data

(* The commit of a signatures file is that of its height: no one is listed *)
(* as signed who is not in it, and no one as missed who is.                *)
CommitOfItsHeight ==
  \A h \in Height : Written(h) =>
    /\ h < height
    /\ Data(h).signed \subseteq commits[h]
    /\ Data(h).missed \cap commits[h] = {}

(* Signed and missed together are one validator set that the chain has     *)
(* had, never a mixture of two.                                            *)
OneValidatorSet ==
  \A h \in Height : Written(h) =>
    \E k \in DOMAIN signing : Data(h).signed \cup Data(h).missed = signing[k]

(* What the signatures file of height h calls its proposer is the proposer *)
(* of block h + 1, which the NewBlock event is about.                      *)
ProposerIsOfNextBlock ==
  \A h \in Height : Written(h) => Data(h).proposer = proposers[h + 1]

(* The proposer reported with a finalized height proposed that height      *)
(* (README.md: "Finalized #814164 | ... | Proposer: 74BFA68B...").         *)
ProposerIsOfItsHeight ==
  \A h \in Height : Written(h) => Data(h).proposer = proposers[h]

(* A validator reported as missing its signature was to sign that height.  *)
MissedHadToSign ==
  \A h \in Height : Written(h) => Data(h).missed \subseteq signing[h]

(* As long as the validator set has not changed, the file is exact:        *)
(* everyone who signed, and everyone who should have.                      *)
Unchanged == \A k \in DOMAIN signing : signing[k] = signing[1]

SignaturesExact ==
  Unchanged => \A h \in Height : Written(h) =>
    /\ Data(h).signed = commits[h]
    /\ Data(h).missed = signing[h] \ commits[h]

(* A vote of a promised height by a validator that signs this height is in *)
(* the file when its handler gives control back.                           *)
Saved(m) ==
  (vote = m /\ MustSave(flags, m.height) /\ pc' = "listening") => InFile(m)'

SigningVotesAreSaved == [][ \A m \in Votes : Saved(m) ]_allVars

(* As long as the validator set has not changed this is so whatever the    *)
(* node answers, unless that write fails or an earlier one was cut short.  *)
VotesOfUnchangedSetAreSaved ==
  [][ \A m \in Votes :
        ( /\ Unchanged
          /\ ~WriteFails
          /\ ws_votes[m.height].status = "torn" => pc = "dumping votes" )
        => Saved(m) ]_allVars
===============================================================================
