------------------------------ MODULE Dashboard ------------------------------
(***************************************************************************)
(* The dashboard (src/dashboard.py): one loop that fetches the chain's     *)
(* data until it has them, the bonded validators every 30 seconds and the  *)
(* consensus state every second, and redraws what has changed.  What it    *)
(* draws is compared with the node, which is external and changes as it    *)
(* likes.                                                                  *)
(*                                                                         *)
(* Time is counted in ticks of ConsensusPeriod's unit.  The answers are    *)
(* well formed, every bonded validator has a consensus key.  The order of  *)
(* the table, voting power and the two bars are copies of what an answer   *)
(* says and are left out.                                                  *)
(***************************************************************************)
EXTENDS Integers, FiniteSets

CONSTANTS
  Validator,        \* validators, named by their consensus address
  NodeStates,       \* what the node may be like
  ValidatorsPeriod, \* ticks between two requests for the validators
  ConsensusPeriod   \* ticks between two requests for the consensus state

(* An answer of /consensus_state: who has voted in the current round.      *)
Consensus == [height : Nat, prevotes : SUBSET Validator, precommits : SUBSET Validator]

(* rpc, abci: whether GET requests and ABCI queries yield data.            *)
Node == [rpc : BOOLEAN, abci : BOOLEAN, catching_up : BOOLEAN, plan : BOOLEAN,
         bonded : SUBSET Validator, consensus : Consensus]

ASSUME NodeAssumption ==
  /\ IsFiniteSet(Validator)
  /\ NodeStates \subseteq Node
  /\ \A n \in NodeStates : n.bonded # {}
ASSUME PeriodAssumption ==
  ValidatorsPeriod \in Nat \ {0} /\ ConsensusPeriod \in Nat \ {0}

VARIABLES
  node,         \* the node
  pc,           \* where the loop is
  chain,        \* chain_id (known or not), catching_up, ugrade_plan
  validators,   \* self.validators
  consensus,    \* current_round_consensus_state
  last_vals,    \* ticks since _last_validators_update; Never without one
  last_cons,    \* ticks since _last_consensus_update
  upd_vals,     \* what the last update_validators returned
  upd_cons,     \* what the last update_current_consensus_state returned
  shown         \* the layout

memory == <<chain, validators, consensus>>
timers == <<last_vals, last_cons>>
vars == <<node, pc, memory, timers, upd_vals, upd_cons, shown>>

Never == -1
NoChain == [known |-> FALSE, catching_up |-> FALSE, plan |-> FALSE]
NoConsensus == [height |-> -1, prevotes |-> {}, precommits |-> {}]

Init ==
  /\ node \in NodeStates
  /\ pc = "chain"
  /\ chain = NoChain
  /\ validators = {}
  /\ consensus = NoConsensus
  /\ last_vals = Never
  /\ last_cons = Never
  /\ upd_vals = FALSE
  /\ upd_cons = FALSE
  /\ shown = <<>>

-------------------------------------------------------------------------------
(* One iteration.                                                          *)

(* fetch_chain_data, while no chain_id is known.  Without a plan the query *)
(* has an empty value, which counts as no data.                            *)
FetchChainData ==
  /\ pc = "chain"
  /\ pc' = "validators"
  /\ chain' = IF chain.known THEN chain
              ELSE [ known       |-> node.rpc,
                     catching_up |-> node.rpc /\ node.catching_up,
                     plan        |-> chain.plan \/ (node.abci /\ node.plan) ]
  /\ UNCHANGED <<node, validators, consensus, timers, upd_vals, upd_cons, shown>>

Due(last, period) == last = Never \/ last >= period

(* Mutant of UpdateValidators: asked for once only.                        *)
UpdateValidatorsOnce ==
  /\ pc = "validators"
  /\ pc' = "consensus"
  /\ IF last_vals = Never
     THEN /\ last_vals' = 0
          /\ upd_vals' = node.abci
          /\ validators' = IF node.abci THEN node.bonded ELSE validators
     ELSE UNCHANGED <<last_vals, upd_vals, validators>>
  /\ UNCHANGED <<node, chain, consensus, last_cons, upd_cons, shown>>

(* The period counts from the end of the request, failed or not.           *)
UpdateValidators ==
  /\ pc = "validators"
  /\ pc' = "consensus"
  /\ IF Due(last_vals, ValidatorsPeriod)
     THEN /\ last_vals' = 0
          /\ upd_vals' = node.abci
          /\ validators' = IF node.abci THEN node.bonded ELSE validators
     ELSE UNCHANGED <<last_vals, upd_vals, validators>>
  /\ UNCHANGED <<node, chain, consensus, last_cons, upd_cons, shown>>

UpdateConsensus ==
  /\ pc = "consensus"
  /\ pc' = "render"
  /\ IF Due(last_cons, ConsensusPeriod)
     THEN /\ last_cons' = 0
          /\ upd_cons' = node.rpc
          /\ consensus' = IF node.rpc THEN node.consensus ELSE consensus
     ELSE UNCHANGED <<last_cons, upd_cons, consensus>>
  /\ UNCHANGED <<node, chain, validators, last_vals, upd_vals, shown>>

(* Mutant of online_validators: the voters of both kinds added up.        *)
online_validators_sum(c) == Cardinality(c.prevotes) + Cardinality(c.precommits)

online_validators(c) ==
  IF Cardinality(c.prevotes) > Cardinality(c.precommits)
  THEN Cardinality(c.prevotes)
  ELSE Cardinality(c.precommits)

(* generate_table and the network panel.                                   *)
Drawing(vals, cons, data) ==
  [ validators |-> vals,
    prevoted   |-> vals \cap cons.prevotes,
    precommitted |-> vals \cap cons.precommits,
    height     |-> cons.height,
    online     |-> online_validators(cons),
    offline    |-> Cardinality(vals) - online_validators(cons),
    chain      |-> data ]

(* Mutant of Render: both updates must have succeeded.                     *)
RenderBoth ==
  /\ pc = "render"
  /\ pc' = "sleep"
  /\ shown' = IF upd_vals /\ upd_cons THEN Drawing(validators, consensus, chain) ELSE shown
  /\ UNCHANGED <<node, memory, timers, upd_vals, upd_cons>>

(* upd_vals and upd_cons may be those of an earlier iteration.             *)
Render ==
  /\ pc = "render"
  /\ pc' = "sleep"
  /\ shown' = IF upd_vals \/ upd_cons THEN Drawing(validators, consensus, chain) ELSE shown
  /\ UNCHANGED <<node, memory, timers, upd_vals, upd_cons>>

Sleep ==
  /\ pc = "sleep"
  /\ pc' = "chain"
  /\ UNCHANGED <<node, memory, timers, upd_vals, upd_cons, shown>>

-------------------------------------------------------------------------------
(* Time and the node.                                                      *)

Older(last, period) == IF last = Never \/ last >= period THEN last ELSE last + 1

Tick ==
  /\ last_vals' = Older(last_vals, ValidatorsPeriod)
  /\ last_cons' = Older(last_cons, ConsensusPeriod)
  /\ UNCHANGED <<node, pc, memory, upd_vals, upd_cons, shown>>

NodeChanges ==
  /\ node' \in NodeStates
  /\ UNCHANGED <<pc, memory, timers, upd_vals, upd_cons, shown>>

-------------------------------------------------------------------------------

Step == FetchChainData \/ UpdateValidators \/ UpdateConsensus \/ Render \/ Sleep

Next == Step \/ Tick \/ NodeChanges

Spec == Init /\ [][Next]_vars

(* The loop runs, its requests are cut off after ten seconds, time passes. *)
FairSpec == Spec /\ WF_vars(Step) /\ WF_vars(Tick)

-------------------------------------------------------------------------------
(* Properties.                                                             *)

Drawn == shown # <<>>

TypeOK ==
  /\ node \in NodeStates
  /\ pc \in {"chain", "validators", "consensus", "render", "sleep"}
  /\ chain \in [known : BOOLEAN, catching_up : BOOLEAN, plan : BOOLEAN]
  /\ validators \subseteq Validator
  /\ consensus = NoConsensus \/ consensus \in Consensus
  /\ last_vals \in {Never} \cup 0 .. ValidatorsPeriod
  /\ last_cons \in {Never} \cup 0 .. ConsensusPeriod
  /\ upd_vals \in BOOLEAN /\ upd_cons \in BOOLEAN
  /\ Drawn => shown.online \in 0 .. Cardinality(Validator)

(* Whatever requests fail and whatever upd_vals and upd_cons have kept     *)
(* from earlier iterations: the table drawn at the end of an iteration is  *)
(* the one of what was last fetched, never an older one.                   *)
TableIsMemory ==
  pc = "sleep" /\ (validators # {} \/ consensus # NoConsensus) =>
    /\ Drawn
    /\ shown = Drawing(validators, consensus, shown.chain)

(* As long as only listed validators vote, the number of "Offline          *)
(* validators" leaves no one out who is listed and has not voted.          *)
OfflineNotUnderstated ==
  Drawn /\ consensus.prevotes \cup consensus.precommits \subseteq validators /\ pc = "sleep" =>
    /\ shown.offline >= Cardinality(validators \ (shown.prevoted \cup shown.precommitted))
    /\ shown.offline <= Cardinality(validators)

(* If the node settles and answers, the table ends up showing its          *)
(* validators and their votes.                                             *)
TableFollows ==
  \A n \in NodeStates : n.rpc /\ n.abci =>
    ( <>[](node = n) =>
      <>[](Drawn /\ shown = Drawing(n.bonded, n.consensus, shown.chain)) )
===============================================================================
