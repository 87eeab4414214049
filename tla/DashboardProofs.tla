---------------------------- MODULE DashboardProofs ----------------------------
(* Theorems about Dashboard (src/dashboard.py), for any validators, any    *)
(* node, any failures of its answers and any periods.                      *)
EXTENDS Dashboard, FiniteSetTheorems, TLAPS

-------------------------------------------------------------------------------
(* What a drawing says.                                                    *)

LEMMA DrawingIsDrawn ==
  \A vals, cons, data : Drawing(vals, cons, data) # <<>>
<1> SUFFICES ASSUME NEW vals, NEW cons, NEW data PROVE Drawing(vals, cons, data) # <<>>
  OBVIOUS
<1>1. "height" \in DOMAIN Drawing(vals, cons, data)
  BY DEF Drawing
<1>2. "height" \notin DOMAIN <<>>
  OBVIOUS
<1> QED
  BY <1>1, <1>2

LEMMA DrawingOfItsChain ==
  \A vals, cons, data :
    Drawing(vals, cons, data) = Drawing(vals, cons, Drawing(vals, cons, data).chain)
  BY DEF Drawing

Answers == {NoConsensus} \cup Consensus

LEMMA VotersAreValidators ==
  ASSUME NEW c \in Answers
  PROVE  /\ c.prevotes \subseteq Validator /\ c.precommits \subseteq Validator
         /\ IsFiniteSet(c.prevotes) /\ Cardinality(c.prevotes) \in Nat
         /\ IsFiniteSet(c.precommits) /\ Cardinality(c.precommits) \in Nat
         /\ Cardinality(c.prevotes) <= Cardinality(Validator)
         /\ Cardinality(c.precommits) <= Cardinality(Validator)
<1>1. c.prevotes \in SUBSET Validator /\ c.precommits \in SUBSET Validator
  BY DEF Answers, NoConsensus, Consensus
<1> QED
  BY <1>1, NodeAssumption, FS_Subset, FS_CardinalityType

(* The number of voters is the larger of the two numbers.                  *)
LEMMA OnlineIsVoters ==
  ASSUME NEW c \in Answers
  PROVE  /\ online_validators(c) \in 0 .. Cardinality(Validator)
         /\ online_validators(c) >= Cardinality(c.prevotes)
         /\ online_validators(c) >= Cardinality(c.precommits)
         /\ online_validators(c) \in {Cardinality(c.prevotes), Cardinality(c.precommits)}
<1>1. Cardinality(Validator) \in Nat
  BY NodeAssumption, FS_CardinalityType
<1> QED
  BY <1>1, VotersAreValidators DEF online_validators

(* Votes by listed validators leave a place among the offline ones for     *)
(* everyone listed who has cast neither.                                   *)
LEMMA OfflineHoldsAbsent ==
  ASSUME NEW vals \in SUBSET Validator, NEW c \in Answers,
         c.prevotes \cup c.precommits \subseteq vals
  PROVE  LET offline == Cardinality(vals) - online_validators(c)
             absent == vals \ ((vals \cap c.prevotes) \cup (vals \cap c.precommits))
         IN  offline >= Cardinality(absent) /\ offline <= Cardinality(vals)
<1> DEFINE voters == c.prevotes \cup c.precommits
<1>1. vals \ ((vals \cap c.prevotes) \cup (vals \cap c.precommits)) = vals \ voters
  OBVIOUS
<1>2. IsFiniteSet(vals) /\ Cardinality(vals) \in Nat
  BY NodeAssumption, FS_Subset, FS_CardinalityType
<1>3. IsFiniteSet(voters) /\ Cardinality(voters) \in Nat
  <2>1. voters \in SUBSET vals
    OBVIOUS
  <2> QED
    BY <1>2, <2>1, FS_Subset, FS_CardinalityType
<1>4. Cardinality(vals \ voters) = Cardinality(vals) - Cardinality(voters)
  <2>1. Cardinality(vals \ voters) = Cardinality(vals) - Cardinality(vals \cap voters)
    BY <1>2, FS_Difference
  <2>2. vals \cap voters = voters
    OBVIOUS
  <2> QED
    BY <2>1, <2>2
<1>5. Cardinality(c.prevotes) <= Cardinality(voters)
  BY <1>3, FS_Subset
<1>6. Cardinality(c.precommits) <= Cardinality(voters)
  BY <1>3, FS_Subset
<1>7. /\ online_validators(c) \in {Cardinality(c.prevotes), Cardinality(c.precommits)}
      /\ Cardinality(c.prevotes) \in Nat /\ Cardinality(c.precommits) \in Nat
  BY OnlineIsVoters, VotersAreValidators
<1> HIDE DEF voters
<1> QED
  BY <1>1, <1>2, <1>3, <1>4, <1>5, <1>6, <1>7

-------------------------------------------------------------------------------
(* Types: the number of validators said to be online is one.               *)

LEMMA NodesAreNodes ==
  ASSUME NEW n \in NodeStates
  PROVE  /\ n.rpc \in BOOLEAN /\ n.abci \in BOOLEAN
         /\ n.catching_up \in BOOLEAN /\ n.plan \in BOOLEAN
         /\ n.bonded \subseteq Validator /\ n.bonded # {}
         /\ n.consensus \in Consensus
  BY NodeAssumption DEF Node

(* TypeOK without the drawing.                                             *)
Types ==
  /\ node \in NodeStates
  /\ pc \in {"chain", "validators", "consensus", "render", "sleep"}
  /\ chain \in [known : BOOLEAN, catching_up : BOOLEAN, plan : BOOLEAN]
  /\ validators \subseteq Validator
  /\ consensus \in Answers
  /\ last_vals \in {Never} \cup 0 .. ValidatorsPeriod
  /\ last_cons \in {Never} \cup 0 .. ConsensusPeriod
  /\ upd_vals \in BOOLEAN /\ upd_cons \in BOOLEAN

OnlineIsOne == Drawn => shown.online \in 0 .. Cardinality(Validator)

LEMMA TypesAreTypeOK == TypeOK <=> Types /\ OnlineIsOne
  BY DEF TypeOK, Types, OnlineIsOne, Answers

LEMMA InitTypes == Init => Types /\ OnlineIsOne
<1> SUFFICES ASSUME Init PROVE Types /\ OnlineIsOne
  OBVIOUS
<1>1. node \in NodeStates /\ pc = "chain"
  BY DEF Init
<1>2. chain \in [known : BOOLEAN, catching_up : BOOLEAN, plan : BOOLEAN]
  BY DEF Init, NoChain
<1>3. consensus \in Answers /\ validators \subseteq Validator
  BY DEF Init, Answers
<1>4. last_vals = Never /\ last_cons = Never /\ upd_vals \in BOOLEAN /\ upd_cons \in BOOLEAN
  BY DEF Init
<1>5. ~Drawn
  BY DEF Init, Drawn
<1> QED
  BY <1>1, <1>2, <1>3, <1>4, <1>5 DEF Types, OnlineIsOne

LEMMA StepTypes ==
  ASSUME Types, [Next]_vars
  PROVE  Types'
<1>1. CASE FetchChainData
  BY <1>1, NodesAreNodes DEF Types, FetchChainData, memory, timers
<1>2. CASE UpdateValidators
  BY <1>2, NodesAreNodes, PeriodAssumption DEF Types, UpdateValidators
<1>3. CASE UpdateConsensus
  BY <1>3, NodesAreNodes, PeriodAssumption DEF Types, UpdateConsensus, Answers
<1>4. CASE Render \/ Sleep
  BY <1>4 DEF Types, Render, Sleep, memory, timers
<1>5. CASE Tick
  BY <1>5, PeriodAssumption DEF Types, Tick, Older, Never, memory
<1>6. CASE NodeChanges
  BY <1>6 DEF Types, NodeChanges, memory, timers
<1>7. CASE UNCHANGED vars
  BY <1>7 DEF Types, vars, memory, timers
<1> QED
  BY <1>1, <1>2, <1>3, <1>4, <1>5, <1>6, <1>7 DEF Next, Step

LEMMA StepOnline ==
  ASSUME Types, OnlineIsOne, [Next]_vars
  PROVE  OnlineIsOne'
<1>1. shown' = shown \/ shown' = Drawing(validators, consensus, chain)
  BY DEF Next, Step, FetchChainData, UpdateValidators, UpdateConsensus, Render, Sleep, Tick,
         NodeChanges, vars
<1>2. Drawing(validators, consensus, chain).online \in 0 .. Cardinality(Validator)
  BY OnlineIsVoters DEF Types, Drawing
<1> QED
  BY <1>1, <1>2 DEF OnlineIsOne, Drawn

(* TypeOK always holds.                                                    *)
THEOREM DashboardTypeCorrect == Spec => []TypeOK
<1>1. Types /\ OnlineIsOne /\ [Next]_vars => Types' /\ OnlineIsOne'
  BY StepTypes, StepOnline
<1> QED
  BY <1>1, InitTypes, TypesAreTypeOK, PTL DEF Spec

-------------------------------------------------------------------------------
(* The table.  It may lag behind the memory only between an update and the *)
(* drawing, and then the flag of that update is set.                       *)

Filled == validators # {} \/ consensus # NoConsensus

UpToDate ==
  Filled => Drawn /\ shown = Drawing(validators, consensus, shown.chain)

TableInv ==
  /\ pc \in {"sleep", "chain", "validators"} => UpToDate
  /\ pc = "consensus" => UpToDate \/ upd_vals
  /\ pc = "render" => UpToDate \/ upd_vals \/ upd_cons

(* A flag that is set, now or from an earlier iteration, stands for an     *)
(* answer, so that nothing is drawn before there is something to draw.     *)
FlagsInv ==
  /\ upd_vals => validators # {}
  /\ upd_cons => consensus # NoConsensus
  /\ Drawn => Filled

LEMMA NoConsensusIsNone == NoConsensus \notin Consensus
<1>1. \A c \in Consensus : c.height \in Nat
  BY DEF Consensus
<1>2. NoConsensus.height = -1 /\ -1 \notin Nat
  BY DEF NoConsensus
<1> QED
  BY <1>1, <1>2

LEMMA StepFlags ==
  ASSUME Types, FlagsInv, [Next]_vars
  PROVE  FlagsInv'
<1>1. CASE FetchChainData \/ Sleep \/ Tick \/ NodeChanges
  BY <1>1 DEF FetchChainData, Sleep, Tick, NodeChanges, FlagsInv, Filled, Drawn, memory, timers
<1>2. CASE UpdateValidators
  BY <1>2, NodesAreNodes DEF Types, UpdateValidators, FlagsInv, Filled, Drawn
<1>3. CASE UpdateConsensus
  BY <1>3, NodesAreNodes, NoConsensusIsNone DEF Types, UpdateConsensus, FlagsInv, Filled, Drawn
<1>4. CASE Render
  BY <1>4 DEF Render, FlagsInv, Filled, Drawn, memory
<1>5. CASE UNCHANGED vars
  BY <1>5 DEF vars, memory, FlagsInv, Filled, Drawn
<1> QED
  BY <1>1, <1>2, <1>3, <1>4, <1>5 DEF Next, Step

LEMMA StepTable ==
  ASSUME TableInv, [Next]_vars
  PROVE  TableInv'
<1>1. CASE FetchChainData \/ Sleep
  BY <1>1 DEF FetchChainData, Sleep, TableInv, UpToDate, Filled, Drawn, memory
<1>2. CASE UpdateValidators
  BY <1>2 DEF UpdateValidators, TableInv, UpToDate, Filled, Drawn
<1>3. CASE UpdateConsensus
  BY <1>3 DEF UpdateConsensus, TableInv, UpToDate, Filled, Drawn
<1>4. CASE Render
  <2>1. CASE upd_vals \/ upd_cons
    <3>1. /\ pc' = "sleep" /\ UNCHANGED <<validators, consensus>>
          /\ shown' = Drawing(validators, consensus, chain)
      BY <1>4, <2>1 DEF Render, memory
    <3>2. shown' # <<>> /\ shown' = Drawing(validators, consensus, shown'.chain)
      BY <3>1, DrawingIsDrawn, DrawingOfItsChain
    <3> QED
      BY <3>1, <3>2 DEF TableInv, UpToDate, Drawn
  <2>2. CASE ~(upd_vals \/ upd_cons)
    BY <1>4, <2>2 DEF Render, TableInv, UpToDate, Filled, Drawn, memory
  <2> QED
    BY <2>1, <2>2
<1>5. CASE Tick \/ NodeChanges \/ UNCHANGED vars
  BY <1>5 DEF Tick, NodeChanges, vars, TableInv, UpToDate, Filled, Drawn, memory
<1> QED
  BY <1>1, <1>2, <1>3, <1>4, <1>5 DEF Next, Step

(* Whatever requests fail, and although upd_vals and upd_cons outlive      *)
(* their iteration, the table at the end of an iteration shows what was    *)
(* last fetched.                                                           *)
THEOREM TableShowsMemory == Spec => []TableIsMemory
<1>1. Init => TableInv
  BY DEF Init, TableInv, UpToDate, Filled
<1>2. TableInv /\ [Next]_vars => TableInv'
  BY StepTable
<1>3. TableInv => TableIsMemory
  BY DEF TableInv, UpToDate, Filled, TableIsMemory
<1> QED
  BY <1>1, <1>2, <1>3, PTL DEF Spec

(* While only listed validators vote, "Offline validators" leaves no one   *)
(* out who is listed and has not voted.                                    *)
THEOREM OfflineCountsAbsent == Spec => []OfflineNotUnderstated
<1>1. Init => Types /\ FlagsInv /\ TableInv
  BY InitTypes DEF Init, FlagsInv, TableInv, UpToDate, Filled, Drawn
<1>2. Types /\ FlagsInv /\ TableInv /\ [Next]_vars => (Types /\ FlagsInv /\ TableInv)'
  BY StepTypes, StepFlags, StepTable
<1>3. Types /\ FlagsInv /\ TableInv => OfflineNotUnderstated
  <2> SUFFICES ASSUME Types, FlagsInv, TableInv, Drawn, pc = "sleep",
                      consensus.prevotes \cup consensus.precommits \subseteq validators
               PROVE  /\ shown.offline >= Cardinality(validators \ (shown.prevoted \cup shown.precommitted))
                      /\ shown.offline <= Cardinality(validators)
    BY DEF OfflineNotUnderstated
  <2>1. shown = Drawing(validators, consensus, shown.chain)
    BY DEF TableInv, FlagsInv, UpToDate
  <2>2. /\ shown.offline = Cardinality(validators) - online_validators(consensus)
        /\ shown.prevoted = validators \cap consensus.prevotes
        /\ shown.precommitted = validators \cap consensus.precommits
    BY <2>1 DEF Drawing
  <2> QED
    BY <2>2, OfflineHoldsAbsent DEF Types
<1> QED
  BY <1>1, <1>2, <1>3, PTL DEF Spec
===============================================================================
