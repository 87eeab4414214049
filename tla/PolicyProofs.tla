----------------------------- MODULE PolicyProofs -----------------------------
(***************************************************************************)
(* Lemmas about the operators that both monitors are built from: which     *)
(* heights are saved, and what a refresh does to the validator set.        *)
(***************************************************************************)
EXTENDS SavePolicy, Calls, TLAPS

-------------------------------------------------------------------------------
(* What a selected height is.                                              *)

(* A height that a handler selects is one that README.md promises, for     *)
(* every accepted command line: check_blocks_list never reaches beyond the *)
(* target and the post-target blocks.                                      *)
LEMMA SelectedIsPromised ==
  ASSUME NEW o \in Options, NEW h \in Nat, Selects(o, h)
  PROVE  ~o.no_save /\ Promised(o, h)
<1>1. CASE o.save_all
  BY <1>1 DEF Selects, Promised
<1>2. CASE EqualsTarget(o, h)
  BY <1>2 DEF Selects, Promised, EqualsTarget, HasTarget, Options
<1>3. CASE h \in check_blocks_list(o)
  <2>1. PICK i \in 0 .. o.post.num : h = o.target.height + i
    BY <1>3 DEF check_blocks_list
  <2>2. HasTarget(o) /\ o.post.given
    BY <1>3 DEF check_blocks_list
  <2>3. o.target.height \in Nat /\ o.post.num \in Int /\ i \in Nat /\ i <= o.post.num
    BY <2>1 DEF Options
  <2>4. QED
    BY <2>1, <2>2, <2>3 DEF Selects, Promised
<1>4. QED
  BY <1>1, <1>2, <1>3 DEF Selects

(* And no promised height is left out: what the handlers select is exactly *)
(* what README.md promises, up to a target that is not typed the way the   *)
(* chain writes it and is not rewritten in check_blocks_list either.       *)
THEOREM SelectsWhatIsPromised ==
  \A o \in Options, h \in Nat : Selects(o, h) <=> MustSave(o, h)
<1> SUFFICES ASSUME NEW o \in Options, NEW h \in Nat
             PROVE  Selects(o, h) <=> MustSave(o, h)
  OBVIOUS
<1>1. o.target.height \in Nat /\ o.post.num \in Int
  BY DEF Options
<1>2. ASSUME Selects(o, h) PROVE MustSave(o, h)
  <2>1. ~o.no_save /\ Promised(o, h)
    BY <1>2, SelectedIsPromised
  <2>2. CASE EqualsTarget(o, h) \/ o.save_all
    BY <2>1, <2>2 DEF MustSave, TargetMatches, EqualsTarget
  <2>3. CASE h \in check_blocks_list(o)
    <3>1. o.post.given /\ \E i \in 0 .. o.post.num : h = o.target.height + i
      BY <2>3 DEF check_blocks_list
    <3>2. o.post.num >= 0
      BY <1>1, <3>1
    <3> QED
      BY <2>1, <3>1, <3>2 DEF MustSave, TargetMatches
  <2> QED
    BY <1>2, <2>2, <2>3 DEF Selects
<1>3. ASSUME MustSave(o, h) PROVE Selects(o, h)
  <2>1. CASE o.save_all
    BY <1>3, <2>1 DEF MustSave, Selects
  <2>2. CASE ~o.save_all
    <3> DEFINE d == h - o.target.height
    <3>1. /\ HasTarget(o) /\ TargetMatches(o) /\ d \in Nat /\ h = o.target.height + d
          /\ d <= IF o.post.given /\ o.post.num > 0 THEN o.post.num ELSE 0
      BY <1>1, <1>3, <2>2 DEF MustSave, Promised
    <3>2. CASE o.post.given /\ o.post.num >= 0
      <4>1. d \in 0 .. o.post.num
        BY <1>1, <3>1, <3>2
      <4>2. h \in check_blocks_list(o)
        BY <3>1, <3>2, <4>1 DEF check_blocks_list
      <4> QED
        BY <1>3, <4>2 DEF MustSave, Selects
    <3>3. CASE ~(o.post.given /\ o.post.num >= 0)
      <4>1. h = o.target.height
        BY <1>1, <3>1, <3>3
      <4> QED
        BY <1>3, <3>1, <3>3, <4>1 DEF MustSave, Selects, EqualsTarget, TargetMatches
    <3> QED
      BY <3>2, <3>3
  <2> QED
    BY <2>1, <2>2
<1> QED
  BY <1>2, <1>3

-------------------------------------------------------------------------------
(* Refreshing the validator set.                                           *)

(* Whatever the node answers, the set stays one of validators, and a set   *)
(* that is not empty stays so.                                             *)
LEMMA RefreshKeepsValidators ==
  ASSUME NEW known \in SUBSET Validator, NEW r \in Reply(ValidatorsBody)
  PROVE  /\ update_validators(known, r) \subseteq Validator
         /\ known # {} => update_validators(known, r) # {}
<1>1. r.body.bonded \subseteq Validator
  BY DEF Reply, ValidatorsBody
<1>2. get_validators(r) \subseteq Validator
  BY <1>1 DEF get_validators
<1>3. QED
  BY <1>2 DEF update_validators

===============================================================================
