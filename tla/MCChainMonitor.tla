---------------------------- MODULE MCChainMonitor ----------------------------
(* ChainMonitor for TLC: a chain of three blocks, of which the second is   *)
(* the target.                                                             *)
EXTENDS ChainMonitor

CONSTANTS v1, v2, v3, p1

MCFlags ==
  [ target |-> [spelling |-> "canonical", height |-> 2],
    post |-> [given |-> TRUE, num |-> 0],
    save_all |-> FALSE, no_save |-> FALSE, dashboard_only |-> FALSE ]

(* Prevotes of two validators for the target.                              *)
MCVotes ==
  { [height |-> 2, round |-> 0, type |-> 1, validator |-> v, payload |-> p1] :
    v \in {v1, v2} }

(* A set that changes: v2 joins and leaves; v3 replaces v1.                *)
Changing == { {v1}, {v1, v2} }
Replaced == { {v1, v2}, {v2, v3} }

(* A set that does not.                                                    *)
Stable == { {v1, v2} }
===============================================================================
