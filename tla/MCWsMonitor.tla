----------------------------- MODULE MCWsMonitor -----------------------------
(* WsMonitor for TLC: heights 5 and 6 are selected (target 5, one block    *)
(* after it), height 7 is not.                                             *)
EXTENDS WsMonitor

CONSTANTS v1, v2, p1, p2

MCFlags ==
  [ target |-> [spelling |-> "canonical", height |-> 5],
    post |-> [given |-> TRUE, num |-> 1],
    save_all |-> FALSE, no_save |-> FALSE, dashboard_only |-> FALSE ]

Vote(h, r, t, v, p) ==
  [height |-> h, round |-> r, type |-> t, validator |-> v, payload |-> p]

(* Two different prevotes of v1, a precommit of v2, a vote of the next     *)
(* selected height, one of a height that is not selected, and a type the   *)
(* handler does not know.                                                  *)
MCVotes ==
  { Vote(5, 0, 1, v1, p1), Vote(5, 0, 1, v1, p2), Vote(5, 0, 2, v2, p1),
    Vote(6, 0, 1, v2, p1), Vote(7, 0, 1, v1, p1), Vote(5, 0, 32, v1, p1) }

Block(h, signers, proposer) ==
  [height |-> h, signers |-> signers, proposer |-> proposer]

MCBlocks == { Block(5, {v1}, v2), Block(7, {v1, v2}, v1) }
===============================================================================
