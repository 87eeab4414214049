----------------------------- MODULE MCPipeline -----------------------------
(* Pipeline for TLC: the target is height 5.                               *)
EXTENDS Pipeline

CONSTANTS v1, v2, p1, p2

MCFlags ==
  [ target |-> [spelling |-> "canonical", height |-> 5],
    post |-> [given |-> TRUE, num |-> 0],
    save_all |-> FALSE, no_save |-> FALSE, dashboard_only |-> FALSE ]

Vote(v, p) == [height |-> 5, round |-> 0, type |-> 1, validator |-> v, payload |-> p]
MCVotes == { Vote(v1, p1), Vote(v1, p2) }
MCBlocks == { [height |-> 5, signers |-> {v1}, proposer |-> v1] }

(* Two votes with an event between them that is no vote.                   *)
MCEventOf == <<Vote(v1, p1), None, Vote(v1, p2)>>
===============================================================================
