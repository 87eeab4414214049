----------------------------- MODULE MCDashboard -----------------------------
(* Dashboard for TLC.                                                      *)
EXTENDS Dashboard

CONSTANTS v1, v2

NodeWith(rpc, abci, catching_up, bonded, height, prevotes, precommits) ==
  [ rpc |-> rpc, abci |-> abci, catching_up |-> catching_up, plan |-> TRUE, bonded |-> bonded,
    consensus |-> [height |-> height, prevotes |-> prevotes, precommits |-> precommits] ]

(* Votes come in, v2 joins, and each kind of request fails at times.       *)
MCVoting ==
  { NodeWith(TRUE, TRUE, FALSE, {v1}, 5, {}, {}),
    NodeWith(TRUE, FALSE, FALSE, {v1}, 5, {v1}, {}),
    NodeWith(FALSE, TRUE, FALSE, {v1, v2}, 6, {v1}, {v2}),
    NodeWith(TRUE, TRUE, FALSE, {v1, v2}, 6, {v1, v2}, {v1}) }
===============================================================================
