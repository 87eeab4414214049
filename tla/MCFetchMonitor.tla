---------------------------- MODULE MCFetchMonitor ----------------------------
(* FetchMonitor for TLC: heights 5 and 6 are selected, 7 is not.           *)
EXTENDS FetchMonitor

CONSTANTS v1, v2, b1

MCFlags ==
  [ target |-> [spelling |-> "canonical", height |-> 5],
    post |-> [given |-> TRUE, num |-> 1],
    save_all |-> FALSE, no_save |-> FALSE, dashboard_only |-> FALSE ]

VoteFor(v) == [validator |-> v, block |-> b1]

Answer(h, step, prevotes, precommits) ==
  [height |-> h, round |-> 0, step |-> step, prevotes |-> prevotes, precommits |-> precommits]

(* Without the vote set of its round.                                      *)
MCUnreadable == { Answer(6, 3, << >>, << >>) }

(* No votes yet; one of two; both; the next height; one not selected.      *)
MCSnapshots ==
  { Answer(5, 4, <<VoteFor(v1), NilVote>>, <<NilVote, NilVote>>),
    Answer(5, 6, <<VoteFor(v1), VoteFor(v2)>>, <<NilVote, VoteFor(v2)>>),
    Answer(6, 1, <<NilVote, NilVote>>, <<NilVote, NilVote>>),
    Answer(7, 4, <<NilVote, VoteFor(v2)>>, <<NilVote, NilVote>>) } \cup MCUnreadable
===============================================================================
