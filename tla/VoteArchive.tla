----------------------------- MODULE VoteArchive -----------------------------
(***************************************************************************)
(* What the votes files of result/ promise to a reader, without handlers,  *)
(* signals or open files: for each height a document that only grows, one  *)
(* new event at a time at the end of its list, until it is lost as a whole.*)
(* A lost document is never recovered and nothing is added to it.          *)
(***************************************************************************)
EXTENDS Functions, Sequences

CONSTANTS
  Height,   \* heights
  Slots,    \* round, vote type and validator
  Payload   \* events

VARIABLE archive  \* the document of each height

Document == [status : {"empty", "kept", "lost"}, rounds : [Slots -> Seq(Payload)]]
Nothing == [s \in Slots |-> << >>]

Init == archive = [h \in Height |-> [status |-> "empty", rounds |-> Nothing]]

Record(h, s, p) ==
  /\ archive[h].status # "lost"
  /\ p \notin Range(archive[h].rounds[s])
  /\ LET rounds == archive[h].rounds
     IN  archive' = [archive EXCEPT
           ![h] = [ status |-> "kept",
                    rounds |-> [rounds EXCEPT ![s] = Append(rounds[s], p)] ]]

Lose(h) ==
  /\ archive[h].status = "kept"
  /\ archive' = [archive EXCEPT ![h] = [status |-> "lost", rounds |-> Nothing]]

Next == \E h \in Height :
  \/ \E s \in Slots, p \in Payload : Record(h, s, p)
  \/ Lose(h)

Spec == Init /\ [][Next]_archive
===============================================================================
