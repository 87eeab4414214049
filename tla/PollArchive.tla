----------------------------- MODULE PollArchive -----------------------------
(***************************************************************************)
(* What the files fetch_votes.json of result/ promise to a reader, without *)
(* iterations, signals or open files: a file holds one answer of the node  *)
(* as it came, and only ever goes from an older answer to the newest one.  *)
(* A file may be lost while its answer is the newest; unlike a document of *)
(* VoteArchive it comes back with the next answer of its height.           *)
(***************************************************************************)
CONSTANTS
  Height,     \* heights
  Wanted,     \* heights whose answers are saved
  Snapshots,  \* answers of the node, each with its height
  None        \* no answer

VARIABLES
  answer,  \* the newest answer, or None when it has been given up
  file     \* the file of each height

vars == <<answer, file>>

Empty == [status |-> "empty"]
Lost == [status |-> "lost"]
Kept(s) == [status |-> "kept", snapshot |-> s]

Init ==
  /\ answer = None
  /\ file = [h \in Height |-> Empty]

(* A new answer, saved or not, makes the one before it history.            *)
Receive(s) ==
  /\ answer' = s
  /\ UNCHANGED file

GiveUp ==
  /\ answer' = None
  /\ UNCHANGED file

(* Save is the only way to write, and it writes the newest answer.         *)
Save ==
  /\ answer \in Snapshots
  /\ answer.height \in Wanted
  /\ file' = [file EXCEPT ![answer.height] = Kept(answer)]
  /\ UNCHANGED answer

Lose ==
  /\ answer \in Snapshots
  /\ file[answer.height] = Kept(answer)
  /\ file' = [file EXCEPT ![answer.height] = Lost]
  /\ answer' \in {answer, None}

Next == (\E s \in Snapshots : Receive(s)) \/ GiveUp \/ Save \/ Lose

Spec == Init /\ [][Next]_vars
===============================================================================
