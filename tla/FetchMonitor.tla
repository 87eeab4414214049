----------------------------- MODULE FetchMonitor -----------------------------
(***************************************************************************)
(* The consensus state poller (src/fetch_monitor.py), the second process   *)
(* of the program: it asks the node for /consensus_state without a pause,  *)
(* writes the answer to                                                    *)
(*                                                                         *)
(*    result/<height>/fetch_votes.json                                     *)
(*                                                                         *)
(* if the height is selected, and then keeps in memory what it read of the *)
(* current round: height, round, step, and the votes of each validator it  *)
(* knows.  It fetches the validators once, at its start.                   *)
(*                                                                         *)
(* An answer without height, round and step is no better than none.  One   *)
(* whose votes of the current round are missing or of another form is      *)
(* saved like any other, and the reading of it raises half way.            *)
(***************************************************************************)
EXTENDS SavePolicy, Calls, Functions, Sequences, SequencesExt

CONSTANTS
  Height,     \* heights that occur
  Round,      \* rounds that occur
  Block,      \* block hashes a vote may name
  NilVote,    \* the text "nil-Vote"
  Snapshots,  \* answers of /consensus_state with height, round and step
  Unreadable, \* those whose votes of the current round cannot be read
  flags,      \* the command line, as accepted by parse_args
  Faults,     \* what may go wrong locally: "kill" and "disk"
  None        \* no snapshot in hand

(* An entry of 'prevotes' or 'precommits': the text of a vote, of which    *)
(* the first twelve digits of the address and the hash are read, or        *)
(* "nil-Vote" for a validator that has not voted.                          *)
Entry == [validator : Validator, block : Block] \cup {NilVote}
Snapshot == [height : Height, round : Round, step : 1 .. 8,
             prevotes : Seq(Entry), precommits : Seq(Entry)]

ASSUME PollHeightAssumption == Height \subseteq Nat
ASSUME SnapshotAssumption ==
  /\ Snapshots \subseteq Snapshot
  /\ \A s \in Snapshots \ Unreadable : s.prevotes # << >>
  /\ None \notin Snapshots
ASSUME PollFlagsAssumption ==
  flags \in Options /\ Accepted(flags) /\ ~flags.dashboard_only

VARIABLES
  pc,           \* where the process is
  validators,   \* self.validators
  consensus,    \* the snapshot in hand, or None
  current,      \* height, round and step of current_round_consensus_state
  votes,        \* its 'validators': what is kept as each one's votes
  fetch_votes,  \* result/<height>/fetch_votes.json
  polled        \* history: the snapshots received

memory == <<validators, consensus, current, votes>>
vars == <<pc, memory, fetch_votes, polled>>

PC == {"down", "starting", "exited", "polling", "saving", "dumping", "processing"}

File == [status : {"absent", "torn"}] \cup [status : {"json"}, snapshot : Snapshots]
Absent == [status |-> "absent"]
Torn == [status |-> "torn"]
Json(s) == [status |-> "json", snapshot |-> s]

ReadOf(s) == [height |-> s.height, round |-> s.round, step |-> s.step]
NothingRead == [height |-> -1, round |-> -1, step |-> -1]

-------------------------------------------------------------------------------

Init ==
  /\ pc = "down"
  /\ validators = {}
  /\ consensus = None
  /\ current = NothingRead
  /\ votes = << >>
  /\ fetch_votes = [h \in Height |-> Absent]
  /\ polled = {}

Launch ==
  /\ pc \in {"down", "exited"}
  /\ pc' = "starting"
  /\ UNCHANGED <<memory, fetch_votes, polled>>

(* start: without any validator the process exits.                         *)
Start ==
  /\ pc = "starting"
  /\ validators' \in { update_validators(validators, r) : r \in Reply(ValidatorsBody) }
  /\ pc' = IF validators' = {} THEN "exited" ELSE "polling"
  /\ UNCHANGED <<consensus, current, votes, fetch_votes, polled>>

(* Mutant of Poll: every answer is saved.                                  *)
PollSavesAll(s) ==
  /\ pc = "polling"
  /\ consensus' = s
  /\ polled' = polled \cup {s}
  /\ pc' = "saving"
  /\ UNCHANGED <<validators, current, votes, fetch_votes>>

(* A request that yields nothing, or nothing with a height, round and step *)
(* in it, is repeated at once.  The answer is saved or skipped before it   *)
(* is read further.                                                        *)
PollFails ==
  /\ pc = "polling"
  /\ consensus' = None
  /\ UNCHANGED <<pc, validators, current, votes, fetch_votes, polled>>

Poll(s) ==
  /\ pc = "polling"
  /\ consensus' = s
  /\ polled' = polled \cup {s}
  /\ pc' = IF Selects(flags, s.height) THEN "saving" ELSE "processing"
  /\ UNCHANGED <<validators, current, votes, fetch_votes>>

(* Mutants of OpenFetch: an existing file is left alone; mode 'x', tried   *)
(* again while the file exists.                                            *)
OpenFetchIfAbsent ==
  /\ pc = "saving"
  /\ IF fetch_votes[consensus.height].status = "absent"
     THEN /\ pc' = "dumping"
          /\ fetch_votes' = [fetch_votes EXCEPT ![consensus.height] = Torn]
     ELSE /\ pc' = "processing"
          /\ UNCHANGED fetch_votes
  /\ UNCHANGED <<memory, polled>>

OpenFetchExclusive ==
  /\ pc = "saving"
  /\ fetch_votes[consensus.height].status = "absent"
  /\ pc' = "dumping"
  /\ fetch_votes' = [fetch_votes EXCEPT ![consensus.height] = Torn]
  /\ UNCHANGED <<memory, polled>>

(* open(file_path, 'w') creates the file or truncates it.                  *)
OpenFetch ==
  /\ pc = "saving"
  /\ pc' = "dumping"
  /\ fetch_votes' = [fetch_votes EXCEPT ![consensus.height] = Torn]
  /\ UNCHANGED <<memory, polled>>

(* Mutants of CloseFetch: what is kept in memory is dumped; the file of    *)
(* the poll before is written.                                             *)
CloseFetchCurrent ==
  /\ pc = "dumping"
  /\ pc' = "processing"
  /\ fetch_votes' = [fetch_votes EXCEPT ![consensus.height] = Json(None)]
  /\ UNCHANGED <<memory, polled>>

CloseFetchOldPath ==
  /\ pc = "dumping"
  /\ pc' = "processing"
  /\ fetch_votes' = [fetch_votes EXCEPT ![current.height] = Json(consensus)]
  /\ UNCHANGED <<memory, polled>>

(* json.dump and the close of the file.                                    *)
CloseFetch ==
  /\ pc = "dumping"
  /\ pc' = "processing"
  /\ fetch_votes' = [fetch_votes EXCEPT ![consensus.height] = Json(consensus)]
  /\ UNCHANGED <<memory, polled>>

(* The dictionaries _prevotes_hex and _precommits_hex, and their get with  *)
(* 'nil-Vote' as the default.                                              *)
Key(e) == IF e = NilVote THEN NilVote ELSE e.validator
Text(e) == IF e = NilVote THEN NilVote ELSE e.block

Get(entries, k) ==
  IF \E e \in Range(entries) : Key(e) = k
  THEN Text(CHOOSE e \in Range(entries) : Key(e) = k)
  ELSE NilVote

(* The rest of the iteration.  The key of every lookup is cut from hex,    *)
(* which the loops before have left at the last entry of 'prevotes'.       *)
Process ==
  /\ pc = "processing"
  /\ consensus \notin Unreadable
  /\ pc' = "polling"
  /\ current' = ReadOf(consensus)
  /\ LET hex == Key(Last(consensus.prevotes))
     IN  votes' = [ v \in validators |->
                      [ prevote   |-> Get(consensus.prevotes, hex),
                        precommit |-> Get(consensus.precommits, hex) ] ]
  /\ UNCHANGED <<validators, consensus, fetch_votes, polled>>

(* IndexError, KeyError, ...: logged, with the new height kept next to the *)
(* votes read before, and the node is asked again.                         *)
ProcessRaises ==
  /\ pc = "processing"
  /\ consensus \in Unreadable
  /\ pc' = "polling"
  /\ current' = ReadOf(consensus)
  /\ UNCHANGED <<validators, consensus, votes, fetch_votes, polled>>

-------------------------------------------------------------------------------
(* Faults.                                                                 *)

(* An OSError on the way to the file: logged, and the node is asked again. *)
WriteFails ==
  /\ "disk" \in Faults
  /\ pc \in {"saving", "dumping"}
  /\ pc' = "polling"
  /\ UNCHANGED <<memory, fetch_votes, polled>>

(* SIGINT, or terminate() of the parent.                                   *)
Kill ==
  /\ "kill" \in Faults
  /\ pc \notin {"down", "exited"}
  /\ pc' = "down"
  /\ validators' = {}
  /\ consensus' = None
  /\ current' = NothingRead
  /\ votes' = << >>
  /\ UNCHANGED <<fetch_votes, polled>>

-------------------------------------------------------------------------------

PollStep == OpenFetch \/ CloseFetch \/ Process \/ ProcessRaises

Next ==
  \/ Launch
  \/ Start
  \/ PollFails
  \/ \E s \in Snapshots : Poll(s)
  \/ PollStep
  \/ WriteFails
  \/ Kill

Spec == Init /\ [][Next]_vars

(* An iteration that has its answer goes on.                               *)
FairSpec == Spec /\ WF_vars(PollStep)

-------------------------------------------------------------------------------
(* Properties.                                                             *)

VotesKept == UNION { [S -> [prevote : Block \cup {NilVote}, precommit : Block \cup {NilVote}]] :
                     S \in SUBSET Validator }

TypeOK ==
  /\ pc \in PC
  /\ validators \subseteq Validator
  /\ consensus \in Snapshots \cup {None}
  /\ current = NothingRead \/ current \in [height : Height, round : Round, step : 1 .. 8]
  /\ votes \in VotesKept
  /\ fetch_votes \in [Height -> File]
  /\ polled \subseteq Snapshots

(* A complete file holds one answer of the node, whole, and of the height  *)
(* of its directory.                                                       *)
FilesAreSnapshots ==
  \A h \in Height : fetch_votes[h].status = "json" =>
    /\ fetch_votes[h].snapshot \in polled
    /\ fetch_votes[h].snapshot.height = h

(* A file exists only for a height that README.md promises to save.        *)
OnlyPromisedHeightsPolled ==
  \A h \in Height :
    fetch_votes[h].status # "absent" => ~flags.no_save /\ Promised(flags, h)

(* When an iteration on an answer of a promised height reaches its end,    *)
(* that answer is what the file of its height holds, whatever an earlier   *)
(* run has left there: unlike ws_votes.json a torn file is replaced.       *)
PolledIsSaved ==
  [][ (pc = "processing" /\ pc' = "polling" /\ MustSave(flags, consensus.height)) =>
        fetch_votes'[consensus.height] = Json(consensus) ]_vars

(* The poller comes back to the node, "non-stop", unless it is killed:     *)
(* after an answer it cannot read and a file it cannot write, too.         *)
PollsForever == pc \in {"saving", "dumping", "processing"} ~> pc \in {"polling", "down"}

(* What is kept as a validator's votes, once an answer has been read, are  *)
(* its own votes of the round.                                             *)
KeptVotesAreOwn ==
  [][ (pc = "processing" /\ pc' = "polling" /\ consensus \notin Unreadable) =>
        \A v \in validators :
          votes'[v] = [ prevote   |-> Get(consensus.prevotes, v),
                        precommit |-> Get(consensus.precommits, v) ] ]_vars

(* What makes the safety properties inductive: an iteration under way      *)
(* works on an answer it has received, of a selected height until the file *)
(* is closed, and every file is of a selected height.                      *)
IterationConsistent ==
  /\ pc \in {"saving", "dumping", "processing"} => consensus \in polled
  /\ pc \in {"saving", "dumping"} => Selects(flags, consensus.height)
  /\ \A h \in Height : fetch_votes[h].status # "absent" => Selects(flags, h)

(***************************************************************************)
(* The files a reader of result/ relies on, in the sense of PollArchive.   *)
(* While a file is open for writing its answer is in memory.               *)
(***************************************************************************)
Contents(f) ==
  CASE f.status = "absent" -> [status |-> "empty"]
    [] f.status = "torn"   -> [status |-> "lost"]
    [] f.status = "json"   -> [status |-> "kept", snapshot |-> f.snapshot]

Files ==
  [ h \in Height |->
      IF pc = "dumping" /\ consensus.height = h
      THEN Contents(Json(consensus))
      ELSE Contents(fetch_votes[h]) ]

PromisedHeights == { h \in Height : ~flags.no_save /\ Promised(flags, h) }

Archive == INSTANCE PollArchive
             WITH Wanted <- PromisedHeights, answer <- consensus, file <- Files

(* The poller implements the archive: whatever is killed or fails, no file *)
(* ever goes back to an older answer than it had, no answer is written     *)
(* for another height or after a later one has come, and a file cut short  *)
(* is one of the answer in hand.                                           *)
ImplementsPollArchive == Archive!Spec
===============================================================================
