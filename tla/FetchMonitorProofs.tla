-------------------------- MODULE FetchMonitorProofs --------------------------
(***************************************************************************)
(* Proofs about FetchMonitor: type correctness, the safety of its files    *)
(* under kills, restarts and failing writes, and that every answer of a    *)
(* selected height that is worked on to the end has been saved.            *)
(***************************************************************************)
EXTENDS FetchMonitor, PolicyProofs, TLAPS

-------------------------------------------------------------------------------
(* Type correctness.                                                       *)

(* What is kept of the votes lists, for whatever key is looked up, is a    *)
(* block hash or "nil-Vote".                                               *)
LEMMA GetType ==
  ASSUME NEW entries \in Seq(Entry), NEW k
  PROVE  Get(entries, k) \in Block \cup {NilVote}
<1>1. Range(entries) \subseteq Entry
  BY DEF Range
<1>2. CASE \E e \in Range(entries) : Key(e) = k
  <2> DEFINE e == CHOOSE e \in Range(entries) : Key(e) = k
  <2>1. e \in Entry
    BY <1>1, <1>2
  <2>2. Text(e) \in Block \cup {NilVote}
    BY <2>1 DEF Text, Entry
  <2>3. QED
    BY <1>2, <2>2 DEF Get
<1>3. CASE ~ \E e \in Range(entries) : Key(e) = k
  BY <1>3 DEF Get
<1>4. QED
  BY <1>2, <1>3

LEMMA NoVotesType == << >> \in VotesKept
<1>1. << >> \in [{} -> [prevote : Block \cup {NilVote}, precommit : Block \cup {NilVote}]]
  OBVIOUS
<1>2. {} \in SUBSET Validator
  OBVIOUS
<1>3. QED
  BY <1>1, <1>2 DEF VotesKept

(* An iteration under way has the answer it works on.                      *)
InHand == pc \in {"saving", "dumping", "processing"} => consensus \in Snapshots

TypeInv == TypeOK /\ InHand

LEMMA TypeInit == Init => TypeInv
BY NoVotesType DEF Init, TypeInv, TypeOK, InHand, PC, File, Absent

LEMMA TypeStep == TypeInv /\ [Next]_vars => TypeInv'
<1> SUFFICES ASSUME TypeInv, [Next]_vars PROVE TypeInv'
  OBVIOUS
<1> USE DEF TypeInv, TypeOK, InHand, PC, memory
<1>1. CASE Launch
  BY <1>1 DEF Launch
<1>2. CASE Start
  <2>1. validators' \subseteq Validator
    BY <1>2, RefreshKeepsValidators DEF Start
  <2>2. QED
    BY <1>2, <2>1 DEF Start
<1>3. CASE PollFails
  BY <1>3 DEF PollFails
<1>4. ASSUME NEW s \in Snapshots, Poll(s) PROVE TypeInv'
  BY <1>4 DEF Poll
<1>5. CASE OpenFetch
  <2>1. Torn \in File
    BY DEF File, Torn
  <2>2. QED
    BY <1>5, <2>1 DEF OpenFetch
<1>6. CASE CloseFetch
  <2>1. Json(consensus) \in File
    BY <1>6 DEF CloseFetch, File, Json
  <2>2. QED
    BY <1>6, <2>1 DEF CloseFetch
<1>7. CASE Process
  <2>1. consensus \in Snapshot
    BY <1>7, SnapshotAssumption DEF Process
  <2>2. current' \in [height : Height, round : Round, step : 1 .. 8]
    BY <1>7, <2>1 DEF Process, ReadOf, Snapshot
  <2>3. consensus.prevotes \in Seq(Entry) /\ consensus.precommits \in Seq(Entry)
    BY <2>1 DEF Snapshot
  <2>4. votes' \in [validators -> [prevote : Block \cup {NilVote},
                                  precommit : Block \cup {NilVote}]]
    BY <1>7, <2>3, GetType DEF Process
  <2>5. votes' \in VotesKept
    BY <2>4 DEF VotesKept
  <2>6. QED
    BY <1>7, <2>2, <2>5 DEF Process
<1>8. CASE ProcessRaises
  <2>1. current' \in [height : Height, round : Round, step : 1 .. 8]
    BY <1>8, SnapshotAssumption DEF ProcessRaises, ReadOf, Snapshot
  <2>2. QED
    BY <1>8, <2>1 DEF ProcessRaises
<1>9. CASE WriteFails
  BY <1>9 DEF WriteFails
<1>10. CASE Kill
  BY <1>10, NoVotesType DEF Kill
<1>11. CASE UNCHANGED vars
  BY <1>11 DEF vars
<1>12. QED
  BY <1>1, <1>2, <1>3, <1>4, <1>5, <1>6, <1>7, <1>8, <1>9, <1>10, <1>11 DEF Next, PollStep

(* Every variable keeps its type; no iteration reads on without an answer. *)
THEOREM PollerTypeCorrect == Spec => []TypeOK
<1>1. Spec => []TypeInv
  BY TypeInit, TypeStep, PTL DEF Spec
<1>2. TypeInv => TypeOK
  BY DEF TypeInv
<1>3. QED
  BY <1>1, <1>2, PTL

-------------------------------------------------------------------------------
(* The files.                                                              *)

(* The answer worked on, once past the file, is in the file.               *)
SavedBeforeProcessed ==
  pc = "processing" /\ Selects(flags, consensus.height) =>
    fetch_votes[consensus.height] = Json(consensus)

FilesInv ==
  /\ IterationConsistent
  /\ FilesAreSnapshots
  /\ SavedBeforeProcessed

LEMMA FilesInit == Init => FilesInv
<1> SUFFICES ASSUME Init PROVE FilesInv
  OBVIOUS
<1>1. \A h \in Height : fetch_votes[h].status = "absent"
  BY DEF Init, Absent
<1>2. QED
  BY <1>1 DEF Init, FilesInv, IterationConsistent, FilesAreSnapshots, SavedBeforeProcessed

(* A step that leaves the files alone and does not start an iteration      *)
(* disturbs nothing.                                                       *)
LEMMA FilesFrame ==
  ASSUME FilesInv, UNCHANGED <<fetch_votes, polled>>,
         pc' \notin {"saving", "dumping", "processing"}
  PROVE  FilesInv'
BY DEF FilesInv, IterationConsistent, FilesAreSnapshots, SavedBeforeProcessed

LEMMA FilesStep == TypeInv /\ FilesInv /\ [Next]_vars => FilesInv'
<1> SUFFICES ASSUME TypeInv, FilesInv, [Next]_vars PROVE FilesInv'
  OBVIOUS
<1> USE DEF memory
<1>1. CASE Launch \/ Start \/ PollFails \/ Process \/ ProcessRaises \/ WriteFails \/ Kill
  BY <1>1, FilesFrame DEF Launch, Start, PollFails, Process, ProcessRaises, WriteFails, Kill
<1>2. ASSUME NEW s \in Snapshots, Poll(s) PROVE FilesInv'
  BY <1>2 DEF Poll, FilesInv, IterationConsistent, FilesAreSnapshots, SavedBeforeProcessed
<1>3. CASE OpenFetch
  <2>1. /\ pc = "saving" /\ pc' = "dumping"
        /\ UNCHANGED <<consensus, polled>>
    BY <1>3 DEF OpenFetch
  <2>2. \A h \in Height :
          fetch_votes'[h] = IF h = consensus.height THEN Torn ELSE fetch_votes[h]
    BY <1>3 DEF OpenFetch, TypeInv, TypeOK
  <2>3. consensus \in polled /\ Selects(flags, consensus.height)
    BY <2>1 DEF FilesInv, IterationConsistent
  <2>4. IterationConsistent'
    BY <2>1, <2>2, <2>3 DEF FilesInv, IterationConsistent
  <2>5. FilesAreSnapshots'
    BY <2>1, <2>2 DEF FilesInv, FilesAreSnapshots, Torn
  <2>6. SavedBeforeProcessed'
    BY <2>1 DEF SavedBeforeProcessed
  <2>7. QED
    BY <2>4, <2>5, <2>6 DEF FilesInv
<1>4. CASE CloseFetch
  <2>1. /\ pc = "dumping" /\ pc' = "processing"
        /\ UNCHANGED <<consensus, polled>>
    BY <1>4 DEF CloseFetch
  <2>2. \A h \in Height :
          fetch_votes'[h] = IF h = consensus.height THEN Json(consensus) ELSE fetch_votes[h]
    BY <1>4 DEF CloseFetch, TypeInv, TypeOK
  <2>3. consensus \in polled /\ Selects(flags, consensus.height)
    BY <2>1 DEF FilesInv, IterationConsistent
  <2>4. consensus.height \in Height
    BY <2>1, SnapshotAssumption DEF TypeInv, InHand, Snapshot
  <2>5. IterationConsistent'
    BY <2>1, <2>2, <2>3 DEF FilesInv, IterationConsistent
  <2>6. FilesAreSnapshots'
    BY <2>1, <2>2, <2>3 DEF FilesInv, FilesAreSnapshots, Json
  <2>7. SavedBeforeProcessed'
    BY <2>1, <2>2, <2>4 DEF SavedBeforeProcessed, Json
  <2>8. QED
    BY <2>5, <2>6, <2>7 DEF FilesInv
<1>5. CASE UNCHANGED vars
  <2>1. UNCHANGED <<pc, consensus, fetch_votes, polled>>
    BY <1>5 DEF vars
  <2>2. QED
    BY <2>1 DEF FilesInv, IterationConsistent, FilesAreSnapshots, SavedBeforeProcessed, Json
<1>6. QED
  BY <1>1, <1>2, <1>3, <1>4, <1>5 DEF Next, PollStep

Inv == TypeInv /\ FilesInv

LEMMA InvInvariant == Spec => []Inv
<1>1. Init => Inv
  BY TypeInit, FilesInit DEF Inv
<1>2. Inv /\ [Next]_vars => Inv'
  BY TypeStep, FilesStep DEF Inv
<1>3. QED
  BY <1>1, <1>2, PTL DEF Spec

(* An iteration works on an answer it has received, of a selected height   *)
(* until its file is closed.                                               *)
THEOREM IterationsStayConsistent == Spec => []IterationConsistent
<1>1. Inv => IterationConsistent
  BY DEF Inv, FilesInv
<1>2. QED
  BY <1>1, InvInvariant, PTL

(* A complete fetch_votes.json is one answer of the node, of its height.   *)
THEOREM FetchedFilesSafe == Spec => []FilesAreSnapshots
<1>1. Inv => FilesAreSnapshots
  BY DEF Inv, FilesInv
<1>2. QED
  BY <1>1, InvInvariant, PTL

(* The poller writes nothing for a height the command line does not        *)
(* promise.                                                                *)
THEOREM PolledHeightsPromised == Spec => []OnlyPromisedHeightsPolled
<1>1. Inv => OnlyPromisedHeightsPolled
  <2> SUFFICES ASSUME Inv, NEW h \in Height, fetch_votes[h].status # "absent"
               PROVE  ~flags.no_save /\ Promised(flags, h)
    BY DEF OnlyPromisedHeightsPolled
  <2>1. Selects(flags, h)
    BY DEF Inv, FilesInv, IterationConsistent
  <2>2. QED
    BY <2>1, SelectedIsPromised, PollHeightAssumption, PollFlagsAssumption
<1>2. QED
  BY <1>1, InvInvariant, PTL

(* Whatever a file held before, torn text included, the end of an          *)
(* iteration on an answer of a promised height finds that answer in it.    *)
THEOREM EndedPollIsSaved == Spec => PolledIsSaved
<1>1. Inv /\ [Next]_vars =>
        ((pc = "processing" /\ pc' = "polling" /\ MustSave(flags, consensus.height)) =>
           fetch_votes'[consensus.height] = Json(consensus))
  <2> SUFFICES ASSUME Inv, [Next]_vars, pc = "processing", pc' = "polling",
                      MustSave(flags, consensus.height)
               PROVE  fetch_votes'[consensus.height] = Json(consensus)
    OBVIOUS
  <2>0. Selects(flags, consensus.height)
    <3>1. consensus.height \in Nat
      BY SnapshotAssumption, PollHeightAssumption DEF Inv, TypeInv, InHand, Snapshot
    <3> QED
      BY <3>1, SelectsWhatIsPromised, PollFlagsAssumption
  <2>1. fetch_votes[consensus.height] = Json(consensus)
    BY <2>0 DEF Inv, FilesInv, SavedBeforeProcessed
  <2>2. UNCHANGED fetch_votes
    BY DEF Next, PollStep, Launch, Start, PollFails, Poll, OpenFetch, CloseFetch,
           Process, ProcessRaises, WriteFails, Kill, vars
  <2>3. QED
    BY <2>1, <2>2
<1>2. QED
  BY <1>1, InvInvariant, PTL DEF Spec, PolledIsSaved

-------------------------------------------------------------------------------
(* The refinement of PollArchive.                                          *)

(* A file that is open for writing holds a prefix.                         *)
DumpsTorn == pc = "dumping" => fetch_votes[consensus.height] = Torn

ArchiveInv == Inv /\ DumpsTorn

LEMMA DumpsTornStep == Inv /\ DumpsTorn /\ [Next]_vars => DumpsTorn'
<1> SUFFICES ASSUME Inv, DumpsTorn, [Next]_vars PROVE DumpsTorn'
  OBVIOUS
<1>1. CASE OpenFetch
  <2>1. consensus.height \in Height
    BY <1>1, SnapshotAssumption DEF OpenFetch, Inv, TypeInv, InHand, Snapshot
  <2>2. fetch_votes \in [Height -> File]
    BY DEF Inv, TypeInv, TypeOK
  <2> QED
    BY <1>1, <2>1, <2>2 DEF OpenFetch, memory, DumpsTorn
<1>2. CASE UNCHANGED vars
  BY <1>2 DEF vars, memory, DumpsTorn
<1> QED
  BY <1>1, <1>2 DEF Next, PollStep, Launch, Start, PollFails, Poll, CloseFetch, Process,
         ProcessRaises, WriteFails, Kill, DumpsTorn

LEMMA ContentsOf ==
  /\ Contents(Absent) = Archive!Empty
  /\ Contents(Torn) = Archive!Lost
  /\ \A s : Contents(Json(s)) = Archive!Kept(s)
  BY DEF Contents, Absent, Torn, Json, Archive!Empty, Archive!Lost, Archive!Kept

(* Outside the dump the archive is what the files say, and a step that     *)
(* leaves them alone leaves the archive alone.                             *)
LEMMA FilesIdle ==
  ASSUME pc # "dumping"
  PROVE  Files = [h \in Height |-> Contents(fetch_votes[h])]
  BY DEF Files

LEMMA FilesKept ==
  ASSUME pc # "dumping", pc' # "dumping", UNCHANGED fetch_votes
  PROVE  UNCHANGED Files
  BY DEF Files

LEMMA FilesOpen ==
  ASSUME TypeInv, pc = "dumping"
  PROVE  /\ consensus \in Snapshots /\ consensus.height \in Height
         /\ DOMAIN Files = Height
         /\ \A h \in Height : Files[h] = IF h = consensus.height
                                         THEN Archive!Kept(consensus)
                                         ELSE Contents(fetch_votes[h])
<1>1. consensus \in Snapshots /\ consensus.height \in Height
  BY SnapshotAssumption DEF TypeInv, InHand, Snapshot
<1> QED
  BY <1>1, ContentsOf DEF Files

(* Opening the file is the moment at which the answer is saved.            *)
LEMMA OpenSaves ==
  ASSUME Inv, OpenFetch
  PROVE  Archive!Save
<1>1. /\ pc = "saving" /\ pc' = "dumping" /\ consensus' = consensus
      /\ fetch_votes' = [fetch_votes EXCEPT ![consensus.height] = Torn]
  BY DEF OpenFetch, memory
<1>2. consensus \in Snapshots /\ consensus.height \in Height
  BY <1>1, SnapshotAssumption DEF Inv, TypeInv, InHand, Snapshot
<1>3. consensus.height \in PromisedHeights
  <2>1. Selects(flags, consensus.height)
    BY <1>1 DEF Inv, FilesInv, IterationConsistent
  <2> QED
    BY <1>2, <2>1, SelectedIsPromised, PollHeightAssumption, PollFlagsAssumption
       DEF PromisedHeights
<1>4. \A h \in Height : h # consensus.height => fetch_votes'[h] = fetch_votes[h]
  BY <1>1 DEF Inv, TypeInv, TypeOK
<1>5. Files = [h \in Height |-> Contents(fetch_votes[h])]
  BY <1>1, FilesIdle
<1>6. Files' = [h \in Height |-> IF h = consensus.height THEN Contents(Json(consensus))
                                 ELSE Contents(fetch_votes'[h])]
  BY <1>1 DEF Files
<1>7. Files' = [Files EXCEPT ![consensus.height] = Archive!Kept(consensus)]
  BY <1>4, <1>5, <1>6, ContentsOf
<1> QED
  BY <1>1, <1>2, <1>3, <1>7 DEF Archive!Save

(* Closing it makes true what the archive says already.                    *)
LEMMA CloseStutters ==
  ASSUME Inv, CloseFetch
  PROVE  UNCHANGED <<consensus, Files>>
<1>1. /\ pc = "dumping" /\ pc' = "processing" /\ consensus' = consensus
      /\ fetch_votes' = [fetch_votes EXCEPT ![consensus.height] = Json(consensus)]
  BY DEF CloseFetch, memory
<1>2. \A h \in Height :
        fetch_votes'[h] = IF h = consensus.height THEN Json(consensus) ELSE fetch_votes[h]
  BY <1>1 DEF Inv, TypeInv, TypeOK
<1>3. Files = [h \in Height |-> IF h = consensus.height THEN Contents(Json(consensus))
                                ELSE Contents(fetch_votes[h])]
  BY <1>1 DEF Files
<1>4. Files' = [h \in Height |-> Contents(fetch_votes'[h])]
  BY <1>1 DEF Files
<1> QED
  BY <1>1, <1>2, <1>3, <1>4

(* A dump that is cut short loses the file.                                *)
LEMMA CutPollLoses ==
  ASSUME ArchiveInv, pc = "dumping", pc' # "dumping", UNCHANGED fetch_votes,
         consensus' \in {consensus, None}
  PROVE  Archive!Lose
<1>1. /\ consensus \in Snapshots /\ consensus.height \in Height
      /\ DOMAIN Files = Height
      /\ \A h \in Height : Files[h] = IF h = consensus.height
                                      THEN Archive!Kept(consensus)
                                      ELSE Contents(fetch_votes[h])
  BY FilesOpen DEF ArchiveInv, Inv
<1>2. fetch_votes[consensus.height] = Torn
  BY DEF ArchiveInv, DumpsTorn
<1>3. Files' = [h \in Height |-> Contents(fetch_votes[h])]
  BY DEF Files
<1>4. Files' = [Files EXCEPT ![consensus.height] = Archive!Lost]
  <2>1. \A h \in Height : Files'[h] = IF h = consensus.height THEN Archive!Lost ELSE Files[h]
    BY <1>1, <1>2, <1>3, ContentsOf
  <2>2. Files = [h \in Height |-> Files[h]]
    BY DEF Files
  <2> QED
    BY <1>1, <1>3, <2>1, <2>2
<1> QED
  BY <1>1, <1>4 DEF Archive!Lose

LEMMA PollArchiveStep == ArchiveInv /\ [Next]_vars => [Archive!Next]_Archive!vars
<1> SUFFICES ASSUME ArchiveInv, [Next]_vars PROVE [Archive!Next]_Archive!vars
  OBVIOUS
<1> USE DEF memory, Archive!vars
<1>1. CASE Launch \/ Start \/ Process \/ ProcessRaises
  BY <1>1, FilesKept DEF Launch, Start, Process, ProcessRaises
<1>2. CASE PollFails
  BY <1>2, FilesKept DEF PollFails, Archive!Next, Archive!GiveUp
<1>3. ASSUME NEW s \in Snapshots, Poll(s) PROVE Archive!Next
  BY <1>3, FilesKept DEF Poll, Archive!Next, Archive!Receive
<1>4. CASE OpenFetch
  BY <1>4, OpenSaves DEF ArchiveInv, Archive!Next
<1>5. CASE CloseFetch
  BY <1>5, CloseStutters DEF ArchiveInv
<1>6. CASE WriteFails
  <2>1. CASE pc = "dumping"
    BY <1>6, <2>1, CutPollLoses DEF WriteFails, Archive!Next
  <2>2. CASE pc # "dumping"
    BY <1>6, <2>2, FilesKept DEF WriteFails
  <2> QED
    BY <2>1, <2>2
<1>7. CASE Kill
  <2>1. CASE pc = "dumping"
    BY <1>7, <2>1, CutPollLoses DEF Kill, Archive!Next
  <2>2. CASE pc # "dumping"
    BY <1>7, <2>2, FilesKept DEF Kill, Archive!Next, Archive!GiveUp
  <2> QED
    BY <2>1, <2>2
<1>8. CASE UNCHANGED vars
  BY <1>8 DEF vars, Files
<1> QED
  BY <1>1, <1>2, <1>3, <1>4, <1>5, <1>6, <1>7, <1>8 DEF Next, PollStep

(* The poller implements PollArchive: over all kills, restarts and failing *)
(* writes a file only goes from an older answer to the newest one, and is  *)
(* lost only while the answer it is lost with is the newest.               *)
THEOREM PollerImplementsArchive == Spec => ImplementsPollArchive
<1>1. Init => DumpsTorn /\ Archive!Init
  <2> SUFFICES ASSUME Init PROVE DumpsTorn /\ Archive!Init
    OBVIOUS
  <2>1. pc = "down" /\ consensus = None /\ fetch_votes = [h \in Height |-> Absent]
    BY DEF Init
  <2>2. Files = [h \in Height |-> Archive!Empty]
    BY <2>1, ContentsOf DEF Files
  <2> QED
    BY <2>1, <2>2 DEF DumpsTorn, Archive!Init
<1>2. Inv /\ DumpsTorn <=> ArchiveInv
  BY DEF ArchiveInv
<1> QED
  BY <1>1, <1>2, InvInvariant, DumpsTornStep, PollArchiveStep, PTL
     DEF Spec, ImplementsPollArchive, Archive!Spec

===============================================================================
